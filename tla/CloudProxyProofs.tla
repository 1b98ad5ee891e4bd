-------------------------- MODULE CloudProxyProofs --------------------------
(* Proofs about CloudProxy, for any number of answers, with and without      *)
(* faults: what the exit code says is true, and the program keeps the        *)
(* contract that gw_rebuild relies on.                                       *)
EXTENDS CloudProxy, TLAPS

USE DEF GW_UNPROCESSED, GW_REBUILT, GW_FAILED, GW_ERROR, NoCode, Signalled,
        ReturnOutcome, Contract!GW_UNPROCESSED, Contract!GW_REBUILT,
        Contract!GW_FAILED, Contract!GW_ERROR, Contract!NoCode, Contract!Signalled

\* The service has stated the outcome o in an answer; GW_ERROR needs none.
Stated(o) ==
  /\ o = GW_UNPROCESSED => "unmodified" \in claimed
  /\ o = GW_REBUILT => "replace" \in claimed
  /\ o = GW_FAILED => "failed" \in claimed

\* From the broker to the exit code every outcome was stated.
ClaimsInv ==
  /\ claimed # {} => answered > 0
  /\ \A i \in 1 .. Len(answers) : answers[i].file_outcome \in claimed
  /\ \A i \in 1 .. Len(_respQueue) : Stated(_respQueue[i])
  /\ Stated(outcome)

\* What RunAsync has done to the files when it gets to a place, and what it is
\* going to return from there.
BeforeTake == {"main", "copyin", "connect", "declare", "consume", "publish", "take"}

PlaceInv ==
  /\ pc # "done" => code = NoCode
  /\ pc = "done" => code \in {outcome, GW_ERROR, Signalled}
  /\ pc \in BeforeTake => outcome = GW_ERROR /\ output = "empty"
  /\ pc = "copyout" => outcome = GW_REBUILT /\ output = "empty"
  /\ pc \in {"clear_original", "clear_rebuilt"} =>
       /\ outcome = GW_REBUILT => output = "rebuilt"
       /\ outcome \in {GW_UNPROCESSED, GW_FAILED} => output = "empty"
  /\ pc \in {"main", "clear_rebuilt"} => original = "absent"
  /\ StoresCleared

IInv == TypeOK /\ ClaimsInv /\ PlaceInv

-----------------------------------------------------------------------------
\* The program starts in a state of the invariant.
LEMMA InvInit == Init => IInv
<1> SUFFICES ASSUME Init PROVE IInv
  OBVIOUS
<1>1. TypeOK
  <2>1. _respQueue \in Seq(ReturnOutcome) /\ answers \in Seq(Headers)
    BY DEF Init
  <2>2. answered \in 0 .. Answers
    BY ConstantsAssumption DEF Init
  <2> QED
    BY <2>1, <2>2 DEF Init, TypeOK
<1>2. ClaimsInv
  BY DEF Init, ClaimsInv, Stated
<1>3. PlaceInv
  BY DEF Init, PlaceInv, BeforeTake, StoresCleared
<1> QED
  BY <1>1, <1>2, <1>3 DEF IInv

\* Every step keeps the types.
LEMMA TypeStep == TypeOK /\ [Next]_vars => TypeOK'
<1> SUFFICES ASSUME TypeOK, [Next]_vars PROVE TypeOK'
  OBVIOUS
<1> USE ConstantsAssumption DEF TypeOK, program, broker, files
<1>1. CASE Configure
  BY <1>1 DEF Configure, Goes
<1>2. CASE ConfigureFails
  BY <1>2 DEF ConfigureFails, Exits
<1>3. CASE CopyIn
  BY <1>3 DEF CopyIn, Goes
<1>4. CASE CopyInFails
  BY <1>4 DEF CopyInFails, Fails
<1>5. CASE Connect
  BY <1>5 DEF Connect, Goes
<1>6. CASE Declare
  BY <1>6 DEF Declare, Goes
<1>7. CASE Consume
  BY <1>7 DEF Consume, Goes
<1>8. CASE Publish
  BY <1>8 DEF Publish, Goes
<1>9. CASE BrokerFails
  BY <1>9 DEF BrokerFails, Fails
<1>10. CASE Take
  <2>1. Head(_respQueue) \in ReturnOutcome /\ Tail(_respQueue) \in Seq(ReturnOutcome)
    BY <1>10 DEF Take
  <2> QED
    BY <1>10, <2>1 DEF Take
<1>11. CASE Cancelled
  BY <1>11 DEF Cancelled, Fails
<1>12. CASE CopyOut
  BY <1>12 DEF CopyOut, Goes
<1>13. CASE CopyOutFails
  BY <1>13 DEF CopyOutFails, Fails
<1>14. CASE ClearOriginal
  BY <1>14 DEF ClearOriginal, Goes
<1>15. CASE ClearRebuilt
  BY <1>15 DEF ClearRebuilt
<1>16. CASE ClearFails
  BY <1>16 DEF ClearFails
<1>17. CASE Killed
  BY <1>17 DEF Killed, Exits
<1>18. CASE Expire
  BY <1>18 DEF Expire
<1>19. CASE Received
  <2>1. \A h \in Headers : Process(h) \in ReturnOutcome
    BY DEF Process, OutcomeMap
  <2>2. Head(answers) \in Headers /\ Tail(answers) \in Seq(Headers)
    BY <1>19 DEF Received
  <2> QED
    BY <1>19, <2>1, <2>2 DEF Received
<1>20. CASE ServiceTakes
  BY <1>20 DEF ServiceTakes
<1>21. CASE ServiceWrites
  BY <1>21 DEF ServiceWrites
<1>22. CASE ServiceAnswers
  <2>1. PICK h \in Headers : answers' = Append(answers, h) /\ claimed' = claimed \cup {h.file_outcome}
    BY <1>22 DEF ServiceAnswers
  <2>2. h.file_outcome \in FileOutcomes \cup {"none"}
    BY DEF Headers, NoHeaders
  <2> QED
    BY <1>22, <2>1, <2>2 DEF ServiceAnswers
<1>23. CASE UNCHANGED vars
  BY <1>23 DEF vars
<1> QED
  BY <1>1, <1>2, <1>3, <1>4, <1>5, <1>6, <1>7, <1>8, <1>9, <1>10, <1>11, <1>12, <1>13, <1>14, <1>15, <1>16, <1>17, <1>18, <1>19, <1>20, <1>21, <1>22, <1>23 DEF Next, RunAsync

\* No step makes an outcome up.
LEMMA ClaimsStep == TypeOK /\ ClaimsInv /\ [Next]_vars => ClaimsInv'
<1> SUFFICES ASSUME TypeOK, ClaimsInv, [Next]_vars PROVE ClaimsInv'
  OBVIOUS
<1> USE ConstantsAssumption DEF TypeOK, ClaimsInv, Stated, program, broker, files
<1>1. CASE Configure
  BY <1>1 DEF Configure, Goes
<1>2. CASE ConfigureFails
  BY <1>2 DEF ConfigureFails, Exits
<1>3. CASE CopyIn
  BY <1>3 DEF CopyIn, Goes
<1>4. CASE CopyInFails
  BY <1>4 DEF CopyInFails, Fails
<1>5. CASE Connect
  BY <1>5 DEF Connect, Goes
<1>6. CASE Declare
  BY <1>6 DEF Declare, Goes
<1>7. CASE Consume
  BY <1>7 DEF Consume, Goes
<1>8. CASE Publish
  BY <1>8 DEF Publish, Goes
<1>9. CASE BrokerFails
  BY <1>9 DEF BrokerFails, Fails
<1>10. CASE Take
  BY <1>10 DEF Take
<1>11. CASE Cancelled
  BY <1>11 DEF Cancelled, Fails
<1>12. CASE CopyOut
  BY <1>12 DEF CopyOut, Goes
<1>13. CASE CopyOutFails
  BY <1>13 DEF CopyOutFails, Fails
<1>14. CASE ClearOriginal
  BY <1>14 DEF ClearOriginal, Goes
<1>15. CASE ClearRebuilt
  BY <1>15 DEF ClearRebuilt
<1>16. CASE ClearFails
  BY <1>16 DEF ClearFails
<1>17. CASE Killed
  BY <1>17 DEF Killed, Exits
<1>18. CASE Expire
  BY <1>18 DEF Expire
<1>19. CASE Received
  <2>1. PICK r \in {Process(Head(answers)), GW_ERROR} : _respQueue' = Append(_respQueue, r)
    BY <1>19 DEF Received
  <2>2. Head(answers).file_outcome \in claimed
    BY <1>19 DEF Received
  <2>3. Stated(r)
    BY <2>2 DEF Process, OutcomeMap
  <2> QED
    BY <1>19, <2>1, <2>3 DEF Received
<1>20. CASE ServiceTakes
  BY <1>20 DEF ServiceTakes
<1>21. CASE ServiceWrites
  BY <1>21 DEF ServiceWrites
<1>22. CASE ServiceAnswers
  BY <1>22 DEF ServiceAnswers
<1>23. CASE UNCHANGED vars
  BY <1>23 DEF vars
<1> QED
  BY <1>1, <1>2, <1>3, <1>4, <1>5, <1>6, <1>7, <1>8, <1>9, <1>10, <1>11, <1>12, <1>13, <1>14, <1>15, <1>16, <1>17, <1>18, <1>19, <1>20, <1>21, <1>22, <1>23 DEF Next, RunAsync

\* Every step leaves the files as the place it goes to expects them.
LEMMA PlaceStep == TypeOK /\ ClaimsInv /\ PlaceInv /\ [Next]_vars => PlaceInv'
<1> SUFFICES ASSUME TypeOK, ClaimsInv, PlaceInv, [Next]_vars PROVE PlaceInv'
  OBVIOUS
<1> USE ConstantsAssumption DEF TypeOK, ClaimsInv, PlaceInv, StoresCleared, Stated, BeforeTake, program, broker, files
<1>1. CASE Configure
  BY <1>1 DEF Configure, Goes
<1>2. CASE ConfigureFails
  BY <1>2 DEF ConfigureFails, Exits
<1>3. CASE CopyIn
  BY <1>3 DEF CopyIn, Goes
<1>4. CASE CopyInFails
  BY <1>4 DEF CopyInFails, Fails
<1>5. CASE Connect
  BY <1>5 DEF Connect, Goes
<1>6. CASE Declare
  BY <1>6 DEF Declare, Goes
<1>7. CASE Consume
  BY <1>7 DEF Consume, Goes
<1>8. CASE Publish
  BY <1>8 DEF Publish, Goes
<1>9. CASE BrokerFails
  BY <1>9 DEF BrokerFails, Fails
<1>10. CASE Take
  BY <1>10 DEF Take
<1>11. CASE Cancelled
  BY <1>11 DEF Cancelled, Fails
<1>12. CASE CopyOut
  BY <1>12 DEF CopyOut, Goes
<1>13. CASE CopyOutFails
  BY <1>13 DEF CopyOutFails, Fails
<1>14. CASE ClearOriginal
  BY <1>14 DEF ClearOriginal, Goes
<1>15. CASE ClearRebuilt
  BY <1>15 DEF ClearRebuilt
<1>16. CASE ClearFails
  BY <1>16 DEF ClearFails
<1>17. CASE Killed
  BY <1>17 DEF Killed, Exits
<1>18. CASE Expire
  BY <1>18 DEF Expire
<1>19. CASE Received
  BY <1>19 DEF Received
<1>20. CASE ServiceTakes
  BY <1>20 DEF ServiceTakes
<1>21. CASE ServiceWrites
  BY <1>21 DEF ServiceWrites
<1>22. CASE ServiceAnswers
  BY <1>22 DEF ServiceAnswers
<1>23. CASE UNCHANGED vars
  BY <1>23 DEF vars
<1> QED
  BY <1>1, <1>2, <1>3, <1>4, <1>5, <1>6, <1>7, <1>8, <1>9, <1>10, <1>11, <1>12, <1>13, <1>14, <1>15, <1>16, <1>17, <1>18, <1>19, <1>20, <1>21, <1>22, <1>23 DEF Next, RunAsync

\* The inductive invariant.
LEMMA InvAlways == Spec => []IInv
<1>1. IInv /\ [Next]_vars => IInv'
  BY TypeStep, ClaimsStep, PlaceStep DEF IInv
<1> QED
  BY InvInit, <1>1, PTL DEF Spec

(* The exit code is true (ExitTrue): an outcome other than GW_ERROR was stated *)
(* by the service, and the stores are cleared on every path of RunAsync on     *)
(* which File.Delete does not throw, however many answers come, late, twice or *)
(* unreadable, and whatever fails.                                             *)
THEOREM ExitAlways == Spec => []ExitTrue
<1>1. IInv => ExitTrue
  BY DEF IInv, TypeOK, ClaimsInv, PlaceInv, Stated, ExitTrue, OutcomeStated
<1> QED
  BY <1>1, InvAlways, PTL

-----------------------------------------------------------------------------
\* Each step writes the output, exits as the contract allows, or neither.
LEMMA ContractStep == IInv /\ [Next]_vars => [Contract!Next]_(Contract!vars)
<1> SUFFICES ASSUME IInv, [Next]_vars PROVE [Contract!Next]_(Contract!vars)
  OBVIOUS
<1> USE DEF IInv, TypeOK, PlaceInv, BeforeTake, program, broker, files,
            Contract!Next, Contract!vars, Contract!Write, Contract!Exit, Contract!Outputs
<1>1. CASE Configure
  BY <1>1 DEF Configure, Goes
<1>2. CASE ConfigureFails
  BY <1>2 DEF ConfigureFails, Exits
<1>3. CASE CopyIn
  BY <1>3 DEF CopyIn, Goes
<1>4. CASE CopyInFails
  BY <1>4 DEF CopyInFails, Fails
<1>5. CASE Connect
  BY <1>5 DEF Connect, Goes
<1>6. CASE Declare
  BY <1>6 DEF Declare, Goes
<1>7. CASE Consume
  BY <1>7 DEF Consume, Goes
<1>8. CASE Publish
  BY <1>8 DEF Publish, Goes
<1>9. CASE BrokerFails
  BY <1>9 DEF BrokerFails, Fails
<1>10. CASE Take
  BY <1>10 DEF Take
<1>11. CASE Cancelled
  BY <1>11 DEF Cancelled, Fails
<1>12. CASE CopyOut
  BY <1>12 DEF CopyOut, Goes
<1>13. CASE CopyOutFails
  BY <1>13 DEF CopyOutFails, Fails
<1>14. CASE ClearOriginal
  BY <1>14 DEF ClearOriginal, Goes
<1>15. CASE ClearRebuilt
  BY <1>15 DEF ClearRebuilt
<1>16. CASE ClearFails
  BY <1>16 DEF ClearFails
<1>17. CASE Killed
  BY <1>17 DEF Killed, Exits
<1>18. CASE Expire
  BY <1>18 DEF Expire
<1>19. CASE Received
  BY <1>19 DEF Received
<1>20. CASE ServiceTakes
  BY <1>20 DEF ServiceTakes
<1>21. CASE ServiceWrites
  BY <1>21 DEF ServiceWrites
<1>22. CASE ServiceAnswers
  BY <1>22 DEF ServiceAnswers
<1>23. CASE UNCHANGED vars
  BY <1>23 DEF vars
<1> QED
  BY <1>1, <1>2, <1>3, <1>4, <1>5, <1>6, <1>7, <1>8, <1>9, <1>10, <1>11, <1>12, <1>13, <1>14, <1>15, <1>16, <1>17, <1>18, <1>19, <1>20, <1>21, <1>22, <1>23 DEF Next, RunAsync

(* cloud-proxy-app implements the contract gw_rebuild relies on               *)
(* (KeepsContract): the exit code GW_REBUILT only with a complete output, and *)
(* an untouched output with GW_UNPROCESSED and GW_FAILED.                     *)
THEOREM ContractKept == Spec => KeepsContract
<1>1. Init => Contract!Init
  BY DEF Init, Contract!Init
<1> QED
  BY <1>1, ContractStep, InvAlways, PTL DEF Spec, KeepsContract, Contract!Spec
=============================================================================
