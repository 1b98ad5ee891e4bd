----------------------------- MODULE CloudProxy -----------------------------
(* One run of cloud-proxy-app: RunAsync puts the input file into a store,    *)
(* asks an adaptation service over RabbitMQ to rebuild it, waits for the     *)
(* answer or for its timeout, copies the rebuilt file to the output and      *)
(* clears the stores. Main, the RabbitMQ callback thread, the timer, the     *)
(* broker and the service take steps of their own.                           *)
EXTENDS Integers, Sequences

CONSTANTS
  Answers,     \* how many answers the service sends at most
  Faults       \* may an operation on a file or on the broker throw?

ASSUME ConstantsAssumption == Answers \in Nat /\ Faults \in BOOLEAN

GW_UNPROCESSED == 0
GW_REBUILT == 1
GW_FAILED == 2
GW_ERROR == 9

NoCode == -1
Signalled == -2

ReturnOutcome == {GW_UNPROCESSED, GW_REBUILT, GW_FAILED, GW_ERROR}

\* The headers of an answer, as far as Process tells them apart. "3" parses as
\* an AdaptationOutcome without a name; an answer may have no headers at all.
FileIds == {"guid", "garbled", "missing"}
FileOutcomes == {"replace", "unmodified", "failed", "3", "garbled", "missing"}
NoHeaders == [file_id |-> "missing", file_outcome |-> "none"]
Headers == [file_id : FileIds, file_outcome : FileOutcomes] \cup {NoHeaders}

VARIABLES
  pc,          \* where Main and RunAsync are
  outcome,     \* the value they are going to return
  code,        \* the exit code of the process
  expired,     \* _processingCancellationTokenSource has been cancelled
  _respQueue,  \* outcomes handed over by the callback
  consuming,   \* BasicConsume has been called
  request,     \* the request: "none", "queued" or "taken" by the service
  answers,     \* answers on their way to the callback
  answered,    \* how many the service has sent
  claimed,     \* the outcomes the service has stated in them
  original, rebuilt,  \* the two store files: "absent", "partial" or "complete"
  output,      \* the file of -o, see ProxyContract
  stuck        \* has a File.Delete thrown?

program == <<pc, outcome, code>>
broker == <<request, answers, answered, claimed>>
files == <<original, rebuilt, output, stuck>>
vars == <<program, expired, _respQueue, consuming, broker, files>>

TypeOK ==
  /\ pc \in {"main", "copyin", "connect", "declare", "consume", "publish",
             "take", "copyout", "clear_original", "clear_rebuilt", "done"}
  /\ outcome \in ReturnOutcome
  /\ code \in ReturnOutcome \cup {NoCode, Signalled}
  /\ expired \in BOOLEAN /\ consuming \in BOOLEAN /\ stuck \in BOOLEAN
  /\ _respQueue \in Seq(ReturnOutcome)
  /\ request \in {"none", "queued", "taken"}
  /\ answers \in Seq(Headers)
  /\ answered \in 0 .. Answers
  /\ claimed \subseteq FileOutcomes \cup {"none"}
  /\ {original, rebuilt} \subseteq {"absent", "partial", "complete"}
  /\ output \in {"empty", "partial", "rebuilt"}

Init ==
  /\ pc = "main" /\ outcome = GW_ERROR /\ code = NoCode
  /\ expired = FALSE /\ _respQueue = <<>> /\ consuming = FALSE
  /\ request = "none" /\ answers = <<>> /\ answered = 0 /\ claimed = {}
  /\ original = "absent" /\ rebuilt = "absent" /\ output = "empty"
  /\ stuck = FALSE

-----------------------------------------------------------------------------
\* Main and RunAsync.

Goes(from, to) ==
  /\ pc = from /\ pc' = to
  /\ UNCHANGED <<outcome, code, expired>>

Exits(c) ==
  /\ pc' = "done" /\ code' = c
  /\ UNCHANGED <<outcome, expired, _respQueue, consuming, broker, files>>

Fails_uncleared == pc' = "done" /\ outcome' = GW_ERROR /\ code' = GW_ERROR

Fails_keeps_outcome == pc' = "clear_original" /\ UNCHANGED <<outcome, code>>

\* catch: the stores are cleared and the outcome is GW_ERROR.
Fails == pc' = "clear_original" /\ outcome' = GW_ERROR /\ UNCHANGED code

\* The configuration and the objects; the timer starts to run. An exception is
\* caught in Main, which returns GW_ERROR.
Configure ==
  /\ Goes("main", "copyin")
  /\ UNCHANGED <<_respQueue, consuming, broker, files>>

ConfigureFails == Faults /\ pc = "main" /\ Exits(GW_ERROR)

CopyIn ==
  /\ Goes("copyin", "connect")
  /\ original' = "complete"
  /\ UNCHANGED <<rebuilt, output, stuck, _respQueue, consuming, broker>>

CopyInFails ==
  /\ Faults /\ pc = "copyin" /\ Fails
  /\ original' \in {"absent", "partial"}
  /\ UNCHANGED <<rebuilt, output, stuck, expired, _respQueue, consuming, broker>>

\* Connect, QueueDeclare, BasicConsume and BasicPublish, in this order: the
\* reply queue is consumed before the request is out.
Connect ==
  /\ Goes("connect", "declare")
  /\ UNCHANGED <<_respQueue, consuming, broker, files>>

Declare ==
  /\ Goes("declare", "consume")
  /\ UNCHANGED <<_respQueue, consuming, broker, files>>

Consume ==
  /\ Goes("consume", "publish")
  /\ consuming' = TRUE
  /\ UNCHANGED <<_respQueue, broker, files>>

Publish ==
  /\ Goes("publish", "take")
  /\ request' = "queued"
  /\ UNCHANGED <<_respQueue, consuming, answers, answered, claimed, files>>

BrokerFails ==
  /\ Faults /\ pc \in {"connect", "declare", "consume", "publish"} /\ Fails
  /\ UNCHANGED <<expired, _respQueue, consuming, broker, files>>

\* _respQueue.Take returns the first outcome, or throws when the token has been
\* cancelled; with both at hand either may happen.
Take ==
  /\ pc = "take" /\ _respQueue # <<>>
  /\ outcome' = Head(_respQueue)
  /\ _respQueue' = Tail(_respQueue)
  /\ pc' = IF outcome' = GW_REBUILT THEN "copyout" ELSE "clear_original"
  /\ UNCHANGED <<code, expired, consuming, broker, files>>

Cancelled_never == FALSE /\ UNCHANGED vars

Cancelled ==
  /\ pc = "take" /\ expired /\ Fails
  /\ UNCHANGED <<expired, _respQueue, consuming, broker, files>>

CopyOut ==
  /\ rebuilt = "complete"
  /\ Goes("copyout", "clear_original")
  /\ output' = "rebuilt"
  /\ UNCHANGED <<original, rebuilt, stuck, _respQueue, consuming, broker>>

\* The rebuilt file is not there, or the copy fails half-way.
CopyOutFails ==
  /\ pc = "copyout" /\ (Faults \/ rebuilt # "complete") /\ Fails
  /\ output' \in {output, "partial"}
  /\ UNCHANGED <<original, rebuilt, stuck, expired, _respQueue, consuming, broker>>

\* ClearStores: File.Delete does not mind a file that is not there.
ClearOriginal ==
  /\ Goes("clear_original", "clear_rebuilt")
  /\ original' = "absent"
  /\ UNCHANGED <<rebuilt, output, stuck, _respQueue, consuming, broker>>

ClearRebuilt ==
  /\ pc = "clear_rebuilt" /\ pc' = "done" /\ code' = outcome
  /\ rebuilt' = "absent"
  /\ UNCHANGED <<outcome, expired, original, output, stuck, _respQueue,
                 consuming, broker>>

\* An exception of one delete is logged and the rest is not deleted.
ClearFails ==
  /\ Faults /\ pc \in {"clear_original", "clear_rebuilt"}
  /\ pc' = "done" /\ code' = outcome /\ stuck' = TRUE
  /\ UNCHANGED <<outcome, expired, original, rebuilt, output, _respQueue,
                 consuming, broker>>

RunAsync ==
  \/ Configure \/ ConfigureFails \/ CopyIn \/ CopyInFails
  \/ Connect \/ Declare \/ Consume \/ Publish \/ BrokerFails
  \/ Take \/ Cancelled \/ CopyOut \/ CopyOutFails
  \/ ClearOriginal \/ ClearRebuilt \/ ClearFails

\* The process is killed from outside.
Killed == Faults /\ pc # "done" /\ Exits(Signalled)

\* The timer that the constructor has started.
Expire ==
  /\ pc \notin {"main", "done"} /\ ~expired
  /\ expired' = TRUE
  /\ UNCHANGED <<program, _respQueue, consuming, broker, files>>

-----------------------------------------------------------------------------
\* The callback thread.

OutcomeMap(s) ==
  IF s = "unmodified" THEN GW_UNPROCESSED
  ELSE IF s = "replace" THEN GW_REBUILT
  ELSE IF s = "failed" THEN GW_FAILED
  ELSE GW_ERROR

Process_without_headers(h) ==
  IF h = NoHeaders THEN NoCode
  ELSE IF h.file_id # "guid" THEN GW_ERROR ELSE OutcomeMap(h.file_outcome)

Process_lenient(h) ==
  IF h.file_outcome \in {"replace", "failed"} /\ h.file_id = "guid"
  THEN OutcomeMap(h.file_outcome) ELSE GW_UNPROCESSED

\* AdaptationOutcomeProcessor.Process, and the callback's catch for what it
\* throws. The file-id has to be a Guid; it is not compared with the request's.
Process(h) == IF h.file_id # "guid" THEN GW_ERROR ELSE OutcomeMap(h.file_outcome)

\* The acknowledgement of a message may throw as well: GW_ERROR is handed over.
Received ==
  /\ consuming /\ answers # <<>> /\ pc # "done"
  /\ answers' = Tail(answers)
  /\ \E r \in {Process(Head(answers))} \cup (IF Faults THEN {GW_ERROR} ELSE {}) :
       _respQueue' = Append(_respQueue, r)
  /\ UNCHANGED <<program, expired, consuming, request, answered, claimed, files>>

-----------------------------------------------------------------------------
\* The adaptation service. It writes the rebuilt file before it says so; it may
\* be slow, silent, wrong about the format, and answer more than once.

ServiceTakes ==
  /\ request = "queued" /\ request' = "taken"
  /\ UNCHANGED <<program, expired, _respQueue, consuming, answers, answered,
                 claimed, files>>

ServiceWrites ==
  /\ request = "taken" /\ answered = 0 /\ rebuilt # "complete"
  /\ rebuilt' = IF rebuilt = "absent" THEN "partial" ELSE "complete"
  /\ UNCHANGED <<program, expired, _respQueue, consuming, broker, original,
                 output, stuck>>

ServiceAnswers ==
  /\ request = "taken" /\ answered < Answers /\ rebuilt # "partial"
  /\ \E h \in Headers :
       /\ h.file_outcome = "replace" => rebuilt = "complete"
       /\ answers' = Append(answers, h)
       /\ claimed' = claimed \cup {h.file_outcome}
  /\ answered' = answered + 1
  /\ UNCHANGED <<program, expired, _respQueue, consuming, request, files>>

Next ==
  \/ RunAsync \/ Killed \/ Expire \/ Received
  \/ ServiceTakes \/ ServiceWrites \/ ServiceAnswers

Spec == Init /\ [][Next]_vars

\* The program runs and its timer fires; broker and service owe nothing.
FairSpec == Spec /\ WF_vars(RunAsync) /\ WF_vars(Expire)

-----------------------------------------------------------------------------
Contract ==
  INSTANCE ProxyContract WITH proc <- IF pc = "done" THEN "exited" ELSE "running"

(* cloud-proxy-app keeps the contract gw_rebuild relies on: the exit code    *)
(* GW_REBUILT is returned only when File.Copy has completed the output, and  *)
(* a failed copy or a late exception turns any outcome into GW_ERROR.        *)
KeepsContract == Contract!Spec

(* The exit codes GW_UNPROCESSED, GW_REBUILT and GW_FAILED are never made up: *)
(* the service has stated that outcome in an answer. Missing or unreadable   *)
(* headers, an unmapped outcome, a timeout and an exception all end in       *)
(* GW_ERROR.                                                                 *)
OutcomeStated ==
  /\ code = GW_UNPROCESSED => "unmodified" \in claimed
  /\ code = GW_REBUILT => "replace" \in claimed
  /\ code = GW_FAILED => "failed" \in claimed

(* When the process ends by itself and File.Delete has not thrown, the       *)
(* original is gone from its store, whatever path RunAsync took, and so is   *)
(* the rebuilt file when the service had answered.                           *)
StoresCleared ==
  pc = "done" /\ code # Signalled /\ ~stuck =>
    /\ original = "absent"
    /\ code # GW_ERROR => rebuilt = "absent"

(* What the process leaves behind when it exits: a code that the service has *)
(* stated, and stores without the files of this request; on the way there    *)
(* every variable has its type.                                              *)
ExitTrue == TypeOK /\ OutcomeStated /\ StoresCleared

(* The process always ends: a service that never answers, answers nonsense   *)
(* or answers late is cut off by the processing timeout.                     *)
ProxyEnds == <>(pc = "done")
=============================================================================
