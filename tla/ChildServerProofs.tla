------------------------- MODULE ChildServerProofs -------------------------
(***************************************************************************)
(* Proofs about ChildServer, for any number of workers, connections, ports *)
(* and rounds.                                                             *)
(***************************************************************************)
EXTENDS ChildServer, FiniteSetTheorems, SequenceTheorems, TLAPS

USE DEF NO_KILL, GRACEFULLY, IMMEDIATELY, KILL_MODE

\* TypeOK in two parts, for the two provers: the Boolean variables, and the
\* others with the counters unbounded (their bounds follow from CountersAgree).
Bools ==
  /\ idle \in BOOLEAN /\ sigterm \in BOOLEAN
  /\ CHILD_HALT \in BOOLEAN /\ listener_running \in BOOLEAN
  /\ wkeep \in [Workers -> BOOLEAN]

TypeInv ==
  /\ queue \in Seq(Conns) /\ Len(queue) <= THREADS_PER_CHILD
  /\ freeservers \in Int /\ usedservers \in Int
  /\ requests \in Nat /\ connections \in Nat
  /\ to_be_killed \in KILL_MODE /\ father_said \in KILL_MODE
  /\ accept_mutex \in {"free", "self", "other"}
  /\ wpc \in [Workers -> WorkerPCs]
  /\ wconn \in [Workers -> Conns \cup {NoConn}]
  /\ wreqs \in [Workers -> Nat]
  /\ lpc \in ListenerPCs /\ lports \in 0..NPorts
  /\ lconn \in Conns \cup {NoConn} /\ jobs_in_queue \in 0..THREADS_PER_CHILD
  /\ mpc \in MainPCs /\ tries \in 0..ListenerTries /\ rounds \in -1..WorkerRounds
  /\ joined \subseteq Workers
  /\ fresh \subseteq Conns /\ closed \subseteq Conns /\ leaked \subseteq Conns
  /\ Budgets
  /\ ConnInHand

\* The number of workers is a positive integer.
LEMMA ThreadsNat == THREADS_PER_CHILD \in Nat \ {0}
<1>1. IsFiniteSet(Workers) /\ Workers # {}
  BY ConstantsAssumption
<1>2. Cardinality(Workers) \in Nat
  BY <1>1, FS_CardinalityType
<1>3. Cardinality(Workers) # 0
  BY <1>1, FS_EmptySet
<1> QED
  BY <1>2, <1>3 DEF THREADS_PER_CHILD

\* A new child is well typed.
LEMMA TypeInit == Init => Bools /\ TypeInv
<1> SUFFICES ASSUME Init PROVE Bools /\ TypeInv
  OBVIOUS
<1> USE ThreadsNat, ConstantsAssumption
<1>1. Bools
  BY DEF Init, Bools
<1>2. queue \in Seq(Conns) /\ Len(queue) = 0
  BY DEF Init
<1>3. Budgets /\ ConnInHand
  BY DEF Init, Budgets, ConnInHand
<1>4. TypeInv
  BY <1>2, <1>3 DEF Init, TypeInv, WorkerPCs, ListenerPCs, MainPCs
<1> QED
  BY <1>1, <1>4

\* Where a signal takes the listener.
LEMMA WhenInterrupted ==
  ASSUME NEW pc
  PROVE  \/ Interrupted(pc) = pc
         \/ pc = "lock" /\ Interrupted(pc) = "top"
         \/ pc \in {"poll", "accept"} /\ Interrupted(pc) = "fails"
BY DEF Interrupted

\* What the signals of the main thread and of the monitor do to the listener.
LEMMA ListenerSignalled ==
  ASSUME MInterrupt \/ SigTerm
  PROVE  \/ lpc' = lpc
         \/ lpc \in {"startwait", "freewait", "lock"} /\ lpc' = "top"
         \/ lpc \in {"poll", "accept"} /\ lpc' = "fails"
BY WhenInterrupted DEF MInterrupt, SigTerm

\* Every step keeps the types, and the places where threads hold connections.
LEMMA TypeStep == TypeInv /\ [Next]_vars => TypeInv'
<1> SUFFICES ASSUME TypeInv, [Next]_vars PROVE TypeInv'
  OBVIOUS
<1> USE ThreadsNat, ConstantsAssumption
    DEF TypeInv, Budgets, ConnInHand, WorkerPCs, ListenerPCs, MainPCs,
        shared, flags, worker, listener, main, ends, lrest, budget, others, beyond
<1>1. ASSUME NEW w \in Workers, WTop(w) PROVE TypeInv'
  BY <1>1 DEF WTop, WGoto, WStep
<1>2. ASSUME NEW w \in Workers, get_from_queue(w) PROVE TypeInv'
  <2>1. CASE GetLast(w)
    BY <2>1 DEF WGoto, GetLast
  <2>2. CASE GetEmpty(w)
    BY <2>2 DEF WGoto, GetEmpty, WStep
  <2> QED
    BY <1>2, <2>1, <2>2 DEF get_from_queue
<1>3. ASSUME NEW w \in Workers, WEmpty(w) PROVE TypeInv'
  BY <1>3 DEF WEmpty, WGoto, WStep
<1>4. ASSUME NEW w \in Workers, wait_for_queue(w) PROVE TypeInv'
  BY <1>4 DEF wait_for_queue, WGoto, WStep
<1>5. ASSUME NEW w \in Workers, WSpurious(w) PROVE TypeInv'
  BY <1>5 DEF WSpurious, WGoto, WStep
<1>6. ASSUME NEW w \in Workers, WTake(w) PROVE TypeInv'
  BY <1>6 DEF WTake, WGoto
<1>7. ASSUME NEW w \in Workers, WOpen(w) PROVE TypeInv'
  <2>1. CASE WDenied(w)
    BY <2>1 DEF WGoto, WDenied, Closes
  <2>2. CASE WAdmitted(w)
    BY <2>2 DEF WGoto, WAdmitted
  <2> QED
    BY <1>7, <2>1, <2>2 DEF WOpen
<1>8. ASSUME NEW w \in Workers, WLoop(w) PROVE TypeInv'
  BY <1>8 DEF WLoop, WGoto
<1>9. ASSUME NEW w \in Workers, process_request(w) PROVE TypeInv'
  <2>1. CASE WNoStatus(w)
    BY <2>1 DEF WGoto, WNoStatus, Closes
  <2>2. CASE WServed(w)
    BY <2>2 DEF WGoto, WServed
  <2> QED
    BY <1>9, <2>1, <2>2 DEF process_request
<1>10. ASSUME NEW w \in Workers, WAfter(w) PROVE TypeInv'
  BY <1>10 DEF WAfter, WGoto
<1>11. ASSUME NEW w \in Workers, WClose(w) PROVE TypeInv'
  BY <1>11 DEF WClose, WGoto, Closes
<1>12. ASSUME NEW w \in Workers, WEnd(w) PROVE TypeInv'
  BY <1>12 DEF WEnd, WGoto
<1>13. ASSUME NEW w \in Workers, WSignal(w) PROVE TypeInv'
  BY <1>13 DEF WSignal, WGoto, SignalFree
<1>14. CASE LStart
  BY <1>14 DEF LStart, LGoto
<1>15. CASE LTop
  BY <1>15 DEF LTop, LGoto, LStep
<1>16. CASE LLock
  <2>1. CASE LLocks
    BY <2>1 DEF LGoto, LLocks
  <2>2. CASE LStep("lock", "failsunlocked")
    BY <2>2 DEF LGoto, LStep
  <2> HIDE DEF TypeInv
  <2> QED
    BY <1>16, <2>1, <2>2 DEF LLock
<1>17. CASE LPoll
  <2>1. CASE LReady
    BY <2>1 DEF LGoto, LReady
  <2>2. CASE LStep("poll", "fails")
    BY <2>2 DEF LGoto, LStep
  <2> HIDE DEF TypeInv
  <2> QED
    BY <1>17, <2>1, <2>2 DEF LPoll
<1>18. CASE LAccept
  <2>1. ASSUME NEW c \in fresh, LAccepted(c) PROVE TypeInv'
    BY <2>1 DEF LGoto, LAccepted
  <2>2. ASSUME NEW c \in fresh, LAborted(c) PROVE TypeInv'
    BY <2>2 DEF LGoto, LAborted, AfterPort
  <2>3. CASE LStep("accept", "fails")
    BY <2>3 DEF LGoto, LStep
  <2> QED
    BY <1>18, <2>1, <2>2, <2>3 DEF LAccept
<1>19. CASE put_to_queue
  <2>1. CASE PutFull
    BY <2>1 DEF LGoto, PutFull
  <2>2. CASE PutReturns(connections_pending + 1)
    BY <2>2 DEF LGoto, PutReturns, QueueFull, connections_pending
  <2> HIDE DEF TypeInv
  <2> QED
    BY <1>19, <2>1, <2>2 DEF put_to_queue
<1>20. CASE LSignal
  BY <1>20 DEF LSignal, LGoto, SignalQueue, AfterPort
<1>21. CASE LKilled
  BY <1>21 DEF LKilled, LGoto, LStep
<1>22. CASE LHasChild
  BY <1>22 DEF LHasChild, LGoto
<1>23. CASE LUnlock
  <2>1. CASE LUnlocks
    BY <2>1 DEF LGoto, LUnlocks
  <2>2. CASE LStep("unlock", "failsunlocked")
    BY <2>2 DEF LGoto, LStep
  <2> HIDE DEF TypeInv
  <2> QED
    BY <1>23, <2>1, <2>2 DEF LUnlock
<1>24. CASE LAwait
  BY <1>24 DEF LAwait, LGoto, LStep, connections_pending
<1>25. CASE LSpurious
  BY <1>25 DEF LSpurious, LGoto, LStep
<1>26. CASE LFails
  <2>1. CASE LStops("fails", "failsunlock")
    BY <2>1 DEF LGoto, LStops
  <2>2. CASE LLastUnlock
    BY <2>2 DEF LGoto, LLastUnlock
  <2>3. CASE LStops("failsunlocked", "done")
    BY <2>3 DEF LGoto, LStops
  <2> QED
    BY <1>26, <2>1, <2>2, <2>3 DEF LFails
<1>27. CASE MSignals
  BY <1>27 DEF MSignals, MGoto, MStep
<1>28. CASE MFather
  BY <1>28 DEF MFather, MGoto
<1>29. CASE MHandshake
  BY <1>29 DEF MHandshake, MGoto
<1>30. CASE MStart
  BY <1>30 DEF MStart, MGoto, SignalFree
<1>31. CASE MLoop
  <2>1. CASE MTurn
    <3>1. /\ mpc' \in {"cmd", "listener", "loop", "orphaned"}
          /\ UNCHANGED <<queue, shared, flags, worker, listener, budget, ends, accept_mutex>>
      BY <2>1 DEF MTurn, MStep, MGoto
    <3> QED
      BY <3>1
  <2>2. CASE MKills("orphaned", GRACEFULLY)
    BY <2>2 DEF MGoto, MKills
  <2> HIDE DEF TypeInv
  <2> QED
    BY <1>31, <2>1, <2>2 DEF MLoop
<1>32. CASE MPipeClosed
  BY <1>32 DEF MPipeClosed, MGoto, MKills
<1>33. CASE MCancelListener
  <2>1. CASE MInterrupt
    <3>1. /\ tries \in 1 .. ListenerTries /\ tries' = tries - 1 /\ mpc' = mpc
          /\ UNCHANGED <<queue, shared, flags, worker, lrest, listener_running, rounds, joined, ends, accept_mutex>>
      BY <2>1 DEF MGoto, MInterrupt
    <3> QED
      BY <2>1, <3>1, ListenerSignalled
  <2>2. CASE MStep("listener", "broadcast")
    BY <2>2 DEF MGoto, MStep
  <2> HIDE DEF TypeInv
  <2> QED
    BY <1>33, <2>1, <2>2 DEF MCancelListener
<1>34. CASE MBroadcast
  BY <1>34 DEF MBroadcast, MGoto
<1>35. CASE MWorkers
  BY <1>35 DEF MWorkers, MGoto, Handler
<1>36. CASE MRound
  BY <1>36 DEF MRound, MGoto
<1>37. CASE MDown
  BY <1>37 DEF MDown, MGoto
<1>38. CASE OtherChild
  BY <1>38 DEF OtherChild
<1>39. CASE SigTerm
  <2>1. UNCHANGED <<queue, shared, father_said, CHILD_HALT, worker, lrest, listener_running, others>>
    BY <1>39 DEF SigTerm
  <2>2. sigterm' = FALSE /\ to_be_killed' \in KILL_MODE
    BY <1>39 DEF SigTerm, Handler
  <2> QED
    BY <1>39, <2>1, <2>2, ListenerSignalled
<1>40. ASSUME NEW mode \in FatherModes, FatherSays(mode) PROVE TypeInv'
  BY <1>40 DEF FatherSays
<1>41. CASE UNCHANGED vars
  BY <1>41 DEF vars
<1> QED
  BY <1>1, <1>2, <1>3, <1>4, <1>5, <1>6, <1>7, <1>8, <1>9, <1>10, <1>11, <1>12, <1>13, <1>14, <1>15, <1>16, <1>17, <1>18, <1>19, <1>20, <1>21, <1>22, <1>23, <1>24, <1>25, <1>26, <1>27, <1>28, <1>29, <1>30, <1>31, <1>32, <1>33, <1>34, <1>35, <1>36, <1>37, <1>38, <1>39, <1>40, <1>41
  DEF Next, thread_main, listener_thread, child_main, Environment

\* Every step keeps the Boolean variables Boolean.
LEMMA BoolStep == Bools /\ [Next]_vars => Bools'
<1> SUFFICES ASSUME Bools, [Next]_vars PROVE Bools'
  OBVIOUS
<1> USE DEF Bools, shared, flags, worker, listener, main, ends, lrest, budget, others, beyond
<1>1. ASSUME NEW w \in Workers, WTop(w) PROVE Bools'
  BY <1>1 DEF WTop, WGoto, WStep
<1>2. ASSUME NEW w \in Workers, get_from_queue(w) PROVE Bools'
  <2>1. CASE GetLast(w)
    BY <2>1 DEF WGoto, GetLast
  <2>2. CASE GetEmpty(w)
    BY <2>2 DEF WGoto, GetEmpty, WStep
  <2> QED
    BY <1>2, <2>1, <2>2 DEF get_from_queue
<1>3. ASSUME NEW w \in Workers, WEmpty(w) PROVE Bools'
  BY <1>3 DEF WEmpty, WGoto, WStep
<1>4. ASSUME NEW w \in Workers, wait_for_queue(w) PROVE Bools'
  BY <1>4 DEF wait_for_queue, WGoto, WStep
<1>5. ASSUME NEW w \in Workers, WSpurious(w) PROVE Bools'
  BY <1>5 DEF WSpurious, WGoto, WStep
<1>6. ASSUME NEW w \in Workers, WTake(w) PROVE Bools'
  BY <1>6 DEF WTake, WGoto
<1>7. ASSUME NEW w \in Workers, WOpen(w) PROVE Bools'
  <2>1. CASE WDenied(w)
    BY <2>1 DEF WGoto, WDenied, Closes
  <2>2. CASE WAdmitted(w)
    BY <2>2 DEF WGoto, WAdmitted
  <2> QED
    BY <1>7, <2>1, <2>2 DEF WOpen
<1>8. ASSUME NEW w \in Workers, WLoop(w) PROVE Bools'
  BY <1>8 DEF WLoop, WGoto
<1>9. ASSUME NEW w \in Workers, process_request(w) PROVE Bools'
  <2>1. CASE WNoStatus(w)
    BY <2>1 DEF WGoto, WNoStatus, Closes
  <2>2. CASE WServed(w)
    BY <2>2 DEF WGoto, WServed
  <2> QED
    BY <1>9, <2>1, <2>2 DEF process_request
<1>10. ASSUME NEW w \in Workers, WAfter(w) PROVE Bools'
  BY <1>10 DEF WAfter, WGoto
<1>11. ASSUME NEW w \in Workers, WClose(w) PROVE Bools'
  BY <1>11 DEF WClose, WGoto, Closes
<1>12. ASSUME NEW w \in Workers, WEnd(w) PROVE Bools'
  BY <1>12 DEF WEnd, WGoto
<1>13. ASSUME NEW w \in Workers, WSignal(w) PROVE Bools'
  BY <1>13 DEF WSignal, WGoto, SignalFree
<1>14. CASE LStart
  BY <1>14 DEF LStart, LGoto
<1>15. CASE LTop
  BY <1>15 DEF LTop, LGoto, LStep
<1>16. CASE LLock
  <2>1. CASE LLocks
    BY <2>1 DEF LGoto, LLocks
  <2>2. CASE LStep("lock", "failsunlocked")
    BY <2>2 DEF LGoto, LStep
  <2> QED
    BY <1>16, <2>1, <2>2 DEF LLock
<1>17. CASE LPoll
  <2>1. CASE LReady
    BY <2>1 DEF LGoto, LReady
  <2>2. CASE LStep("poll", "fails")
    BY <2>2 DEF LGoto, LStep
  <2> QED
    BY <1>17, <2>1, <2>2 DEF LPoll
<1>18. CASE LAccept
  <2>1. ASSUME NEW c \in fresh, LAccepted(c) PROVE Bools'
    BY <2>1 DEF LGoto, LAccepted
  <2>2. ASSUME NEW c \in fresh, LAborted(c) PROVE Bools'
    BY <2>2 DEF LGoto, LAborted, AfterPort
  <2>3. CASE LStep("accept", "fails")
    BY <2>3 DEF LGoto, LStep
  <2> QED
    BY <1>18, <2>1, <2>2, <2>3 DEF LAccept
<1>19. CASE put_to_queue
  <2>1. CASE PutFull
    BY <2>1 DEF LGoto, PutFull
  <2>2. CASE PutReturns(connections_pending + 1)
    BY <2>2 DEF LGoto, PutReturns, QueueFull, connections_pending
  <2> QED
    BY <1>19, <2>1, <2>2 DEF put_to_queue
<1>20. CASE LSignal
  BY <1>20 DEF LSignal, LGoto, SignalQueue, AfterPort
<1>21. CASE LKilled
  BY <1>21 DEF LKilled, LGoto, LStep
<1>22. CASE LHasChild
  BY <1>22 DEF LHasChild, LGoto
<1>23. CASE LUnlock
  <2>1. CASE LUnlocks
    BY <2>1 DEF LGoto, LUnlocks
  <2>2. CASE LStep("unlock", "failsunlocked")
    BY <2>2 DEF LGoto, LStep
  <2> QED
    BY <1>23, <2>1, <2>2 DEF LUnlock
<1>24. CASE LAwait
  BY <1>24 DEF LAwait, LGoto, LStep, connections_pending
<1>25. CASE LSpurious
  BY <1>25 DEF LSpurious, LGoto, LStep
<1>26. CASE LFails
  <2>1. CASE LStops("fails", "failsunlock")
    BY <2>1 DEF LGoto, LStops
  <2>2. CASE LLastUnlock
    BY <2>2 DEF LGoto, LLastUnlock
  <2>3. CASE LStops("failsunlocked", "done")
    BY <2>3 DEF LGoto, LStops
  <2> QED
    BY <1>26, <2>1, <2>2, <2>3 DEF LFails
<1>27. CASE MSignals
  BY <1>27 DEF MSignals, MGoto, MStep
<1>28. CASE MFather
  BY <1>28 DEF MFather, MGoto
<1>29. CASE MHandshake
  BY <1>29 DEF MHandshake, MGoto
<1>30. CASE MStart
  BY <1>30 DEF MStart, MGoto, SignalFree
<1>31. CASE MLoop
  <2>1. CASE MTurn
    BY <2>1 DEF MGoto, MTurn, MStep
  <2>2. CASE MKills("orphaned", GRACEFULLY)
    BY <2>2 DEF MGoto, MKills
  <2> QED
    BY <1>31, <2>1, <2>2 DEF MLoop
<1>32. CASE MPipeClosed
  BY <1>32 DEF MPipeClosed, MGoto, MKills
<1>33. CASE MCancelListener
  <2>1. CASE MInterrupt
    BY <2>1 DEF MGoto, MInterrupt, Interrupted
  <2>2. CASE MStep("listener", "broadcast")
    BY <2>2 DEF MGoto, MStep
  <2> QED
    BY <1>33, <2>1, <2>2 DEF MCancelListener
<1>34. CASE MBroadcast
  BY <1>34 DEF MBroadcast, MGoto
<1>35. CASE MWorkers
  BY <1>35 DEF MWorkers, MGoto, Handler
<1>36. CASE MRound
  BY <1>36 DEF MRound, MGoto
<1>37. CASE MDown
  BY <1>37 DEF MDown, MGoto
<1>38. CASE OtherChild
  BY <1>38 DEF OtherChild
<1>39. CASE SigTerm
  BY <1>39 DEF SigTerm, Handler, Interrupted
<1>40. ASSUME NEW mode \in FatherModes, FatherSays(mode) PROVE Bools'
  BY <1>40 DEF FatherSays
<1>41. CASE UNCHANGED vars
  BY <1>41 DEF vars
<1> QED
  BY <1>1, <1>2, <1>3, <1>4, <1>5, <1>6, <1>7, <1>8, <1>9, <1>10, <1>11, <1>12, <1>13, <1>14, <1>15, <1>16, <1>17, <1>18, <1>19, <1>20, <1>21, <1>22, <1>23, <1>24, <1>25, <1>26, <1>27, <1>28, <1>29, <1>30, <1>31, <1>32, <1>33, <1>34, <1>35, <1>36, <1>37, <1>38, <1>39, <1>40, <1>41
  DEF Next, thread_main, listener_thread, child_main, Environment

\* The types, and which thread holds a connection where, on every interleaving of
\* the workers, the listener and child_main.
THEOREM TypesAlways == Spec => [](Bools /\ TypeInv)
<1>1. Init => Bools /\ TypeInv
  BY TypeInit
<1>2. Bools /\ TypeInv /\ [Next]_vars => (Bools /\ TypeInv)'
  BY TypeStep, BoolStep
<1> QED
  BY <1>1, <1>2, PTL DEF Spec

-----------------------------------------------------------------------------
(***************************************************************************)
(* The counters.                                                           *)
(***************************************************************************)
\* The set of serving workers is finite and no larger than the thread pool.
LEMMA ServingFinite ==
  /\ IsFiniteSet(Serving)
  /\ Cardinality(Serving) \in Nat
  /\ Cardinality(Serving) <= THREADS_PER_CHILD
<1>1. Serving \subseteq Workers
  BY DEF Serving
<1> QED
  BY <1>1, ConstantsAssumption, FS_Subset, FS_CardinalityType DEF THREADS_PER_CHILD

\* Steps that are not one of the two counter updates move no worker in or out
\* of the section between them.
LEMMA CountersFrame ==
  ASSUME TypeInv, [Next]_vars, ~(\E w \in Workers : WTake(w) \/ WEnd(w))
  PROVE  Serving' = Serving /\ UNCHANGED <<freeservers, usedservers>>
<1> DEFINE Same == Serving' = Serving /\ UNCHANGED <<freeservers, usedservers>>
<1>a. wpc \in [Workers -> WorkerPCs]
  BY DEF TypeInv
<1> USE <1>a DEF Serving, shared, flags, worker, listener, main, ends, lrest, budget, others, beyond
<1>1. ASSUME NEW w \in Workers, WTop(w) PROVE Same
  BY <1>1 DEF WTop, WGoto, WStep
<1>2. ASSUME NEW w \in Workers, get_from_queue(w) PROVE Same
  <2>1. CASE GetLast(w)
    BY <2>1 DEF WGoto, GetLast
  <2>2. CASE GetEmpty(w)
    BY <2>2 DEF WGoto, GetEmpty, WStep
  <2> QED
    BY <1>2, <2>1, <2>2 DEF get_from_queue
<1>3. ASSUME NEW w \in Workers, WEmpty(w) PROVE Same
  BY <1>3 DEF WEmpty, WGoto, WStep
<1>4. ASSUME NEW w \in Workers, wait_for_queue(w) PROVE Same
  BY <1>4 DEF wait_for_queue, WGoto, WStep
<1>5. ASSUME NEW w \in Workers, WSpurious(w) PROVE Same
  BY <1>5 DEF WSpurious, WGoto, WStep
<1>6. ASSUME NEW w \in Workers, WTake(w) PROVE Same
  BY <1>6
<1>7. ASSUME NEW w \in Workers, WOpen(w) PROVE Same
  <2>1. CASE WDenied(w)
    BY <2>1 DEF WGoto, WDenied, Closes
  <2>2. CASE WAdmitted(w)
    BY <2>2 DEF WGoto, WAdmitted
  <2> QED
    BY <1>7, <2>1, <2>2 DEF WOpen
<1>8. ASSUME NEW w \in Workers, WLoop(w) PROVE Same
  BY <1>8 DEF WLoop, WGoto
<1>9. ASSUME NEW w \in Workers, process_request(w) PROVE Same
  <2>1. CASE WNoStatus(w)
    BY <2>1 DEF WGoto, WNoStatus, Closes
  <2>2. CASE WServed(w)
    BY <2>2 DEF WGoto, WServed
  <2> QED
    BY <1>9, <2>1, <2>2 DEF process_request
<1>10. ASSUME NEW w \in Workers, WAfter(w) PROVE Same
  BY <1>10 DEF WAfter, WGoto
<1>11. ASSUME NEW w \in Workers, WClose(w) PROVE Same
  BY <1>11 DEF WClose, WGoto, Closes
<1>12. ASSUME NEW w \in Workers, WEnd(w) PROVE Same
  BY <1>12
<1>13. ASSUME NEW w \in Workers, WSignal(w) PROVE Same
  BY <1>13 DEF WSignal, WGoto, SignalFree
<1>14. CASE LStart
  BY <1>14 DEF LStart, LGoto
<1>15. CASE LTop
  BY <1>15 DEF LTop, LGoto, LStep
<1>16. CASE LLock
  <2>1. CASE LLocks
    BY <2>1 DEF LGoto, LLocks
  <2>2. CASE LStep("lock", "failsunlocked")
    BY <2>2 DEF LGoto, LStep
  <2> QED
    BY <1>16, <2>1, <2>2 DEF LLock
<1>17. CASE LPoll
  <2>1. CASE LReady
    BY <2>1 DEF LGoto, LReady
  <2>2. CASE LStep("poll", "fails")
    BY <2>2 DEF LGoto, LStep
  <2> QED
    BY <1>17, <2>1, <2>2 DEF LPoll
<1>18. CASE LAccept
  <2>1. ASSUME NEW c \in fresh, LAccepted(c) PROVE Same
    BY <2>1 DEF LGoto, LAccepted
  <2>2. ASSUME NEW c \in fresh, LAborted(c) PROVE Same
    BY <2>2 DEF LGoto, LAborted, AfterPort
  <2>3. CASE LStep("accept", "fails")
    BY <2>3 DEF LGoto, LStep
  <2> QED
    BY <1>18, <2>1, <2>2, <2>3 DEF LAccept
<1>19. CASE put_to_queue
  <2>1. CASE PutFull
    BY <2>1 DEF LGoto, PutFull
  <2>2. CASE PutReturns(connections_pending + 1)
    BY <2>2 DEF LGoto, PutReturns, QueueFull, connections_pending
  <2> QED
    BY <1>19, <2>1, <2>2 DEF put_to_queue
<1>20. CASE LSignal
  BY <1>20 DEF LSignal, LGoto, SignalQueue, AfterPort
<1>21. CASE LKilled
  BY <1>21 DEF LKilled, LGoto, LStep
<1>22. CASE LHasChild
  BY <1>22 DEF LHasChild, LGoto
<1>23. CASE LUnlock
  <2>1. CASE LUnlocks
    BY <2>1 DEF LGoto, LUnlocks
  <2>2. CASE LStep("unlock", "failsunlocked")
    BY <2>2 DEF LGoto, LStep
  <2> QED
    BY <1>23, <2>1, <2>2 DEF LUnlock
<1>24. CASE LAwait
  BY <1>24 DEF LAwait, LGoto, LStep, connections_pending
<1>25. CASE LSpurious
  BY <1>25 DEF LSpurious, LGoto, LStep
<1>26. CASE LFails
  <2>1. CASE LStops("fails", "failsunlock")
    BY <2>1 DEF LGoto, LStops
  <2>2. CASE LLastUnlock
    BY <2>2 DEF LGoto, LLastUnlock
  <2>3. CASE LStops("failsunlocked", "done")
    BY <2>3 DEF LGoto, LStops
  <2> QED
    BY <1>26, <2>1, <2>2, <2>3 DEF LFails
<1>27. CASE MSignals
  BY <1>27 DEF MSignals, MGoto, MStep
<1>28. CASE MFather
  BY <1>28 DEF MFather, MGoto
<1>29. CASE MHandshake
  BY <1>29 DEF MHandshake, MGoto
<1>30. CASE MStart
  BY <1>30 DEF MStart, MGoto, SignalFree
<1>31. CASE MLoop
  <2>1. CASE MTurn
    BY <2>1 DEF MGoto, MTurn, MStep
  <2>2. CASE MKills("orphaned", GRACEFULLY)
    BY <2>2 DEF MGoto, MKills
  <2> QED
    BY <1>31, <2>1, <2>2 DEF MLoop
<1>32. CASE MPipeClosed
  BY <1>32 DEF MPipeClosed, MGoto, MKills
<1>33. CASE MCancelListener
  <2>1. CASE MInterrupt
    BY <2>1 DEF MGoto, MInterrupt, Interrupted
  <2>2. CASE MStep("listener", "broadcast")
    BY <2>2 DEF MGoto, MStep
  <2> QED
    BY <1>33, <2>1, <2>2 DEF MCancelListener
<1>34. CASE MBroadcast
  BY <1>34 DEF MBroadcast, MGoto
<1>35. CASE MWorkers
  BY <1>35 DEF MWorkers, MGoto, Handler
<1>36. CASE MRound
  BY <1>36 DEF MRound, MGoto
<1>37. CASE MDown
  BY <1>37 DEF MDown, MGoto
<1>38. CASE OtherChild
  BY <1>38 DEF OtherChild
<1>39. CASE SigTerm
  BY <1>39 DEF SigTerm, Handler, Interrupted
<1>40. ASSUME NEW mode \in FatherModes, FatherSays(mode) PROVE Same
  BY <1>40 DEF FatherSays
<1>41. CASE UNCHANGED vars
  BY <1>41 DEF vars
<1> QED
  BY <1>1, <1>2, <1>3, <1>4, <1>5, <1>6, <1>7, <1>8, <1>9, <1>10, <1>11, <1>12, <1>13, <1>14, <1>15, <1>16, <1>17, <1>18, <1>19, <1>20, <1>21, <1>22, <1>23, <1>24, <1>25, <1>26, <1>27, <1>28, <1>29, <1>30, <1>31, <1>32, <1>33, <1>34, <1>35, <1>36, <1>37, <1>38, <1>39, <1>40, <1>41
  DEF Next, thread_main, listener_thread, child_main, Environment

\* The two updates count one worker in and out.
LEMMA CountersStep == TypeInv /\ CountersAgree /\ [Next]_vars => CountersAgree'
<1> SUFFICES ASSUME TypeInv, CountersAgree, [Next]_vars PROVE CountersAgree'
  OBVIOUS
<1>1. ASSUME NEW w \in Workers, WTake(w) PROVE CountersAgree'
  <2>1. Serving' = Serving \cup {w} /\ w \notin Serving
    BY <1>1 DEF WTake, WGoto, TypeInv, Serving
  <2>2. Cardinality(Serving') = Cardinality(Serving) + 1
    BY <2>1, ServingFinite, FS_AddElement
  <2>3. usedservers' = usedservers + 1 /\ freeservers' = freeservers - 1
    BY <1>1 DEF WTake
  <2> QED
    BY <2>2, <2>3, ServingFinite, ThreadsNat DEF CountersAgree
<1>2. ASSUME NEW w \in Workers, WEnd(w) PROVE CountersAgree'
  <2>1. Serving' = Serving \ {w} /\ w \in Serving
    BY <1>2 DEF WEnd, WGoto, TypeInv, Serving
  <2>2. Cardinality(Serving') = Cardinality(Serving) - 1
    BY <2>1, ServingFinite, FS_RemoveElement
  <2>3. usedservers' = usedservers - 1 /\ freeservers' = freeservers + 1
    BY <1>2 DEF WEnd
  <2> QED
    BY <2>2, <2>3, ServingFinite, ThreadsNat DEF CountersAgree
<1>3. CASE ~(\E w \in Workers : WTake(w) \/ WEnd(w))
  BY <1>3, CountersFrame DEF CountersAgree
<1> QED
  BY <1>1, <1>2, <1>3

\* thread_main counts itself in and out on every way through its loop, so the
\* counters the listener and the monitor decide by are right (CountersAgree).
THEOREM CountersAlways == Spec => []CountersAgree
<1>1. Init => CountersAgree
  <2> SUFFICES ASSUME Init PROVE CountersAgree
    OBVIOUS
  <2>1. Serving = {}
    BY DEF Init, Serving
  <2> QED
    BY <2>1, FS_EmptySet, ThreadsNat DEF Init, CountersAgree
<1>2. TypeInv /\ CountersAgree /\ [Next]_vars => CountersAgree'
  BY CountersStep
<1> QED
  BY <1>1, <1>2, TypesAlways, PTL DEF Spec

\* Type correctness: every variable keeps its type and its bounds; the queue
\* never outgrows its array and the counters stay within the thread pool.
THEOREM TypeCorrect == Spec => []TypeOK
<1>1. Bools /\ TypeInv /\ CountersAgree => TypeOK
  <2> SUFFICES ASSUME Bools, TypeInv, CountersAgree PROVE TypeOK
    OBVIOUS
  <2>1. freeservers \in 0..THREADS_PER_CHILD /\ usedservers \in 0..THREADS_PER_CHILD
    BY ServingFinite, ThreadsNat DEF CountersAgree
  <2> QED
    BY <2>1 DEF Bools, TypeInv, TypeOK
<1> QED
  BY <1>1, TypesAlways, CountersAlways, PTL
-----------------------------------------------------------------------------
(***************************************************************************)
(* The accept mutex, the listener's view of the queue and the shutdown.    *)
(***************************************************************************)
ControlInv == AcceptUnderMutex /\ JobsCoverQueue /\ JoinedAreGone

\* Every step keeps the three.
LEMMA ControlStep == TypeInv /\ ControlInv /\ [Next]_vars => ControlInv'
<1> SUFFICES ASSUME TypeInv, ControlInv, [Next]_vars PROVE ControlInv'
  OBVIOUS
<1>a. /\ wpc \in [Workers -> WorkerPCs] /\ joined \subseteq Workers
      /\ queue \in Seq(Conns) /\ jobs_in_queue \in Int
  BY ThreadsNat DEF TypeInv
<1> USE <1>a DEF ControlInv, AcceptUnderMutex, JobsCoverQueue, JoinedAreGone,
      AcceptLoop, Alive, shared, flags, worker, listener, main, ends, lrest, budget, others, beyond
<1>1. ASSUME NEW w \in Workers, WTop(w) PROVE ControlInv'
  BY <1>1 DEF WTop, WGoto, WStep
<1>2. ASSUME NEW w \in Workers, get_from_queue(w) PROVE ControlInv'
  <2>1. CASE GetLast(w)
    BY <2>1 DEF WGoto, GetLast
  <2>2. CASE GetEmpty(w)
    BY <2>2 DEF WGoto, GetEmpty, WStep
  <2> QED
    BY <1>2, <2>1, <2>2 DEF get_from_queue
<1>3. ASSUME NEW w \in Workers, WEmpty(w) PROVE ControlInv'
  BY <1>3 DEF WEmpty, WGoto, WStep
<1>4. ASSUME NEW w \in Workers, wait_for_queue(w) PROVE ControlInv'
  BY <1>4 DEF wait_for_queue, WGoto, WStep
<1>5. ASSUME NEW w \in Workers, WSpurious(w) PROVE ControlInv'
  BY <1>5 DEF WSpurious, WGoto, WStep
<1>6. ASSUME NEW w \in Workers, WTake(w) PROVE ControlInv'
  BY <1>6 DEF WTake, WGoto
<1>7. ASSUME NEW w \in Workers, WOpen(w) PROVE ControlInv'
  <2>1. CASE WDenied(w)
    BY <2>1 DEF WGoto, WDenied, Closes
  <2>2. CASE WAdmitted(w)
    BY <2>2 DEF WGoto, WAdmitted
  <2> QED
    BY <1>7, <2>1, <2>2 DEF WOpen
<1>8. ASSUME NEW w \in Workers, WLoop(w) PROVE ControlInv'
  BY <1>8 DEF WLoop, WGoto
<1>9. ASSUME NEW w \in Workers, process_request(w) PROVE ControlInv'
  <2>1. CASE WNoStatus(w)
    BY <2>1 DEF WGoto, WNoStatus, Closes
  <2>2. CASE WServed(w)
    BY <2>2 DEF WGoto, WServed
  <2> QED
    BY <1>9, <2>1, <2>2 DEF process_request
<1>10. ASSUME NEW w \in Workers, WAfter(w) PROVE ControlInv'
  BY <1>10 DEF WAfter, WGoto
<1>11. ASSUME NEW w \in Workers, WClose(w) PROVE ControlInv'
  BY <1>11 DEF WClose, WGoto, Closes
<1>12. ASSUME NEW w \in Workers, WEnd(w) PROVE ControlInv'
  BY <1>12 DEF WEnd, WGoto
<1>13. ASSUME NEW w \in Workers, WSignal(w) PROVE ControlInv'
  BY <1>13 DEF WSignal, WGoto, SignalFree
<1>14. CASE LStart
  BY <1>14 DEF LStart, LGoto
<1>15. CASE LTop
  BY <1>15 DEF LTop, LGoto, LStep
<1>16. CASE LLock
  <2>1. CASE LLocks
    BY <2>1 DEF LGoto, LLocks
  <2>2. CASE LStep("lock", "failsunlocked")
    BY <2>2 DEF LGoto, LStep
  <2> QED
    BY <1>16, <2>1, <2>2 DEF LLock
<1>17. CASE LPoll
  <2>1. CASE LReady
    BY <2>1 DEF LGoto, LReady
  <2>2. CASE LStep("poll", "fails")
    BY <2>2 DEF LGoto, LStep
  <2> QED
    BY <1>17, <2>1, <2>2 DEF LPoll
<1>18. CASE LAccept
  <2>1. ASSUME NEW c \in fresh, LAccepted(c) PROVE ControlInv'
    BY <2>1 DEF LGoto, LAccepted
  <2>2. ASSUME NEW c \in fresh, LAborted(c) PROVE ControlInv'
    BY <2>2 DEF LGoto, LAborted, AfterPort
  <2>3. CASE LStep("accept", "fails")
    BY <2>3 DEF LGoto, LStep
  <2> QED
    BY <1>18, <2>1, <2>2, <2>3 DEF LAccept
<1>19. CASE put_to_queue
  <2>1. CASE PutFull
    BY <2>1 DEF LGoto, PutFull
  <2>2. CASE PutReturns(connections_pending + 1)
    BY <2>2 DEF LGoto, PutReturns, QueueFull, connections_pending
  <2> QED
    BY <1>19, <2>1, <2>2 DEF put_to_queue
<1>20. CASE LSignal
  BY <1>20 DEF LSignal, LGoto, SignalQueue, AfterPort
<1>21. CASE LKilled
  BY <1>21 DEF LKilled, LGoto, LStep
<1>22. CASE LHasChild
  BY <1>22 DEF LHasChild, LGoto
<1>23. CASE LUnlock
  <2>1. CASE LUnlocks
    BY <2>1 DEF LGoto, LUnlocks
  <2>2. CASE LStep("unlock", "failsunlocked")
    BY <2>2 DEF LGoto, LStep
  <2> QED
    BY <1>23, <2>1, <2>2 DEF LUnlock
<1>24. CASE LAwait
  BY <1>24 DEF LAwait, LGoto, LStep, connections_pending
<1>25. CASE LSpurious
  BY <1>25 DEF LSpurious, LGoto, LStep
<1>26. CASE LFails
  <2>1. CASE LStops("fails", "failsunlock")
    BY <2>1 DEF LGoto, LStops
  <2>2. CASE LLastUnlock
    BY <2>2 DEF LGoto, LLastUnlock
  <2>3. CASE LStops("failsunlocked", "done")
    BY <2>3 DEF LGoto, LStops
  <2> QED
    BY <1>26, <2>1, <2>2, <2>3 DEF LFails
<1>27. CASE MSignals
  BY <1>27 DEF MSignals, MGoto, MStep
<1>28. CASE MFather
  BY <1>28 DEF MFather, MGoto
<1>29. CASE MHandshake
  BY <1>29 DEF MHandshake, MGoto
<1>30. CASE MStart
  BY <1>30 DEF MStart, MGoto, SignalFree
<1>31. CASE MLoop
  <2>1. CASE MTurn
    BY <2>1 DEF MGoto, MTurn, MStep
  <2>2. CASE MKills("orphaned", GRACEFULLY)
    BY <2>2 DEF MGoto, MKills
  <2> QED
    BY <1>31, <2>1, <2>2 DEF MLoop
<1>32. CASE MPipeClosed
  BY <1>32 DEF MPipeClosed, MGoto, MKills
<1>33. CASE MCancelListener
  <2>1. CASE MInterrupt
    BY <2>1 DEF MGoto, MInterrupt, Interrupted
  <2>2. CASE MStep("listener", "broadcast")
    BY <2>2 DEF MGoto, MStep
  <2> QED
    BY <1>33, <2>1, <2>2 DEF MCancelListener
<1>34. CASE MBroadcast
  BY <1>34 DEF MBroadcast, MGoto
<1>35. CASE MWorkers
  BY <1>35 DEF MWorkers, MGoto, Handler
<1>36. CASE MRound
  BY <1>36 DEF MRound, MGoto
<1>37. CASE MDown
  BY <1>37 DEF MDown, MGoto
<1>38. CASE OtherChild
  BY <1>38 DEF OtherChild
<1>39. CASE SigTerm
  BY <1>39 DEF SigTerm, Handler, Interrupted
<1>40. ASSUME NEW mode \in FatherModes, FatherSays(mode) PROVE ControlInv'
  BY <1>40 DEF FatherSays
<1>41. CASE UNCHANGED vars
  BY <1>41 DEF vars
<1> QED
  BY <1>1, <1>2, <1>3, <1>4, <1>5, <1>6, <1>7, <1>8, <1>9, <1>10, <1>11, <1>12, <1>13, <1>14, <1>15, <1>16, <1>17, <1>18, <1>19, <1>20, <1>21, <1>22, <1>23, <1>24, <1>25, <1>26, <1>27, <1>28, <1>29, <1>30, <1>31, <1>32, <1>33, <1>34, <1>35, <1>36, <1>37, <1>38, <1>39, <1>40, <1>41
  DEF Next, thread_main, listener_thread, child_main, Environment

\* The listener's mutex, its count of queued jobs and the workers that
\* cancel_all_threads has joined agree with what the threads do.
THEOREM ControlAlways == Spec => []ControlInv
<1>1. Init => ControlInv
  BY DEF Init, ControlInv, AcceptUnderMutex, JobsCoverQueue, JoinedAreGone, AcceptLoop
<1>2. TypeInv /\ ControlInv /\ [Next]_vars => ControlInv'
  BY ControlStep
<1> QED
  BY <1>1, <1>2, TypesAlways, PTL DEF Spec

\* The listener polls, accepts and queues only under the accept mutex, on any
\* interleaving with signals, shutdown and the other children.
THEOREM MutexAlways == Spec => []AcceptUnderMutex
<1>1. ControlInv => AcceptUnderMutex
  BY DEF ControlInv
<1> QED
  BY <1>1, ControlAlways, PTL

\* haschild is computed from a bound on the queue, so a listener that stays in
\* the accept loop has room in the queue.
THEOREM RoomAlways == Spec => RoomAfterHasChild
<1>1. /\ TypeInv /\ CountersAgree /\ ControlInv /\ [Next]_vars
      => [LHasChild /\ lpc' = "poll" => Len(queue) < THREADS_PER_CHILD]_vars
  <2> SUFFICES ASSUME TypeInv, CountersAgree, ControlInv,
                      LHasChild, lpc' = "poll"
               PROVE  Len(queue) < THREADS_PER_CHILD
    OBVIOUS
  <2>1. freeservers > jobs_in_queue
    BY DEF LHasChild, LGoto, TypeInv
  <2>2. freeservers <= THREADS_PER_CHILD
    BY ServingFinite, ThreadsNat DEF CountersAgree
  <2>3. Len(queue) <= jobs_in_queue /\ queue \in Seq(Conns)
    BY DEF ControlInv, JobsCoverQueue, TypeInv, LHasChild, LGoto
  <2> QED
    BY <2>1, <2>2, <2>3, ThreadsNat DEF TypeInv
<1> QED
  BY <1>1, TypesAlways, CountersAlways, ControlAlways, PTL DEF Spec, RoomAfterHasChild

\* Once cancel_all_threads has joined every worker, none of them has left a
\* connection open or the counters wrong.
THEOREM ShutdownAlways == Spec => []ShutdownClosesServed
<1>1. TypeInv /\ CountersAgree /\ ControlInv => ShutdownClosesServed
  <2> SUFFICES ASSUME TypeInv, CountersAgree, ControlInv, joined = Workers
               PROVE  InWork = {} /\ usedservers = 0
    BY DEF ShutdownClosesServed
  <2>1. \A w \in Workers : wpc[w] = "exited"
    BY DEF ControlInv, JoinedAreGone
  <2>2. Serving = {}
    BY <2>1 DEF Serving
  <2>3. \A w \in Workers : wconn[w] = NoConn
    BY <2>1 DEF TypeInv, ConnInHand
  <2> QED
    BY <2>2, <2>3, FS_EmptySet DEF CountersAgree, InWork
<1> QED
  BY <1>1, TypesAlways, CountersAlways, ControlAlways, PTL
-----------------------------------------------------------------------------
(***************************************************************************)
(* The connections.                                                        *)
(***************************************************************************)
places == <<fresh, lconn, queue, wconn, closed, leaked>>

\* The steps that move a connection from one place to another.
Moves ==
  \/ \E w \in Workers : GetLast(w) \/ WDenied(w) \/ WNoStatus(w) \/ WClose(w)
  \/ \E c \in fresh : LAccepted(c) \/ LAborted(c)
  \/ PutFull \/ PutReturns(connections_pending + 1)

\* No other step does.
LEMMA PlacesFrame == [Next]_vars /\ ~Moves => UNCHANGED places
<1> SUFFICES ASSUME [Next]_vars, ~Moves PROVE UNCHANGED places
  OBVIOUS
<1> USE DEF places, shared, flags, worker, listener, main, ends, lrest, budget, others, beyond
<1>1. ASSUME NEW w \in Workers, WTop(w) PROVE UNCHANGED places
  BY <1>1 DEF WTop, WGoto, WStep
<1>2. ASSUME NEW w \in Workers, get_from_queue(w) PROVE UNCHANGED places
  <2>1. CASE GetLast(w)
    BY <2>1 DEF Moves
  <2>2. CASE GetEmpty(w)
    BY <2>2 DEF WGoto, GetEmpty, WStep
  <2> QED
    BY <1>2, <2>1, <2>2 DEF get_from_queue
<1>3. ASSUME NEW w \in Workers, WEmpty(w) PROVE UNCHANGED places
  BY <1>3 DEF WEmpty, WGoto, WStep
<1>4. ASSUME NEW w \in Workers, wait_for_queue(w) PROVE UNCHANGED places
  BY <1>4 DEF wait_for_queue, WGoto, WStep
<1>5. ASSUME NEW w \in Workers, WSpurious(w) PROVE UNCHANGED places
  BY <1>5 DEF WSpurious, WGoto, WStep
<1>6. ASSUME NEW w \in Workers, WTake(w) PROVE UNCHANGED places
  BY <1>6 DEF WTake, WGoto
<1>7. ASSUME NEW w \in Workers, WOpen(w) PROVE UNCHANGED places
  <2>1. CASE WDenied(w)
    BY <2>1 DEF Moves
  <2>2. CASE WAdmitted(w)
    BY <2>2 DEF WGoto, WAdmitted
  <2> QED
    BY <1>7, <2>1, <2>2 DEF WOpen
<1>8. ASSUME NEW w \in Workers, WLoop(w) PROVE UNCHANGED places
  BY <1>8 DEF WLoop, WGoto
<1>9. ASSUME NEW w \in Workers, process_request(w) PROVE UNCHANGED places
  <2>1. CASE WNoStatus(w)
    BY <2>1 DEF Moves
  <2>2. CASE WServed(w)
    BY <2>2 DEF WGoto, WServed
  <2> QED
    BY <1>9, <2>1, <2>2 DEF process_request
<1>10. ASSUME NEW w \in Workers, WAfter(w) PROVE UNCHANGED places
  BY <1>10 DEF WAfter, WGoto
<1>11. ASSUME NEW w \in Workers, WClose(w) PROVE UNCHANGED places
  BY <1>11 DEF Moves
<1>12. ASSUME NEW w \in Workers, WEnd(w) PROVE UNCHANGED places
  BY <1>12 DEF WEnd, WGoto
<1>13. ASSUME NEW w \in Workers, WSignal(w) PROVE UNCHANGED places
  BY <1>13 DEF WSignal, WGoto, SignalFree
<1>14. CASE LStart
  BY <1>14 DEF LStart, LGoto
<1>15. CASE LTop
  BY <1>15 DEF LTop, LGoto, LStep
<1>16. CASE LLock
  <2>1. CASE LLocks
    BY <2>1 DEF LGoto, LLocks
  <2>2. CASE LStep("lock", "failsunlocked")
    BY <2>2 DEF LGoto, LStep
  <2> QED
    BY <1>16, <2>1, <2>2 DEF LLock
<1>17. CASE LPoll
  <2>1. CASE LReady
    BY <2>1 DEF LGoto, LReady
  <2>2. CASE LStep("poll", "fails")
    BY <2>2 DEF LGoto, LStep
  <2> QED
    BY <1>17, <2>1, <2>2 DEF LPoll
<1>18. CASE LAccept
  <2>1. ASSUME NEW c \in fresh, LAccepted(c) PROVE UNCHANGED places
    BY <2>1 DEF Moves
  <2>2. ASSUME NEW c \in fresh, LAborted(c) PROVE UNCHANGED places
    BY <2>2 DEF Moves
  <2>3. CASE LStep("accept", "fails")
    BY <2>3 DEF LGoto, LStep
  <2> QED
    BY <1>18, <2>1, <2>2, <2>3 DEF LAccept
<1>19. CASE put_to_queue
  <2>1. CASE PutFull
    BY <2>1 DEF Moves
  <2>2. CASE PutReturns(connections_pending + 1)
    BY <2>2 DEF Moves
  <2> QED
    BY <1>19, <2>1, <2>2 DEF put_to_queue
<1>20. CASE LSignal
  BY <1>20 DEF LSignal, LGoto, SignalQueue, AfterPort
<1>21. CASE LKilled
  BY <1>21 DEF LKilled, LGoto, LStep
<1>22. CASE LHasChild
  BY <1>22 DEF LHasChild, LGoto
<1>23. CASE LUnlock
  <2>1. CASE LUnlocks
    BY <2>1 DEF LGoto, LUnlocks
  <2>2. CASE LStep("unlock", "failsunlocked")
    BY <2>2 DEF LGoto, LStep
  <2> QED
    BY <1>23, <2>1, <2>2 DEF LUnlock
<1>24. CASE LAwait
  BY <1>24 DEF LAwait, LGoto, LStep, connections_pending
<1>25. CASE LSpurious
  BY <1>25 DEF LSpurious, LGoto, LStep
<1>26. CASE LFails
  <2>1. CASE LStops("fails", "failsunlock")
    BY <2>1 DEF LGoto, LStops
  <2>2. CASE LLastUnlock
    BY <2>2 DEF LGoto, LLastUnlock
  <2>3. CASE LStops("failsunlocked", "done")
    BY <2>3 DEF LGoto, LStops
  <2> QED
    BY <1>26, <2>1, <2>2, <2>3 DEF LFails
<1>27. CASE MSignals
  BY <1>27 DEF MSignals, MGoto, MStep
<1>28. CASE MFather
  BY <1>28 DEF MFather, MGoto
<1>29. CASE MHandshake
  BY <1>29 DEF MHandshake, MGoto
<1>30. CASE MStart
  BY <1>30 DEF MStart, MGoto, SignalFree
<1>31. CASE MLoop
  <2>1. CASE MTurn
    BY <2>1 DEF MGoto, MTurn, MStep
  <2>2. CASE MKills("orphaned", GRACEFULLY)
    BY <2>2 DEF MGoto, MKills
  <2> QED
    BY <1>31, <2>1, <2>2 DEF MLoop
<1>32. CASE MPipeClosed
  BY <1>32 DEF MPipeClosed, MGoto, MKills
<1>33. CASE MCancelListener
  <2>1. CASE MInterrupt
    BY <2>1 DEF MGoto, MInterrupt, Interrupted
  <2>2. CASE MStep("listener", "broadcast")
    BY <2>2 DEF MGoto, MStep
  <2> QED
    BY <1>33, <2>1, <2>2 DEF MCancelListener
<1>34. CASE MBroadcast
  BY <1>34 DEF MBroadcast, MGoto
<1>35. CASE MWorkers
  BY <1>35 DEF MWorkers, MGoto, Handler
<1>36. CASE MRound
  BY <1>36 DEF MRound, MGoto
<1>37. CASE MDown
  BY <1>37 DEF MDown, MGoto
<1>38. CASE OtherChild
  BY <1>38 DEF OtherChild
<1>39. CASE SigTerm
  BY <1>39 DEF SigTerm, Handler, Interrupted
<1>40. ASSUME NEW mode \in FatherModes, FatherSays(mode) PROVE UNCHANGED places
  BY <1>40 DEF FatherSays
<1>41. CASE UNCHANGED vars
  BY <1>41 DEF vars
<1> QED
  BY <1>1, <1>2, <1>3, <1>4, <1>5, <1>6, <1>7, <1>8, <1>9, <1>10, <1>11, <1>12, <1>13, <1>14, <1>15, <1>16, <1>17, <1>18, <1>19, <1>20, <1>21, <1>22, <1>23, <1>24, <1>25, <1>26, <1>27, <1>28, <1>29, <1>30, <1>31, <1>32, <1>33, <1>34, <1>35, <1>36, <1>37, <1>38, <1>39, <1>40, <1>41
  DEF Next, thread_main, listener_thread, child_main, Environment

\* get_from_queue takes one connection out of the queue to a worker with none.
LEMMA GetLastMove ==
  ASSUME TypeInv, ConnOnePlace, NEW w \in Workers, GetLast(w)
  PROVE  \E c \in Queued :
           /\ c \in Conns /\ wconn[w] = NoConn
           /\ wconn' = [wconn EXCEPT ![w] = c]
           /\ Queued' = Queued \ {c} /\ InWork' = InWork \cup {c}
           /\ \A i, j \in 1..Len(queue') : queue'[i] = queue'[j] => i = j
           /\ UNCHANGED <<fresh, lconn, closed, leaked>>
<1> DEFINE n == Len(queue)
           c == queue[n]
<1>1. /\ wconn[w] = NoConn /\ wconn \in [Workers -> Conns \cup {NoConn}]
      /\ NoConn \notin Conns
  BY ConstantsAssumption DEF TypeInv, ConnInHand, GetLast, WGoto
<1>2. queue \in Seq(Conns) /\ queue # <<>>
  BY DEF TypeInv, GetLast
<1>3. n \in Nat \ {0} /\ c \in Conns /\ n \in 1..n
  BY <1>2
<1>4. queue' = SubSeq(queue, 1, n - 1)
  BY DEF GetLast
<1>5. Len(queue') = n - 1 /\ \A i \in 1..(n - 1) : queue'[i] = queue[i]
  <2>1. \A i \in 1..(n - 1) : queue[i] \in Conns
    BY <1>2, <1>3
  <2>2. /\ Len(SubSeq(queue, 1, n - 1)) = IF 1 <= n - 1 THEN (n - 1) - 1 + 1 ELSE 0
        /\ \A i \in 1..((n - 1) - 1 + 1) : SubSeq(queue, 1, n - 1)[i] = queue[1 + i - 1]
    BY <2>1, <1>3, SubSeqProperties
  <2>3. n - 1 \in Nat /\ (n - 1) - 1 + 1 = n - 1 /\ \A i \in 1..(n - 1) : 1 + i - 1 = i
    BY <1>3
  <2>4. Len(queue') = n - 1
    BY <1>4, <2>2, <2>3
  <2>5. ASSUME NEW i \in 1..(n - 1) PROVE queue'[i] = queue[i]
    BY <1>4, <2>2, <2>3
  <2> QED
    BY <2>4, <2>5
<1>6. \A i, j \in 1..n : queue[i] = queue[j] => i = j
  BY DEF ConnOnePlace
<1>7. Queued' = Queued \ {c}
  <2>1. Queued = {queue[i] : i \in 1..n} /\ Queued' = {queue'[i] : i \in 1..(n - 1)}
    BY <1>5 DEF Queued
  <2>2. \A x : x \in Queued' <=> x \in Queued /\ x # c
    BY <2>1, <1>3, <1>5, <1>6
  <2> QED
    BY <2>2
<1>8. wconn' = [wconn EXCEPT ![w] = c]
  BY DEF GetLast
<1>9. InWork' = InWork \cup {c}
  BY <1>1, <1>3, <1>8 DEF InWork
<1>10. \A i, j \in 1..Len(queue') : queue'[i] = queue'[j] => i = j
  BY <1>3, <1>5, <1>6
<1>11. UNCHANGED <<fresh, lconn, closed, leaked>>
  BY DEF GetLast, ends, beyond, listener
<1>12. c \in Queued
  BY <1>3 DEF Queued
<1> QED
  BY <1>1, <1>3, <1>7, <1>8, <1>9, <1>10, <1>11, <1>12

\* Closing ends the connection of one worker and of no other.
LEMMA CloseMove ==
  ASSUME TypeInv, ConnOnePlace, NEW w \in Workers, WDenied(w) \/ WNoStatus(w) \/ WClose(w)
  PROVE  /\ wconn[w] \in Conns /\ wconn[w] # NoConn
         /\ wconn' = [wconn EXCEPT ![w] = NoConn]
         /\ InWork' = InWork \ {wconn[w]}
         /\ closed' = closed \cup {wconn[w]}
         /\ UNCHANGED <<fresh, lconn, queue, leaked>>
<1>1. /\ wconn[w] # NoConn
      /\ wconn' = [wconn EXCEPT ![w] = NoConn]
      /\ closed' = closed \cup {wconn[w]}
      /\ UNCHANGED <<fresh, lconn, queue, leaked>>
  BY DEF WDenied, WNoStatus, WClose, Closes, WGoto, TypeInv, ConnInHand, beyond, listener
<1>2. wconn \in [Workers -> Conns \cup {NoConn}]
  BY DEF TypeInv
<1>3. \A v \in Workers : v # w => wconn[v] # wconn[w]
  BY <1>1, <1>2 DEF ConnOnePlace
<1>4. InWork' = InWork \ {wconn[w]}
  <2>1. \A x : x \in InWork' <=> x \in InWork /\ x # wconn[w]
    BY <1>1, <1>2, <1>3 DEF InWork
  <2> QED
    BY <2>1
<1> QED
  BY <1>1, <1>2, <1>4

\* put_to_queue moves the listener's connection to the end of the queue.
LEMMA PutMove ==
  ASSUME TypeInv, ConnOnePlace, PutReturns(connections_pending + 1)
  PROVE  /\ lconn \in Conns /\ lconn # NoConn /\ lconn' = NoConn
         /\ InHand = {lconn} /\ InHand' = {}
         /\ Queued' = Queued \cup {lconn}
         /\ \A i, j \in 1..Len(queue') : queue'[i] = queue'[j] => i = j
         /\ UNCHANGED <<fresh, wconn, closed, leaked>>
<1>1. /\ lconn \in Conns /\ lconn # NoConn /\ lconn' = NoConn
      /\ queue' = Append(queue, lconn)
      /\ UNCHANGED <<fresh, wconn, closed, leaked>>
  BY DEF PutReturns, LGoto, TypeInv, ConnInHand, worker, ends
<1>2. queue \in Seq(Conns)
  BY DEF TypeInv
<1>3. /\ Len(queue') = Len(queue) + 1 /\ Len(queue) \in Nat
      /\ queue'[Len(queue) + 1] = lconn
      /\ \A i \in 1..Len(queue) : queue'[i] = queue[i]
  BY <1>1, <1>2
<1>4. Queued' = Queued \cup {lconn}
  <2>1. \A x : x \in Queued' <=> x \in Queued \/ x = lconn
    BY <1>3 DEF Queued
  <2> QED
    BY <2>1
<1>5. InHand = {lconn} /\ InHand' = {}
  BY <1>1 DEF InHand
<1>6. lconn \notin Queued
  BY <1>5 DEF ConnOnePlace
<1>7. \A i, j \in 1..Len(queue') : queue'[i] = queue'[j] => i = j
  <2>1. \A i \in 1..Len(queue) : queue[i] # lconn
    BY <1>6 DEF Queued
  <2>2. \A i, j \in 1..Len(queue) : queue[i] = queue[j] => i = j
    BY DEF ConnOnePlace
  <2> QED
    BY <1>3, <2>1, <2>2
<1> QED
  BY <1>1, <1>4, <1>5, <1>7

\* Every step keeps each connection in one place.
LEMMA PlaceStep == TypeInv /\ ConnOnePlace /\ [Next]_vars => ConnOnePlace'
<1> SUFFICES ASSUME TypeInv, ConnOnePlace, [Next]_vars PROVE ConnOnePlace'
  OBVIOUS
<1>a. wconn \in [Workers -> Conns \cup {NoConn}] /\ NoConn \notin Conns
  BY ConstantsAssumption DEF TypeInv
<1>1. ASSUME NEW w \in Workers, GetLast(w) PROVE ConnOnePlace'
  <2>1. PICK c \in Queued :
           /\ c \in Conns /\ wconn[w] = NoConn
           /\ wconn' = [wconn EXCEPT ![w] = c]
           /\ Queued' = Queued \ {c} /\ InWork' = InWork \cup {c}
           /\ \A i, j \in 1..Len(queue') : queue'[i] = queue'[j] => i = j
           /\ UNCHANGED <<fresh, lconn, closed, leaked>>
    BY <1>1, GetLastMove
  <2>2. \A v \in Workers : wconn[v] # c
    BY <2>1, <1>a DEF ConnOnePlace, InWork
  <2>3. \A v, u \in Workers : v # u /\ wconn'[v] = wconn'[u] => wconn'[v] = NoConn
    BY <2>1, <2>2, <1>a DEF ConnOnePlace
  <2>4. InHand' = InHand
    BY <2>1 DEF InHand
  <2> QED
    BY <2>1, <2>3, <2>4 DEF ConnOnePlace
<1>2. ASSUME NEW w \in Workers, WDenied(w) \/ WNoStatus(w) \/ WClose(w) PROVE ConnOnePlace'
  <2>1. /\ wconn[w] \in Conns /\ wconn[w] # NoConn
        /\ wconn' = [wconn EXCEPT ![w] = NoConn]
        /\ InWork' = InWork \ {wconn[w]}
        /\ closed' = closed \cup {wconn[w]}
        /\ UNCHANGED <<fresh, lconn, queue, leaked>>
    BY <1>2, CloseMove
  <2>2. wconn[w] \in InWork
    BY <2>1 DEF InWork
  <2>3. \A v, u \in Workers : v # u /\ wconn'[v] = wconn'[u] => wconn'[v] = NoConn
    BY <2>1, <1>a DEF ConnOnePlace
  <2>4. InHand' = InHand /\ Queued' = Queued
    BY <2>1 DEF InHand, Queued
  <2> QED
    BY <2>1, <2>2, <2>3, <2>4 DEF ConnOnePlace
<1>3. ASSUME NEW c \in fresh, LAccepted(c) PROVE ConnOnePlace'
  <2>1. /\ c \in Conns /\ fresh' = fresh \ {c} /\ InHand = {} /\ InHand' = {c}
        /\ UNCHANGED <<queue, wconn, closed, leaked>>
    BY <1>3, <1>a DEF LAccepted, LGoto, TypeInv, ConnInHand, InHand, worker
  <2>2. Queued' = Queued /\ InWork' = InWork
    BY <2>1 DEF Queued, InWork
  <2> QED
    BY <2>1, <2>2 DEF ConnOnePlace
<1>4. ASSUME NEW c \in fresh, LAborted(c) PROVE ConnOnePlace'
  <2>1. /\ c \in Conns /\ fresh' = fresh \ {c} /\ closed' = closed \cup {c}
        /\ UNCHANGED <<lconn, queue, wconn, leaked>>
    BY <1>4 DEF LAborted, TypeInv, worker
  <2>2. Queued' = Queued /\ InWork' = InWork /\ InHand' = InHand
    BY <2>1 DEF Queued, InWork, InHand
  <2> QED
    BY <2>1, <2>2 DEF ConnOnePlace
<1>5. CASE PutFull
  <2>1. /\ lconn \in Conns /\ InHand = {lconn} /\ InHand' = {}
        /\ leaked' = leaked \cup {lconn}
        /\ UNCHANGED <<fresh, queue, wconn, closed>>
    BY <1>5 DEF PutFull, LGoto, TypeInv, ConnInHand, InHand, worker
  <2>2. Queued' = Queued /\ InWork' = InWork
    BY <2>1 DEF Queued, InWork
  <2> QED
    BY <2>1, <2>2 DEF ConnOnePlace
<1>6. CASE PutReturns(connections_pending + 1)
  <2>1. /\ lconn \in Conns /\ InHand = {lconn} /\ InHand' = {}
        /\ Queued' = Queued \cup {lconn}
        /\ \A i, j \in 1..Len(queue') : queue'[i] = queue'[j] => i = j
        /\ UNCHANGED <<fresh, wconn, closed, leaked>>
    BY <1>6, PutMove
  <2>2. InWork' = InWork
    BY <2>1 DEF InWork
  <2> QED
    BY <2>1, <2>2 DEF ConnOnePlace
<1>7. CASE ~Moves
  <2>1. UNCHANGED places
    BY <1>7, PlacesFrame
  <2> QED
    BY <2>1 DEF places, ConnOnePlace, InHand, Queued, InWork
<1> QED
  BY <1>1, <1>2, <1>3, <1>4, <1>5, <1>6, <1>7 DEF Moves

\* Each connection is in exactly one place: on no interleaving is one served by
\* two workers, closed in use, closed twice or lost without the queue being full.
THEOREM PlacesAlways == Spec => []ConnOnePlace
<1>1. Init => ConnOnePlace
  BY DEF Init, ConnOnePlace, InHand, Queued, InWork
<1>2. TypeInv /\ ConnOnePlace /\ [Next]_vars => ConnOnePlace'
  BY PlaceStep
<1> QED
  BY <1>1, <1>2, TypesAlways, PTL DEF Spec

-----------------------------------------------------------------------------
(***************************************************************************)
(* Refinement of ConnLifecycle.                                            *)
(***************************************************************************)
\* Every step of the child is a step of the life of one connection or none.
LEMMA LifecycleStep ==
  TypeInv /\ ConnOnePlace /\ [Next]_vars => [Lifecycle!Next]_(Lifecycle!vars)
<1> SUFFICES ASSUME TypeInv, ConnOnePlace, [Next]_vars
             PROVE  [Lifecycle!Next]_(Lifecycle!vars)
  OBVIOUS
<1> USE DEF Lifecycle!Next, Lifecycle!vars
<1>1. ASSUME NEW w \in Workers, GetLast(w) PROVE Lifecycle!Next
  <2>1. PICK c \in Queued :
           /\ c \in Conns /\ wconn[w] = NoConn
           /\ wconn' = [wconn EXCEPT ![w] = c]
           /\ Queued' = Queued \ {c}
           /\ UNCHANGED <<fresh, lconn, closed, leaked>>
    BY <1>1, GetLastMove
  <2>2. InHand' \cup Queued' = (InHand \cup Queued) \ {c}
    BY <2>1 DEF ConnOnePlace, InHand
  <2>3. Lifecycle!Serve(w, c)
    BY <2>1, <2>2 DEF Lifecycle!Serve
  <2> QED
    BY <2>1, <2>3
<1>2. ASSUME NEW w \in Workers, WDenied(w) \/ WNoStatus(w) \/ WClose(w) PROVE Lifecycle!Next
  <2>1. /\ wconn[w] # NoConn
        /\ wconn' = [wconn EXCEPT ![w] = NoConn]
        /\ closed' = closed \cup {wconn[w]}
        /\ UNCHANGED <<fresh, lconn, queue, leaked>>
    BY <1>2, CloseMove
  <2>2. InHand' = InHand /\ Queued' = Queued
    BY <2>1 DEF InHand, Queued
  <2>3. Lifecycle!Finish(w)
    BY <2>1, <2>2 DEF Lifecycle!Finish
  <2> QED
    BY <2>3
<1>3. ASSUME NEW c \in fresh, LAccepted(c) PROVE Lifecycle!Next
  <2>1. /\ c \in Conns /\ fresh' = fresh \ {c} /\ InHand = {} /\ InHand' = {c}
        /\ UNCHANGED <<queue, wconn, closed, leaked>>
    BY <1>3, ConstantsAssumption DEF LAccepted, LGoto, TypeInv, ConnInHand, InHand, worker
  <2>2. Queued' = Queued
    BY <2>1 DEF Queued
  <2>3. Lifecycle!Accept(c)
    BY <2>1, <2>2 DEF Lifecycle!Accept
  <2> QED
    BY <2>1, <2>3
<1>4. ASSUME NEW c \in fresh, LAborted(c) PROVE Lifecycle!Next
  <2>1. /\ c \in Conns /\ fresh' = fresh \ {c} /\ closed' = closed \cup {c}
        /\ UNCHANGED <<lconn, queue, wconn, leaked>>
    BY <1>4 DEF LAborted, TypeInv, worker
  <2>2. Queued' = Queued /\ InHand' = InHand
    BY <2>1 DEF Queued, InHand
  <2>3. Lifecycle!Abort(c)
    BY <2>1, <2>2 DEF Lifecycle!Abort
  <2> QED
    BY <2>1, <2>3
<1>5. CASE PutFull
  <2>1. /\ lconn \in Conns /\ InHand = {lconn} /\ InHand' = {}
        /\ leaked' = leaked \cup {lconn}
        /\ UNCHANGED <<fresh, queue, wconn, closed>>
    BY <1>5 DEF PutFull, LGoto, TypeInv, ConnInHand, InHand, worker
  <2>2. InHand' \cup Queued' = (InHand \cup Queued) \ {lconn}
    BY <2>1 DEF Queued, ConnOnePlace
  <2>3. Lifecycle!Drop(lconn)
    BY <2>1, <2>2 DEF Lifecycle!Drop
  <2> QED
    BY <2>1, <2>3
<1>6. CASE PutReturns(connections_pending + 1)
  <2>1. /\ InHand = {lconn} /\ InHand' = {} /\ Queued' = Queued \cup {lconn}
        /\ UNCHANGED <<fresh, wconn, closed, leaked>>
    BY <1>6, PutMove
  <2> QED
    BY <2>1
<1>7. CASE ~Moves
  <2>1. UNCHANGED places
    BY <1>7, PlacesFrame
  <2> QED
    BY <2>1 DEF places, InHand, Queued
<1> QED
  BY <1>1, <1>2, <1>3, <1>4, <1>5, <1>6, <1>7 DEF Moves

\* The child process, with all its threads, implements the life cycle it
\* promises for connections (ImplementsLifecycle), whatever its size.
THEOREM LifecycleRefined == Spec => ImplementsLifecycle
<1>1. Init => Lifecycle!Init
  BY DEF Init, Lifecycle!Init, InHand, Queued
<1>2. TypeInv /\ ConnOnePlace /\ [Next]_vars => [Lifecycle!Next]_(Lifecycle!vars)
  BY LifecycleStep
<1> QED
  BY <1>1, <1>2, TypesAlways, PlacesAlways, PTL DEF Spec, ImplementsLifecycle, Lifecycle!Spec
=============================================================================
