--------------------------- MODULE MonitorProofs ---------------------------
(* Proofs about Monitor, for any number of processes, servers, threads,      *)
(* crashes and reconfigurations: the children queues, the processes and what *)
(* they have been told agree.                                                *)
EXTENDS Monitor, WellFoundedInduction, TLAPS

USE DEF Pids, NoQueue, KILL_MODE, Alive

\* A queue is older than the one that replaced it, no process has a queue that
\* was not made yet, and there is a SIGHUP for every queue still to be made.
QueueOrder ==
  /\ old_childs_queue < childs_queue
  /\ \A p \in Pids : queue_of[p] <= childs_queue
  /\ childs_queue + hups <= Reconfigures
  /\ c_icap_reconfigure => childs_queue + hups < Reconfigures

\* A child has a slot from register_child on; a slot that remove_child did not
\* find is in neither of the two queues. SIGTERM goes to a child that runs.
SlotInv ==
  \A p \in Pids :
    /\ state[p] \in {"unborn", "forked"} => slot[p] = Free
    /\ state[p] \in {"boot", "run"} => slot[p] # Free
    /\ state[p] = "reaped" /\ slot[p] # Free =>
         queue_of[p] # childs_queue /\ queue_of[p] # old_childs_queue
    /\ sigterm[p] => state[p] = "run"

IInv == TypeOK /\ QueueOrder /\ SlotInv /\ ToldKeepQueue

\* What start_child does: at most one process is forked, with the current queue.
Forks ==
  \/ UNCHANGED <<state, queue_of>>
  \/ \E c \in Pids : /\ state[c] = "unborn"
                     /\ state' = [state EXCEPT ![c] = "forked"]
                     /\ queue_of' = [queue_of EXCEPT ![c] = childs_queue]

\* What an order of the monitor does to the slots: it reaches children that have
\* one in the current or in the old queue.
Orders ==
  /\ slot' \in [Pids -> Slot \cup {Free}] /\ sigterm' \in [Pids -> BOOLEAN]
  /\ \A p \in Pids :
       /\ slot'[p] = Free <=> slot[p] = Free
       /\ slot'[p] # slot[p] => p \in Ours
       /\ sigterm'[p] => sigterm[p] \/ state[p] = "run"

\* What check_for_exited_childs does for the process p: a slot is left only in a
\* queue that is neither the current nor the old one, and the old one is let go
\* only when no other process has a slot in it.
Reaps(p) ==
  /\ state[p] = "zombie" /\ state' = [state EXCEPT ![p] = "reaped"]
  /\ slot' \in {slot, [slot EXCEPT ![p] = Free]}
  /\ slot'[p] # Free => queue_of[p] # childs_queue /\ queue_of[p] # old_childs_queue
  /\ old_childs_queue' \in {old_childs_queue, NoQueue}
  /\ old_childs_queue' # old_childs_queue =>
       \A c \in Pids \ {p} : slot[c] # Free => queue_of[c] # old_childs_queue
  /\ UNCHANGED <<queue_of, sigterm, childs_queue, flags, mpc, tostart, crashes, hups>>

\* What a child does to its slot.
Writes(p) ==
  \E s \in Slot :
    /\ slot' = [slot EXCEPT ![p] = s]
    /\ IF slot[p] = Free THEN s.father_said = "NO_KILL"
       ELSE s.father_said = slot[p].father_said

-----------------------------------------------------------------------------
\* A set of natural numbers that has a member has a least one.
LEMMA LeastMember ==
  ASSUME NEW S \in SUBSET Nat, S # {}
  PROVE  Min(S) \in S
<1>1. PICK x \in S : \A y \in S : ~(<<y, x>> \in OpToRel(<, Nat))
  BY NatLessThanWellFounded, WFMin
<1>2. OpToRel(<, Nat) = {ss \in Nat \X Nat : ss[1] < ss[2]}
  BY DEF OpToRel
<1>3. ASSUME NEW y \in S PROVE x <= y
  <2>1. y < x => <<y, x>> \in {ss \in Nat \X Nat : ss[1] < ss[2]}
    OBVIOUS
  <2>2. ~(y < x)
    BY <1>1, <1>2, <2>1, Zenon
  <2>3. x \in Nat /\ y \in Nat
    OBVIOUS
  <2> QED
    BY <2>2, <2>3
<1> QED
  BY <1>3 DEF Min

\* A free slot is not a slot.
LEMMA FreeIsNoSlot == Free \notin Slot
BY DEF Slot, Free

\* A write to a field of a slot leaves a slot.
LEMMA SlotFacts ==
  /\ \A s \in Slot, m \in KILL_MODE :
       /\ [s EXCEPT !.father_said = m] \in Slot
       /\ [s EXCEPT !.to_be_killed = m] \in Slot
       /\ [s EXCEPT !.to_be_killed = m].father_said = s.father_said
  /\ \A s \in Slot, n \in 0 .. THREADS_PER_CHILD, w \in BOOLEAN :
       /\ [s EXCEPT !.freeservers = n, !.worn = w] \in Slot
       /\ [s EXCEPT !.freeservers = n, !.worn = w].father_said = s.father_said
BY DEF Slot, Free

\* start_child forks the least process that is left, or none.
LEMMA Started ==
  ASSUME TypeOK, start_child
  PROVE  Forks
<1> DEFINE U == {p \in Pids : state[p] = "unborn"}
<1>1. CASE U = {}
  BY <1>1 DEF start_child, Forks
<1>2. CASE U # {}
  <2>1. Min(U) \in U
    BY <1>2, LeastMember, ConstantsAssumption
  <2> QED
    BY <1>2, <2>1 DEF start_child, Forks
<1> QED
  BY <1>1, <1>2

\* A fork keeps the types of what it writes.
LEMMA ForkedTypes ==
  ASSUME TypeOK, Forks
  PROVE  /\ state' \in [Pids -> Alive \cup {"unborn", "zombie", "reaped"}]
         /\ queue_of' \in [Pids -> 0 .. Reconfigures]
<1>1. CASE UNCHANGED <<state, queue_of>>
  BY <1>1 DEF TypeOK
<1>2. CASE ~UNCHANGED <<state, queue_of>>
  <2>1. PICK c \in Pids : /\ state' = [state EXCEPT ![c] = "forked"]
                          /\ queue_of' = [queue_of EXCEPT ![c] = childs_queue]
    BY <1>2 DEF Forks
  <2> QED
    BY <2>1 DEF TypeOK
<1> QED
  BY <1>1, <1>2

\* The child that is forked has the current queue.
LEMMA ForkedQueue ==
  ASSUME TypeOK, QueueOrder, Forks, UNCHANGED <<queues, flags, hups>>
  PROVE  QueueOrder'
<1>1. \A p \in Pids : queue_of'[p] \in {queue_of[p], childs_queue}
  <2>1. CASE UNCHANGED <<state, queue_of>>
    BY <2>1
  <2>2. CASE ~UNCHANGED <<state, queue_of>>
    <3>1. PICK c \in Pids : queue_of' = [queue_of EXCEPT ![c] = childs_queue]
      BY <2>2 DEF Forks
    <3> QED
      BY <3>1 DEF TypeOK
  <2> QED
    BY <2>1, <2>2
<1>2. childs_queue \in Int
  BY ConstantsAssumption DEF TypeOK
<1>3. \A p \in Pids : queue_of'[p] <= childs_queue
  BY <1>1, <1>2 DEF QueueOrder
<1> QED
  BY <1>3 DEF QueueOrder, queues, flags

\* A forked child has no slot yet, whatever the monitor tells the others.
LEMMA ForkedSlot ==
  ASSUME TypeOK, SlotInv, Forks, UNCHANGED queues, UNCHANGED <<slot, sigterm>> \/ Orders
  PROVE  SlotInv'
<1>1. \A p \in Pids : /\ slot'[p] = Free <=> slot[p] = Free
                      /\ sigterm'[p] => sigterm[p] \/ state[p] = "run"
  BY DEF Orders
<1>2. CASE UNCHANGED <<state, queue_of>>
  BY <1>1, <1>2 DEF SlotInv, queues
<1>3. CASE ~UNCHANGED <<state, queue_of>>
  <2>1. PICK c \in Pids : /\ state[c] = "unborn"
                          /\ state' = [state EXCEPT ![c] = "forked"]
                          /\ queue_of' = [queue_of EXCEPT ![c] = childs_queue]
    BY <1>3 DEF Forks
  <2>2. state'[c] = "forked" /\ \A p \in Pids \ {c} : state'[p] = state[p] /\ queue_of'[p] = queue_of[p]
    BY <2>1 DEF TypeOK
  <2> QED
    BY <1>1, <2>1, <2>2 DEF SlotInv, queues
<1> QED
  BY <1>2, <1>3

\* Every order of the monitor is one to children of the two queues.
LEMMA Ordered ==
  ASSUME TypeOK,
         \/ MReplace \/ MStopIdle \/ server_reconfigure \/ send_term_to_childs
  PROVE  Orders
<1>1. PICK S \in SUBSET Ours, m \in KILL_MODE : Tell(S, m)
  <2>1. CASE MReplace
    BY <2>1 DEF MReplace, find_a_child_nrequests, Ours
  <2>2. CASE MStopIdle
    BY <2>2 DEF MStopIdle, find_an_idle_child, Ours
  <2>3. CASE server_reconfigure
    BY <2>3 DEF server_reconfigure, Ours
  <2>4. CASE send_term_to_childs
    BY <2>4 DEF send_term_to_childs, Ours
  <2> QED
    BY <2>1, <2>2, <2>3, <2>4
<1>2. \A p \in Pids : slot'[p] = IF p \notin S THEN slot[p]
                                 ELSE [slot[p] EXCEPT !.father_said = m]
  BY <1>1 DEF Tell
<1>3. \A p \in S : p \in Pids /\ slot[p] \in Slot
  BY <1>1 DEF Ours, Registered, TypeOK
<1>4. ASSUME NEW p \in Pids
      PROVE  slot'[p] \in Slot \cup {Free} /\ (slot'[p] = Free <=> slot[p] = Free)
  <2>1. CASE p \in S
    <3>1. slot'[p] = [slot[p] EXCEPT !.father_said = m] /\ slot[p] \in Slot
      BY <1>2, <1>3, <2>1
    <3>2. slot'[p] \in Slot
      BY <1>1, <3>1, SlotFacts
    <3> QED
      BY <3>1, <3>2, FreeIsNoSlot
  <2>2. CASE p \notin S
    BY <1>2, <2>2 DEF TypeOK
  <2> QED
    BY <2>1, <2>2
<1>5. slot' = [p \in Pids |-> slot'[p]]
  BY <1>1 DEF Tell
<1>6. \A p \in Pids : slot'[p] # slot[p] => p \in Ours
  BY <1>1, <1>2
<1>7. sigterm' \in [Pids -> BOOLEAN]
  BY <1>1 DEF Tell, TypeOK
<1>8. \A p \in Pids : sigterm'[p] => sigterm[p] \/ state[p] = "run"
  BY <1>1 DEF Tell
<1> QED
  BY <1>4, <1>5, <1>6, <1>7, <1>8 DEF Orders

\* A turn of check_for_exited_childs takes one zombie out.
LEMMA ReapedOne ==
  ASSUME TypeOK, MReap
  PROVE  \E p \in Pids : Reaps(p)
<1>1. PICK p \in Pids : /\ state[p] = "zombie"
                        /\ state' = [state EXCEPT ![p] = "reaped"]
                        /\ Reaped(p)
  BY DEF MReap
<1>2. slot' \in {slot, [slot EXCEPT ![p] = Free]}
  BY <1>1 DEF Reaped
<1>3. slot'[p] # Free => queue_of[p] # childs_queue /\ queue_of[p] # old_childs_queue
  BY <1>1 DEF Reaped, TypeOK
<1>4. old_childs_queue' \in {old_childs_queue, NoQueue}
  BY <1>1 DEF Reaped
<1>5. old_childs_queue' # old_childs_queue =>
        \A c \in Pids \ {p} : slot[c] # Free => queue_of[c] # old_childs_queue
  BY <1>1 DEF Reaped, Registered
<1> QED
  BY <1>1, <1>2, <1>3, <1>4, <1>5 DEF MReap, Reaps

\* Whatever a child writes, father_said stays; register_child clears it.
LEMMA Written ==
  ASSUME TypeOK, SlotInv, NEW p \in Pids,
         \/ register_child(p) \/ Boot(p) \/ SigTerm(p) \/ Work(p)
         \/ ListenerEnds(p) \/ ParentClosed(p)
  PROVE  Writes(p)
<1>1. CASE register_child(p)
  <2> DEFINE s == [to_be_killed |-> "NO_KILL", father_said |-> "NO_KILL",
                   freeservers |-> THREADS_PER_CHILD, worn |-> FALSE]
  <2>1. s \in Slot /\ s.father_said = "NO_KILL"
    BY ConstantsAssumption DEF Slot
  <2>2. slot' = [slot EXCEPT ![p] = s] /\ slot[p] = Free
    BY <1>1 DEF register_child, SlotInv
  <2> QED
    BY <2>1, <2>2 DEF Writes
<1>2. CASE state[p] \in {"boot", "run"} /\ ~register_child(p)
  <2>1. slot[p] \in Slot
    BY <1>2 DEF SlotInv, TypeOK
  <2>2. PICK s \in Slot : slot' = [slot EXCEPT ![p] = s] /\ s.father_said = slot[p].father_said
    <3>1. CASE Boot(p)
      <4>1. slot = [slot EXCEPT ![p] = slot[p]]
        BY DEF TypeOK
      <4>2. slot' = slot \/ slot' = [slot EXCEPT ![p] = [slot[p] EXCEPT !.to_be_killed = "IMMEDIATELY"]]
        BY <3>1 DEF Boot
      <4> QED
        BY <2>1, <4>1, <4>2, SlotFacts
    <3>2. CASE SigTerm(p)
      <4>1. PICK m \in KILL_MODE : slot' = [slot EXCEPT ![p] = [slot[p] EXCEPT !.to_be_killed = m]]
        BY <3>2, <2>1 DEF SigTerm, Slot
      <4> QED
        BY <2>1, <4>1, SlotFacts
    <3>3. CASE Work(p)
      <4>1. PICK n \in 0 .. THREADS_PER_CHILD, w \in {slot[p].worn, MaxRequests} :
              slot' = [slot EXCEPT ![p] = [slot[p] EXCEPT !.freeservers = n, !.worn = w]]
        BY <3>3 DEF Work, ChildWrites
      <4>2. w \in BOOLEAN
        BY <2>1, <4>1, ConstantsAssumption DEF Slot
      <4> QED
        BY <2>1, <4>1, <4>2, SlotFacts
    <3>4. CASE ListenerEnds(p)
      BY <3>4, <2>1, SlotFacts DEF ListenerEnds, ChildWrites
    <3>5. CASE ParentClosed(p)
      BY <3>5, <2>1, SlotFacts DEF ParentClosed, ChildWrites
    <3> QED
      BY <1>2, <3>1, <3>2, <3>3, <3>4, <3>5
  <2> QED
    BY <2>1, <2>2, FreeIsNoSlot DEF Writes
<1> QED
  BY <1>1, <1>2 DEF Boot, SigTerm, Work, ListenerEnds, ParentClosed, SlotInv

\* Every step keeps the types.
LEMMA TypeStep == TypeOK /\ QueueOrder /\ SlotInv /\ [Next]_vars => TypeOK'
<1> SUFFICES ASSUME TypeOK, QueueOrder, SlotInv, [Next]_vars PROVE TypeOK'
  OBVIOUS
<1>1. CASE MStart
  <2>1. Forks
    BY <1>1, Started DEF MStart
  <2> QED
    BY <1>1, <2>1, ForkedTypes, ConstantsAssumption DEF TypeOK, queues, flags, MStart
<1>2. CASE MStarted
  BY <1>2, ConstantsAssumption, FreeIsNoSlot DEF TypeOK, QueueOrder, SlotInv, queues, flags, MStarted, MGoes
<1>3. CASE MWait
  BY <1>3, ConstantsAssumption, FreeIsNoSlot DEF TypeOK, QueueOrder, SlotInv, queues, flags, MWait, MGoes
<1>4. CASE MTest
  BY <1>4, ConstantsAssumption, FreeIsNoSlot DEF TypeOK, QueueOrder, SlotInv, queues, flags, MTest, MGoes
<1>5. CASE MReplace
  <2>1. Forks
    BY <1>5, Started DEF MReplace
  <2>2. Orders
    BY <1>5, Ordered DEF MReplace
  <2> QED
    BY <1>5, <2>1, <2>2, ForkedTypes DEF TypeOK, queues, flags, MReplace, Orders
<1>6. CASE MSpawn
  <2>1. Forks
    BY <1>6, Started DEF MSpawn
  <2> QED
    BY <1>6, <2>1, ForkedTypes, ConstantsAssumption DEF TypeOK, queues, flags, MSpawn
<1>7. CASE MStopIdle
  <2>1. Orders
    BY <1>7, Ordered DEF MStopIdle
  <2> QED
    BY <1>7, <2>1 DEF TypeOK, queues, flags, MStopIdle, Orders
<1>8. CASE MNothing
  BY <1>8, ConstantsAssumption, FreeIsNoSlot DEF TypeOK, QueueOrder, SlotInv, queues, flags, MNothing, MGoes
<1>9. CASE MReap
  <2>1. PICK p \in Pids : Reaps(p)
    BY <1>9, ReapedOne
  <2> QED
    <3>1. state' \in [Pids -> Alive \cup {"unborn", "zombie", "reaped"}]
      BY <2>1 DEF Reaps, TypeOK
    <3>2. slot' \in [Pids -> Slot \cup {Free}]
      BY <2>1 DEF Reaps, TypeOK
    <3>3. old_childs_queue' \in {NoQueue} \cup 0 .. Reconfigures
      BY <2>1 DEF Reaps, TypeOK
    <3>4. UNCHANGED <<queue_of, sigterm, childs_queue, flags, mpc, tostart, crashes, hups>>
      BY <2>1 DEF Reaps
    <3> QED
      BY <3>1, <3>2, <3>3, <3>4 DEF TypeOK, flags
<1>10. CASE MReapEnd
  BY <1>10, ConstantsAssumption, FreeIsNoSlot DEF TypeOK, QueueOrder, SlotInv, queues, flags, MReapEnd, MGoes
<1>11. CASE MNoReconf
  BY <1>11, ConstantsAssumption, FreeIsNoSlot DEF TypeOK, QueueOrder, SlotInv, queues, flags, MNoReconf, MGoes
<1>12. CASE MReconfIgnored
  BY <1>12, ConstantsAssumption, FreeIsNoSlot DEF TypeOK, QueueOrder, SlotInv, queues, flags, MReconfIgnored, MGoes
<1>13. CASE MReconfFails
  BY <1>13, ConstantsAssumption, FreeIsNoSlot DEF TypeOK, QueueOrder, SlotInv, queues, flags, MReconfFails, MGoes
<1>14. CASE server_reconfigure
  <2>1. Orders
    BY <1>14, Ordered
  <2>2. /\ childs_queue < Reconfigures
        /\ childs_queue' = childs_queue + 1 /\ old_childs_queue' = childs_queue
    BY <1>14, ConstantsAssumption DEF server_reconfigure, TypeOK, QueueOrder
  <2>3. tostart' = START_SERVERS /\ mpc' = "start" /\ c_icap_reconfigure' = FALSE
    BY <1>14 DEF server_reconfigure
  <2>4. UNCHANGED <<state, queue_of, c_icap_going_to_term, crashes, hups>>
    BY <1>14 DEF server_reconfigure
  <2>5. childs_queue' \in 0 .. Reconfigures /\ old_childs_queue' \in 0 .. Reconfigures
    BY <2>2, ConstantsAssumption DEF TypeOK
  <2>6. tostart' \in 0 .. START_SERVERS
    BY <2>3, ConstantsAssumption
  <2> QED
    BY <2>1, <2>3, <2>4, <2>5, <2>6 DEF TypeOK, Orders
<1>15. CASE send_term_to_childs
  <2>1. Orders
    BY <1>15, Ordered DEF send_term_to_childs
  <2> QED
    BY <1>15, <2>1 DEF TypeOK, queues, flags, send_term_to_childs, Orders
<1>16. CASE wait_childs_to_exit
  BY <1>16, ConstantsAssumption, FreeIsNoSlot DEF TypeOK, QueueOrder, SlotInv, queues, flags, wait_childs_to_exit, WaitedFor, Ours, Registered
<1>17. ASSUME NEW p \in Pids, Child(p) PROVE TypeOK'
  <2>1. CASE register_child(p)
    <3>1. Writes(p)
      BY <2>1, Written
    <3>2. /\ UNCHANGED <<queue_of, sigterm, queues, flags, mpc, tostart, crashes, hups>>
          /\ state[p] = "forked" /\ state' = [state EXCEPT ![p] = "boot"]
      BY <2>1 DEF register_child
    <3> QED
      BY <3>1, <3>2, ConstantsAssumption, FreeIsNoSlot DEF TypeOK, QueueOrder, SlotInv, queues, flags, Writes
  <2>2. CASE NoSlot(p)
    BY <2>2, ConstantsAssumption DEF TypeOK, QueueOrder, SlotInv, queues, flags, NoSlot, Dies
  <2>3. CASE Boot(p)
    <3>1. Writes(p)
      BY <2>3, Written
    <3>2. /\ UNCHANGED <<queue_of, sigterm, queues, flags, mpc, tostart, crashes, hups>>
          /\ state[p] = "boot" /\ state' = [state EXCEPT ![p] = "run"]
      BY <2>3 DEF Boot
    <3> QED
      BY <3>1, <3>2, ConstantsAssumption, FreeIsNoSlot DEF TypeOK, QueueOrder, SlotInv, queues, flags, Writes
  <2>4. CASE SigTerm(p)
    <3>1. Writes(p)
      BY <2>4, Written
    <3>2. /\ UNCHANGED <<state, queue_of, queues, flags, mpc, tostart, crashes, hups>>
          /\ sigterm[p] /\ sigterm' = [sigterm EXCEPT ![p] = FALSE]
      BY <2>4 DEF SigTerm
    <3> QED
      BY <3>1, <3>2, ConstantsAssumption, FreeIsNoSlot DEF TypeOK, QueueOrder, SlotInv, queues, flags, Writes
  <2>5. CASE Work(p)
    <3>1. Writes(p)
      BY <2>5, Written
    <3>2. /\ UNCHANGED <<state, queue_of, sigterm, queues, flags, mpc, tostart, crashes, hups>>
          /\ state[p] = "run"
      BY <2>5 DEF Work, ChildWrites
    <3> QED
      BY <3>1, <3>2, ConstantsAssumption, FreeIsNoSlot DEF TypeOK, QueueOrder, SlotInv, queues, flags, Writes
  <2>6. CASE ListenerEnds(p)
    <3>1. Writes(p)
      BY <2>6, Written
    <3>2. /\ UNCHANGED <<state, queue_of, sigterm, queues, flags, mpc, tostart, hups>>
          /\ state[p] = "run"
          /\ crashes > 0 /\ crashes' = crashes - 1
      BY <2>6 DEF ListenerEnds, ChildWrites
    <3> QED
      BY <3>1, <3>2, ConstantsAssumption, FreeIsNoSlot DEF TypeOK, QueueOrder, SlotInv, queues, flags, Writes
  <2>7. CASE Exit(p)
    BY <2>7, ConstantsAssumption DEF TypeOK, QueueOrder, SlotInv, queues, flags, Exit, Dies
  <2>8. CASE Crash(p)
    BY <2>8, ConstantsAssumption DEF TypeOK, QueueOrder, SlotInv, queues, flags, Crash, Dies
  <2>9. CASE ParentClosed(p)
    <3>1. Writes(p)
      BY <2>9, Written
    <3>2. /\ UNCHANGED <<state, queue_of, sigterm, queues, flags, mpc, tostart, crashes, hups>>
          /\ state[p] = "run"
      BY <2>9 DEF ParentClosed, ChildWrites
    <3> QED
      BY <3>1, <3>2, ConstantsAssumption, FreeIsNoSlot DEF TypeOK, QueueOrder, SlotInv, queues, flags, Writes
  <2> QED
    BY <1>17, <2>1, <2>2, <2>3, <2>4, <2>5, <2>6, <2>7, <2>8, <2>9 DEF Child
<1>18. CASE Stop
  BY <1>18, ConstantsAssumption DEF TypeOK, QueueOrder, SlotInv, queues, flags, Stop
<1>19. CASE Hup
  BY <1>19, ConstantsAssumption DEF TypeOK, QueueOrder, SlotInv, queues, flags, Hup
<1>20. CASE UNCHANGED vars
  BY <1>20 DEF TypeOK, QueueOrder, SlotInv, queues, flags, vars
<1> QED
  BY <1>1, <1>2, <1>3, <1>4, <1>5, <1>6, <1>7, <1>8, <1>9, <1>10, <1>11, <1>12, <1>13, <1>14, <1>15, <1>16, <1>17, <1>18, <1>19, <1>20 DEF Next, start_server

\* Every step keeps the order of the queues.
LEMMA OrderStep == TypeOK /\ QueueOrder /\ [Next]_vars => QueueOrder'
<1> SUFFICES ASSUME TypeOK, QueueOrder, [Next]_vars PROVE QueueOrder'
  OBVIOUS
<1>1. CASE MStart
  <2>1. Forks
    BY <1>1, Started DEF MStart
  <2> QED
    BY <1>1, <2>1, ForkedQueue DEF MStart
<1>2. CASE MStarted
  BY <1>2, ConstantsAssumption, FreeIsNoSlot DEF TypeOK, QueueOrder, queues, flags, MStarted, MGoes
<1>3. CASE MWait
  BY <1>3, ConstantsAssumption, FreeIsNoSlot DEF TypeOK, QueueOrder, queues, flags, MWait, MGoes
<1>4. CASE MTest
  BY <1>4, ConstantsAssumption, FreeIsNoSlot DEF TypeOK, QueueOrder, queues, flags, MTest, MGoes
<1>5. CASE MReplace
  <2>1. Forks
    BY <1>5, Started DEF MReplace
  <2> QED
    BY <1>5, <2>1, ForkedQueue DEF MReplace
<1>6. CASE MSpawn
  <2>1. Forks
    BY <1>6, Started DEF MSpawn
  <2> QED
    BY <1>6, <2>1, ForkedQueue DEF MSpawn
<1>7. CASE MStopIdle
  BY <1>7 DEF QueueOrder, queues, flags, MStopIdle
<1>8. CASE MNothing
  BY <1>8, ConstantsAssumption, FreeIsNoSlot DEF TypeOK, QueueOrder, queues, flags, MNothing, MGoes
<1>9. CASE MReap
  <2>1. PICK p \in Pids : Reaps(p)
    BY <1>9, ReapedOne
  <2> QED
    BY <2>1, ConstantsAssumption, FreeIsNoSlot DEF TypeOK, QueueOrder, queues, flags, Reaps
<1>10. CASE MReapEnd
  BY <1>10, ConstantsAssumption, FreeIsNoSlot DEF TypeOK, QueueOrder, queues, flags, MReapEnd, MGoes
<1>11. CASE MNoReconf
  BY <1>11, ConstantsAssumption, FreeIsNoSlot DEF TypeOK, QueueOrder, queues, flags, MNoReconf, MGoes
<1>12. CASE MReconfIgnored
  BY <1>12, ConstantsAssumption, FreeIsNoSlot DEF TypeOK, QueueOrder, queues, flags, MReconfIgnored, MGoes
<1>13. CASE MReconfFails
  BY <1>13, ConstantsAssumption, FreeIsNoSlot DEF TypeOK, QueueOrder, queues, flags, MReconfFails, MGoes
<1>14. CASE server_reconfigure
  <2>1. /\ childs_queue + hups < Reconfigures
        /\ childs_queue' = childs_queue + 1 /\ old_childs_queue' = childs_queue
    BY <1>14 DEF server_reconfigure, QueueOrder
  <2>2. c_icap_reconfigure' = FALSE /\ UNCHANGED <<queue_of, hups>>
    BY <1>14 DEF server_reconfigure
  <2>3. /\ childs_queue \in Nat /\ hups \in Nat /\ Reconfigures \in Nat
        /\ \A p \in Pids : queue_of[p] \in Nat
    <3>1. queue_of \in [Pids -> 0 .. Reconfigures] /\ childs_queue \in 0 .. Reconfigures
          /\ hups \in 0 .. Reconfigures
      BY DEF TypeOK
    <3> QED
      BY <3>1, ConstantsAssumption
  <2> QED
    BY <2>1, <2>2, <2>3 DEF QueueOrder
<1>15. CASE send_term_to_childs
  BY <1>15 DEF QueueOrder, queues, flags, send_term_to_childs
<1>16. CASE wait_childs_to_exit
  BY <1>16, ConstantsAssumption, FreeIsNoSlot DEF TypeOK, QueueOrder, queues, flags, wait_childs_to_exit, WaitedFor, Ours, Registered
<1>17. ASSUME NEW p \in Pids, Child(p) PROVE QueueOrder'
  <2>1. CASE register_child(p)
    BY <2>1, ConstantsAssumption DEF TypeOK, QueueOrder, queues, flags, register_child
  <2>2. CASE NoSlot(p)
    BY <2>2, ConstantsAssumption DEF TypeOK, QueueOrder, queues, flags, NoSlot, Dies
  <2>3. CASE Boot(p)
    BY <2>3, ConstantsAssumption DEF TypeOK, QueueOrder, queues, flags, Boot
  <2>4. CASE SigTerm(p)
    BY <2>4, ConstantsAssumption DEF TypeOK, QueueOrder, queues, flags, SigTerm
  <2>5. CASE Work(p)
    BY <2>5, ConstantsAssumption DEF TypeOK, QueueOrder, queues, flags, Work, ChildWrites
  <2>6. CASE ListenerEnds(p)
    BY <2>6, ConstantsAssumption DEF TypeOK, QueueOrder, queues, flags, ListenerEnds, ChildWrites
  <2>7. CASE Exit(p)
    BY <2>7, ConstantsAssumption DEF TypeOK, QueueOrder, queues, flags, Exit, Dies
  <2>8. CASE Crash(p)
    BY <2>8, ConstantsAssumption DEF TypeOK, QueueOrder, queues, flags, Crash, Dies
  <2>9. CASE ParentClosed(p)
    BY <2>9, ConstantsAssumption DEF TypeOK, QueueOrder, queues, flags, ParentClosed, ChildWrites
  <2> QED
    BY <1>17, <2>1, <2>2, <2>3, <2>4, <2>5, <2>6, <2>7, <2>8, <2>9 DEF Child
<1>18. CASE Stop
  BY <1>18, ConstantsAssumption DEF TypeOK, QueueOrder, queues, flags, Stop
<1>19. CASE Hup
  BY <1>19, ConstantsAssumption DEF TypeOK, QueueOrder, queues, flags, Hup
<1>20. CASE UNCHANGED vars
  BY <1>20 DEF TypeOK, QueueOrder, queues, flags, vars
<1> QED
  BY <1>1, <1>2, <1>3, <1>4, <1>5, <1>6, <1>7, <1>8, <1>9, <1>10, <1>11, <1>12, <1>13, <1>14, <1>15, <1>16, <1>17, <1>18, <1>19, <1>20 DEF Next, start_server

\* Every step keeps slots and processes together.
LEMMA SlotStep == TypeOK /\ QueueOrder /\ SlotInv /\ [Next]_vars => SlotInv'
<1> SUFFICES ASSUME TypeOK, QueueOrder, SlotInv, [Next]_vars PROVE SlotInv'
  OBVIOUS
<1>1. CASE MStart
  <2>1. Forks
    BY <1>1, Started DEF MStart
  <2> QED
    BY <1>1, <2>1, ForkedSlot DEF MStart
<1>2. CASE MStarted
  BY <1>2, ConstantsAssumption, FreeIsNoSlot DEF TypeOK, QueueOrder, SlotInv, queues, flags, MStarted, MGoes
<1>3. CASE MWait
  BY <1>3, ConstantsAssumption, FreeIsNoSlot DEF TypeOK, QueueOrder, SlotInv, queues, flags, MWait, MGoes
<1>4. CASE MTest
  BY <1>4, ConstantsAssumption, FreeIsNoSlot DEF TypeOK, QueueOrder, SlotInv, queues, flags, MTest, MGoes
<1>5. CASE MReplace
  <2>1. Forks
    BY <1>5, Started DEF MReplace
  <2>2. Orders
    BY <1>5, Ordered DEF MReplace
  <2> QED
    BY <1>5, <2>1, <2>2, ForkedSlot DEF MReplace
<1>6. CASE MSpawn
  <2>1. Forks
    BY <1>6, Started DEF MSpawn
  <2> QED
    BY <1>6, <2>1, ForkedSlot DEF MSpawn
<1>7. CASE MStopIdle
  <2>1. Orders
    BY <1>7, Ordered DEF MStopIdle
  <2> QED
    BY <1>7, <2>1, ConstantsAssumption DEF TypeOK, QueueOrder, SlotInv, queues, flags, MStopIdle, Orders, Ours, Registered
<1>8. CASE MNothing
  BY <1>8, ConstantsAssumption, FreeIsNoSlot DEF TypeOK, QueueOrder, SlotInv, queues, flags, MNothing, MGoes
<1>9. CASE MReap
  <2>1. PICK p \in Pids : Reaps(p)
    BY <1>9, ReapedOne
  <2> SUFFICES ASSUME NEW c \in Pids
               PROVE  /\ state'[c] \in {"unborn", "forked"} => slot'[c] = Free
                      /\ state'[c] \in {"boot", "run"} => slot'[c] # Free
                      /\ state'[c] = "reaped" /\ slot'[c] # Free =>
                           queue_of'[c] # childs_queue' /\ queue_of'[c] # old_childs_queue'
                      /\ sigterm'[c] => state'[c] = "run"
    BY DEF SlotInv
  <2>2. CASE c = p
    BY <2>1, <2>2 DEF TypeOK, SlotInv, Reaps
  <2>3. CASE c # p
    <3>1. /\ state'[c] = state[c] /\ slot'[c] = slot[c] /\ sigterm'[c] = sigterm[c]
          /\ queue_of'[c] = queue_of[c] /\ childs_queue' = childs_queue
          /\ old_childs_queue' \in {old_childs_queue, NoQueue}
      BY <2>1, <2>3 DEF TypeOK, Reaps
    <3>2. queue_of[c] # NoQueue
      <4>1. queue_of \in [Pids -> 0 .. Reconfigures]
        BY DEF TypeOK
      <4>2. queue_of[c] \in 0 .. Reconfigures
        BY <4>1
      <4> QED
        BY <4>2, ConstantsAssumption
    <3> QED
      BY <3>1, <3>2 DEF SlotInv
  <2> QED
    BY <2>2, <2>3
<1>10. CASE MReapEnd
  BY <1>10, ConstantsAssumption, FreeIsNoSlot DEF TypeOK, QueueOrder, SlotInv, queues, flags, MReapEnd, MGoes
<1>11. CASE MNoReconf
  BY <1>11, ConstantsAssumption, FreeIsNoSlot DEF TypeOK, QueueOrder, SlotInv, queues, flags, MNoReconf, MGoes
<1>12. CASE MReconfIgnored
  BY <1>12, ConstantsAssumption, FreeIsNoSlot DEF TypeOK, QueueOrder, SlotInv, queues, flags, MReconfIgnored, MGoes
<1>13. CASE MReconfFails
  BY <1>13, ConstantsAssumption, FreeIsNoSlot DEF TypeOK, QueueOrder, SlotInv, queues, flags, MReconfFails, MGoes
<1>14. CASE server_reconfigure
  <2>1. Orders
    BY <1>14, Ordered DEF server_reconfigure
  <2> QED
    BY <1>14, <2>1, ConstantsAssumption DEF TypeOK, QueueOrder, SlotInv, queues, flags, server_reconfigure, Orders, Ours, Registered
<1>15. CASE send_term_to_childs
  <2>1. Orders
    BY <1>15, Ordered DEF send_term_to_childs
  <2> QED
    BY <1>15, <2>1, ConstantsAssumption DEF TypeOK, QueueOrder, SlotInv, queues, flags, send_term_to_childs, Orders, Ours, Registered
<1>16. CASE wait_childs_to_exit
  BY <1>16, ConstantsAssumption, FreeIsNoSlot DEF TypeOK, QueueOrder, SlotInv, queues, flags, wait_childs_to_exit, WaitedFor, Ours, Registered
<1>17. ASSUME NEW p \in Pids, Child(p) PROVE SlotInv'
  <2>1. CASE register_child(p)
    <3>1. Writes(p)
      BY <2>1, Written
    <3>2. /\ UNCHANGED <<queue_of, sigterm, queues, flags, mpc, tostart, crashes, hups>>
          /\ state[p] = "forked" /\ state' = [state EXCEPT ![p] = "boot"]
      BY <2>1 DEF register_child
    <3> QED
      BY <3>1, <3>2, ConstantsAssumption, FreeIsNoSlot DEF TypeOK, QueueOrder, SlotInv, queues, flags, Writes
  <2>2. CASE NoSlot(p)
    BY <2>2, ConstantsAssumption DEF TypeOK, QueueOrder, SlotInv, queues, flags, NoSlot, Dies
  <2>3. CASE Boot(p)
    <3>1. Writes(p)
      BY <2>3, Written
    <3>2. /\ UNCHANGED <<queue_of, sigterm, queues, flags, mpc, tostart, crashes, hups>>
          /\ state[p] = "boot" /\ state' = [state EXCEPT ![p] = "run"]
      BY <2>3 DEF Boot
    <3> QED
      BY <3>1, <3>2, ConstantsAssumption, FreeIsNoSlot DEF TypeOK, QueueOrder, SlotInv, queues, flags, Writes
  <2>4. CASE SigTerm(p)
    <3>1. Writes(p)
      BY <2>4, Written
    <3>2. /\ UNCHANGED <<state, queue_of, queues, flags, mpc, tostart, crashes, hups>>
          /\ sigterm[p] /\ sigterm' = [sigterm EXCEPT ![p] = FALSE]
      BY <2>4 DEF SigTerm
    <3> QED
      BY <3>1, <3>2, ConstantsAssumption, FreeIsNoSlot DEF TypeOK, QueueOrder, SlotInv, queues, flags, Writes
  <2>5. CASE Work(p)
    <3>1. Writes(p)
      BY <2>5, Written
    <3>2. /\ UNCHANGED <<state, queue_of, sigterm, queues, flags, mpc, tostart, crashes, hups>>
          /\ state[p] = "run"
      BY <2>5 DEF Work, ChildWrites
    <3> QED
      BY <3>1, <3>2, ConstantsAssumption, FreeIsNoSlot DEF TypeOK, QueueOrder, SlotInv, queues, flags, Writes
  <2>6. CASE ListenerEnds(p)
    <3>1. Writes(p)
      BY <2>6, Written
    <3>2. /\ UNCHANGED <<state, queue_of, sigterm, queues, flags, mpc, tostart, hups>>
          /\ state[p] = "run"
          /\ crashes > 0 /\ crashes' = crashes - 1
      BY <2>6 DEF ListenerEnds, ChildWrites
    <3> QED
      BY <3>1, <3>2, ConstantsAssumption, FreeIsNoSlot DEF TypeOK, QueueOrder, SlotInv, queues, flags, Writes
  <2>7. CASE Exit(p)
    BY <2>7, ConstantsAssumption DEF TypeOK, QueueOrder, SlotInv, queues, flags, Exit, Dies
  <2>8. CASE Crash(p)
    BY <2>8, ConstantsAssumption DEF TypeOK, QueueOrder, SlotInv, queues, flags, Crash, Dies
  <2>9. CASE ParentClosed(p)
    <3>1. Writes(p)
      BY <2>9, Written
    <3>2. /\ UNCHANGED <<state, queue_of, sigterm, queues, flags, mpc, tostart, crashes, hups>>
          /\ state[p] = "run"
      BY <2>9 DEF ParentClosed, ChildWrites
    <3> QED
      BY <3>1, <3>2, ConstantsAssumption, FreeIsNoSlot DEF TypeOK, QueueOrder, SlotInv, queues, flags, Writes
  <2> QED
    BY <1>17, <2>1, <2>2, <2>3, <2>4, <2>5, <2>6, <2>7, <2>8, <2>9 DEF Child
<1>18. CASE Stop
  BY <1>18, ConstantsAssumption DEF TypeOK, QueueOrder, SlotInv, queues, flags, Stop
<1>19. CASE Hup
  BY <1>19, ConstantsAssumption DEF TypeOK, QueueOrder, SlotInv, queues, flags, Hup
<1>20. CASE UNCHANGED vars
  BY <1>20 DEF TypeOK, QueueOrder, SlotInv, queues, flags, vars
<1> QED
  BY <1>1, <1>2, <1>3, <1>4, <1>5, <1>6, <1>7, <1>8, <1>9, <1>10, <1>11, <1>12, <1>13, <1>14, <1>15, <1>16, <1>17, <1>18, <1>19, <1>20 DEF Next, start_server

\* No step takes the queue from a child that was told to go.
LEMMA ToldStep == TypeOK /\ QueueOrder /\ SlotInv /\ ToldKeepQueue /\ [Next]_vars => ToldKeepQueue'
<1> SUFFICES ASSUME TypeOK, QueueOrder, SlotInv, ToldKeepQueue, [Next]_vars PROVE ToldKeepQueue'
  OBVIOUS
<1>1. CASE MStart
  <2>1. Forks
    BY <1>1, Started DEF MStart
  <2> QED
    BY <1>1, <2>1, ConstantsAssumption DEF TypeOK, QueueOrder, SlotInv, ToldKeepQueue, queues, flags, MStart, Forks
<1>2. CASE MStarted
  BY <1>2, ConstantsAssumption, FreeIsNoSlot DEF TypeOK, QueueOrder, SlotInv, ToldKeepQueue, queues, flags, MStarted, MGoes
<1>3. CASE MWait
  BY <1>3, ConstantsAssumption, FreeIsNoSlot DEF TypeOK, QueueOrder, SlotInv, ToldKeepQueue, queues, flags, MWait, MGoes
<1>4. CASE MTest
  BY <1>4, ConstantsAssumption, FreeIsNoSlot DEF TypeOK, QueueOrder, SlotInv, ToldKeepQueue, queues, flags, MTest, MGoes
<1>5. CASE MReplace
  <2> SUFFICES ASSUME NEW c \in Pids, state'[c] \in {"boot", "run"},
                      queue_of'[c] < childs_queue', slot'[c].father_said # "NO_KILL"
               PROVE  queue_of'[c] = old_childs_queue'
    BY DEF ToldKeepQueue
  <2>1. Orders
    BY <1>5, Ordered
  <2>2. Forks /\ UNCHANGED queues
    BY <1>5, Started DEF MReplace
  <2>3. state'[c] = state[c] /\ queue_of'[c] = queue_of[c]
    BY <2>2 DEF Forks, TypeOK
  <2>4. CASE slot'[c] = slot[c]
    BY <2>2, <2>3, <2>4 DEF ToldKeepQueue, queues
  <2>5. CASE c \in Ours
    BY <2>2, <2>3, <2>5 DEF TypeOK, Ours, Registered, queues
  <2> QED
    BY <2>1, <2>4, <2>5 DEF Orders
<1>6. CASE MSpawn
  <2>1. Forks
    BY <1>6, Started DEF MSpawn
  <2> QED
    BY <1>6, <2>1, ConstantsAssumption DEF TypeOK, QueueOrder, SlotInv, ToldKeepQueue, queues, flags, MSpawn, Forks
<1>7. CASE MStopIdle
  <2> SUFFICES ASSUME NEW c \in Pids, state'[c] \in {"boot", "run"},
                      queue_of'[c] < childs_queue', slot'[c].father_said # "NO_KILL"
               PROVE  queue_of'[c] = old_childs_queue'
    BY DEF ToldKeepQueue
  <2>1. Orders
    BY <1>7, Ordered
  <2>2. UNCHANGED <<queue_of, queues>> /\ state'[c] = state[c]
    BY <1>7 DEF MStopIdle
  <2>3. CASE slot'[c] = slot[c]
    BY <2>2, <2>3 DEF ToldKeepQueue, queues
  <2>4. CASE c \in Ours
    BY <2>2, <2>4 DEF TypeOK, Ours, Registered, queues
  <2> QED
    BY <2>1, <2>3, <2>4 DEF Orders
<1>8. CASE MNothing
  BY <1>8, ConstantsAssumption, FreeIsNoSlot DEF TypeOK, QueueOrder, SlotInv, ToldKeepQueue, queues, flags, MNothing, MGoes
<1>9. CASE MReap
  <2>1. PICK p \in Pids : Reaps(p)
    BY <1>9, ReapedOne
  <2> QED
    <3> SUFFICES ASSUME NEW c \in Pids, state'[c] \in {"boot", "run"},
                        queue_of'[c] < childs_queue', slot'[c].father_said # "NO_KILL"
                 PROVE  queue_of'[c] = old_childs_queue'
      BY DEF ToldKeepQueue
    <3>1. c # p
      BY <2>1 DEF Reaps, TypeOK
    <3>2. /\ state'[c] = state[c] /\ slot'[c] = slot[c]
          /\ queue_of'[c] = queue_of[c] /\ childs_queue' = childs_queue
      BY <2>1, <3>1 DEF Reaps, TypeOK
    <3>3. queue_of[c] = old_childs_queue /\ slot[c] # Free
      BY <3>2 DEF ToldKeepQueue, SlotInv
    <3> QED
      BY <2>1, <3>1, <3>2, <3>3 DEF Reaps
<1>10. CASE MReapEnd
  BY <1>10, ConstantsAssumption, FreeIsNoSlot DEF TypeOK, QueueOrder, SlotInv, ToldKeepQueue, queues, flags, MReapEnd, MGoes
<1>11. CASE MNoReconf
  BY <1>11, ConstantsAssumption, FreeIsNoSlot DEF TypeOK, QueueOrder, SlotInv, ToldKeepQueue, queues, flags, MNoReconf, MGoes
<1>12. CASE MReconfIgnored
  BY <1>12, ConstantsAssumption, FreeIsNoSlot DEF TypeOK, QueueOrder, SlotInv, ToldKeepQueue, queues, flags, MReconfIgnored, MGoes
<1>13. CASE MReconfFails
  BY <1>13, ConstantsAssumption, FreeIsNoSlot DEF TypeOK, QueueOrder, SlotInv, ToldKeepQueue, queues, flags, MReconfFails, MGoes
<1>14. CASE server_reconfigure
  <2> SUFFICES ASSUME NEW c \in Pids, state'[c] \in {"boot", "run"},
                      queue_of'[c] < childs_queue', slot'[c].father_said # "NO_KILL"
               PROVE  queue_of'[c] = old_childs_queue'
    BY DEF ToldKeepQueue
  <2>1. Orders
    BY <1>14, Ordered
  <2>2. /\ UNCHANGED <<state, queue_of>> /\ old_childs_queue = NoQueue
        /\ childs_queue' = childs_queue + 1 /\ old_childs_queue' = childs_queue
    BY <1>14 DEF server_reconfigure
  <2>3. queue_of[c] \in Nat /\ childs_queue \in Nat /\ queue_of[c] <= childs_queue
    BY ConstantsAssumption DEF TypeOK, QueueOrder
  <2>4. CASE slot'[c] = slot[c] /\ queue_of[c] < childs_queue
    BY <2>2, <2>3, <2>4 DEF ToldKeepQueue
  <2>5. CASE c \in Ours
    BY <2>2, <2>3, <2>5 DEF Ours, Registered
  <2> QED
    BY <2>1, <2>2, <2>3, <2>4, <2>5 DEF Orders
<1>15. CASE send_term_to_childs
  <2> SUFFICES ASSUME NEW c \in Pids, state'[c] \in {"boot", "run"},
                      queue_of'[c] < childs_queue', slot'[c].father_said # "NO_KILL"
               PROVE  queue_of'[c] = old_childs_queue'
    BY DEF ToldKeepQueue
  <2>1. Orders
    BY <1>15, Ordered
  <2>2. UNCHANGED <<queue_of, queues>> /\ state'[c] = state[c]
    BY <1>15 DEF send_term_to_childs
  <2>3. CASE slot'[c] = slot[c]
    BY <2>2, <2>3 DEF ToldKeepQueue, queues
  <2>4. CASE c \in Ours
    BY <2>2, <2>4 DEF TypeOK, Ours, Registered, queues
  <2> QED
    BY <2>1, <2>3, <2>4 DEF Orders
<1>16. CASE wait_childs_to_exit
  BY <1>16, ConstantsAssumption, FreeIsNoSlot DEF TypeOK, QueueOrder, SlotInv, ToldKeepQueue, queues, flags, wait_childs_to_exit, WaitedFor, Ours, Registered
<1>17. ASSUME NEW p \in Pids, Child(p) PROVE ToldKeepQueue'
  <2>1. CASE register_child(p)
    <3>1. Writes(p)
      BY <2>1, Written
    <3>2. /\ UNCHANGED <<queue_of, sigterm, queues, flags, mpc, tostart, crashes, hups>>
          /\ state[p] = "forked" /\ state' = [state EXCEPT ![p] = "boot"]
      BY <2>1 DEF register_child
    <3> QED
      BY <3>1, <3>2, ConstantsAssumption, FreeIsNoSlot DEF TypeOK, QueueOrder, SlotInv, ToldKeepQueue, queues, flags, Writes
  <2>2. CASE NoSlot(p)
    BY <2>2, ConstantsAssumption DEF TypeOK, QueueOrder, SlotInv, ToldKeepQueue, queues, flags, NoSlot, Dies
  <2>3. CASE Boot(p)
    <3>1. Writes(p)
      BY <2>3, Written
    <3>2. /\ UNCHANGED <<queue_of, sigterm, queues, flags, mpc, tostart, crashes, hups>>
          /\ state[p] = "boot" /\ state' = [state EXCEPT ![p] = "run"]
      BY <2>3 DEF Boot
    <3> QED
      BY <3>1, <3>2, ConstantsAssumption, FreeIsNoSlot DEF TypeOK, QueueOrder, SlotInv, ToldKeepQueue, queues, flags, Writes
  <2>4. CASE SigTerm(p)
    <3>1. Writes(p)
      BY <2>4, Written
    <3>2. /\ UNCHANGED <<state, queue_of, queues, flags, mpc, tostart, crashes, hups>>
          /\ sigterm[p] /\ sigterm' = [sigterm EXCEPT ![p] = FALSE]
      BY <2>4 DEF SigTerm
    <3> QED
      BY <3>1, <3>2, ConstantsAssumption, FreeIsNoSlot DEF TypeOK, QueueOrder, SlotInv, ToldKeepQueue, queues, flags, Writes
  <2>5. CASE Work(p)
    <3>1. Writes(p)
      BY <2>5, Written
    <3>2. /\ UNCHANGED <<state, queue_of, sigterm, queues, flags, mpc, tostart, crashes, hups>>
          /\ state[p] = "run"
      BY <2>5 DEF Work, ChildWrites
    <3> QED
      BY <3>1, <3>2, ConstantsAssumption, FreeIsNoSlot DEF TypeOK, QueueOrder, SlotInv, ToldKeepQueue, queues, flags, Writes
  <2>6. CASE ListenerEnds(p)
    <3>1. Writes(p)
      BY <2>6, Written
    <3>2. /\ UNCHANGED <<state, queue_of, sigterm, queues, flags, mpc, tostart, hups>>
          /\ state[p] = "run"
          /\ crashes > 0 /\ crashes' = crashes - 1
      BY <2>6 DEF ListenerEnds, ChildWrites
    <3> QED
      BY <3>1, <3>2, ConstantsAssumption, FreeIsNoSlot DEF TypeOK, QueueOrder, SlotInv, ToldKeepQueue, queues, flags, Writes
  <2>7. CASE Exit(p)
    BY <2>7, ConstantsAssumption DEF TypeOK, QueueOrder, SlotInv, ToldKeepQueue, queues, flags, Exit, Dies
  <2>8. CASE Crash(p)
    BY <2>8, ConstantsAssumption DEF TypeOK, QueueOrder, SlotInv, ToldKeepQueue, queues, flags, Crash, Dies
  <2>9. CASE ParentClosed(p)
    <3>1. Writes(p)
      BY <2>9, Written
    <3>2. /\ UNCHANGED <<state, queue_of, sigterm, queues, flags, mpc, tostart, crashes, hups>>
          /\ state[p] = "run"
      BY <2>9 DEF ParentClosed, ChildWrites
    <3> QED
      BY <3>1, <3>2, ConstantsAssumption, FreeIsNoSlot DEF TypeOK, QueueOrder, SlotInv, ToldKeepQueue, queues, flags, Writes
  <2> QED
    BY <1>17, <2>1, <2>2, <2>3, <2>4, <2>5, <2>6, <2>7, <2>8, <2>9 DEF Child
<1>18. CASE Stop
  BY <1>18, ConstantsAssumption DEF TypeOK, QueueOrder, SlotInv, ToldKeepQueue, queues, flags, Stop
<1>19. CASE Hup
  BY <1>19, ConstantsAssumption DEF TypeOK, QueueOrder, SlotInv, ToldKeepQueue, queues, flags, Hup
<1>20. CASE UNCHANGED vars
  BY <1>20 DEF TypeOK, QueueOrder, SlotInv, ToldKeepQueue, queues, flags, vars
<1> QED
  BY <1>1, <1>2, <1>3, <1>4, <1>5, <1>6, <1>7, <1>8, <1>9, <1>10, <1>11, <1>12, <1>13, <1>14, <1>15, <1>16, <1>17, <1>18, <1>19, <1>20 DEF Next, start_server


\* The monitor starts in a state of the invariant.
LEMMA InvInit == Init => IInv
<1> SUFFICES ASSUME Init PROVE IInv
  OBVIOUS
<1>1. TypeOK
  <2>1. /\ Reconfigures \in Nat /\ Crashes \in Nat
        /\ START_SERVERS \in Nat
    BY ConstantsAssumption
  <2>2. 0 \in 0 .. Reconfigures /\ Reconfigures \in 0 .. Reconfigures
    BY <2>1
  <2>3. Crashes \in 0 .. Crashes /\ START_SERVERS \in 0 .. START_SERVERS
    BY <2>1
  <2> QED
    BY <2>2, <2>3 DEF Init, TypeOK
<1>2. QueueOrder
  BY ConstantsAssumption DEF Init, QueueOrder
<1>3. SlotInv
  BY DEF Init, SlotInv
<1>4. ToldKeepQueue
  BY DEF Init, ToldKeepQueue
<1> QED
  BY <1>1, <1>2, <1>3, <1>4 DEF IInv

\* The inductive invariant.
LEMMA InvAlways == Spec => []IInv
<1>1. IInv /\ [Next]_vars => IInv'
  BY TypeStep, OrderStep, SlotStep, ToldStep DEF IInv
<1> QED
  BY InvInit, <1>1, PTL DEF Spec

(* Slots, queues and processes agree (QueuesTrue), with any number of        *)
(* processes and whatever crashes, registers late or is reconfigured away:   *)
(* check_for_exited_childs leaves no slot of a process it has waited for in  *)
(* a queue it still has, and it does not release the old queue while a child *)
(* that server_reconfigure told to go runs with it.                          *)
THEOREM QueuesAlways == Spec => []QueuesTrue
<1>1. IInv => QueuesTrue
  <2> SUFFICES ASSUME IInv PROVE QueuesTrue
    OBVIOUS
  <2>1. NoGhostSlots
    BY DEF IInv, TypeOK, SlotInv, NoGhostSlots, Ours, Registered
  <2> QED
    BY <2>1 DEF IInv, QueuesTrue
<1> QED
  BY <1>1, InvAlways, PTL
=============================================================================
