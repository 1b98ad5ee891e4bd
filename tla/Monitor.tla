------------------------------ MODULE Monitor ------------------------------
(* The monitor process of c-icap (start_server of mpmt_server.c) and the    *)
(* children queue it shares with its children (proc_threads_queues.c): how  *)
(* children are forked, registered, told to go down, reaped and replaced,   *)
(* what a reconfiguration does to them and how the server is stopped.       *)
(* A child is seen from outside, by what it does to its slot; its threads   *)
(* are in ChildServer.                                                      *)
EXTENDS Integers, FiniteSets, FiniteSetsExt

CONSTANTS
  Processes,          \* how many forks succeed; the next fork() returns -1
  MAX_SERVERS, START_SERVERS,
  MIN_SPARE_THREADS, MAX_SPARE_THREADS,
  THREADS_PER_CHILD,
  Crashes,            \* how many children die of something else than an order
  Reconfigures,       \* how many SIGHUPs or "reconfigure" commands arrive
  Stops,              \* may SIGTERM, SIGINT or the "stop" command arrive?
  MaxRequests         \* is MAX_REQUESTS_PER_CHILD set (and reachable)?

Pids == 1 .. Processes

ASSUME ConstantsAssumption ==
  /\ {Processes, MAX_SERVERS, THREADS_PER_CHILD} \subseteq Nat \ {0}
  /\ {MIN_SPARE_THREADS, MAX_SPARE_THREADS, Crashes, Reconfigures} \subseteq Nat
  /\ START_SERVERS \in 1 .. MAX_SERVERS
  /\ {Stops, MaxRequests} \subseteq BOOLEAN

NoQueue == -1

KILL_MODE == {"NO_KILL", "GRACEFULLY", "IMMEDIATELY"}

VARIABLES
  state,          \* where a process is between its fork and its wait
  queue_of,       \* the children queue the process inherited from the fork
  slot,           \* the slot of that queue with its pid, or Free
  sigterm,        \* a SIGTERM of the monitor is on its way to the process
  childs_queue, old_childs_queue,           \* queues, by the order of creation
  c_icap_going_to_term, c_icap_reconfigure, \* set by signals and commands
  mpc,            \* where the monitor is in start_server
  tostart,        \* children its start loop has still to start
  crashes, hups   \* what is left of the bounds

queues == <<childs_queue, old_childs_queue>>
flags == <<c_icap_going_to_term, c_icap_reconfigure>>
vars == <<state, queue_of, slot, sigterm, queues, flags, mpc, tostart,
          crashes, hups>>

\* child_shared_data_t; worn stands for requests > MAX_REQUESTS_PER_CHILD.
Slot ==
  [to_be_killed : KILL_MODE, father_said : KILL_MODE,
   freeservers : 0 .. THREADS_PER_CHILD, worn : BOOLEAN]

Free == [to_be_killed |-> "no_slot"]

Alive == {"forked", "boot", "run"}

TypeOK ==
  /\ state \in [Pids -> Alive \cup {"unborn", "zombie", "reaped"}]
  /\ queue_of \in [Pids -> 0 .. Reconfigures]
  /\ slot \in [Pids -> Slot \cup {Free}]
  /\ sigterm \in [Pids -> BOOLEAN]
  /\ childs_queue \in 0 .. Reconfigures
  /\ old_childs_queue \in {NoQueue} \cup 0 .. Reconfigures
  /\ c_icap_going_to_term \in BOOLEAN
  /\ c_icap_reconfigure \in BOOLEAN
  /\ mpc \in {"start", "wait", "test", "policy", "check", "reap", "reconf",
              "kill", "killwait", "down"}
  /\ tostart \in 0 .. START_SERVERS
  /\ crashes \in 0 .. Crashes
  /\ hups \in 0 .. Reconfigures

Init ==
  /\ state = [p \in Pids |-> "unborn"]
  /\ queue_of = [p \in Pids |-> 0]
  /\ slot = [p \in Pids |-> Free]
  /\ sigterm = [p \in Pids |-> FALSE]
  /\ childs_queue = 0
  /\ old_childs_queue = NoQueue
  /\ c_icap_going_to_term = FALSE
  /\ c_icap_reconfigure = FALSE
  /\ mpc = "start"
  /\ tostart = START_SERVERS
  /\ crashes = Crashes
  /\ hups = Reconfigures

-----------------------------------------------------------------------------
\* The children queue.

\* The processes that have a slot in queue q (q->childs[i].pid != 0).
Registered(q) == {p \in Pids : slot[p] # Free /\ queue_of[p] = q}

\* childs_queue_stats counts the children that have not been told to die.
Counted == {p \in Registered(childs_queue) : slot[p].to_be_killed = "NO_KILL"}

childs == Cardinality(Counted)

free == MapThenSumSet(LAMBDA p : slot[p].freeservers, Counted)

\* The find_ functions give up when a child of the queue is going down.
DeathPending ==
  \E p \in Registered(childs_queue) : slot[p].to_be_killed # "NO_KILL"

find_a_child_nrequests ==
  IF ~MaxRequests \/ DeathPending THEN {}
  ELSE {p \in Registered(childs_queue) : slot[p].worn}

find_an_idle_child ==
  IF DeathPending THEN {}
  ELSE {p \in Registered(childs_queue) :
          slot[p].freeservers = THREADS_PER_CHILD}

\* fork(): the process inherits the current childs_queue.
start_child ==
  LET Unborn == {p \in Pids : state[p] = "unborn"}
  IN IF Unborn = {} THEN UNCHANGED <<state, queue_of>>
     ELSE /\ state' = [state EXCEPT ![Min(Unborn)] = "forked"]
          /\ queue_of' = [queue_of EXCEPT ![Min(Unborn)] = childs_queue]

\* father_said is written and SIGTERM sent, to every process of S. A process
\* that still ignores SIGTERM, or is a zombie, never sees it.
Tell(S, mode) ==
  /\ slot' = [p \in Pids |-> IF p \notin S THEN slot[p]
                            ELSE [slot[p] EXCEPT !.father_said = mode]]
  /\ sigterm' = [p \in Pids |-> sigterm[p] \/ (p \in S /\ state[p] = "run")]

-----------------------------------------------------------------------------
\* A child, from its first instruction to its exit.

\* register_child takes a free slot and overwrites all of its fields.
register_child(p) ==
  /\ state[p] = "forked"
  /\ Cardinality(Registered(queue_of[p])) < 2 * MAX_SERVERS
  /\ state' = [state EXCEPT ![p] = "boot"]
  /\ slot' = [slot EXCEPT ![p] =
       [to_be_killed |-> "NO_KILL", father_said |-> "NO_KILL",
        freeservers |-> THREADS_PER_CHILD, worn |-> FALSE]]
  /\ UNCHANGED <<queue_of, sigterm, queues, flags, mpc, tostart, crashes,
                 hups>>

\* The threads are up, SIGTERM is no longer ignored, father_said is looked at.
Boot(p) ==
  /\ state[p] = "boot"
  /\ state' = [state EXCEPT ![p] = "run"]
  /\ slot' = IF slot[p].father_said = "NO_KILL" THEN slot
             ELSE [slot EXCEPT ![p].to_be_killed = "IMMEDIATELY"]
  /\ UNCHANGED <<queue_of, sigterm, queues, flags, mpc, tostart, crashes,
                 hups>>

SigTerm_unasked(p) ==
  /\ sigterm[p]
  /\ sigterm' = [sigterm EXCEPT ![p] = FALSE]
  /\ slot' = [slot EXCEPT ![p].to_be_killed =
                IF slot[p].father_said = "NO_KILL" THEN "IMMEDIATELY" ELSE @]
  /\ UNCHANGED <<state, queue_of, queues, flags, mpc, tostart, crashes, hups>>

\* term_handler_child.
SigTerm(p) ==
  /\ sigterm[p]
  /\ sigterm' = [sigterm EXCEPT ![p] = FALSE]
  /\ slot' = [slot EXCEPT ![p].to_be_killed =
                 IF slot[p].father_said = "NO_KILL" THEN "IMMEDIATELY"
                 ELSE slot[p].father_said]
  /\ UNCHANGED <<state, queue_of, queues, flags, mpc, tostart, crashes, hups>>

\* A running child writes something else into its slot.
ChildWrites(p, s) ==
  /\ s # slot[p]
  /\ slot' = [slot EXCEPT ![p] = s]
  /\ UNCHANGED <<state, queue_of, sigterm, queues, flags, mpc, tostart, hups>>

\* Requests come and go: the counters of the slot move.
Work(p) ==
  /\ state[p] = "run"
  /\ \E n \in 0 .. THREADS_PER_CHILD, w \in {slot[p].worn, MaxRequests} :
       ChildWrites(p, [slot[p] EXCEPT !.freeservers = n, !.worn = w])
  /\ UNCHANGED crashes

\* The listener thread has ended by itself: the child goes down gracefully.
ListenerEnds(p) ==
  /\ state[p] = "run" /\ slot[p].to_be_killed = "NO_KILL" /\ crashes > 0
  /\ crashes' = crashes - 1
  /\ ChildWrites(p, [slot[p] EXCEPT !.to_be_killed = "GRACEFULLY"])

\* The process ends; its slot stays and a signal on its way to it is lost.
Dies(p) ==
  /\ state' = [state EXCEPT ![p] = "zombie"]
  /\ sigterm' = [sigterm EXCEPT ![p] = FALSE]
  /\ UNCHANGED <<queue_of, slot, queues, flags, mpc, tostart, hups>>

\* No free slot: exit(-3).
NoSlot(p) ==
  /\ state[p] = "forked"
  /\ Cardinality(Registered(queue_of[p])) >= 2 * MAX_SERVERS
  /\ Dies(p) /\ UNCHANGED crashes

\* child_main leaves its loop, cancel_all_threads returns and the child exits.
Exit(p) ==
  /\ state[p] = "run" /\ slot[p].to_be_killed # "NO_KILL"
  /\ Dies(p) /\ UNCHANGED crashes

\* The child fails to start (exit(-1), exit(-2)) or is killed by a signal.
Crash(p) ==
  /\ state[p] \in Alive /\ crashes > 0
  /\ crashes' = crashes - 1
  /\ Dies(p)

ParentClosed_ignored(p) == FALSE /\ UNCHANGED vars

\* The monitor is gone: end of file on the child's pipe. A child holds the
\* write ends of the pipes of all the children forked before it.
ParentClosed(p) ==
  /\ mpc = "down"
  /\ \A c \in Pids : c > p => state[c] \notin Alive
  /\ state[p] = "run"
  /\ ChildWrites(p, [slot[p] EXCEPT !.to_be_killed = "IMMEDIATELY"])
  /\ UNCHANGED crashes

Child(p) ==
  \/ register_child(p) \/ NoSlot(p) \/ Boot(p) \/ SigTerm(p) \/ Work(p)
  \/ ListenerEnds(p) \/ Exit(p) \/ Crash(p) \/ ParentClosed(p)

-----------------------------------------------------------------------------
\* Signals to the monitor and commands on its control socket.

Stop ==
  /\ Stops /\ ~c_icap_going_to_term /\ mpc # "down"
  /\ c_icap_going_to_term' = TRUE
  /\ UNCHANGED <<state, queue_of, slot, sigterm, queues, c_icap_reconfigure,
                 mpc, tostart, crashes, hups>>

Hup ==
  /\ hups > 0 /\ ~c_icap_reconfigure /\ mpc # "down"
  /\ hups' = hups - 1
  /\ c_icap_reconfigure' = TRUE
  /\ UNCHANGED <<state, queue_of, slot, sigterm, queues, c_icap_going_to_term,
                 mpc, tostart, crashes>>

-----------------------------------------------------------------------------
\* The monitor.

\* A step that moves the monitor and leaves the processes alone.
MGoes(pc) ==
  /\ mpc' = pc
  /\ UNCHANGED <<state, queue_of, slot, sigterm, queues, tostart, crashes,
                 hups>>

\* The loop that starts START_SERVERS children, at start and on reconfigure.
MStart ==
  /\ mpc = "start" /\ tostart > 0
  /\ start_child
  /\ tostart' = tostart - 1
  /\ UNCHANGED <<slot, sigterm, queues, flags, mpc, crashes, hups>>

MStarted ==
  /\ mpc = "start" /\ tostart = 0
  /\ MGoes("wait") /\ UNCHANGED flags

\* wait_for_commands returns after a second or with a command.
MWait ==
  /\ mpc = "wait"
  /\ MGoes("test") /\ UNCHANGED flags

\* The two tests of c_icap_going_to_term in the loop.
MTest ==
  /\ mpc \in {"test", "check"}
  /\ MGoes(IF c_icap_going_to_term THEN "kill"
           ELSE IF mpc = "test" THEN "policy" ELSE "reap")
  /\ UNCHANGED flags

\* A child has served too many requests: another one is started first.
MReplace ==
  /\ mpc = "policy"
  /\ \E p \in find_a_child_nrequests : Tell({p}, "GRACEFULLY")
  /\ start_child
  /\ mpc' = "check"
  /\ UNCHANGED <<queues, flags, tostart, crashes, hups>>

NeedsChild_spare_only == free < MIN_SPARE_THREADS /\ childs < MAX_SERVERS

NeedsChild ==
  \/ free <= MIN_SPARE_THREADS /\ childs < MAX_SERVERS
  \/ childs < START_SERVERS

MSpawn ==
  /\ mpc = "policy" /\ find_a_child_nrequests = {}
  /\ NeedsChild
  /\ start_child
  /\ mpc' = "check"
  /\ UNCHANGED <<slot, sigterm, queues, flags, tostart, crashes, hups>>

SpareChild ==
  /\ free >= MAX_SPARE_THREADS
  /\ childs > START_SERVERS
  /\ free - THREADS_PER_CHILD > MIN_SPARE_THREADS

\* usedservers = 0 is not enough: the child must also have its idle flag set.
MStopIdle ==
  /\ mpc = "policy" /\ find_a_child_nrequests = {}
  /\ ~NeedsChild /\ SpareChild
  /\ \E p \in find_an_idle_child : Tell({p}, "GRACEFULLY")
  /\ mpc' = "check"
  /\ UNCHANGED <<state, queue_of, queues, flags, tostart, crashes, hups>>

MNothing ==
  /\ mpc = "policy" /\ find_a_child_nrequests = {}
  /\ ~NeedsChild
  /\ MGoes("check") /\ UNCHANGED flags

Reaped_current_only(p) ==
  LET current == slot[p] # Free /\ queue_of[p] = childs_queue
  IN /\ slot' = IF current THEN [slot EXCEPT ![p] = Free] ELSE slot
     /\ UNCHANGED old_childs_queue

\* check_for_exited_childs: waitpid(-1) returns one process after another. The
\* old queue is looked at only for a process that the current one has not.
Reaped(p) ==
  LET current == slot[p] # Free /\ queue_of[p] = childs_queue
      inold == old_childs_queue # NoQueue /\ queue_of[p] = old_childs_queue
  IN /\ slot' = IF current \/ inold THEN [slot EXCEPT ![p] = Free] ELSE slot
     /\ old_childs_queue' =
          IF ~current /\ Registered(old_childs_queue) \ {p} = {} THEN NoQueue
          ELSE old_childs_queue

MReap ==
  /\ mpc = "reap"
  /\ \E p \in Pids :
       /\ state[p] = "zombie"
       /\ state' = [state EXCEPT ![p] = "reaped"]
       /\ Reaped(p)
  /\ UNCHANGED <<queue_of, sigterm, childs_queue, flags, mpc, tostart,
                 crashes, hups>>

MReapEnd ==
  /\ mpc = "reap" /\ \A p \in Pids : state[p] # "zombie"
  /\ MGoes("reconf") /\ UNCHANGED flags

MNoReconf ==
  /\ mpc = "reconf" /\ ~c_icap_reconfigure
  /\ MGoes("wait") /\ UNCHANGED flags

\* A reconfiguration is ignored while the children of the last one are there,
\* and a new configuration that cannot be read takes the server down.
MReconfIgnored ==
  /\ mpc = "reconf" /\ c_icap_reconfigure /\ old_childs_queue # NoQueue
  /\ c_icap_reconfigure' = FALSE
  /\ MGoes("wait") /\ UNCHANGED c_icap_going_to_term

MReconfFails ==
  /\ mpc = "reconf" /\ c_icap_reconfigure /\ old_childs_queue = NoQueue
  /\ Stops
  /\ c_icap_reconfigure' = FALSE
  /\ MGoes("kill") /\ UNCHANGED c_icap_going_to_term

\* server_reconfigure: all registered children are told to go, a new queue is
\* made and the new children are started.
server_reconfigure ==
  /\ mpc = "reconf" /\ c_icap_reconfigure /\ old_childs_queue = NoQueue
  /\ c_icap_reconfigure' = FALSE
  /\ Tell(Registered(childs_queue), "GRACEFULLY")
  /\ old_childs_queue' = childs_queue
  /\ childs_queue' = childs_queue + 1
  /\ tostart' = START_SERVERS
  /\ mpc' = "start"
  /\ UNCHANGED <<state, queue_of, c_icap_going_to_term, crashes, hups>>

\* kill_all_childs goes over the children of both queues.
Ours == Registered(childs_queue) \cup Registered(old_childs_queue)

send_term_to_childs ==
  /\ mpc = "kill"
  /\ Tell({p \in Ours : slot[p].to_be_killed # "IMMEDIATELY"}, "IMMEDIATELY")
  /\ mpc' = "killwait"
  /\ UNCHANGED <<state, queue_of, queues, flags, tostart, crashes, hups>>

\* Only a child that has taken the order (to_be_killed) is waited for.
WaitedFor ==
  {p \in Ours : slot[p].to_be_killed = "IMMEDIATELY" /\ state[p] = "zombie"}

wait_childs_to_exit ==
  /\ mpc = "killwait"
  /\ state' = [p \in Pids |-> IF p \in WaitedFor THEN "reaped" ELSE state[p]]
  /\ slot' = [p \in Pids |-> IF p \in WaitedFor THEN Free ELSE slot[p]]
  /\ mpc' = IF Ours \subseteq WaitedFor THEN "down" ELSE "kill"
  /\ UNCHANGED <<queue_of, sigterm, queues, flags, tostart, crashes, hups>>

start_server ==
  \/ MStart \/ MStarted \/ MWait \/ MTest
  \/ MReplace \/ MSpawn \/ MStopIdle \/ MNothing
  \/ MReap \/ MReapEnd
  \/ MNoReconf \/ MReconfIgnored \/ MReconfFails \/ server_reconfigure
  \/ send_term_to_childs \/ wait_childs_to_exit

Next ==
  \/ start_server
  \/ \E p \in Pids : Child(p)
  \/ Stop \/ Hup

Spec == Init /\ [][Next]_vars

\* The monitor and the children run; a signal that was sent arrives; a child
\* that goes down gets there (ChildServer). Nobody has to crash or to send work.
FairSpec ==
  /\ Spec
  /\ WF_vars(start_server)
  /\ \A p \in Pids :
       /\ WF_vars(register_child(p) \/ NoSlot(p) \/ Boot(p))
       /\ WF_vars(SigTerm(p))
       /\ WF_vars(Exit(p))
       /\ WF_vars(ParentClosed(p))
-----------------------------------------------------------------------------
\* What must hold.

\* The processes that the step gives an order to.
Told ==
  {p \in Pids : /\ slot[p] # Free /\ slot'[p] # Free
                /\ slot'[p].father_said # slot[p].father_said}

(* Every slot belongs to a process that has been forked and has not been   *)
(* waited for: remove_child finds the slot of each process that waitpid    *)
(* returns, in the current or in the old queue, so no pid that may be given *)
(* to another program stays in shared memory.                              *)
NoGhostSlots ==
  \A p \in Ours : state[p] \in {"boot", "run", "zombie"}

(* The shared memory of an old queue is kept while a child that was told to *)
(* go still uses it (check_for_exited_childs): it reads father_said there   *)
(* and writes its counters. A child that registered too late to be told may *)
(* lose it, see OldQueueReleasedLast.                                       *)
ToldKeepQueue ==
  \A p \in Pids :
    /\ state[p] \in {"boot", "run"} /\ queue_of[p] < childs_queue
    /\ slot[p].father_said # "NO_KILL"
    => queue_of[p] = old_childs_queue

(* Slots, queues and processes agree, whatever the order of forks,          *)
(* registrations, reconfigurations and exits: both of the above, and every  *)
(* variable has its type.                                                   *)
QueuesTrue == TypeOK /\ NoGhostSlots /\ ToldKeepQueue

(* Stopping the server takes every child down, those that were starting,    *)
(* ignored SIGTERM, or had no slot yet included: kill_all_childs repeats    *)
(* its order until it is taken, a booting child looks at father_said, and   *)
(* one that the monitor never saw finds its pipe closed. A child that       *)
(* crashes on the way does not keep the others alive.                       *)
ChildrenStop ==
  c_icap_going_to_term ~> \A p \in Pids : state[p] \notin Alive

\* A registered child died before it took the order to go down immediately.
DiedUntold ==
  \E p \in Ours : state[p] = "zombie" /\ slot[p].to_be_killed # "IMMEDIATELY"

(* The monitor itself ends after "stop" (kill_all_childs leaves its loop):  *)
(* every registered child takes the order IMMEDIATELY and is waited for.    *)
(* The one exception is a child that died before it took the order, which   *)
(* wait_childs_to_exit passes over for ever.                                *)
MonitorStops == (c_icap_going_to_term ~> mpc = "down") \/ <>[]DiedUntold

(* "stop" ends the whole server: the children (kill_all_childs and SIGTERM, *)
(* or the closed pipe) and, unless wait_childs_to_exit passes over a child  *)
(* that died untold, the monitor.                                           *)
ServerStops == ChildrenStop /\ MonitorStops

(* A child that has died or is dying is replaced: the monitor brings the    *)
(* number of children back to START_SERVERS as long as it can fork and is   *)
(* not on its way down.                                                     *)
KeepsServers ==
  childs < START_SERVERS ~>
    \/ childs >= START_SERVERS
    \/ mpc \in {"kill", "killwait", "down"}
    \/ \A p \in Pids : state[p] # "unborn"

-----------------------------------------------------------------------------
\* What comments and the configuration file say, and the code does not do.
\* TLC refutes each with the constants of Monitor_old_told.cfg.

(* "Mark all existing childs as to_be_killed gracefully": every child of    *)
(* the old queue that runs has been told to go. server_reconfigure tells    *)
(* only those that have a slot, and register_child clears father_said: a    *)
(* child that was forked and registers later is never told.                 *)
OldChildrenTold ==
  \A p \in Pids :
    state[p] = "run" /\ queue_of[p] < childs_queue =>
      slot[p].father_said # "NO_KILL"

(* "When all childs exits release the old shared mem block": the old queue  *)
(* is released when no child of it is left. The code looks for slots: a     *)
(* child that has none yet goes on with a block the monitor has destroyed.  *)
OldQueueReleasedLast ==
  old_childs_queue = NoQueue =>
    \A p \in Pids : queue_of[p] < childs_queue => state[p] \notin Alive

(* "If a death of a child pending do not kill any other": the policy never  *)
(* orders a child down while another child of the queue has been ordered    *)
(* down and is still there. The find_ functions look at to_be_killed, which *)
(* is set only when the child handles the signal.                           *)
OneDeathAtATime ==
  [][mpc = "policy" =>
       \A p \in Told, c \in Registered(childs_queue) :
         c # p => slot[c].father_said = "NO_KILL"]_vars

(* "The maximum allowed number of server processes": there are never more   *)
(* than MAX_SERVERS children. A child without a slot and one that is going  *)
(* down do not count, and a worn child is replaced before it goes.          *)
MaxServersKept == Cardinality({p \in Pids : state[p] \in Alive}) <= MAX_SERVERS
=============================================================================
