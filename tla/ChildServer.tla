---------------------------- MODULE ChildServer ----------------------------
(***************************************************************************)
(* One child process of the c-icap server (mpmt_server.c, child_main):     *)
(* the listener thread, the THREADS_PER_CHILD worker threads, the main     *)
(* thread that takes the process down, and what they share: the bounded    *)
(* connections queue of proc_threads_queues.c, the counters of the child's *)
(* slot in shared memory and the two condition variables.                  *)
(*                                                                         *)
(* A critical section of the code is one action.  A condition variable is  *)
(* the set of threads blocked on it: a signal wakes one of them and is     *)
(* lost when there is none.  Signals sent after the unlock are steps of    *)
(* their own, as in the code.                                              *)
(***************************************************************************)
EXTENDS Integers, Sequences, FiniteSets
LOCAL INSTANCE TLC

CONSTANTS
  Workers,                 \* worker threads; THREADS_PER_CHILD of them
  Conns,                   \* client connections that may arrive
  NoConn,                  \* "no connection in hand"
  NPorts,                  \* listening ports (CI_CONF.PORTS)
  MAX_KEEPALIVE_REQUESTS,  \* requests served on one connection
  ListenerTries,           \* rounds cancel_all_threads waits for the listener
  WorkerRounds,            \* rounds it waits for the workers (wait_for_workers)
  Spurious,                \* may a condition wait return without a signal?
  Siblings,                \* do other children share the accept mutex?
  FatherModes,             \* what the monitor process may say to this child
  FatherDies               \* may the monitor's end of the pipe close?

NO_KILL == 0
GRACEFULLY == 1
IMMEDIATELY == 2
KILL_MODE == {NO_KILL, GRACEFULLY, IMMEDIATELY}

THREADS_PER_CHILD == Cardinality(Workers)

\* Which thread serves which connection makes no difference (symmetry, for TLC).
ThreadsAndConns == Permutations(Workers) \cup Permutations(Conns)

ASSUME ConstantsAssumption ==
  /\ IsFiniteSet(Workers) /\ Workers # {}
  /\ NoConn \notin Conns
  /\ NPorts \in Nat \ {0}
  /\ MAX_KEEPALIVE_REQUESTS \in Nat
  /\ ListenerTries \in Nat
  /\ WorkerRounds \in Nat
  /\ Spurious \in BOOLEAN /\ Siblings \in BOOLEAN /\ FatherDies \in BOOLEAN
  /\ FatherModes \subseteq {GRACEFULLY, IMMEDIATELY}

VARIABLES
  queue,            \* con_queue: connections[0..used-1]
  freeservers, usedservers, requests, connections, idle,  \* child_data counters
  to_be_killed, father_said,                              \* child_data flags
  sigterm,          \* a SIGTERM of the monitor is on its way
  listener_running, CHILD_HALT,
  accept_mutex,     \* "free", "self" (this child's listener) or "other" (another child's)
  wpc, wconn, wkeep, wreqs,   \* per worker: control, connection, keepalive, keepalive_reqs
  lpc, lports, lconn, jobs_in_queue,   \* listener: control, ready ports left, accepted connection
  mpc, tries, rounds, joined, \* main thread: control, waiting budgets, workers joined
  fresh,            \* connections no listener has accepted yet
  closed,           \* connections this child has closed
  leaked            \* accepted connections nothing refers to any more

shared == <<freeservers, usedservers, requests, connections, idle>>
flags == <<to_be_killed, father_said, sigterm, CHILD_HALT>>
worker == <<wpc, wconn, wkeep, wreqs>>
listener == <<lpc, lports, lconn, jobs_in_queue, listener_running>>
main == <<mpc, tries, rounds, joined>>
ends == <<fresh, closed, leaked>>
lrest == <<lports, lconn, jobs_in_queue>>
budget == <<tries, rounds, joined>>
others == <<main, ends, accept_mutex>>
vars == <<queue, shared, flags, worker, listener, main, ends, accept_mutex>>

Init ==
  /\ queue = <<>>
  /\ freeservers = THREADS_PER_CHILD /\ usedservers = 0
  /\ requests = 0 /\ connections = 0 /\ idle = TRUE
  /\ to_be_killed = NO_KILL /\ father_said = NO_KILL /\ sigterm = FALSE
  /\ listener_running = FALSE /\ CHILD_HALT = FALSE
  /\ accept_mutex = "free"
  /\ wpc = [w \in Workers |-> "top"]
  /\ wconn = [w \in Workers |-> NoConn]
  /\ wkeep = [w \in Workers |-> FALSE]
  /\ wreqs = [w \in Workers |-> 0]
  /\ lpc = "start" /\ lports = 0 /\ lconn = NoConn /\ jobs_in_queue = 0
  /\ mpc = "boot" /\ tries = ListenerTries /\ rounds = WorkerRounds
  /\ joined = {}
  /\ fresh = Conns /\ closed = {} /\ leaked = {}

\* exit(): once the main thread is down the process and its threads are gone.
Alive == mpc # "down"

-----------------------------------------------------------------------------
(***************************************************************************)
(* The connections queue and the condition variables.                      *)
(***************************************************************************)
connections_pending == Len(queue)

QueueFull == connections_pending = THREADS_PER_CHILD

\* ci_thread_cond_signal(&queue_cond): one blocked worker, if any, goes on.
SignalQueue ==
  LET blocked == {w \in Workers : wpc[w] = "blocked"} IN
  \/ /\ blocked = {}
     /\ UNCHANGED wpc
  \/ \E w \in blocked : wpc' = [wpc EXCEPT ![w] = "top"]

\* ci_thread_cond_signal(&free_server_cond): only the listener waits on it.
SignalFree ==
  lpc' = IF lpc \in {"startwait", "freewait"} THEN "top" ELSE lpc

-----------------------------------------------------------------------------
(***************************************************************************)
(* thread_main: a worker thread.                                           *)
(***************************************************************************)
\* What a worker's own steps leave alone.
beyond == <<listener, main, accept_mutex>>

WGoto(w, from, to) ==
  /\ Alive
  /\ wpc[w] = from
  /\ wpc' = [wpc EXCEPT ![w] = to]

\* A step that only moves on.
WStep(w, from, to) ==
  /\ WGoto(w, from, to)
  /\ UNCHANGED <<queue, shared, flags, wconn, wkeep, wreqs, ends, beyond>>

\* The test for an immediate shutdown at the top of the loop.
WTop(w) ==
  WStep(w, "top", IF to_be_killed = IMMEDIATELY THEN "exited" ELSE "get")

\* Mutant: `used` is reset and not decremented, the other entries are lost.
GetLast_resets(w) ==
  /\ WGoto(w, "get", "take")
  /\ queue # <<>>
  /\ wconn' = [wconn EXCEPT ![w] = queue[Len(queue)]]
  /\ queue' = <<>>
  /\ leaked' = leaked \cup {queue[i] : i \in 1..(Len(queue) - 1)}
  /\ UNCHANGED <<shared, flags, wkeep, wreqs, fresh, closed, beyond>>

GetLast(w) ==
  /\ WGoto(w, "get", "take")
  /\ queue # <<>>
  /\ wconn' = [wconn EXCEPT ![w] = queue[Len(queue)]]
  /\ queue' = SubSeq(queue, 1, Len(queue) - 1)
  /\ UNCHANGED <<shared, flags, wkeep, wreqs, ends, beyond>>

GetEmpty(w) ==
  /\ queue = <<>>
  /\ WStep(w, "get", "empty")

\* get_from_queue: the connection put last, or the queue is empty.
get_from_queue(w) == GetLast(w) \/ GetEmpty(w)

\* The queue was empty: leave when the child goes down, else go and wait.
WEmpty(w) ==
  WStep(w, "empty", IF to_be_killed # NO_KILL THEN "exited" ELSE "towait")

\* wait_for_queue: the queue is not looked at again before the wait.
wait_for_queue(w) ==
  WStep(w, "towait", "blocked")

\* A condition wait may return although nobody signalled.
WSpurious(w) ==
  /\ Spurious
  /\ WStep(w, "blocked", "top")

\* Under counters_mtx: this worker is no longer free.
WTake(w) ==
  /\ WGoto(w, "take", "open")
  /\ freeservers' = freeservers - 1
  /\ usedservers' = usedservers + 1
  /\ UNCHANGED <<queue, requests, connections, idle, flags, wconn, wkeep, wreqs, ends, beyond>>

\* The worker closes its connection and goes on at another place.
Closes(w, from, to) ==
  /\ WGoto(w, from, to)
  /\ closed' = closed \cup {wconn[w]}
  /\ wconn' = [wconn EXCEPT ![w] = NoConn]
  /\ UNCHANGED <<queue, shared, flags, wkeep, wreqs, fresh, leaked, beyond>>

\* Mutant: a denied client's worker continues the loop without the counters.
WDenied_continues(w) == Closes(w, "open", "top")

\* newrequest or recycle_request may deny the client, who is then closed.
WDenied(w) == Closes(w, "open", "end")

WAdmitted(w) ==
  /\ WGoto(w, "open", "loop")
  /\ wkeep' = [wkeep EXCEPT ![w] = TRUE]
  /\ wreqs' = [wreqs EXCEPT ![w] = 0]
  /\ UNCHANGED <<queue, shared, flags, wconn, ends, beyond>>

WOpen(w) == WDenied(w) \/ WAdmitted(w)

\* Top of the keep-alive loop: no keep-alive past the limit or when going down.
WLoop(w) ==
  /\ WGoto(w, "loop", "proc")
  /\ wkeep' = [wkeep EXCEPT ![w] =
                 /\ @
                 /\ ~(MAX_KEEPALIVE_REQUESTS > 0 /\ wreqs[w] >= MAX_KEEPALIVE_REQUESTS)
                 /\ to_be_killed = NO_KILL]
  /\ UNCHANGED <<queue, shared, flags, wconn, wreqs, ends, beyond>>

\* Mutant: the break after the hard close leads to the close after the loop.
WNoStatus_closes_twice(w) ==
  /\ WGoto(w, "proc", "close")
  /\ closed' = closed \cup {wconn[w]}
  /\ UNCHANGED <<queue, shared, flags, wconn, wkeep, wreqs, fresh, leaked, beyond>>

\* Mutant: a request that timed out or was interrupted is tried again.
WNoStatus_retries(w) == WStep(w, "proc", "loop")

\* CI_NO_STATUS closes the connection at once.  The close after the loop then
\* finds its fd reset and does nothing.
WNoStatus(w) == Closes(w, "proc", "end")

\* The request is counted, and it may have asked for the connection to be closed.
WServed(w) ==
  /\ WGoto(w, "proc", "after")
  /\ \E keep \in {FALSE, wkeep[w]} : wkeep' = [wkeep EXCEPT ![w] = keep]
  /\ wreqs' = [wreqs EXCEPT ![w] = @ + 1]
  /\ requests' = requests + 1
  /\ UNCHANGED <<queue, freeservers, usedservers, connections, idle, flags, wconn, ends, beyond>>

process_request(w) == WNoStatus(w) \/ WServed(w)

\* Mutant: an immediate shutdown returns from the thread, not from the loop.
WAfter_returns(w) ==
  /\ WGoto(w, "after", IF to_be_killed = IMMEDIATELY THEN "exited"
                       ELSE IF wkeep[w] THEN "loop" ELSE "close")
  /\ UNCHANGED <<queue, shared, flags, wconn, wkeep, wreqs, ends, beyond>>

\* After a request: keepalive_request resets the request and, as its wait
\* never returns 0, always goes on with the connection.
WAfter(w) ==
  LET again == wkeep[w] /\ to_be_killed # IMMEDIATELY IN
  /\ WGoto(w, "after", IF again THEN "loop" ELSE "close")
  /\ wkeep' = [wkeep EXCEPT ![w] = again]
  /\ UNCHANGED <<queue, shared, flags, wconn, wreqs, ends, beyond>>

\* The connection is closed, hard or lingering.
WClose(w) == Closes(w, "close", "end")

\* end_of_main_loop_thread, under counters_mtx: this worker is free again.
WEnd(w) ==
  /\ WGoto(w, "end", "signal")
  /\ freeservers' = freeservers + 1
  /\ usedservers' = usedservers - 1
  /\ UNCHANGED <<queue, requests, connections, idle, flags, wconn, wkeep, wreqs, ends, beyond>>

\* ... and, after the unlock, the listener is told.
WSignal(w) ==
  /\ WGoto(w, "signal", "top")
  /\ SignalFree
  /\ UNCHANGED <<queue, shared, flags, wconn, wkeep, wreqs, lrest, listener_running, others>>

thread_main(w) ==
  \/ WTop(w) \/ get_from_queue(w) \/ WEmpty(w) \/ wait_for_queue(w)
  \/ WTake(w) \/ WOpen(w) \/ WLoop(w) \/ process_request(w) \/ WAfter(w)
  \/ WClose(w) \/ WEnd(w) \/ WSignal(w)

-----------------------------------------------------------------------------
(***************************************************************************)
(* listener_thread.                                                        *)
(***************************************************************************)
LGoto(from, to) ==
  /\ Alive
  /\ lpc = from
  /\ lpc' = to

LStep(from, to) ==
  /\ LGoto(from, to)
  /\ UNCHANGED <<queue, shared, flags, worker, lrest, listener_running, others>>

\* Under counters_mtx: running, and waiting for the main thread's signal.
LStart ==
  /\ LGoto("start", "startwait")
  /\ listener_running' = TRUE
  /\ UNCHANGED <<queue, shared, flags, worker, lrest, others>>

LTop ==
  LStep("top", IF to_be_killed # NO_KILL THEN "failsunlocked" ELSE "lock")

LLocks ==
  /\ LGoto("lock", "poll")
  /\ accept_mutex = "free"
  /\ accept_mutex' = "self"
  /\ idle' = FALSE
  /\ UNCHANGED <<queue, freeservers, usedservers, requests, connections, flags, worker, lrest, listener_running, main, ends>>

\* ci_proc_mutex_lock(&accept_mutex), which may fail.
LLock == LLocks \/ LStep("lock", "failsunlocked")

LReady ==
  /\ LGoto("poll", "accept")
  /\ fresh # {}
  /\ lports' \in 1..NPorts
  /\ UNCHANGED <<queue, shared, flags, worker, lconn, jobs_in_queue, listener_running, main, ends, accept_mutex>>

\* poll: connections wait on some of the ports; or it fails.
LPoll == LReady \/ LStep("poll", "fails")

\* The next ready port, or the end of the loop over the ports.
AfterPort == IF lports = 1 THEN "killed" ELSE "accept"

LAccepted(c) ==
  /\ LGoto("accept", "put")
  /\ fresh' = fresh \ {c}
  /\ lconn' = c
  /\ UNCHANGED <<queue, shared, flags, worker, lports, jobs_in_queue, listener_running, main, closed, leaked, accept_mutex>>

LAborted(c) ==
  /\ LGoto("accept", IF to_be_killed # NO_KILL THEN "fails" ELSE AfterPort)
  /\ lports' = lports - 1
  /\ fresh' = fresh \ {c}
  /\ closed' = closed \cup {c}
  /\ UNCHANGED <<queue, shared, flags, worker, lconn, jobs_in_queue, listener_running, main, leaked, accept_mutex>>

\* icap_accept_raw_connection on the next ready port: a connection, a client
\* that went away (ECONNABORTED), or a fatal error.
LAccept ==
  \/ \E c \in fresh : LAccepted(c) \/ LAborted(c)
  \/ LStep("accept", "fails")

PutFull ==
  /\ LGoto("put", "fails")
  /\ QueueFull
  /\ jobs_in_queue' = 0
  /\ leaked' = leaked \cup {lconn}
  /\ lconn' = NoConn
  /\ UNCHANGED <<queue, shared, flags, worker, lports, listener_running, main, fresh, closed, accept_mutex>>

PutReturns(jobs) ==
  /\ LGoto("put", "signal")
  /\ ~QueueFull
  /\ queue' = Append(queue, lconn)
  /\ jobs_in_queue' = jobs
  /\ lconn' = NoConn
  /\ UNCHANGED <<shared, flags, worker, lports, listener_running, main, ends, accept_mutex>>

\* put_to_queue under queue_mtx; a full queue ends the listener, which then
\* drops the connection without closing it.
put_to_queue == PutFull \/ PutReturns(connections_pending + 1)

\* ... its signal, after the unlock, and the end of the pass over one port.
LSignal ==
  /\ LGoto("signal", AfterPort)
  /\ SignalQueue
  /\ connections' = connections + 1
  /\ lports' = lports - 1
  /\ UNCHANGED <<queue, freeservers, usedservers, requests, idle, flags, wconn, wkeep, wreqs, lconn, jobs_in_queue, listener_running, main, ends, accept_mutex>>

LKilled ==
  LStep("killed", IF to_be_killed # NO_KILL THEN "fails" ELSE "haschild")

\* Mutant: >= for >.
LHasChild_off_by_one ==
  LET haschild == freeservers - jobs_in_queue >= 0 IN
  /\ LGoto("haschild", IF haschild THEN "poll" ELSE "unlock")
  /\ idle' = ~haschild
  /\ UNCHANGED <<queue, freeservers, usedservers, requests, connections, flags, worker, lrest, listener_running, others>>

\* haschild, under counters_mtx, from the queue length the last put returned.
LHasChild ==
  LET haschild == freeservers - jobs_in_queue > 0 IN
  /\ LGoto("haschild", IF haschild THEN "poll" ELSE "unlock")
  /\ idle' = ~haschild
  /\ UNCHANGED <<queue, freeservers, usedservers, requests, connections, flags, worker, lrest, listener_running, others>>

LUnlocks ==
  /\ LGoto("unlock", "await")
  /\ accept_mutex' = "free"
  /\ UNCHANGED <<queue, shared, flags, worker, lrest, listener_running, main, ends>>

\* A failing unlock ends the listener with the mutex still held.
LUnlock == LUnlocks \/ LStep("unlock", "failsunlocked")

\* Mutant: after the wait the listener goes on polling without the mutex.
LAwait_no_lock ==
  LStep("await", IF freeservers - connections_pending <= 0 THEN "freewait" ELSE "poll")

\* Under counters_mtx: wait on free_server_cond when no worker is left for
\* another connection.  The wait is an if, not a loop.
LAwait ==
  LStep("await", IF freeservers - connections_pending <= 0 THEN "freewait" ELSE "top")

LSpurious ==
  /\ Spurious
  /\ LStep("freewait", "top")

LStops(from, to) ==
  /\ LGoto(from, to)
  /\ listener_running' = FALSE
  /\ UNCHANGED <<queue, shared, flags, worker, lrest, others>>

LLastUnlock ==
  /\ LGoto("failsunlock", "done")
  /\ accept_mutex' \in {"free", accept_mutex}
  /\ UNCHANGED <<queue, shared, flags, worker, lrest, listener_running, main, ends>>

\* LISTENER_FAILS and LISTENER_FAILS_UNLOCKED.
LFails == LStops("fails", "failsunlock") \/ LLastUnlock \/ LStops("failsunlocked", "done")

listener_thread ==
  \/ LStart \/ LTop \/ LLock \/ LPoll \/ LAccept \/ put_to_queue \/ LSignal
  \/ LKilled \/ LHasChild \/ LUnlock \/ LAwait \/ LFails

\* The listeners of the other children take the accept mutex in turn.
OtherChild ==
  /\ Alive /\ Siblings
  /\ \/ accept_mutex = "free" /\ accept_mutex' = "other"
     \/ accept_mutex = "other" /\ accept_mutex' = "free"
  /\ UNCHANGED <<queue, shared, flags, worker, listener, main, ends>>

-----------------------------------------------------------------------------
(***************************************************************************)
(* The main thread (child_main, cancel_all_threads) and signals.           *)
(***************************************************************************)
MGoto(from, to) ==
  /\ Alive
  /\ mpc = from
  /\ mpc' = to

MStep(from, to) ==
  /\ MGoto(from, to)
  /\ UNCHANGED <<queue, shared, flags, worker, listener, budget, ends, accept_mutex>>

\* A signal makes the listener's blocking call return EINTR; with the flag
\* set this ends the poll and accept loops and restarts the lock.
Interrupted(pc) ==
  CASE pc = "lock" -> "top"
    [] pc \in {"poll", "accept"} -> "fails"
    [] OTHER -> pc

\* term_handler_child.
Handler == IF father_said = NO_KILL THEN IMMEDIATELY ELSE father_said

\* The monitor process writes father_said and sends SIGTERM: gracefully when
\* it reconfigures or has too many children, immediately when it goes down
\* and for as long as the child does not say so itself.
FatherSays(mode) ==
  /\ Alive
  /\ ~sigterm
  /\ IF mode = GRACEFULLY THEN father_said # IMMEDIATELY ELSE to_be_killed # IMMEDIATELY
  /\ father_said' = mode
  /\ sigterm' = TRUE
  /\ UNCHANGED <<queue, shared, to_be_killed, CHILD_HALT, worker, listener, main, ends, accept_mutex>>

\* The signal arrives.  It is ignored while the child boots; any thread may
\* take it, so the listener is interrupted or not.
SigTerm ==
  /\ Alive
  /\ sigterm
  /\ sigterm' = FALSE
  /\ \/ /\ mpc = "boot"
        /\ UNCHANGED <<to_be_killed, lpc>>
     \/ /\ mpc # "boot"
        /\ to_be_killed' = Handler
        /\ lpc' \in {lpc, Interrupted(lpc)}
  /\ UNCHANGED <<queue, shared, father_said, CHILD_HALT, worker, lrest, listener_running, others>>

\* child_signals().
MSignals ==
  MStep("boot", "father")

\* A signal that came while starting was ignored: father_said is looked at.
MFather ==
  /\ MGoto("father", "handshake")
  /\ to_be_killed' = IF father_said # NO_KILL THEN IMMEDIATELY ELSE to_be_killed
  /\ UNCHANGED <<queue, shared, father_said, sigterm, CHILD_HALT, worker, listener, budget, ends, accept_mutex>>

\* Mutant: the signal is sent without waiting for the listener.
MHandshake_blind ==
  MStep("handshake", "start")

\* Poll listener_running under counters_mtx, then signal the listener once.
MHandshake ==
  /\ MGoto("handshake", "start")
  /\ listener_running
  /\ UNCHANGED <<queue, shared, flags, worker, listener, budget, ends, accept_mutex>>

MStart ==
  /\ MGoto("start", "loop")
  /\ SignalFree
  /\ UNCHANGED <<queue, shared, flags, worker, lrest, listener_running, budget, ends, accept_mutex>>

\* One turn of the command loop while not told to go down: nothing happens,
\* the monitor's end of the pipe closes, or the listener is found dead (the
\* flag is tested first and written later).
MTurn ==
  \/ MStep("loop", IF to_be_killed = NO_KILL THEN "cmd" ELSE "listener")
  \/ /\ MStep("cmd", "loop")
     /\ to_be_killed = NO_KILL => listener_running
  \/ /\ MStep("cmd", "orphaned")
     /\ to_be_killed = NO_KILL /\ ~listener_running

MKills(from, mode) ==
  /\ MGoto(from, "loop")
  /\ to_be_killed' = mode
  /\ UNCHANGED <<queue, shared, father_said, sigterm, CHILD_HALT, worker, listener, budget, ends, accept_mutex>>

MLoop == MTurn \/ MKills("orphaned", GRACEFULLY)

MPipeClosed == FatherDies /\ MKills("cmd", IMMEDIATELY)

\* cancel_all_threads, first loop: SIGHUP and a signal on free_server_cond
\* while the listener runs, then join it, or go on without it.
MInterrupt ==
  /\ MGoto("listener", "listener")
  /\ listener_running /\ tries > 0
  /\ tries' = tries - 1
  /\ lpc' \in IF lpc \in {"startwait", "freewait"} THEN {"top"} ELSE {lpc, Interrupted(lpc)}
  /\ UNCHANGED <<queue, shared, flags, worker, lrest, listener_running, rounds, joined, ends, accept_mutex>>

MCancelListener ==
  \/ MInterrupt
  \/ /\ MStep("listener", "broadcast")
     /\ IF listener_running THEN tries = 0 ELSE lpc = "done"

\* One broadcast for the workers blocked on the queue.
MBroadcast ==
  /\ MGoto("broadcast", "workers")
  /\ wpc' = [w \in Workers |-> IF wpc[w] = "blocked" THEN "top" ELSE wpc[w]]
  /\ UNCHANGED <<queue, shared, flags, wconn, wkeep, wreqs, listener, budget, ends, accept_mutex>>

\* One round of the second loop: halt the workers' waits, join those that
\* have left, send SIGTERM to the others near the timeout (its handler runs
\* in this process), and, a second later, count the round when leaving
\* immediately.
MWorkers ==
  LET gone == {w \in Workers : wpc[w] = "exited"}
      now == to_be_killed = IMMEDIATELY
  IN
  /\ joined # Workers /\ rounds >= 0
  /\ MGoto("workers", "pause")
  /\ joined' = gone
  /\ CHILD_HALT' = (CHILD_HALT \/ now)
  /\ to_be_killed' = IF now /\ rounds <= 2 /\ gone # Workers THEN Handler ELSE to_be_killed
  /\ UNCHANGED <<queue, shared, father_said, sigterm, worker, listener, tries, rounds, ends, accept_mutex>>

\* Mutant: the rounds are not counted.
MRound_uncounted ==
  MStep("pause", "workers")

MRound ==
  /\ MGoto("pause", "workers")
  /\ rounds' = IF to_be_killed = IMMEDIATELY THEN rounds - 1 ELSE rounds
  /\ UNCHANGED <<queue, shared, flags, worker, listener, tries, joined, ends, accept_mutex>>

\* exit: the file lock on the accept mutex goes with the process.
MDown ==
  /\ joined = Workers \/ rounds < 0
  /\ MGoto("workers", "down")
  /\ accept_mutex' = IF accept_mutex = "self" THEN "free" ELSE accept_mutex
  /\ UNCHANGED <<queue, shared, flags, worker, listener, tries, rounds, joined, ends>>

child_main ==
  \/ MSignals \/ MFather \/ MHandshake \/ MStart \/ MLoop
  \/ MCancelListener \/ MBroadcast \/ MWorkers \/ MRound \/ MDown

Environment ==
  \/ MPipeClosed \/ OtherChild \/ SigTerm \/ LSpurious
  \/ \E mode \in FatherModes : FatherSays(mode)

Next ==
  \/ \E w \in Workers : thread_main(w) \/ WSpurious(w)
  \/ listener_thread
  \/ child_main
  \/ Environment

Spec == Init /\ [][Next]_vars

(***************************************************************************)
(* Fairness.  The scheduler runs every thread that is not blocked.  Nothing *)
(* is assumed of clients, so polling, accepting and serving a request need  *)
(* not finish, and nothing of the other children that share the mutex.  A   *)
(* monitor that goes down repeats itself until the child has taken it in    *)
(* (kill_all_childs), and signals arrive.                                   *)
(***************************************************************************)
WorkerMoves(w) ==
  \/ WTop(w) \/ get_from_queue(w) \/ WEmpty(w) \/ wait_for_queue(w) \/ WTake(w)
  \/ WOpen(w) \/ WLoop(w) \/ WAfter(w) \/ WClose(w) \/ WEnd(w) \/ WSignal(w)

ListenerMoves ==
  \/ LStart \/ LTop \/ put_to_queue \/ LSignal
  \/ LKilled \/ LHasChild \/ LUnlock \/ LAwait \/ LFails

FairSpec ==
  /\ Spec
  /\ \A w \in Workers : WF_vars(WorkerMoves(w))
  /\ WF_vars(ListenerMoves)
  /\ WF_vars(child_main)
  /\ WF_vars(SigTerm)
  /\ WF_vars(father_said = IMMEDIATELY /\ FatherSays(IMMEDIATELY))

\* Requests end as well: process_request has a timeout on every wait.
ServingSpec == FairSpec /\ \A w \in Workers : WF_vars(process_request(w))

-----------------------------------------------------------------------------
(***************************************************************************)
(* Properties.                                                             *)
(***************************************************************************)
\* Where a connection can be besides fresh, closed and leaked.
InHand == {lconn} \ {NoConn}

Queued == {queue[i] : i \in 1..Len(queue)}

InWork == {wconn[w] : w \in Workers} \ {NoConn}

WorkerPCs ==
  {"top", "get", "empty", "towait", "blocked", "take", "open", "loop", "proc",
   "after", "close", "end", "signal", "exited"}

ListenerPCs ==
  {"start", "startwait", "top", "lock", "poll", "accept", "put", "signal", "killed",
   "haschild", "unlock", "await", "freewait", "fails", "failsunlock",
   "failsunlocked", "done"}

MainPCs ==
  {"boot", "father", "handshake", "start", "loop", "cmd", "orphaned", "listener",
   "broadcast", "workers", "pause", "down"}

\* Type invariant.  The queue never holds more than its size entries, so
\* put_to_queue stays inside the connections array.
TypeOK ==
  /\ queue \in Seq(Conns) /\ Len(queue) <= THREADS_PER_CHILD
  /\ freeservers \in 0..THREADS_PER_CHILD /\ usedservers \in 0..THREADS_PER_CHILD
  /\ requests \in Nat /\ connections \in Nat /\ idle \in BOOLEAN
  /\ to_be_killed \in KILL_MODE /\ father_said \in KILL_MODE
  /\ sigterm \in BOOLEAN /\ CHILD_HALT \in BOOLEAN
  /\ listener_running \in BOOLEAN
  /\ accept_mutex \in {"free", "self", "other"}
  /\ wpc \in [Workers -> WorkerPCs]
  /\ wconn \in [Workers -> Conns \cup {NoConn}]
  /\ wkeep \in [Workers -> BOOLEAN] /\ wreqs \in [Workers -> Nat]
  /\ lpc \in ListenerPCs /\ lports \in 0..NPorts
  /\ lconn \in Conns \cup {NoConn} /\ jobs_in_queue \in 0..THREADS_PER_CHILD
  /\ mpc \in MainPCs /\ tries \in 0..ListenerTries /\ rounds \in -1..WorkerRounds
  /\ joined \subseteq Workers
  /\ fresh \subseteq Conns /\ closed \subseteq Conns /\ leaked \subseteq Conns

\* The workers between the two counter updates of thread_main.
Serving == {w \in Workers : wpc[w] \in {"open", "loop", "proc", "after", "close", "end"}}

\* child_data's counters agree with what the workers do, whichever way a worker
\* leaves the body of its loop: usedservers counts the workers between the two
\* updates and freeservers all the others (also those waiting or gone).
CountersAgree ==
  /\ usedservers = Cardinality(Serving)
  /\ freeservers = THREADS_PER_CHILD - usedservers

\* Every connection is in exactly one place, from accept to close: none is
\* handed to two workers, none is closed while in use or closed twice, and
\* none but those a full queue turned away (leaked) is lost.
ConnOnePlace ==
  /\ fresh \cup InHand \cup Queued \cup InWork \cup closed \cup leaked = Conns
  /\ fresh \cap (InHand \cup Queued \cup InWork \cup closed \cup leaked) = {}
  /\ InHand \cap (Queued \cup InWork \cup closed \cup leaked) = {}
  /\ Queued \cap (InWork \cup closed \cup leaked) = {}
  /\ InWork \cap (closed \cup leaked) = {}
  /\ closed \cap leaked = {}
  /\ \A i, j \in 1..Len(queue) : queue[i] = queue[j] => i = j
  /\ \A v, w \in Workers : v # w /\ wconn[v] = wconn[w] => wconn[v] = NoConn

\* A worker that has left, or sleeps, left no connection open behind it, and
\* one that serves has its connection.
ConnInHand ==
  /\ \A w \in Workers :
       wconn[w] # NoConn <=>
         wpc[w] \in {"take", "open", "loop", "proc", "after", "close"}
  /\ lconn # NoConn <=> lpc = "put"

\* While the listener runs, jobs_in_queue, which it got from its last put, is
\* never less than what the queue holds, although workers take connections
\* between that put and the computation of haschild.
JobsCoverQueue ==
  lpc \notin {"fails", "failsunlock", "failsunlocked", "done"} => Len(queue) <= jobs_in_queue

\* The listener stays in its accept loop, holding the accept mutex against the
\* other children, only while the queue has room for another connection.
RoomAfterHasChild ==
  [][LHasChild /\ lpc' = "poll" => Len(queue) < THREADS_PER_CHILD]_vars

\* From the lock to the unlock, the ways out of the loop included.
AcceptLoop ==
  {"poll", "accept", "put", "signal", "killed", "haschild", "unlock", "fails", "failsunlock"}

\* The listener polls, accepts and queues connections only under the accept
\* mutex, and gives it up on every way out of the accept loop but a failing
\* unlock.
AcceptUnderMutex ==
  Alive /\ lpc \in AcceptLoop => accept_mutex = "self"

\* When cancel_all_threads has joined all workers, no connection is left open in
\* one of them, and every worker has been counted as free again: on no way
\* out, immediate ones included, does a worker skip the close or the counters.
ShutdownClosesServed ==
  joined = Workers => InWork = {} /\ usedservers = 0

\* The handshake of child_main with its listener: the one signal is sent only
\* when the listener waits for it, so that the listener always gets going.
ListenerStarts == lpc = "start" ~> lpc \notin {"start", "startwait"}

\* A child told to go down immediately goes down, whatever its clients, its
\* workers and its listener do.
ImmediateShutdown == father_said = IMMEDIATELY ~> mpc = "down"

\* If requests end, as process_request has a timeout on every wait, then a
\* worker that took a connection gives it back: keep-alive is bounded by
\* MAX_KEEPALIVE_REQUESTS.
ServiceEnds ==
  (\A w \in Workers : WF_vars(process_request(w))) =>
    \A w \in Workers : wpc[w] = "take" ~> wpc[w] = "signal" \/ mpc = "down"

\* No thread of a child is left waiting: the listener gets past its handshake
\* with child_main, and a worker past the connection it took.
ThreadsMoveOn == ListenerStarts /\ ServiceEnds

\* What the child promises for its connections: see ConnLifecycle.
Lifecycle ==
  INSTANCE ConnLifecycle WITH Servers <- Workers, None <- NoConn,
    unseen <- fresh, waiting <- InHand \cup Queued, serving <- wconn, over <- closed \cup leaked

\* The child implements ConnLifecycle: with its queue, its listener and its
\* workers interleaved, each connection goes through accept, one worker and its
\* end once, in this order.
ImplementsLifecycle == Lifecycle!Spec

\* mpmt_server.c:803 logs a full queue as "NO AVAILABLE SERVERS! THIS IS A
\* BUG": the listener only accepts what a free worker is left for. TLC refutes
\* it with two workers, one port and four connections.
NoServersIsABug == ~(lpc = "put" /\ QueueFull)

\* TLC refutes the next three with the constants of ChildServer_shutdown.cfg,
\* GracefulShutdown under ServingSpec and ImmediateTimeout under FairSpec.

\* mpmt_server.c:571: going down gracefully, the workers "die only if there are
\* not any accepted connections".
GracefulServesAccepted ==
  mpc = "down" /\ to_be_killed = GRACEFULLY => Queued = {} /\ leaked = {}

\* mpmt_server.c:231: the workers waiting for the queue are interrupted, so a
\* graceful shutdown ends when the requests being served have ended.
GracefulShutdown == father_said = GRACEFULLY ~> mpc = "down"

\* mpmt_server.c:252: when going down immediately "we have a timeout for waiting
\* the thread to exit".
ImmediateTimeout == CHILD_HALT ~> mpc = "down"

-----------------------------------------------------------------------------
(***************************************************************************)
(* What the proofs need besides: where each thread stands against the      *)
(* values it is about to use.                                              *)
(***************************************************************************)
\* A listener that has a port to go through has one left, and the main thread
\* counts a round only if it has one left.
Budgets ==
  /\ lpc \in {"accept", "put", "signal"} => lports >= 1
  /\ mpc = "pause" => rounds >= 0

\* The workers cancel_all_threads has joined have left for good.
JoinedAreGone == \A w \in joined : wpc[w] = "exited"
=============================================================================
