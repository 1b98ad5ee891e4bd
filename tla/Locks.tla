------------------------------- MODULE Locks --------------------------------
(* The mutexes between processes (os/unix/proc_mutex.c, three schemes), and   *)
(* the thread mutexes of a process, which a fork must leave unlocked in the   *)
(* child (os/unix/threads.c).                                                 *)
EXTENDS Integers, Sequences, FiniteSets, Functions

CONSTANTS
  Procs, Threads,
  FileThreads,       \* threads that use a mutex of the file scheme
  Mutexes,           \* thread mutexes
  MaxDeaths          \* bound: processes that die

VARIABLES
  scheme,            \* of the mutex: "sysv", "posix" or "file"
  sem,               \* value of the semaphore
  undo,              \* what the system adds when a process dies (SEM_UNDO)
  flock,             \* process that has the file lock
  pc,                \* of each thread of each process
  died_in,           \* processes that died with the mutex
  mutexes, last,     \* threads.c: list of mutexes, and its last item
  locked,            \* thread mutexes that are locked
  live,              \* thread mutexes that are initialised
  missed             \* thread mutexes whose item was put behind one that was freed

lockvars == <<scheme, sem, undo, flock, pc, died_in>>
mtxvars == <<mutexes, last, locked, live, missed>>
vars == <<lockvars, mtxvars>>

NULL == "null"
Users == Procs \X Threads

\* A SysV semaphore is 0 when free, a POSIX one is 1.
proc_mutex_init ==
  /\ scheme \in {"sysv", "posix", "file"}
  /\ sem = (IF scheme = "posix" THEN 1 ELSE 0)
  /\ undo = [p \in Procs |-> 0] /\ flock = NULL

Init ==
  /\ proc_mutex_init
  /\ pc = [u \in Users |-> "out"] /\ died_in = {}
  /\ mutexes = <<>> /\ last = NULL /\ locked = {} /\ live = {} /\ missed = {}

-----------------------------------------------------------------------------
\* A bug: the operation is not one the system undoes.
sysv_lock_kept(u) ==
  scheme = "sysv" /\ sem = 0 /\ sem' = 1 /\ UNCHANGED <<undo, flock>>

sysv_proc_mutex_lock(u) ==
  /\ scheme = "sysv" /\ sem = 0
  /\ sem' = 1 /\ undo' = [undo EXCEPT ![u[1]] = @ - 1] /\ UNCHANGED flock

posix_proc_mutex_lock(u) ==
  scheme = "posix" /\ sem > 0 /\ sem' = sem - 1 /\ UNCHANGED <<undo, flock>>

\* A file lock belongs to the process: its threads do not exclude each other.
file_proc_mutex_lock(u) ==
  /\ scheme = "file" /\ u[2] \in FileThreads /\ flock \in {NULL, u[1]}
  /\ flock' = u[1] /\ UNCHANGED <<sem, undo>>

ci_proc_mutex_lock(u) ==
  /\ pc[u] = "out" /\ pc' = [pc EXCEPT ![u] = "in"]
  /\ sysv_proc_mutex_lock(u) \/ posix_proc_mutex_lock(u) \/ file_proc_mutex_lock(u)
  /\ UNCHANGED <<scheme, died_in, mtxvars>>

sysv_proc_mutex_unlock(u) ==
  /\ scheme = "sysv" /\ sem' = sem - 1
  /\ undo' = [undo EXCEPT ![u[1]] = @ + 1] /\ UNCHANGED flock

posix_proc_mutex_unlock(u) ==
  scheme = "posix" /\ sem' = sem + 1 /\ UNCHANGED <<undo, flock>>

file_proc_mutex_unlock(u) ==
  /\ scheme = "file"
  /\ flock' = (IF flock = u[1] THEN NULL ELSE flock) /\ UNCHANGED <<sem, undo>>

ci_proc_mutex_unlock(u) ==
  /\ pc[u] = "in" /\ pc' = [pc EXCEPT ![u] = "out"]
  /\ sysv_proc_mutex_unlock(u) \/ posix_proc_mutex_unlock(u) \/ file_proc_mutex_unlock(u)
  /\ UNCHANGED <<scheme, died_in, mtxvars>>

Dead(p) == \A t \in Threads : pc[<<p, t>>] = "gone"

\* The system undoes semaphore operations and drops file locks.
Die(p) ==
  /\ ~Dead(p) /\ Cardinality({q \in Procs : Dead(q)}) < MaxDeaths
  /\ died_in' = died_in \cup {q \in {p} : \E t \in Threads : pc[<<q, t>>] = "in"}
  /\ pc' = [u \in Users |-> IF u[1] = p THEN "gone" ELSE pc[u]]
  /\ sem' = sem + undo[p] /\ undo' = [undo EXCEPT ![p] = 0]
  /\ flock' = IF flock = p THEN NULL ELSE flock
  /\ UNCHANGED <<scheme, mtxvars>>

-----------------------------------------------------------------------------
\* `last` points into the list, unless the item it points to was freed.
add_mutex(m) ==
  /\ IF mutexes = <<>> \/ last \in Range(mutexes)
     THEN mutexes' = Append(mutexes, m) /\ UNCHANGED missed
     ELSE missed' = missed \cup {m} /\ UNCHANGED mutexes
  /\ last' = m

ci_thread_mutex_init(m) ==
  /\ m \notin live /\ live' = live \cup {m} /\ add_mutex(m)
  /\ UNCHANGED <<locked, lockvars>>

\* The first item with the mutex is taken out of the list.
First(s, x) == CHOOSE i \in DOMAIN s : s[i] = x /\ \A j \in 1 .. i - 1 : s[j] # x
Without(s, x) == IF x \in Range(s) THEN SubSeq(s, 1, First(s, x) - 1) \o SubSeq(s, First(s, x) + 1, Len(s)) ELSE s

\* A bug: what follows the removed item is dropped with it.
del_mutex_rest(m) ==
  mutexes' = IF m \in Range(mutexes) THEN SubSeq(mutexes, 1, First(mutexes, m) - 1) ELSE mutexes

\* `last` keeps its value.
del_mutex(m) == mutexes' = Without(mutexes, m)

ci_thread_mutex_destroy(m) ==
  /\ m \in live \ locked /\ live' = live \ {m} /\ del_mutex(m)
  /\ missed' = missed \ {m}
  /\ UNCHANGED <<last, locked, lockvars>>

LockThread(m) ==
  /\ m \in live \ locked /\ locked' = locked \cup {m}
  /\ UNCHANGED <<mutexes, last, live, missed, lockvars>>

UnlockThread(m) ==
  /\ m \in locked /\ locked' = locked \ {m}
  /\ UNCHANGED <<mutexes, last, live, missed, lockvars>>

\* What stays locked in a child that is forked now: init_child_mutexes.
LockedInChild == locked \ Range(mutexes)

Next ==
  \/ \E u \in Users : ci_proc_mutex_lock(u) \/ ci_proc_mutex_unlock(u)
  \/ \E p \in Procs : Die(p)
  \/ \E m \in Mutexes : ci_thread_mutex_init(m) \/ ci_thread_mutex_destroy(m)
                        \/ LockThread(m) \/ UnlockThread(m)

Spec == Init /\ [][Next]_vars

-----------------------------------------------------------------------------
In == {u \in Users : pc[u] = "in"}
Free == CASE scheme = "sysv" -> sem = 0
          [] scheme = "posix" -> sem = 1
          [] scheme = "file" -> flock = NULL

(* One thread at a time has the mutex; with file locks this needs that one    *)
(* thread of each process uses it, as for the mutex of accept. It is free     *)
(* again when its holder unlocks it or dies; only a POSIX semaphore stays     *)
(* taken by a process that died with it. A child is forked with every thread  *)
(* mutex unlocked, whatever its parent's threads hold, but for those that     *)
(* were initialised after the newest one was destroyed (del_mutex leaves      *)
(* `last` on its item).                                                       *)
LocksSound ==
  /\ \A u, v \in In : u = v
  /\ In = {} /\ ~(scheme = "posix" /\ died_in # {}) => Free
  /\ LockedInChild \subseteq missed

=============================================================================
