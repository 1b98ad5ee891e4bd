----------------------------- MODULE SharedCache ----------------------------
(* The cache in shared memory (modules/shared_cache.c): slots in pages, a     *)
(* lock per page, used by the threads of the server's processes. A key goes   *)
(* to the slot of its hash or, when that one is taken, to a later slot of the *)
(* page. The lock is a semaphore or, the default, a file lock, which belongs  *)
(* to the process: its threads do not keep each other out, and the first that *)
(* is done drops it for all. A thread goes on when its lock fails. A process  *)
(* may be killed at any point; its locks are then undone, and what it was     *)
(* writing stays as it is.                                                    *)
EXTENDS Integers, FiniteSets, FiniteSetsExt

CONSTANTS
  Procs, Threads,
  Proc,            \* process of each thread
  Keys,
  Hash,            \* hash of each key, below Entries
  Entries, PageSize,
  ttl,
  MaxTime, MaxCalls, MaxFaults
                   \* bounds: the clock, calls, killed processes and failed locks

VARIABLES
  now,
  slot,            \* hash, expires, key and val of each position
  scheme,          \* of the mutexes: "sysv" or "file"
  lock,            \* of each page: semaphore, what it owes each process, holder of the file lock
  pc,              \* step of each thread, and what it stores or looks for where
  cache_users,     \* counter in the shared memory
  attached,        \* processes that have the memory attached
  destroyed,       \* the memory is removed
  calls, kills, fails,
  latest,          \* the update of each key that succeeded last, and when
  torn,            \* positions where a killed process was writing
  crowded          \* two threads were in one page at once

vars == <<now, slot, scheme, lock, pc, cache_users, attached, destroyed, calls, kills, fails,
          latest, torn, crowded>>
memory == <<cache_users, attached, destroyed>>
past == <<calls, kills, fails, latest, torn, crowded>>

NULL == "null"
Idle == [at |-> "idle", op |-> NULL, key |-> NULL, val |-> NULL, time |-> 0, pos |-> 0]
Page(pos) == pos \div PageSize
Positions == 0 .. Entries - 1

ci_shared_cache_init ==
  /\ slot = [p \in Positions |-> [hash |-> 0, expires |-> 0, key |-> NULL, val |-> NULL]]
  /\ lock = [g \in {Page(p) : p \in Positions} |->
               [sem |-> 0, undo |-> [p \in Procs |-> 0], flock |-> NULL]]
  /\ cache_users = 1 /\ destroyed = FALSE

Init ==
  /\ ci_shared_cache_init
  /\ attached = {CHOOSE p \in Procs : TRUE}
  /\ now = 1 /\ pc = [t \in Threads |-> Idle] /\ scheme \in {"sysv", "file"}
  /\ calls = 0 /\ kills = 0 /\ fails = 0 /\ torn = {} /\ crowded = FALSE
  /\ latest = [k \in Keys |-> [val |-> NULL, expires |-> 0]]

\* A child attaches when it starts.
command_attach_shared_mem(p) ==
  /\ p \notin attached /\ ~destroyed /\ attached # {}
  /\ attached' = attached \cup {p} /\ cache_users' = cache_users + 1
  /\ UNCHANGED <<now, slot, scheme, lock, pc, destroyed, past>>

\* The search goes on to the next slot only from one whose hash is the key's.
ci_shared_cache_search(key) ==
  LET s == slot[Hash[key]] IN
    IF s.hash = Hash[key] /\ s.key = key /\ s.expires >= now
    THEN [found |-> TRUE, pos |-> Hash[key], val |-> s.val]
    ELSE LET later == {q \in Hash[key] + 1 .. Entries - 1 :
                         /\ Page(q) = Page(Hash[key])
                         /\ \A r \in Hash[key] .. q : slot[r].hash = Hash[key]
                         /\ slot[q].key = key /\ slot[q].expires >= now}
         IN IF later = {} THEN [found |-> FALSE, pos |-> 0, val |-> NULL]
            ELSE LET q == CHOOSE x \in later : \A y \in later : x <= y
                 IN [found |-> TRUE, pos |-> q, val |-> slot[q].val]

Called(t) == /\ Proc[t] \in attached /\ pc[t] = Idle /\ calls < MaxCalls /\ calls' = calls + 1
             /\ UNCHANGED <<now, slot, scheme, lock, memory, kills, fails, latest, torn, crowded>>

\* A value is known by its key and by the time of its update.
UpdateBegin(t) ==
  /\ Called(t)
  /\ \E k \in Keys :
       pc' = [pc EXCEPT ![t] = [at |-> "lock", op |-> "update", key |-> k, val |-> <<k, now>>,
                                time |-> now, pos |-> Hash[k]]]

SearchBegin(t) ==
  /\ Called(t)
  /\ \E k \in Keys :
       pc' = [pc EXCEPT ![t] = [Idle EXCEPT !.at = "lock", !.op = "search", !.key = k,
                                            !.pos = Hash[k]]]

Goto(t, at) == pc' = [pc EXCEPT ![t].at = at]

Inside(g) == {t \in Threads : /\ pc[t].at \in {"probe", "key", "value", "unlock"}
                              /\ Page(pc[t].pos) = g}

\* ci_proc_mutex_lock and ci_proc_mutex_unlock for a process.
proc_mutex_lock(g, p) ==
  \/ /\ scheme = "sysv" /\ lock[g].sem = 0
     /\ lock' = [lock EXCEPT ![g].sem = 1, ![g].undo[p] = @ - 1]
  \/ /\ scheme = "file" /\ lock[g].flock \in {NULL, p}
     /\ lock' = [lock EXCEPT ![g].flock = p]

proc_mutex_unlock(g, p) ==
  lock' = IF scheme = "file" /\ lock[g].flock = p THEN [lock EXCEPT ![g].flock = NULL]
          ELSE IF scheme = "sysv" /\ lock[g].sem > 0
          THEN [lock EXCEPT ![g].sem = @ - 1, ![g].undo[p] = @ + 1]
          ELSE lock

\* A bug: the lock of the page is taken for granted.
rw_lock_page_none(t) ==
  /\ pc[t].at = "lock" /\ Goto(t, "probe")
  /\ crowded' = (crowded \/ Inside(Page(pc[t].pos)) # {})
  /\ UNCHANGED <<now, slot, scheme, lock, memory, calls, kills, fails, latest, torn>>

\* rd_lock_page is the same. What ci_proc_mutex_lock returns is not looked at.
rw_lock_page(t) ==
  LET g == Page(pc[t].pos) IN
    /\ pc[t].at = "lock" /\ Goto(t, "probe")
    /\ \/ proc_mutex_lock(g, Proc[t]) /\ UNCHANGED fails
       \/ kills + fails < MaxFaults /\ fails' = fails + 1 /\ UNCHANGED lock
    /\ crowded' = (crowded \/ Inside(g) # {})
    /\ UNCHANGED <<now, slot, scheme, memory, calls, kills, latest, torn>>

\* The search of a thread that is in the page.
Search(t) ==
  LET hit == ci_shared_cache_search(pc[t].key) IN
    /\ pc[t].at = "probe" /\ pc[t].op = "search"
    /\ pc' = [pc EXCEPT ![t] = IF hit.found
                               THEN [@ EXCEPT !.at = "unlock", !.op = "hit", !.pos = hit.pos,
                                              !.val = hit.val, !.time = now]
                               ELSE [@ EXCEPT !.at = "unlock"]]
    /\ UNCHANGED <<now, slot, scheme, lock, memory, past>>

CanUpdate(t) ==
  LET c == pc[t] s == slot[c.pos] h == Hash[c.key] IN
    \/ s.hash < h
    \/ s.key = c.key
    \/ s.expires < c.time + ttl
    \/ c.pos = h /\ s.expires < c.time + (ttl \div 2)

\* The next slot; none when it begins another block or the page ends.
Probe(t) ==
  LET c == pc[t] h == Hash[c.key]
      stop == c.pos # h /\ slot[c.pos].hash = c.pos
  IN /\ c.at = "probe" /\ c.op = "update" /\ ~CanUpdate(t)
     /\ pc' = IF stop \/ Page(c.pos + 1) # Page(h)
              THEN [pc EXCEPT ![t].at = "unlock", ![t].pos = h]
              ELSE [pc EXCEPT ![t].pos = @ + 1]
     /\ UNCHANGED <<now, slot, scheme, lock, memory, past>>

\* The slot's fields are written one after the other: header, key, value.
WriteHeader(t) ==
  LET c == pc[t] IN
    /\ c.at = "probe" /\ c.op = "update" /\ CanUpdate(t)
    /\ slot' = [slot EXCEPT ![c.pos].hash = c.pos, ![c.pos].expires = c.time + ttl]
    /\ Goto(t, "key")
    /\ UNCHANGED <<now, scheme, lock, memory, past>>

WriteKey(t) ==
  LET c == pc[t] IN
    /\ c.at = "key"
    /\ slot' = [slot EXCEPT ![c.pos].key = c.key] /\ Goto(t, "value")
    /\ UNCHANGED <<now, scheme, lock, memory, past>>

WriteValue(t) ==
  LET c == pc[t] IN
    /\ c.at = "value"
    /\ slot' = [slot EXCEPT ![c.pos].val = c.val] /\ Goto(t, "unlock")
    /\ latest' = [latest EXCEPT ![c.key] = [val |-> c.val, expires |-> c.time + ttl]]
    /\ torn' = torn \ {c.pos}
    /\ UNCHANGED <<now, scheme, lock, memory, calls, kills, fails, crowded>>

unlock_page(t) ==
  /\ pc[t].at = "unlock" /\ proc_mutex_unlock(Page(pc[t].pos), Proc[t])
  /\ pc' = [pc EXCEPT ![t] = Idle]
  /\ UNCHANGED <<now, slot, scheme, memory, past>>

\* The last user removes the memory, the others detach from it.
ci_shared_cache_destroy(p) ==
  /\ p \in attached /\ \A t \in Threads : Proc[t] = p => pc[t] = Idle
  /\ cache_users' = cache_users - 1 /\ attached' = attached \ {p}
  /\ destroyed' = (cache_users = 1)
  /\ UNCHANGED <<now, slot, scheme, lock, pc, past>>

\* The system undoes the process's semaphore operations and drops its file locks.
Kill(p) ==
  LET mine == {t \in Threads : Proc[t] = p} IN
    /\ p \in attached /\ kills + fails < MaxFaults
    /\ kills' = kills + 1 /\ attached' = attached \ {p}
    /\ lock' = [g \in DOMAIN lock |->
                  [sem |-> Max({0, lock[g].sem + lock[g].undo[p]}),
                   undo |-> [lock[g].undo EXCEPT ![p] = 0],
                   flock |-> IF lock[g].flock = p THEN NULL ELSE lock[g].flock]]
    /\ torn' = torn \cup {pc[t].pos : t \in {u \in mine : pc[u].at \in {"key", "value"}}}
    /\ pc' = [t \in Threads |-> IF t \in mine THEN Idle ELSE pc[t]]
    /\ UNCHANGED <<now, slot, scheme, cache_users, destroyed, calls, fails, latest, crowded>>

Tick == /\ now < MaxTime /\ now' = now + 1
        /\ UNCHANGED <<slot, scheme, lock, pc, memory, past>>

Next ==
  \/ Tick
  \/ \E p \in Procs : command_attach_shared_mem(p) \/ ci_shared_cache_destroy(p) \/ Kill(p)
  \/ \E t \in Threads :
       \/ UpdateBegin(t) \/ SearchBegin(t) \/ rw_lock_page(t) \/ Search(t) \/ Probe(t)
       \/ WriteHeader(t) \/ WriteKey(t) \/ WriteValue(t) \/ unlock_page(t)

Spec == Init /\ [][Next]_vars

-----------------------------------------------------------------------------
(* A search that finds a key in a slot no process died writing gives the      *)
(* value that was stored last for the key, not expired: a hit never mixes two *)
(* writers or two keys. That is so until two threads are in one page at once, *)
(* which takes a lock that failed, or two threads of one process that use the *)
(* cache under the file locks of the default scheme.                          *)
SharedHitTrue ==
  /\ crowded => \/ fails > 0
                \/ scheme = "file" /\ \E t, u \in Threads : t # u /\ Proc[t] = Proc[u]
  /\ ~crowded => \A t \in Threads :
       pc[t].op = "hit" /\ pc[t].pos \notin torn
         => pc[t].val = latest[pc[t].key].val /\ latest[pc[t].key].expires >= pc[t].time

(* (refuted) A page has one thread in it at a time: not with the default      *)
(* scheme, where two workers of a child look up or store at once.             *)
ThreadsExcluded == ~crowded

(* The memory is removed only when no process uses it; a process that was     *)
(* killed stays counted, so then it is not removed at all.                    *)
MemoryWhileUsed ==
  /\ attached # {} => ~destroyed
  /\ cache_users = Cardinality(attached) + kills

=============================================================================
