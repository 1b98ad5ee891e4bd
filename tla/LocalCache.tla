----------------------------- MODULE LocalCache -----------------------------
(* The local cache of cache.c: a fixed number of entries in a queue, oldest   *)
(* first, and in the chains of a hash table, newest first. Threads search and *)
(* update it under one mutex; an update reads the clock before it has the     *)
(* mutex. The queue and the chains are sequences of entries.                  *)
EXTENDS Integers, Sequences, FiniteSets
LOCAL INSTANCE SequencesExt

CONSTANTS
  Threads, Keys, Vals,
  Hash,            \* hash of each key: ci_hash_compute
  HashSize,        \* the table has chains 0 .. HashSize
  cache_items,     \* entries
  ttl,
  MaxTime          \* bound: the clock

VARIABLES
  now,             \* what time() returns, large enough at start for time 0 to be old
  entry,           \* key, val, time and hash of each entry
  queue, hash_table,
  call,            \* what each thread is about to store, and the time it read
  latest           \* the update of each key that succeeded last

vars == <<now, entry, queue, hash_table, call, latest>>

NULL == "null"
Entries == 1 .. cache_items
Empty == [key |-> NULL, val |-> NULL, time |-> 0, hash |-> 0]
NoCall == [key |-> NULL, val |-> NULL, time |-> 0]

ci_local_cache_init ==
  /\ queue = [i \in Entries |-> i]
  /\ entry = [e \in Entries |-> Empty]
  /\ hash_table = [x \in 0 .. HashSize |-> <<>>]

Init ==
  /\ ci_local_cache_init
  /\ now = ttl + 1 /\ call = [t \in Threads |-> NoCall]
  /\ latest = [k \in Keys |-> [val |-> NULL, time |-> 0]]

Expired(e) == now - entry[e].time > ttl

\* The first entry of the chain with the key ends the search, expired or not.
ci_local_cache_search(key) ==
  LET chain == hash_table[Hash[key]]
      i == SelectInSeq(chain, LAMBDA e : entry[e].key = key)
  IN IF i = 0 \/ Expired(chain[i]) THEN [found |-> FALSE, val |-> NULL]
     ELSE [found |-> TRUE, val |-> entry[chain[i]].val]

UpdateBegin(t) ==
  /\ call[t] = NoCall
  /\ \E k \in Keys, v \in Vals : call' = [call EXCEPT ![t] = [key |-> k, val |-> v, time |-> now]]
  /\ UNCHANGED <<now, entry, queue, hash_table, latest>>

Oldest == Head(queue)
Unlinked == [hash_table EXCEPT ![entry[Oldest].hash] =
               SelectSeq(@, LAMBDA e : e # Oldest)]
\* A bug: the oldest entry is taken while it is still valid.
Available_always(t) == TRUE
Available(t) == call[t].time - entry[Oldest].time >= ttl

\* No entry is old enough.
UpdateRefused(t) ==
  /\ call[t] # NoCall /\ ~Available(t)
  /\ call' = [call EXCEPT ![t] = NoCall]
  /\ UNCHANGED <<now, entry, queue, hash_table, latest>>

\* The oldest entry is given up before memory for the new one is there.
UpdateFails(t) ==
  /\ call[t] # NoCall /\ Available(t)
  /\ entry' = [entry EXCEPT ![Oldest] = Empty]
  /\ hash_table' = Unlinked
  /\ call' = [call EXCEPT ![t] = NoCall]
  /\ UNCHANGED <<now, queue, latest>>

ci_local_cache_update(t) ==
  LET c == call[t] IN
    /\ c # NoCall /\ Available(t)
    /\ entry' = [entry EXCEPT ![Oldest] =
                   [key |-> c.key, val |-> c.val, time |-> c.time, hash |-> Hash[c.key]]]
    /\ hash_table' = [Unlinked EXCEPT ![Hash[c.key]] = <<Oldest>> \o @]
    /\ queue' = Append(Tail(queue), Oldest)
    /\ latest' = [latest EXCEPT ![c.key] = [val |-> c.val, time |-> c.time]]
    /\ call' = [call EXCEPT ![t] = NoCall]
    /\ UNCHANGED now

Tick == now < MaxTime /\ now' = now + 1 /\ UNCHANGED <<entry, queue, hash_table, call, latest>>

Next ==
  \/ Tick
  \/ \E t \in Threads : UpdateBegin(t) \/ UpdateRefused(t) \/ UpdateFails(t)
                        \/ ci_local_cache_update(t)

Spec == Init /\ [][Next]_vars

-----------------------------------------------------------------------------
(* A search gives the value stored last for the key, however updates of it    *)
(* raced, for as long as it is valid and not any longer, and never an older   *)
(* value; an update takes no entry that is valid, and one that fails loses    *)
(* nothing that is.                                                           *)
CacheExact ==
  \A k \in Keys :
    LET age == now - latest[k].time
        hit == ci_local_cache_search(k)
    IN /\ hit.found => hit.val = latest[k].val /\ age <= ttl
       /\ latest[k].val # NULL /\ age < ttl => hit.found

(* Each entry is in the queue once, and in the chain of its hash if and only  *)
(* if it has a key: ci_local_cache_search compares no key that is NULL.       *)
ChainsWhole ==
  /\ Len(queue) = cache_items /\ ToSet(queue) = Entries
  /\ \A x \in 0 .. HashSize :
       /\ IsInjective(hash_table[x])
       /\ ToSet(hash_table[x]) = {e \in Entries : entry[e].key # NULL /\ entry[e].hash = x}

=============================================================================
