------------------------------ MODULE LdapTable ------------------------------
(***************************************************************************)
(* The LDAP lookup tables of modules/ldap_module.c.  Tables that name the  *)
(* same server, port, user and password share a pool of connections; a     *)
(* search takes a connection of the pool or opens one, asks the server,    *)
(* and gives it back.  What a critical section of a pool's mutex does is   *)
(* one step; what runs outside of it (binding, searching) are others.      *)
(* LDAP_MAX_CONNECTIONS is not defined by the build.                       *)
(***************************************************************************)
EXTENDS Naturals, Sequences, FiniteSets, Functions

CONSTANTS Threads, Tables, Keys, Vals,
  Pool,            \* table -> what search_ldap_pools compares
  Conns,           \* names of connections
  MaxFailures,     \* 5 in the code
  MaxSearches, MaxDowns, ttl, MaxTime

VARIABLES pools,       \* pool -> [inactive, used, connections]
          directory,   \* key -> its value at the server, or none
          up,          \* whether the server can be reached
          broken,      \* connections that the server ended
          cache, now, call, searches, downs, truth
vars == <<pools, directory, up, broken, cache, now, call, searches, downs, truth>>

None == "none"
NoConn == "-"
Found(v) == <<v>>
\* since, told and kept are history: when the search began, when the server gave the answer and when it was cached.
Idle == [pc |-> "idle", table |-> None, key |-> None, failures |-> 0, ld |-> NoConn, ret |-> <<>>,
         since |-> 0, told |-> 0, kept |-> 0]
Held(p) == Range(pools[p].inactive) \cup Range(pools[p].used)
Open == (UNION {Held(p) : p \in DOMAIN pools}) \cup {call[t].ld : t \in Threads}

(* --------------------------- tables and pools -------------------------- *)
\* ldap_pool_create: the pool is searched for and added under ldap_connections_pool_mtx
ldap_pool_create == [p \in {Pool[t] : t \in Tables} |-> [inactive |-> <<>>, used |-> <<>>, connections |-> 0]]
\* ldap_open of every table, when the configuration is read
Init ==
  /\ pools = ldap_pool_create
  /\ directory \in [Keys -> Vals \cup {None}] /\ up = TRUE /\ broken = {}
  /\ cache = [t \in Tables |-> [k \in Keys |-> <<>>]] /\ now = 0
  /\ call = [t \in Threads |-> Idle] /\ searches = 0 /\ downs = 0
  /\ truth = [k \in Keys |-> {<<directory[k], 0>>}]

(* ------------------------------- a search ------------------------------ *)
Goto(t, pc) == call' = [call EXCEPT ![t].pc = pc]
\* ldap_table_search up to the loop: a cached answer is returned, the answer "no such entry" as well
SearchBegin(t) ==
  /\ call[t].pc = "idle" /\ searches < MaxSearches
  /\ \E tb \in Tables, k \in Keys :
       LET e == cache[tb][k][1]
           begun == [Idle EXCEPT !.pc = "open", !.table = tb, !.key = k, !.since = now]
       IN call' = [call EXCEPT ![t] =
            IF cache[tb][k] # <<>> /\ e.expires >= now
            THEN [begun EXCEPT !.pc = "done", !.ret = e.val, !.told = e.told, !.kept = e.kept]
            ELSE begun]
  /\ searches' = searches + 1
  /\ UNCHANGED <<pools, directory, up, broken, cache, now, downs, truth>>
\* ldap_connection_open, first section: an inactive connection is taken; the loop's second condition comes after it
PoolOf(t) == Pool[call[t].table]
Opened(t, c) ==
  call' = [call EXCEPT ![t].ld = c, ![t].pc = IF call[t].failures < MaxFailures THEN "ask" ELSE "gave_up"]
TakeInactive(t) ==
  LET p == PoolOf(t) IN
  /\ call[t].pc = "open" /\ pools[p].inactive # <<>>
  /\ LET c == Head(pools[p].inactive)
     IN pools' = [pools EXCEPT ![p].inactive = Tail(@), ![p].used = <<c>> \o @] /\ Opened(t, c)
  /\ UNCHANGED <<directory, up, broken, cache, now, searches, downs, truth>>
NoneInactive(t) ==
  /\ call[t].pc = "open" /\ pools[PoolOf(t)].inactive = <<>> /\ Goto(t, "bind")
  /\ UNCHANGED <<pools, directory, up, broken, cache, now, searches, downs, truth>>
\* ldap_connection_open without the mutex: ldap_initialize and ldap_sasl_bind_s
Bind(t) ==
  /\ call[t].pc = "bind"
  /\ \/ /\ up /\ Conns \ Open # {}
        /\ LET c == CHOOSE x \in Conns : x \notin Open
           IN call' = [call EXCEPT ![t].ld = c, ![t].pc = "bound"] /\ broken' = broken \ {c}
     \/ ~up /\ Goto(t, "done") /\ UNCHANGED broken   \* ldap_connection_open returns NULL
  /\ UNCHANGED <<pools, directory, up, cache, now, searches, downs, truth>>
AddUsed(t) ==
  LET p == PoolOf(t) IN
  /\ call[t].pc = "bound"
  /\ pools' = [pools EXCEPT ![p].used = <<call[t].ld>> \o @, ![p].connections = @ + 1]
  /\ Opened(t, call[t].ld)
  /\ UNCHANGED <<directory, up, broken, cache, now, searches, downs, truth>>
\* ldap_search_ext_s: the server answers, is down, or refuses
Ask(t) ==
  /\ call[t].pc = "ask"
  /\ \/ /\ call[t].ld \notin broken
        /\ LET v == directory[call[t].key] IN
           call' = [call EXCEPT ![t].pc = "release", ![t].ret = IF v = None THEN <<>> ELSE Found(v),
                                ![t].told = now, ![t].kept = now]
     \/ call[t].ld \in broken /\ Goto(t, "release_down")      \* LDAP_SERVER_DOWN
     \/ Goto(t, "release_error")
  /\ UNCHANGED <<pools, directory, up, broken, cache, now, searches, downs, truth>>
\* ldap_connection_release, which unlinks the first item of used_connections that has the connection
First(s, x) == CHOOSE i \in DOMAIN s : s[i] = x /\ \A j \in 1 .. i - 1 : s[j] # x
Without(s, x) == IF x \in Range(s) THEN SubSeq(s, 1, First(s, x) - 1) \o SubSeq(s, First(s, x) + 1, Len(s)) ELSE s
Released_still_used(p, c, close) ==
  [pools[p] EXCEPT !.connections = IF close THEN @ - 1 ELSE @, !.inactive = IF close THEN @ ELSE <<c>> \o @]
Released(p, c, close) ==
  [pools[p] EXCEPT !.used = Without(@, c), !.connections = IF close THEN @ - 1 ELSE @,
                   !.inactive = IF close THEN @ ELSE <<c>> \o @]
ldap_connection_release(t) ==
  LET p == PoolOf(t) IN
  /\ call[t].pc \in {"release", "release_down", "release_error"}
  /\ pools' = [pools EXCEPT ![p] = Released(p, call[t].ld, call[t].pc # "release")]
  /\ call' = [call EXCEPT ![t].ld = NoConn,
       ![t].pc = CASE call[t].pc = "release" -> "store" [] call[t].pc = "release_down" -> "open" [] OTHER -> "done",
       ![t].failures = IF call[t].pc = "release_down" THEN @ + 1 ELSE @]
  /\ UNCHANGED <<directory, up, broken, cache, now, searches, downs, truth>>
\* ci_cache_update: what the server said, also that it has no such entry
Store(t) ==
  /\ call[t].pc = "store" /\ Goto(t, "done")
  /\ cache' = [cache EXCEPT ![call[t].table][call[t].key] =
       <<[val |-> call[t].ret, expires |-> now + ttl, told |-> call[t].told, kept |-> now]>>]
  /\ UNCHANGED <<pools, directory, up, broken, now, searches, downs, truth>>
\* The loop ends on its second condition: the connection that was just opened is not given back.
GiveUp(t) ==
  /\ call[t].pc = "gave_up" /\ call' = [call EXCEPT ![t].pc = "done", ![t].ld = NoConn, ![t].ret = <<>>]
  /\ UNCHANGED <<pools, directory, up, broken, cache, now, searches, downs, truth>>
Return(t) == /\ call[t].pc = "done" /\ call' = [call EXCEPT ![t] = Idle]
             /\ UNCHANGED <<pools, directory, up, broken, cache, now, searches, downs, truth>>

(* ------------------------------ the server ----------------------------- *)
ServerGoes == /\ up /\ downs < MaxDowns /\ up' = FALSE /\ downs' = downs + 1 /\ broken' = Open \ {NoConn}
              /\ UNCHANGED <<pools, directory, cache, now, call, searches, truth>>
ServerComes == /\ ~up /\ up' = TRUE
               /\ UNCHANGED <<pools, directory, broken, cache, now, call, searches, downs, truth>>
EntryChanges == /\ \E k \in Keys, v \in Vals \cup {None} :
                     v # directory[k] /\ directory' = [directory EXCEPT ![k] = v]
                                      /\ truth' = [truth EXCEPT ![k] = @ \cup {<<v, now + 1>>}]
                /\ now < MaxTime /\ now' = now + 1
                /\ UNCHANGED <<pools, up, broken, cache, call, searches, downs>>

Next == \/ \E t \in Threads : SearchBegin(t) \/ TakeInactive(t) \/ NoneInactive(t) \/ Bind(t) \/ AddUsed(t) \/ Ask(t)
                              \/ ldap_connection_release(t) \/ Store(t) \/ GiveUp(t) \/ Return(t)
        \/ ServerGoes \/ ServerComes \/ EntryChanges
Spec == Init /\ [][Next]_vars

(* ------------------------------ properties ----------------------------- *)
\* The value of key k at a time was v: it was set by then, and not set again until after it.
WasTrue(k, v, time) ==
  \E e \in truth[k] : e[1] = v /\ e[2] <= time /\ \A f \in truth[k] : f[2] <= e[2] \/ f[2] > time
\* A connection is in one list of one pool, and once; no two searches use one; the counter of the pool counts its
\* connections; and an answer is what the server had when it was asked, and came, or was cached, no longer than ttl
\* before the search began.
PoolsSound ==
  /\ \A p \in DOMAIN pools :
       /\ Len(pools[p].inactive) + Len(pools[p].used) = pools[p].connections
       /\ Cardinality(Held(p)) = pools[p].connections
       /\ \A q \in DOMAIN pools \ {p} : Held(p) \cap Held(q) = {}
  /\ \A t \in Threads : /\ call[t].ld # NoConn /\ call[t].pc # "bound" => call[t].ld \in Range(pools[PoolOf(t)].used)
                        /\ \A u \in Threads \ {t} : call[t].ld # NoConn => call[u].ld # call[t].ld
                        /\ call[t].pc = "done" /\ call[t].ret # <<>> =>
                             /\ WasTrue(call[t].key, call[t].ret[1], call[t].told)
                             /\ call[t].told <= call[t].kept /\ call[t].since <= call[t].kept + ttl
\* "Not released ldap connections for pool %s. This is BUG!": when no search runs, none is in use.  (Refuted: after the
\* last failure a connection is opened once more, and the loop ends without it.)
AllReleased == (\A t \in Threads : call[t].pc = "idle") => \A p \in DOMAIN pools : pools[p].used = <<>>
=============================================================================
