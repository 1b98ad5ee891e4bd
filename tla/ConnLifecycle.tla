--------------------------- MODULE ConnLifecycle ---------------------------
(***************************************************************************)
(* What a child process promises for client connections, with no queue, no *)
(* listener and no counters: a connection is accepted once, then served by *)
(* at most one server (worker thread) that serves nothing else meanwhile,  *)
(* and is never touched again once it is over.                             *)
(***************************************************************************)
CONSTANTS Conns, Servers, None

VARIABLES
  unseen,    \* connections nobody has accepted
  waiting,   \* accepted, not yet with a server
  serving,   \* what each server serves
  over       \* closed, aborted or dropped

vars == <<unseen, waiting, serving, over>>

Init ==
  /\ unseen = Conns
  /\ waiting = {}
  /\ serving = [s \in Servers |-> None]
  /\ over = {}

Accept(c) ==
  /\ c \in unseen
  /\ unseen' = unseen \ {c}
  /\ waiting' = waiting \cup {c}
  /\ UNCHANGED <<serving, over>>

\* The client went away before it was accepted.
Abort(c) ==
  /\ c \in unseen
  /\ unseen' = unseen \ {c}
  /\ over' = over \cup {c}
  /\ UNCHANGED <<waiting, serving>>

Drop(c) ==
  /\ c \in waiting
  /\ waiting' = waiting \ {c}
  /\ over' = over \cup {c}
  /\ UNCHANGED <<unseen, serving>>

Serve(s, c) ==
  /\ c \in waiting
  /\ serving[s] = None
  /\ waiting' = waiting \ {c}
  /\ serving' = [serving EXCEPT ![s] = c]
  /\ UNCHANGED <<unseen, over>>

Finish(s) ==
  /\ serving[s] # None
  /\ serving' = [serving EXCEPT ![s] = None]
  /\ over' = over \cup {serving[s]}
  /\ UNCHANGED <<unseen, waiting>>

Next ==
  \/ \E c \in Conns : Accept(c) \/ Abort(c) \/ Drop(c)
  \/ \E s \in Servers, c \in Conns : Serve(s, c)
  \/ \E s \in Servers : Finish(s)

Spec == Init /\ [][Next]_vars
=============================================================================
