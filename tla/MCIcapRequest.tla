---------------------------- MODULE MCIcapRequest ----------------------------
(* Requests for the runs of IcapRequest. A service that keeps its data locked *)
(* holds the whole body; one that unlocks it holds one item, so that it takes *)
(* the body only as fast as the client takes the answer; with a failing       *)
(* connection it holds all again.                                             *)
EXTENDS IcapRequest, TLC

Mod(preview, ieof, rest, hasbody, allow204, allow206) ==
  [type |-> "MOD", preview |-> preview, ieof |-> ieof, rest |-> rest,
   hasbody |-> hasbody, allow204 |-> allow204, allow206 |-> allow206, heads |-> 1]

\* Requests with a preview: all of the body, a part of it, or no body.
Previews ==
  {Mod(1, TRUE, 0, TRUE, a, b) : a \in BOOLEAN, b \in BOOLEAN}
    \cup {Mod(n, FALSE, 2, TRUE, a, b) : n \in 0 .. 1, a \in BOOLEAN, b \in BOOLEAN}
    \cup {Mod(0, FALSE, 0, FALSE, a, FALSE) : a \in BOOLEAN}

\* Requests without one, whose client takes a 204, or does not.
Plain204 == {Mod(-1, FALSE, n, TRUE, TRUE, FALSE) : n \in 0 .. 3}
PlainBody == {Mod(-1, FALSE, n, TRUE, FALSE, FALSE) : n \in 0 .. 5}
PlainEmpty == {Mod(-1, FALSE, 0, FALSE, a, a) : a \in BOOLEAN}
Plain206 == {Mod(-1, FALSE, 1, TRUE, TRUE, TRUE)}

OptionsRequest == [Mod(-1, FALSE, 0, FALSE, FALSE, FALSE) EXCEPT !.type = "OPTIONS", !.heads = 0]

Served(requests, unlock, cap, faults) ==
  {[unlock |-> unlock, cap |-> cap, faults |-> faults] @@ r : r \in requests}

AllRequests ==
  Served(Previews \cup Plain204 \cup PlainBody \cup PlainEmpty \cup {OptionsRequest},
         FALSE, 5, FALSE)
    \cup Served(Previews \cup PlainBody \cup PlainEmpty, TRUE, 1, FALSE)
    \cup UNION {Served(Previews \cup PlainBody \cup PlainEmpty, unlock, 5, TRUE) :
                  unlock \in BOOLEAN}

\* They are what the theorems about IcapRequest ask for.
ASSUME AllRequestsAssumption == LocksFor204 /\ TakesAll /\ Undisturbed

\* Requests left out of AllRequests, and the property that each of them refutes:
\* a failing connection while the service still has data to take; a 204 of a
\* service that unlocks its data; a 206 outside preview; an OPTIONS whose answer
\* cannot be written; a body that is dropped when the connection fails. With an
\* EchoCap of 4, or of 2 and an unlocking service, PlainBody refutes OkIsWhole;
\* with ALLOW204_AS_200OK_ZERO_ENCAPS Previews refutes EndsAt204.
RefutesServiceGetsAll == Served(PlainBody, TRUE, 1, TRUE)
RefutesOneAnswer == Served(Plain204, TRUE, 5, FALSE)
RefutesServiceGetsAll206 == Served(Plain206, FALSE, 5, FALSE)
RefutesOkIsWhole == Served({OptionsRequest}, FALSE, 5, TRUE)
RefutesErrorCloses == Served(Plain204, FALSE, 5, TRUE)
=============================================================================
