----------------------------- MODULE MCGwRebuild -----------------------------
(* Instances of GwRebuild for TLC. With a MaxObjectSize of 3 bodies of 0, 2,  *)
(* 3 and 4 bytes lie below, on and above the limit, and previews of 0 to 2    *)
(* bytes leave the rest of a body to gw_rebuild_io; one body of 4 bytes comes *)
(* whole in a preview above the limit. Every kind of request is handled       *)
(* alone; pairs of a few kinds show what two workers of a child do to each    *)
(* other, with and without failing forks.                                     *)
EXTENDS GwRebuild

CONSTANTS r1, r2

TwoRequests == {r1, r2}

Bodies(sizes, previews) ==
  {k \in [size : sizes, preview : previews, allow204 : BOOLEAN,
          sizelimit : BOOLEAN, fails : {{}}, cleanup : {TRUE}] : k.preview <= k.size}

Bare(preview, allow204) ==
  [size |-> NoBody, preview |-> preview, allow204 |-> allow204, sizelimit |-> TRUE,
   fails |-> {}, cleanup |-> TRUE]

Small(bytes, preview, allow204, fails) ==
  [size |-> bytes, preview |-> preview, allow204 |-> allow204, sizelimit |-> TRUE,
   fails |-> fails, cleanup |-> TRUE]

\* The same requests in a child without DataCleanup.
Uncleaned(loads) == {[r \in TwoRequests |-> [load[r] EXCEPT !.cleanup = FALSE]] : load \in loads}

Alone(kinds) == {[r \in TwoRequests |-> IF r = r1 THEN k ELSE Idle] : k \in kinds}

Healthy == {Small(1, 1, TRUE, {}), Small(2, -1, FALSE, {})}
Faulty == {Small(1, 1, FALSE, {"fork"}), Small(1, 1, FALSE, {"execvp"}), Bare(-1, FALSE)}

AllLoads ==
  Alone(Bodies({0, 2, 3, 4}, {-1, 0, 1, 2})
          \cup {Small(4, 4, FALSE, {}), Bare(0, FALSE), Bare(-1, TRUE)})
    \cup [TwoRequests -> Healthy] \cup [TwoRequests -> Faulty]
    \cup Uncleaned({load \in [TwoRequests -> Healthy] : load[r1].size < load[r2].size})

\* Refutes OwnOutcome. AnsweredOnce is refuted by a request whose execvp may fail,
\* FreedOnce by any request, OwnContent by any two of Healthy, MaximumScanned by a body of
\* MAX_OBJECT_SIZE bytes, LargerRefused by Small(4, 4, FALSE, {}),
\* ErrorStopsSending by a rebuilt file of that size, and HeadersCopied by
\* Bare(-1, FALSE): all in AllLoads.
ForkLoads == [TwoRequests -> {Small(1, 1, FALSE, {"fork"})}]

Rebuilds == {0, 1, 3}
=============================================================================
