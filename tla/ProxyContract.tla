--------------------------- MODULE ProxyContract ---------------------------
(* What gw_rebuild relies on when it has started cloud-proxy-app: while the  *)
(* program runs it may write the output file; its exit code says what became *)
(* of the file, and GW_REBUILT (1) is only returned with a complete output.  *)
EXTENDS Integers

VARIABLES
  proc,     \* is the program running?
  code,     \* its exit code, NoCode before, Signalled when it was killed
  output    \* the file of -o: "empty" as created, "partial" or "rebuilt"

vars == <<proc, code, output>>

Outputs == {"empty", "partial", "rebuilt"}

GW_UNPROCESSED == 0
GW_REBUILT == 1
GW_FAILED == 2
GW_ERROR == 9

\* WIFEXITED is false for a program that was killed.
NoCode == -1
Signalled == -2

ReturnOutcome == {GW_UNPROCESSED, GW_REBUILT, GW_FAILED, GW_ERROR}

Init == proc = "running" /\ code = NoCode /\ output = "empty"

\* The program writes the output file.
Write ==
  /\ proc = "running"
  /\ output' \in Outputs
  /\ UNCHANGED <<proc, code>>

\* It ends: an output that is not the whole rebuilt file is never reported as
\* rebuilt, and the output is left alone when there is nothing to rebuild.
Exit ==
  /\ proc = "running"
  /\ proc' = "exited"
  /\ \/ code' = GW_REBUILT /\ output = "rebuilt"
     \/ code' \in {GW_UNPROCESSED, GW_FAILED} /\ output = "empty"
     \/ code' \in {GW_ERROR, Signalled}
  /\ UNCHANGED output

Next == Write \/ Exit

Spec == Init /\ [][Next]_vars
=============================================================================
