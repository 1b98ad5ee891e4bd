----------------------------- MODULE ByteStream -----------------------------
(* What the body containers of body.c promise: bytes come out in the order   *)
(* they went in, none is lost, made up or delivered twice, and the end is    *)
(* reported once nothing is left. Byte number i is the i-th byte accepted.   *)
EXTENDS Naturals, Sequences

VARIABLES
  accepted,    \* bytes taken so far
  delivered,   \* bytes handed out so far
  closed,      \* the end was written
  result       \* what the last read returned: a sequence of bytes, or Eof

vars == <<accepted, delivered, closed, result>>

Eof == <<0>>

Init == accepted = 0 /\ delivered = 0 /\ closed = FALSE /\ result = <<>>

Write ==
  /\ ~closed
  /\ accepted' >= accepted /\ accepted' \in Nat
  /\ closed' \in BOOLEAN
  /\ UNCHANGED <<delivered, result>>

Read ==
  /\ delivered' \in delivered .. accepted
  /\ result' = [i \in 1 .. (delivered' - delivered) |-> delivered + i]
  /\ UNCHANGED <<accepted, closed>>

End ==
  /\ closed /\ delivered = accepted
  /\ result' = Eof
  /\ UNCHANGED <<accepted, delivered, closed>>

Next == Write \/ Read \/ End

Spec == Init /\ [][Next]_vars
=============================================================================
