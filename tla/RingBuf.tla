------------------------------- MODULE RingBuf -------------------------------
(* The ring buffer of body.c, which carries a body that is echoed while it is *)
(* received. Positions are offsets into buf. ci_ring_buf_write and            *)
(* ci_ring_buf_read are loops over at most two blocks; a round of the loop is *)
(* a step, and a call begins in the state "idle" and ends there.              *)
EXTENDS Integers, Sequences

CONSTANTS
  Size,      \* the size given to ci_ring_buf_new
  MaxCall,   \* the largest size passed to a read or a write
  Total      \* bound on the bytes written in a behaviour

ASSUME ConstantsAssumption ==
  Size \in Nat \ {0} /\ MaxCall \in Nat \ {0} /\ Total \in Nat

VARIABLES
  buf,                  \* the bytes, see ByteStream
  read_pos, write_pos, full,
  op,                   \* the call in progress: "idle", "write" or "read"
  size, ret,            \* its locals: bytes still to do, the block's result
  accepted, delivered,  \* bytes written and read so far
  result                \* the block the last round of a read copied out

ring == <<buf, read_pos, write_pos, full>>
vars == <<ring, op, size, ret, accepted, delivered, result>>

end_buf == Size - 1

TypeOK ==
  /\ buf \in [0 .. end_buf -> Nat]
  /\ read_pos \in 0 .. end_buf /\ write_pos \in 0 .. end_buf
  /\ full \in BOOLEAN
  /\ op \in {"idle", "write", "read"}
  /\ size \in 0 .. MaxCall /\ ret \in BOOLEAN
  /\ accepted \in Nat /\ delivered \in Nat
  /\ result \in Seq(Nat)

\* ci_ring_buf_new
Init ==
  /\ buf = [i \in 0 .. end_buf |-> 0]
  /\ read_pos = 0 /\ write_pos = 0 /\ full = FALSE
  /\ op = "idle" /\ size = 0 /\ ret = FALSE
  /\ accepted = 0 /\ delivered = 0 /\ result = <<>>

is_empty == read_pos = write_pos /\ ~full

-----------------------------------------------------------------------------
\* ci_ring_buf_write_block: the length of the block at write_pos, and whether
\* another may follow it.
write_len ==
  IF ~is_empty /\ read_pos >= write_pos THEN read_pos - write_pos
  ELSE end_buf - write_pos + 1

write_more == ~is_empty /\ read_pos < write_pos

\* ci_ring_buf_read_block, the same for the block at read_pos.
read_len ==
  IF is_empty THEN 0
  ELSE IF read_pos >= write_pos THEN end_buf - read_pos + 1
  ELSE write_pos - read_pos

read_more == ~is_empty /\ read_pos >= write_pos /\ read_pos # 0

wrap_late(p) == IF p > end_buf + 1 THEN 0 ELSE p

wrap(p) == IF p > end_buf THEN 0 ELSE p

\* ci_ring_buf_consume
consume(n) ==
  /\ read_pos' = IF n <= 0 THEN read_pos ELSE wrap(read_pos + n)
  /\ full' = IF n <= 0 THEN full ELSE FALSE

\* ci_ring_buf_produce
produce(n) ==
  /\ write_pos' = IF n <= 0 THEN write_pos ELSE wrap(write_pos + n)
  /\ full' = IF n > 0 /\ write_pos' = read_pos THEN TRUE ELSE full

Smaller(a, b) == IF a < b THEN a ELSE b

-----------------------------------------------------------------------------
BeginWrite ==
  /\ op = "idle" /\ op' = "write" /\ ret' = TRUE
  /\ size' \in 1 .. Smaller(MaxCall, Total - accepted)
  /\ UNCHANGED <<ring, accepted, delivered, result>>

BeginRead ==
  /\ op = "idle" /\ op' = "read" /\ ret' = TRUE
  /\ size' \in 1 .. MaxCall
  /\ UNCHANGED <<ring, accepted, delivered, result>>

\* A round of the loop of ci_ring_buf_write.
WriteRound ==
  /\ op = "write" /\ ret /\ size > 0
  /\ LET n == Smaller(size, write_len) IN
       /\ buf' = [i \in 0 .. end_buf |->
                    IF i \in write_pos .. (write_pos + n - 1)
                    THEN accepted + (i - write_pos) + 1 ELSE buf[i]]
       /\ produce(n)
       /\ size' = size - n
       /\ accepted' = accepted + n
  /\ ret' = write_more
  /\ UNCHANGED <<op, read_pos, delivered, result>>

\* A round of the loop of ci_ring_buf_read.
ReadRound ==
  /\ op = "read" /\ ret /\ size > 0
  /\ LET n == Smaller(size, read_len) IN
       /\ result' = [i \in 1 .. n |-> buf[read_pos + i - 1]]
       /\ consume(n)
       /\ size' = size - n
       /\ delivered' = delivered + n
  /\ ret' = read_more
  /\ UNCHANGED <<op, buf, write_pos, accepted>>

Return ==
  /\ op # "idle" /\ (~ret \/ size = 0)
  /\ op' = "idle" /\ size' = 0 /\ ret' = FALSE
  /\ UNCHANGED <<ring, accepted, delivered, result>>

Next == BeginWrite \/ BeginRead \/ WriteRound \/ ReadRound \/ Return

Spec == Init /\ [][Next]_vars

-----------------------------------------------------------------------------
stored == accepted - delivered

Stream == INSTANCE ByteStream WITH closed <- FALSE

(* The ring buffer is a first-in first-out stream: what ci_ring_buf_read      *)
(* copies out is what ci_ring_buf_write took, once and in order, across every *)
(* wrap of the two positions.                                                 *)
KeepsStream == Stream!Spec

(* A read that returns less than it was asked for has emptied the buffer;     *)
(* mod_echo_io takes a read of zero bytes for the end of the body.            *)
ShortReadEmpties == op = "read" /\ ~ret /\ size > 0 => stored = 0

(* A write that returns less than it was given leaves something to read, so   *)
(* that a body that is echoed never stalls: the writer waits for the reader,  *)
(* and the reader has data.                                                   *)
ShortWriteFills == op = "write" /\ ~ret /\ size > 0 => stored > 0
=============================================================================
