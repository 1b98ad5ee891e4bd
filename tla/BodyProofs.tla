----------------------------- MODULE BodyProofs -----------------------------
(* Proofs about the containers of body.c, for buffers, files and calls of any *)
(* size: the ring buffer, across every wrap of its positions, the memory      *)
(* buffer, across every growth, and the file, with its lock and its limit,    *)
(* are first-in first-out streams.                                            *)
EXTENDS RingBuf, WellFoundedInduction, TLAPS

CONSTANTS STARTLEN, INCSTEP, Memory, max_store_size, Locking, DiskFails
VARIABLES endpos, readpos, eof,
          bufsize, terminate, ro, string,     \* MemBuf
          file, length, uselock, unlocked     \* SimpleFile

Mem == INSTANCE MemBuf
File == INSTANCE SimpleFile

\* An offset that may have passed the end of the buffer once.
At(p) == IF p > end_buf THEN p - Size ELSE p

\* The stored bytes lie from read_pos on, the free ones from write_pos on, and
\* full tells a full buffer from an empty one.
Positions ==
  /\ stored \in 0 .. Size
  /\ write_pos = At(read_pos + stored)
  /\ full <=> stored = Size

\* The k-th of them is the k-th byte that was not read yet.
Contents == \A k \in 0 .. stored - 1 : buf[At(read_pos + k)] = delivered + k + 1

IInv == TypeOK /\ Positions /\ Contents /\ ShortReadEmpties /\ ShortWriteFills

-----------------------------------------------------------------------------
\* What a round of ci_ring_buf_write does to the positions, and that it writes
\* behind the stored bytes, onto none of them.
LEMMA WriteBlock ==
  ASSUME NEW S \in Nat \ {0}, NEW r \in 0 .. S - 1, NEW w \in 0 .. S - 1, NEW st \in 0 .. S,
         w = (IF r + st > S - 1 THEN r + st - S ELSE r + st),
         NEW n \in Nat, n <= (IF st # 0 /\ r >= w THEN r - w ELSE S - w)
  PROVE  /\ w + n <= S /\ st + n <= S
         /\ (IF w + n > S - 1 THEN 0 ELSE w + n)
              = (IF r + (st + n) > S - 1 THEN r + (st + n) - S ELSE r + (st + n))
         /\ n > 0 => ((IF w + n > S - 1 THEN 0 ELSE w + n) = r <=> st + n = S)
         /\ \A k \in 0 .. (st + n) - 1 :
              LET p == IF r + k > S - 1 THEN r + k - S ELSE r + k IN
                /\ p \in 0 .. S - 1
                /\ k < st => p \notin w .. (w + n - 1)
                /\ k >= st => p \in w .. (w + n - 1) /\ p - w = k - st
OBVIOUS

\* What a round of ci_ring_buf_read does to the positions, and that the block it
\* copies does not go over the end of the buffer.
LEMMA ReadBlock ==
  ASSUME NEW S \in Nat \ {0}, NEW r \in 0 .. S - 1, NEW w \in 0 .. S - 1, NEW st \in 0 .. S,
         w = (IF r + st > S - 1 THEN r + st - S ELSE r + st),
         NEW n \in Nat, n <= (IF st = 0 THEN 0 ELSE IF r >= w THEN S - r ELSE w - r)
  PROVE  /\ n <= st /\ r + n <= S
         /\ w = LET q == IF r + n > S - 1 THEN 0 ELSE r + n IN
                  IF q + (st - n) > S - 1 THEN q + (st - n) - S ELSE q + (st - n)
         /\ \A k \in 0 .. (st - n) - 1 :
              LET q == IF r + n > S - 1 THEN 0 ELSE r + n IN
                (IF q + k > S - 1 THEN q + k - S ELSE q + k)
                  = (IF r + (k + n) > S - 1 THEN r + (k + n) - S ELSE r + (k + n))
OBVIOUS

-----------------------------------------------------------------------------
\* The positions as numbers, and the tests of the code in terms of them.
LEMMA Numbers ==
  ASSUME TypeOK, Positions
  PROVE  /\ Size \in Nat \ {0} /\ read_pos \in 0 .. Size - 1 /\ write_pos \in 0 .. Size - 1
         /\ accepted \in Nat /\ delivered \in Nat /\ size \in Nat
         /\ stored \in 0 .. Size /\ accepted = delivered + stored
         /\ write_pos = IF read_pos + stored > Size - 1 THEN read_pos + stored - Size
                        ELSE read_pos + stored
         /\ is_empty <=> stored = 0
<1>1. /\ Size \in Nat \ {0} /\ read_pos \in 0 .. Size - 1 /\ write_pos \in 0 .. Size - 1
      /\ accepted \in Nat /\ delivered \in Nat /\ size \in Nat
  BY ConstantsAssumption DEF TypeOK, end_buf
<1>2. /\ stored \in 0 .. Size /\ accepted = delivered + stored
  BY <1>1 DEF Positions, stored
<1>3. write_pos = IF read_pos + stored > Size - 1 THEN read_pos + stored - Size
                  ELSE read_pos + stored
  BY <1>1, <1>2 DEF Positions, At, end_buf
<1>4. full <=> stored = Size
  BY DEF Positions
<1>5. is_empty <=> stored = 0
  BY <1>1, <1>2, <1>3, <1>4 DEF is_empty
<1> QED
  BY <1>1, <1>2, <1>3, <1>5

\* A new ring buffer is empty.
LEMMA InvInit == Init => IInv
<1> SUFFICES ASSUME Init PROVE IInv
  OBVIOUS
<1>1. TypeOK
  <2>1. buf \in [0 .. end_buf -> Nat] /\ result \in Seq(Nat)
    BY DEF Init
  <2>2. 0 \in 0 .. end_buf /\ 0 \in 0 .. MaxCall
    BY ConstantsAssumption DEF end_buf
  <2> QED
    BY <2>1, <2>2 DEF Init, TypeOK
<1>2. stored = 0
  BY DEF Init, stored
<1> QED
  BY <1>1, <1>2, ConstantsAssumption
  DEF Init, IInv, Positions, Contents, At, end_buf, ShortReadEmpties, ShortWriteFills

\* A round of ci_ring_buf_write puts the new bytes behind the stored ones; it is
\* cut short only when there is something to read.
LEMMA WriteRoundInv ==
  ASSUME IInv, WriteRound
  PROVE  IInv' /\ accepted' \in Nat /\ accepted' >= accepted
<1>a. TypeOK /\ Positions /\ Contents
  BY DEF IInv
<1>1. PICK r, w, st, a, d, z : /\ r = read_pos /\ w = write_pos /\ st = stored
                               /\ a = accepted /\ d = delivered /\ z = size
  OBVIOUS
<1>2. /\ Size \in Nat \ {0} /\ r \in 0 .. Size - 1 /\ w \in 0 .. Size - 1
      /\ a \in Nat /\ d \in Nat /\ z \in Nat /\ st \in 0 .. Size /\ a = d + st
      /\ w = IF r + st > Size - 1 THEN r + st - Size ELSE r + st
      /\ is_empty <=> st = 0
  BY <1>a, <1>1, Numbers
<1> DEFINE len == IF st # 0 /\ r >= w THEN r - w ELSE Size - w
<1>3. write_len = len
  BY <1>1, <1>2 DEF write_len, end_buf
<1>4. PICK n : n = Smaller(z, len)
  OBVIOUS
<1>5. n \in Nat /\ n <= len /\ n <= z /\ (n # z => n = len)
  BY <1>2, <1>4 DEF Smaller
<1>6. /\ buf' = [i \in 0 .. Size - 1 |->
                   IF i \in w .. (w + n - 1) THEN a + (i - w) + 1 ELSE buf[i]]
      /\ write_pos' = (IF n <= 0 THEN w ELSE wrap(w + n))
      /\ full' = (IF n > 0 /\ write_pos' = r THEN TRUE ELSE full)
      /\ size' = z - n /\ accepted' = a + n
      /\ ret' = write_more /\ op = "write" /\ z > 0
      /\ UNCHANGED <<op, read_pos, delivered, result>>
  BY <1>1, <1>3, <1>4 DEF WriteRound, produce, end_buf
<1> HIDE DEF len
<1>7. /\ w + n <= Size /\ st + n <= Size
      /\ (IF w + n > Size - 1 THEN 0 ELSE w + n)
           = (IF r + (st + n) > Size - 1 THEN r + (st + n) - Size ELSE r + (st + n))
      /\ n > 0 => ((IF w + n > Size - 1 THEN 0 ELSE w + n) = r <=> st + n = Size)
      /\ \A k \in 0 .. (st + n) - 1 :
           LET p == IF r + k > Size - 1 THEN r + k - Size ELSE r + k IN
             /\ p \in 0 .. Size - 1
             /\ k < st => p \notin w .. (w + n - 1)
             /\ k >= st => p \in w .. (w + n - 1) /\ p - w = k - st
  BY <1>2, <1>5, WriteBlock DEF len
<1>8. stored' = st + n
  BY <1>1, <1>2, <1>5, <1>6 DEF stored
<1>9. write_pos' = IF w + n > Size - 1 THEN 0 ELSE w + n
  BY <1>2, <1>5, <1>6, <1>7 DEF wrap, end_buf
<1>10. TypeOK'
  <2>1. buf \in [0 .. Size - 1 -> Nat] /\ size \in 0 .. MaxCall
    BY <1>a DEF TypeOK, end_buf
  <2>2. buf' \in [0 .. Size - 1 -> Nat]
    BY <1>2, <1>5, <1>6, <2>1
  <2>3. write_pos' \in 0 .. Size - 1 /\ accepted' \in Nat /\ size' \in 0 .. MaxCall
    BY <1>1, <1>2, <1>5, <1>6, <1>9, <2>1, ConstantsAssumption
  <2>4. full' \in BOOLEAN /\ ret' \in BOOLEAN
    BY <1>a, <1>6 DEF TypeOK, write_more
  <2> QED
    BY <1>a, <1>6, <2>2, <2>3, <2>4 DEF TypeOK, end_buf
<1>11. Positions'
  <2>1. full <=> st = Size
    BY <1>a, <1>1 DEF Positions
  <2>2. full' <=> st + n = Size
    <3>1. CASE n > 0
      BY <1>2, <1>5, <1>6, <1>7, <1>9, <2>1, <3>1
    <3>2. CASE n = 0
      BY <1>2, <1>6, <2>1, <3>2
    <3> QED
      BY <1>5, <3>1, <3>2
  <2> QED
    BY <1>1, <1>2, <1>5, <1>6, <1>7, <1>8, <1>9, <2>2 DEF Positions, At, end_buf
<1>12. Contents'
  <2> SUFFICES ASSUME NEW k \in 0 .. (st + n) - 1
               PROVE  buf'[At(r + k)] = d + k + 1
    BY <1>1, <1>6, <1>8 DEF Contents, At, end_buf
  <2> DEFINE p == IF r + k > Size - 1 THEN r + k - Size ELSE r + k
  <2>1. At(r + k) = p
    BY <1>2 DEF At, end_buf
  <2>2. /\ p \in 0 .. Size - 1
        /\ k < st => p \notin w .. (w + n - 1)
        /\ k >= st => p \in w .. (w + n - 1) /\ p - w = k - st
    BY <1>7
  <2>3. k < st => buf[p] = d + k + 1
    BY <1>a, <1>1, <1>2, <1>5, <2>1 DEF Contents
  <2> HIDE DEF p
  <2>4. CASE k < st
    BY <1>6, <2>1, <2>2, <2>3, <2>4
  <2>5. CASE ~(k < st)
    <3>1. buf'[p] = a + (p - w) + 1
      BY <1>2, <1>5, <1>6, <2>2, <2>5
    <3> QED
      BY <1>2, <1>5, <2>1, <2>2, <2>5, <3>1
  <2> QED
    BY <2>4, <2>5
<1>13. ShortReadEmpties' /\ ShortWriteFills'
  <2>1. ASSUME ~ret', size' > 0 PROVE stored' > 0
    <3>1. n = len
      BY <1>2, <1>5, <1>6, <2>1
    <3>3. st = 0 => len > 0
      BY <1>2 DEF len
    <3> QED
      BY <1>2, <1>5, <1>8, <3>1, <3>3
  <2> QED
    BY <1>6, <2>1 DEF ShortReadEmpties, ShortWriteFills
<1> QED
  BY <1>1, <1>2, <1>5, <1>6, <1>10, <1>11, <1>12, <1>13 DEF IInv

\* A round of ci_ring_buf_read copies out the bytes that come next, in order; it
\* is cut short only when it leaves nothing.
LEMMA ReadRoundInv ==
  ASSUME IInv, ReadRound
  PROVE  /\ IInv' /\ delivered' \in delivered .. accepted /\ UNCHANGED accepted
         /\ result' = [i \in 1 .. (delivered' - delivered) |-> delivered + i]
<1>a. TypeOK /\ Positions /\ Contents
  BY DEF IInv
<1>1. PICK r, w, st, a, d, z : /\ r = read_pos /\ w = write_pos /\ st = stored
                               /\ a = accepted /\ d = delivered /\ z = size
  OBVIOUS
<1>2. /\ Size \in Nat \ {0} /\ r \in 0 .. Size - 1 /\ w \in 0 .. Size - 1
      /\ a \in Nat /\ d \in Nat /\ z \in Nat /\ st \in 0 .. Size /\ a = d + st
      /\ w = IF r + st > Size - 1 THEN r + st - Size ELSE r + st
      /\ is_empty <=> st = 0
  BY <1>a, <1>1, Numbers
<1> DEFINE len == IF st = 0 THEN 0 ELSE IF r >= w THEN Size - r ELSE w - r
<1>3. read_len = len
  BY <1>1, <1>2 DEF read_len, end_buf
<1>4. PICK n : n = Smaller(z, len)
  OBVIOUS
<1>5. n \in Nat /\ n <= len /\ n <= z /\ (n # z => n = len)
  BY <1>2, <1>4 DEF Smaller
<1>6. /\ result' = [i \in 1 .. n |-> buf[r + i - 1]]
      /\ read_pos' = (IF n <= 0 THEN r ELSE wrap(r + n))
      /\ full' = (IF n <= 0 THEN full ELSE FALSE)
      /\ size' = z - n /\ delivered' = d + n
      /\ ret' = read_more /\ op = "read" /\ z > 0
      /\ UNCHANGED <<op, buf, write_pos, accepted>>
  BY <1>1, <1>3, <1>4 DEF ReadRound, consume
<1> HIDE DEF len
<1> DEFINE q == IF r + n > Size - 1 THEN 0 ELSE r + n
<1>7. /\ n <= st /\ r + n <= Size
      /\ w = IF q + (st - n) > Size - 1 THEN q + (st - n) - Size ELSE q + (st - n)
      /\ \A k \in 0 .. (st - n) - 1 :
           (IF q + k > Size - 1 THEN q + k - Size ELSE q + k)
             = (IF r + (k + n) > Size - 1 THEN r + (k + n) - Size ELSE r + (k + n))
  BY <1>2, <1>5, ReadBlock DEF len
<1>8. stored' = st - n
  BY <1>1, <1>2, <1>5, <1>6 DEF stored
<1>9. read_pos' = q /\ q \in 0 .. Size - 1
  BY <1>2, <1>5, <1>6, <1>7 DEF wrap, end_buf
<1> HIDE DEF q
<1>10. \A k \in 0 .. st - 1 :
         buf[IF r + k > Size - 1 THEN r + k - Size ELSE r + k] = d + k + 1
  BY <1>a, <1>1, <1>2 DEF Contents, At, end_buf
<1>11. result' = [i \in 1 .. n |-> d + i]
  <2>1. ASSUME NEW i \in 1 .. n PROVE buf[r + i - 1] = d + i
    <3>1. i - 1 \in 0 .. st - 1 /\ ~(r + (i - 1) > Size - 1)
      BY <1>2, <1>5, <1>7
    <3>2. buf[r + (i - 1)] = d + (i - 1) + 1
      BY <1>10, <3>1
    <3> QED
      BY <1>2, <1>5, <3>2
  <2> QED
    BY <1>6, <2>1
<1>12. TypeOK'
  <2>1. result' \in Seq(Nat)
    BY <1>2, <1>5, <1>11
  <2>2. delivered' \in Nat /\ size' \in 0 .. MaxCall
    BY <1>a, <1>1, <1>2, <1>5, <1>6, ConstantsAssumption DEF TypeOK
  <2>3. full' \in BOOLEAN /\ ret' \in BOOLEAN
    BY <1>a, <1>6 DEF TypeOK, read_more
  <2> QED
    BY <1>a, <1>6, <1>9, <2>1, <2>2, <2>3 DEF TypeOK, end_buf
<1>13. Positions'
  <2>1. full <=> st = Size
    BY <1>a, <1>1 DEF Positions
  <2>2. full' <=> st - n = Size
    BY <1>2, <1>5, <1>6, <1>7, <2>1
  <2>3. st - n \in 0 .. Size
    BY <1>2, <1>5, <1>7
  <2>4. write_pos' = At(q + (st - n))
    <3>1. At(q + (st - n))
            = IF q + (st - n) > Size - 1 THEN q + (st - n) - Size ELSE q + (st - n)
      BY <1>2, <1>9, <2>3 DEF At, end_buf
    <3> QED
      BY <1>1, <1>6, <1>7, <3>1
  <2> QED
    BY <1>8, <1>9, <2>2, <2>3, <2>4 DEF Positions, At, end_buf
<1>14. Contents'
  <2>1. ASSUME NEW k \in 0 .. (st - n) - 1
        PROVE  buf[IF q + k > Size - 1 THEN q + k - Size ELSE q + k] = (d + n) + k + 1
    <3>1. k + n \in 0 .. st - 1
      BY <1>2, <1>5, <1>7
    <3>2. buf[IF r + (k + n) > Size - 1 THEN r + (k + n) - Size ELSE r + (k + n)]
            = d + (k + n) + 1
      BY <1>10, <3>1
    <3>3. d + (k + n) + 1 = (d + n) + k + 1
      BY <1>2, <1>5
    <3> QED
      BY <1>7, <3>2, <3>3
  <2>2. PICK e, m : e = d + n /\ m = st - n
    OBVIOUS
  <2>3. \A k \in 0 .. m - 1 : buf[IF q + k > Size - 1 THEN q + k - Size ELSE q + k] = e + k + 1
    BY <2>1, <2>2
  <2>4. delivered' = e /\ buf' = buf /\ stored' = m /\ read_pos' = q
    BY <1>6, <1>8, <1>9, <2>2
  <2>5. e \in Int /\ m \in Int /\ q \in Int /\ Size \in Int
    BY <1>2, <1>5, <1>9, <2>2
  <2> QED
    BY <2>3, <2>4, <2>5 DEF Contents, At, end_buf
<1>15. ShortReadEmpties' /\ ShortWriteFills'
  <2>1. ASSUME ~ret', size' > 0 PROVE stored' = 0
    <3>1. n = len
      BY <1>2, <1>5, <1>6, <2>1
    <3>2. st = 0 \/ ~(r >= w) \/ r = 0
      BY <1>1, <1>2, <1>6, <2>1 DEF read_more
    <3> QED
      BY <1>2, <1>5, <1>8, <3>1, <3>2 DEF len
  <2> QED
    BY <1>6, <2>1 DEF ShortReadEmpties, ShortWriteFills
<1>16. delivered' \in delivered .. accepted /\ delivered' - delivered = n
  BY <1>1, <1>2, <1>5, <1>6, <1>7
<1> QED
  BY <1>1, <1>6, <1>11, <1>12, <1>13, <1>14, <1>15, <1>16 DEF IInv

\* Every step keeps the invariant; the calls begin and return without touching
\* the buffer.
LEMMA InvStep == IInv /\ [Next]_vars => IInv'
<1> SUFFICES ASSUME IInv, [Next]_vars PROVE IInv'
  OBVIOUS
<1>1. ASSUME UNCHANGED <<ring, accepted, delivered, result>>,
             op' \in {"idle", "write", "read"}, size' \in 0 .. MaxCall, ret' \in BOOLEAN,
             op' = "idle" \/ ret'
      PROVE  IInv'
  <2>1. UNCHANGED <<buf, read_pos, write_pos, full, accepted, delivered, result, stored>>
    BY <1>1 DEF ring, stored
  <2>2. TypeOK' /\ Positions'
    BY <1>1, <2>1 DEF IInv, TypeOK, Positions, At
  <2>3. Contents'
    BY <2>1 DEF IInv, Contents, At
  <2> QED
    BY <1>1, <2>2, <2>3 DEF IInv, ShortReadEmpties, ShortWriteFills
<1>2. CASE BeginWrite
  <2>1. size' \in 0 .. MaxCall
    BY <1>2, ConstantsAssumption DEF BeginWrite, Smaller, IInv, TypeOK
  <2> QED
    BY <1>1, <1>2, <2>1 DEF BeginWrite
<1>3. CASE BeginRead
  <2>1. size' \in 0 .. MaxCall
    BY <1>3, ConstantsAssumption DEF BeginRead
  <2> QED
    BY <1>1, <1>3, <2>1 DEF BeginRead
<1>4. CASE WriteRound
  BY <1>4, WriteRoundInv
<1>5. CASE ReadRound
  BY <1>5, ReadRoundInv
<1>6. CASE Return
  <2>1. 0 \in 0 .. MaxCall
    BY ConstantsAssumption
  <2> QED
    BY <1>1, <1>6, <2>1 DEF Return
<1>7. CASE UNCHANGED vars
  BY <1>7 DEF vars, ring, IInv, TypeOK, Positions, Contents, At, stored,
              ShortReadEmpties, ShortWriteFills
<1> QED
  BY <1>2, <1>3, <1>4, <1>5, <1>6, <1>7 DEF Next

\* The ring buffer under a body that is echoed: a read that returns less than it
\* was asked for has emptied it (mod_echo_io takes a read of nothing for the
\* end), and a write that takes less than it was given leaves something to read.
THEOREM RingCallsAlways == Spec => [](TypeOK /\ ShortReadEmpties /\ ShortWriteFills)
<1>1. IInv => TypeOK /\ ShortReadEmpties /\ ShortWriteFills
  BY DEF IInv
<1> QED
  BY <1>1, InvInit, InvStep, PTL DEF Spec

\* ci_ring_buf_write and ci_ring_buf_read implement the abstract stream: bytes
\* come out once and in the order they went in, for a buffer and calls of any
\* size and across every wrap of the two positions.
THEOREM RingIsStream == Spec => KeepsStream
<1>1. Init => Stream!Init
  BY DEF Init, Stream!Init
<1>2. IInv /\ [Next]_vars => [Stream!Next]_(Stream!vars)
  <2> SUFFICES ASSUME IInv, [Next]_vars PROVE [Stream!Next]_(Stream!vars)
    OBVIOUS
  <2>1. CASE WriteRound
    <3>1. accepted' \in Nat /\ accepted' >= accepted /\ UNCHANGED <<delivered, result>>
      BY <2>1, WriteRoundInv DEF WriteRound
    <3> QED
      BY <3>1 DEF Stream!Next, Stream!Write
  <2>2. CASE ReadRound
    <3>1. /\ delivered' \in delivered .. accepted /\ UNCHANGED accepted
          /\ result' = [i \in 1 .. (delivered' - delivered) |-> delivered + i]
      BY <2>2, ReadRoundInv
    <3> QED
      BY <3>1 DEF Stream!Next, Stream!Read
  <2>3. CASE BeginWrite \/ BeginRead \/ Return \/ UNCHANGED vars
    BY <2>3 DEF BeginWrite, BeginRead, Return, vars, Stream!vars
  <2> QED
    BY <2>1, <2>2, <2>3 DEF Next
<1> QED
  BY <1>1, <1>2, InvInit, InvStep, PTL DEF Spec, KeepsStream, Stream!Spec

-----------------------------------------------------------------------------
\* The memory buffer. STARTLEN is 8192 and INCSTEP 4096 in body.c.
MemConstants == STARTLEN \in Nat \ {0} /\ INCSTEP \in Nat \ {0} /\ Memory \in Nat

\* Nothing is thrown away: byte i + 1 of the body is at offset i.
MemContents ==
  /\ accepted = endpos /\ delivered = readpos
  /\ \A i \in 0 .. endpos - 1 : buf[i] = i + 1

MemInv == Mem!TypeOK /\ MemContents /\ Mem!IsString

\* A set of natural numbers that has a member has a least one.
LEMMA LeastSize ==
  ASSUME NEW S \in SUBSET Nat, S # {}
  PROVE  Mem!Smallest(S) \in S /\ \A t \in S : Mem!Smallest(S) <= t
<1>1. PICK x \in S : \A y \in S : ~(<<y, x>> \in OpToRel(<, Nat))
  BY NatLessThanWellFounded, WFMin
<1>2. OpToRel(<, Nat) = {ss \in Nat \X Nat : ss[1] < ss[2]}
  BY DEF OpToRel
<1>3. ASSUME NEW y \in S PROVE x <= y
  <2>1. y < x => <<y, x>> \in {ss \in Nat \X Nat : ss[1] < ss[2]}
    OBVIOUS
  <2>2. ~(y < x)
    BY <1>1, <1>2, <2>1, Zenon
  <2> QED
    BY <2>2
<1> QED
  BY <1>3 DEF Mem!Smallest

\* The loop of ci_membuf_write that grows the buffer: it makes it no smaller, and
\* when the memory lasts it stops at a size that is large enough.
LEMMA Growth ==
  ASSUME MemConstants, Mem!TypeOK, NEW len \in 0 .. MaxCall
  PROVE  /\ Mem!Grown(len) \in Nat /\ Mem!Grown(len) >= bufsize
         /\ Mem!remains(Mem!Grown(len)) >= len
         /\ \A s \in Mem!Short(len) :
              s \in Nat /\ s >= bufsize /\ Mem!remains(s) \in Int /\ Mem!remains(s) < len
<1>1. bufsize \in Nat /\ endpos \in 0 .. bufsize /\ MaxCall \in Nat /\ INCSTEP \in Nat \ {0}
  BY ConstantsAssumption DEF Mem!TypeOK, MemConstants
<1>2. \A k \in 0 .. (MaxCall + 1) : k * INCSTEP \in Nat
  BY <1>1
<1>3. Mem!Sizes \subseteq Nat /\ \A s \in Mem!Sizes : s >= bufsize
  BY <1>1, <1>2 DEF Mem!Sizes
<1>4. (MaxCall + 1) * INCSTEP >= MaxCall + 1
  <2>1. \A a, b \in Nat : b > 0 => a * b >= a
    OBVIOUS
  <2> QED
    BY <1>1, <2>1
<1>5. bufsize + (MaxCall + 1) * INCSTEP \in Mem!Enough(len)
  <2>1. bufsize + (MaxCall + 1) * INCSTEP \in Mem!Sizes
    BY <1>1 DEF Mem!Sizes
  <2>2. (MaxCall + 1) * INCSTEP \in Nat
    BY <1>1, <1>2
  <2>3. Mem!remains(bufsize + (MaxCall + 1) * INCSTEP) >= len
    BY <1>1, <1>4, <2>2 DEF Mem!remains
  <2> QED
    BY <2>1, <2>3 DEF Mem!Enough
<1>6. /\ Mem!Grown(len) \in Mem!Enough(len)
      /\ \A t \in Mem!Enough(len) : Mem!Grown(len) <= t
  <2>1. Mem!Enough(len) \in SUBSET Nat /\ Mem!Enough(len) # {}
    BY <1>3, <1>5 DEF Mem!Enough
  <2> QED
    BY <2>1, LeastSize DEF Mem!Grown
<1>7. ASSUME NEW s \in Mem!Short(len)
      PROVE  s \in Nat /\ s >= bufsize /\ Mem!remains(s) \in Int /\ Mem!remains(s) < len
  <2>1. s \in Mem!Sizes /\ s < Mem!Grown(len)
    BY <1>7 DEF Mem!Short
  <2>2. s \in Nat /\ s >= bufsize /\ Mem!remains(s) \in Int
    BY <1>1, <1>3, <2>1 DEF Mem!remains
  <2>3. s \notin Mem!Enough(len)
    <3>1. Mem!Grown(len) \in Nat
      BY <1>3, <1>6 DEF Mem!Enough
    <3> QED
      BY <1>6, <2>1, <2>2, <3>1
  <2> QED
    BY <2>1, <2>2, <2>3 DEF Mem!Enough
<1> QED
  BY <1>3, <1>6, <1>7 DEF Mem!Enough

\* A write that puts n bytes into a buffer of that size, which they fit into with
\* their terminator.
LEMMA TakesInv ==
  ASSUME MemInv, NEW m \in Nat, m >= bufsize, NEW n \in Nat, Mem!remains(m) >= n,
         accepted + n <= Total, Mem!Takes(m, n), eof' \in BOOLEAN,
         UNCHANGED <<readpos, terminate, ro, delivered, result>>
  PROVE  MemInv'
<1>a. Mem!TypeOK /\ MemContents
  BY DEF MemInv
<1>1. PICK e, b : e = endpos /\ b = bufsize
  OBVIOUS
<1>2. /\ b \in Nat \ {0} /\ e \in 0 .. b /\ Total \in Nat /\ accepted = e
      /\ {terminate, ro, eof, string} \subseteq BOOLEAN
  BY <1>a, <1>1, ConstantsAssumption DEF Mem!TypeOK, MemContents
<1>3. e + n <= m /\ (terminate => e + n < m)
  BY <1>1, <1>2 DEF Mem!remains
<1>4. /\ bufsize' = m /\ endpos' = e + n /\ accepted' = e + n /\ string' = terminate
      /\ buf' = [i \in 0 .. m - 1 |->
                   IF i \in e .. (e + n - 1) THEN e + (i - e) + 1
                   ELSE IF terminate /\ i = e + n THEN 0
                   ELSE IF i < b THEN buf[i] ELSE -1]
  BY <1>1, <1>2 DEF Mem!Takes, Mem!Copied, Mem!NUL, Mem!Unset
<1>5. buf \in [0 .. b - 1 -> -1 .. Total] /\ \A i \in 0 .. e - 1 : buf[i] = i + 1
  BY <1>a, <1>1 DEF Mem!TypeOK, MemContents, Mem!Unset
<1>6. buf' \in [0 .. m - 1 -> -1 .. Total]
  BY <1>1, <1>2, <1>3, <1>4, <1>5
<1>7. Mem!TypeOK'
  <2>1. readpos \in 0 .. e /\ delivered \in 0 .. Total /\ result \in Seq(-1 .. Total)
    BY <1>a, <1>1 DEF Mem!TypeOK, Mem!Unset
  <2>2. /\ m \in Nat \ {0} /\ e + n \in 0 .. m /\ readpos \in 0 .. (e + n)
        /\ e + n \in 0 .. Total
    BY <1>1, <1>2, <1>3, <2>1
  <2> QED
    BY <1>2, <1>4, <1>6, <2>1, <2>2 DEF Mem!TypeOK, Mem!Unset
<1>8. MemContents'
  <2>1. ASSUME NEW i \in 0 .. (e + n) - 1 PROVE buf'[i] = i + 1
    <3>1. i \in 0 .. m - 1 /\ i \in Nat
      BY <1>2, <1>3
    <3>2. CASE i \in e .. (e + n - 1)
      <4>1. buf'[i] = e + (i - e) + 1
        BY <1>4, <3>1, <3>2
      <4> QED
        BY <1>2, <3>1, <4>1
    <3>3. CASE i \notin e .. (e + n - 1)
      <4>1. i \in 0 .. e - 1 /\ i # e + n /\ i < b
        BY <1>2, <3>1, <3>3
      <4>2. buf'[i] = buf[i]
        BY <1>4, <3>1, <3>3, <4>1
      <4> QED
        BY <1>5, <4>1, <4>2
    <3> QED
      BY <3>2, <3>3
  <2> QED
    BY <1>a, <1>4, <2>1 DEF MemContents
<1>9. Mem!IsString'
  <2>1. ASSUME terminate PROVE e + n < m /\ buf'[e + n] = 0
    BY <1>1, <1>2, <1>3, <1>4, <2>1
  <2> QED
    BY <1>4, <2>1 DEF Mem!IsString, Mem!NUL
<1> QED
  BY <1>7, <1>8, <1>9 DEF MemInv

\* A read, which copies out the bytes behind readpos.
LEMMA MemReadInv ==
  ASSUME MemInv, NEW len \in 1 .. MaxCall, Mem!ci_membuf_read(len)
  PROVE  /\ MemInv'
         /\ \/ /\ delivered' \in delivered .. accepted /\ UNCHANGED <<accepted, eof>>
               /\ result' = [i \in 1 .. (delivered' - delivered) |-> delivered + i]
            \/ /\ eof /\ delivered = accepted /\ result' = <<0>>
               /\ UNCHANGED <<accepted, delivered, eof>>
<1>a. Mem!TypeOK /\ MemContents
  BY DEF MemInv
<1>b. UNCHANGED <<buf, bufsize, endpos, terminate, ro, eof, string, accepted>>
  BY DEF Mem!ci_membuf_read, Mem!flags
<1>1. PICK e, d : e = endpos /\ d = readpos
  OBVIOUS
<1>2. /\ e \in Nat /\ d \in 0 .. e /\ accepted = e /\ delivered = d /\ e <= Total
      /\ Total \in Nat /\ len \in Nat
      /\ \A i \in 0 .. e - 1 : buf[i] = i + 1
  BY <1>a, <1>1, ConstantsAssumption DEF Mem!TypeOK, MemContents
<1>3. ASSUME NEW n \in 0 .. (e - d), readpos' = d + n, delivered' = d + n,
             result' \in Seq(-1 .. Total)
      PROVE  MemInv'
  <2>1. /\ readpos' \in 0 .. endpos' /\ delivered' \in 0 .. Total
    BY <1>1, <1>2, <1>3, <1>b
  <2>2. Mem!TypeOK'
    BY <1>a, <1>b, <1>3, <2>1 DEF Mem!TypeOK, Mem!Unset
  <2>3. MemContents' /\ Mem!IsString'
    BY <1>a, <1>b, <1>3 DEF MemInv, MemContents, Mem!IsString
  <2> QED
    BY <2>2, <2>3 DEF MemInv
<1>4. CASE endpos = readpos /\ eof
  <2>1. result' = <<0>> /\ readpos' = d /\ delivered' = d
    BY <1>1, <1>2, <1>4 DEF Mem!ci_membuf_read, Mem!Eof
  <2>2. result' \in Seq(-1 .. Total)
    BY <1>2, <2>1
  <2>3. readpos' = d + 0 /\ delivered' = d + 0 /\ 0 \in 0 .. (e - d)
    BY <1>2, <2>1
  <2>4. MemInv'
    BY <1>3, <2>2, <2>3
  <2> QED
    BY <1>1, <1>2, <1>4, <1>b, <2>1, <2>4
<1>5. CASE ~(endpos = readpos /\ eof)
  <2>1. PICK n : n = IF len <= e - d THEN len ELSE e - d
    OBVIOUS
  <2>2. /\ result' = [i \in 1 .. n |-> buf[d + i - 1]]
        /\ readpos' = d + n /\ delivered' = d + n
    BY <1>1, <1>2, <1>5, <2>1 DEF Mem!ci_membuf_read
  <2>3. n \in 0 .. (e - d)
    BY <1>2, <2>1
  <2>4. result' = [i \in 1 .. n |-> d + i]
    <3>1. ASSUME NEW i \in 1 .. n PROVE buf[d + i - 1] = d + i
      <4>1. d + i - 1 \in 0 .. e - 1
        BY <1>2, <2>3
      <4>2. buf[d + i - 1] = d + i - 1 + 1
        BY <1>2, <4>1
      <4> QED
        BY <1>2, <2>3, <4>2
    <3> QED
      BY <2>2, <3>1
  <2>5. result' \in Seq(-1 .. Total)
    BY <1>2, <2>3, <2>4
  <2>6. MemInv'
    BY <1>3, <2>2, <2>3, <2>5
  <2>7. delivered' - delivered = n /\ delivered' \in delivered .. accepted
    BY <1>2, <2>2, <2>3
  <2> QED
    BY <1>2, <1>b, <2>4, <2>6, <2>7
<1> QED
  BY <1>4, <1>5

\* A write, whole or cut short for want of memory.
LEMMA MemWriteInv ==
  ASSUME MemConstants, MemInv, NEW len \in 0 .. MaxCall, NEW iseof \in BOOLEAN,
         accepted + len <= Total, Mem!ci_membuf_write(len, iseof)
  PROVE  MemInv' /\ accepted' \in Nat /\ accepted' >= accepted
<1>a. Mem!TypeOK /\ MemContents
  BY DEF MemInv
<1>b. /\ eof' \in BOOLEAN /\ UNCHANGED <<readpos, terminate, ro, delivered, result>>
      /\ Mem!WriteWhole(len) \/ Mem!WriteShort(len)
  BY DEF Mem!ci_membuf_write
<1>c. bufsize \in Nat /\ endpos \in Nat /\ accepted \in Nat /\ len \in Nat /\ Total \in Nat
  BY <1>a, ConstantsAssumption DEF Mem!TypeOK
<1>1. CASE Mem!WriteWhole(len)
  <2>1. PICK m : m = Mem!Grown(len)
    OBVIOUS
  <2>2. m \in Nat /\ m >= bufsize /\ Mem!remains(m) >= len
    BY <1>a, <2>1, Growth
  <2>3. Mem!Takes(m, len)
    BY <1>1, <2>1 DEF Mem!WriteWhole
  <2>4. MemInv'
    BY <1>b, <1>c, <2>2, <2>3, TakesInv
  <2>5. accepted' = accepted + len
    BY <2>3 DEF Mem!Takes
  <2> QED
    BY <1>c, <2>4, <2>5
<1>2. CASE Mem!WriteShort(len)
  <2>1. PICK m \in Mem!Short(len) :
          IF Mem!remains(m) >= 0 THEN Mem!Takes(m, Mem!remains(m))
          ELSE /\ bufsize' = m
               /\ buf' = [i \in 0 .. m - 1 |-> IF i < bufsize THEN buf[i] ELSE Mem!Unset]
               /\ string' = FALSE
               /\ UNCHANGED <<endpos, accepted>>
    BY <1>2, Zenon DEF Mem!WriteShort
  <2>2. m \in Nat /\ m >= bufsize /\ Mem!remains(m) \in Int /\ Mem!remains(m) < len
    BY <1>a, Growth
  <2>3. CASE Mem!remains(m) >= 0
    <3>1. PICK n : n = Mem!remains(m)
      OBVIOUS
    <3>2. n \in Nat /\ Mem!remains(m) >= n /\ accepted + n <= Total /\ Mem!Takes(m, n)
      BY <1>c, <2>1, <2>2, <2>3, <3>1
    <3>3. MemInv'
      BY <1>b, <2>2, <3>2, TakesInv
    <3>4. accepted' = accepted + n
      BY <3>2 DEF Mem!Takes
    <3> QED
      BY <1>c, <3>2, <3>3, <3>4
  <2>4. CASE ~(Mem!remains(m) >= 0)
    <3>1. /\ bufsize' = m /\ string' = FALSE /\ UNCHANGED <<endpos, accepted>>
          /\ buf' = [i \in 0 .. m - 1 |-> IF i < bufsize THEN buf[i] ELSE -1]
      BY <2>1, <2>4 DEF Mem!Unset
    <3>2. /\ bufsize \in Nat \ {0} /\ endpos \in 0 .. bufsize
          /\ buf \in [0 .. bufsize - 1 -> -1 .. Total]
      BY <1>a DEF Mem!TypeOK, Mem!Unset
    <3>3. /\ buf' \in [0 .. m - 1 -> -1 .. Total]
          /\ m \in Nat \ {0} /\ endpos \in 0 .. m
      BY <1>c, <2>2, <3>1, <3>2
    <3>4. Mem!TypeOK'
      BY <1>a, <1>b, <3>1, <3>3 DEF Mem!TypeOK, Mem!Unset
    <3>5. MemContents'
      <4>1. ASSUME NEW i \in 0 .. endpos - 1 PROVE buf'[i] = i + 1
        <5>1. i \in 0 .. m - 1 /\ i < bufsize
          BY <1>c, <2>2, <3>2
        <5>2. buf'[i] = buf[i]
          BY <3>1, <5>1
        <5> QED
          BY <1>a, <5>2 DEF MemContents
      <4> QED
        BY <1>a, <1>b, <3>1, <4>1 DEF MemContents
    <3> QED
      BY <1>c, <3>1, <3>4, <3>5 DEF MemInv, Mem!IsString
  <2> QED
    BY <2>3, <2>4
<1> QED
  BY <1>b, <1>1, <1>2

\* ci_membuf_new makes an empty buffer.
LEMMA MemInit == MemConstants /\ Mem!Init => MemInv
<1> SUFFICES ASSUME MemConstants, Mem!Init PROVE MemInv
  OBVIOUS
<1>1. /\ buf \in [0 .. STARTLEN - 1 -> -1 .. Total] /\ 0 \in 0 .. Total
      /\ STARTLEN \in Nat \ {0}
  BY ConstantsAssumption DEF Mem!Init, Mem!Unset, MemConstants
<1>2. 0 \in 0 .. STARTLEN /\ 0 \in 0 .. 0 /\ result \in Seq(-1 .. Total)
  BY <1>1 DEF Mem!Init
<1>3. Mem!TypeOK
  BY <1>1, <1>2 DEF Mem!Init, Mem!TypeOK, Mem!Unset
<1> QED
  BY <1>3 DEF Mem!Init, MemInv, MemContents, Mem!IsString

\* Every call keeps the invariant.
LEMMA MemStep == MemConstants /\ MemInv /\ [Mem!Next]_(Mem!vars) => MemInv'
<1> SUFFICES ASSUME MemConstants, MemInv, [Mem!Next]_(Mem!vars) PROVE MemInv'
  OBVIOUS
<1>1. CASE Mem!Write
  BY <1>1, MemWriteInv DEF Mem!Write
<1>2. CASE Mem!Read
  BY <1>2, MemReadInv DEF Mem!Read
<1>3. CASE Mem!ci_membuf_set_flag
  <2>1. /\ terminate' \in BOOLEAN /\ ro' \in BOOLEAN
        /\ UNCHANGED <<buf, bufsize, endpos, readpos, eof, string, accepted, delivered, result>>
    BY <1>3 DEF Mem!ci_membuf_set_flag, MemInv, Mem!TypeOK
  <2> QED
    BY <2>1 DEF MemInv, Mem!TypeOK, MemContents, Mem!IsString
<1>4. CASE UNCHANGED Mem!vars
  BY <1>4 DEF Mem!vars, Mem!flags, MemInv, Mem!TypeOK, MemContents, Mem!IsString
<1> QED
  BY <1>1, <1>2, <1>3, <1>4 DEF Mem!Next

\* No position of a memory buffer leaves it, and with CI_MEMBUF_NULL_TERMINATED
\* the contents are a C string after every write, whole or cut short.
THEOREM MemCallsAlways ==
  ASSUME MemConstants PROVE Mem!Spec => [](Mem!TypeOK /\ Mem!IsString)
<1>1. MemInv => Mem!TypeOK /\ Mem!IsString
  BY DEF MemInv
<1>2. Mem!Init => MemInv
  BY MemInit
<1>3. MemInv /\ [Mem!Next]_(Mem!vars) => MemInv'
  BY MemStep
<1> QED
  BY <1>1, <1>2, <1>3, PTL DEF Mem!Spec

\* ci_membuf_write and ci_membuf_read implement the abstract stream, across the
\* moves to larger buffers and the writes that are cut short.
THEOREM MemIsStream ==
  ASSUME MemConstants PROVE Mem!Spec => Mem!KeepsStream
<1>1. Mem!Init => Mem!Stream!Init
  BY DEF Mem!Init, Mem!Stream!Init
<1>2. MemInv /\ [Mem!Next]_(Mem!vars) => [Mem!Stream!Next]_(Mem!Stream!vars)
  <2> SUFFICES ASSUME MemInv, [Mem!Next]_(Mem!vars)
               PROVE  [Mem!Stream!Next]_(Mem!Stream!vars)
    OBVIOUS
  <2>1. CASE Mem!Write
    <3>1. PICK len \in 0 .. MaxCall, iseof \in BOOLEAN :
            accepted + len <= Total /\ Mem!ci_membuf_write(len, iseof)
      BY <2>1 DEF Mem!Write
    <3>2. accepted' \in Nat /\ accepted' >= accepted
      BY <3>1, MemWriteInv
    <3>3. ~eof /\ eof' \in BOOLEAN /\ UNCHANGED <<delivered, result>>
      BY <3>1 DEF Mem!ci_membuf_write
    <3> QED
      BY <3>2, <3>3 DEF Mem!Stream!Next, Mem!Stream!Write
  <2>2. CASE Mem!Read
    <3>1. \/ /\ delivered' \in delivered .. accepted /\ UNCHANGED <<accepted, eof>>
             /\ result' = [i \in 1 .. (delivered' - delivered) |-> delivered + i]
          \/ /\ eof /\ delivered = accepted /\ result' = <<0>>
             /\ UNCHANGED <<accepted, delivered, eof>>
      BY <2>2, MemReadInv DEF Mem!Read
    <3> QED
      BY <3>1 DEF Mem!Stream!Next, Mem!Stream!Read, Mem!Stream!End, Mem!Stream!Eof
  <2>3. CASE Mem!ci_membuf_set_flag \/ UNCHANGED Mem!vars
    BY <2>3 DEF Mem!ci_membuf_set_flag, Mem!vars, Mem!flags, Mem!Stream!vars
  <2> QED
    BY <2>1, <2>2, <2>3 DEF Mem!Next
<1>3. Mem!Init => MemInv
  BY MemInit
<1>4. MemInv /\ [Mem!Next]_(Mem!vars) => MemInv'
  BY MemStep
<1> QED
  BY <1>1, <1>2, <1>3, <1>4, PTL DEF Mem!Spec, Mem!KeepsStream, Mem!Stream!Spec

-----------------------------------------------------------------------------
\* The file without a limit, or with one and locked until its end is written, as
\* the store of gw_rebuild is. In ring mode it is not a stream, see
\* EofAfterLastByte of SimpleFile.
FileConstants ==
  /\ max_store_size \in Nat /\ DiskFails \in BOOLEAN
  /\ max_store_size = 0 \/ Locking = "until_eof"

\* Writing never starts again at the beginning: byte i + 1 of the body is at
\* offset i, and the lock is not behind the reader.
FileContents ==
  /\ accepted = endpos /\ length = endpos /\ delivered = readpos /\ readpos <= endpos
  /\ \A i \in 0 .. endpos - 1 : file[i] = i + 1
  /\ uselock => readpos <= unlocked
  /\ Locking = "until_eof" => IF uselock THEN unlocked = 0 ELSE eof

FileInv == File!TypeOK /\ FileContents

\* The types and the positions.
LEMMA FileNumbers ==
  ASSUME FileConstants, FileInv
  PROVE  /\ File!Room \in Nat /\ Total \in Nat /\ max_store_size \in Nat
         /\ endpos \in Nat /\ readpos \in Nat /\ unlocked \in Nat
         /\ endpos <= File!Room /\ endpos <= Total /\ readpos <= endpos
         /\ max_store_size > 0 => File!Room = max_store_size
         /\ max_store_size = 0 => File!Room = Total
         /\ File!rpos = readpos \/ readpos = endpos
<1>1. Total \in Nat /\ max_store_size \in Nat
  BY ConstantsAssumption DEF FileConstants
<1>2. /\ File!Room \in Nat
      /\ max_store_size > 0 => File!Room = max_store_size
      /\ max_store_size = 0 => File!Room = Total
  BY <1>1 DEF File!Room
<1>3. /\ endpos \in Nat /\ readpos \in Nat /\ unlocked \in Nat
      /\ endpos <= File!Room /\ endpos <= Total /\ readpos <= endpos
  BY <1>1, <1>2 DEF FileInv, File!TypeOK, FileContents
<1> QED
  BY <1>1, <1>2, <1>3 DEF File!rpos

\* How much ci_simple_file_write takes: no more than it is given or than fits, and
\* it goes behind what is there.
LEMMA WriteSize ==
  ASSUME FileConstants, FileInv, ~eof, NEW len \in Nat, accepted + len <= Total
  PROVE  /\ File!wpos = endpos
         /\ File!wsize(len) \in 0 .. len /\ endpos + File!wsize(len) <= File!Room
<1>1. PICK e, r, m, R : e = endpos /\ r = readpos /\ m = max_store_size /\ R = File!Room
  OBVIOUS
<1>2. /\ e \in Nat /\ r \in Nat /\ m \in Nat /\ R \in Nat /\ r <= e /\ e <= R
      /\ m > 0 => R = m
      /\ m = 0 => R = Total
  BY <1>1, FileNumbers
<1>3. e + len <= Total /\ Total \in Nat
  BY <1>1, ConstantsAssumption DEF FileInv, FileContents
<1>4. m > 0 => uselock
  BY <1>1 DEF FileConstants, FileInv, FileContents
<1>5. ~File!EntersRing
  BY <1>1, <1>2, <1>4 DEF File!EntersRing
<1>6. File!Blocked <=> m > 0 /\ e >= m
  BY <1>1, <1>2, <1>4 DEF File!Blocked
<1>7. File!wsize(len) = IF m > 0 /\ e >= m THEN 0
                        ELSE IF m > 0 THEN (IF m - e < len THEN m - e ELSE len)
                        ELSE len
  BY <1>1, <1>2, <1>5, <1>6 DEF File!wsize, File!Smaller
<1>8. File!wpos = e
  BY <1>1, <1>5 DEF File!wpos
<1> QED
  BY <1>1, <1>2, <1>3, <1>7, <1>8

\* A write, whole, short or failing, puts its bytes behind the others.
LEMMA FileWriteInv ==
  ASSUME FileConstants, FileInv, NEW len \in Nat, NEW iseof \in BOOLEAN,
         accepted + len <= Total, File!ci_simple_file_write(len, iseof)
  PROVE  FileInv' /\ accepted' \in Nat /\ accepted' >= accepted /\ eof' \in BOOLEAN
<1>a. File!TypeOK /\ FileContents /\ ~eof
  BY DEF FileInv, File!ci_simple_file_write
<1>1. PICK e, R : e = endpos /\ R = File!Room
  OBVIOUS
<1>2. /\ e \in Nat /\ R \in Nat /\ Total \in Nat /\ e <= R /\ e + len <= Total
      /\ readpos \in Nat /\ readpos <= e
  BY <1>a, <1>1, FileNumbers DEF FileContents
<1>3. /\ File!wpos = e
      /\ File!wsize(len) \in 0 .. len /\ e + File!wsize(len) <= R
  BY <1>a, <1>1, WriteSize
<1>4. PICK n \in (IF DiskFails THEN 0 .. File!wsize(len) ELSE {File!wsize(len)}) :
        /\ file' = [i \in DOMAIN file |->
                      IF i \in File!wpos .. (File!wpos + n - 1)
                      THEN accepted + (i - File!wpos) + 1 ELSE file[i]]
        /\ endpos' = File!wpos + n
        /\ length' = IF File!wpos + n > length THEN File!wpos + n ELSE length
        /\ accepted' = accepted + n
        /\ File!SetsEof(iseof, n, len)
  BY Zenon DEF File!ci_simple_file_write
<1>5. n \in Nat /\ n <= len /\ e + n <= R
  BY <1>2, <1>3, <1>4
<1>6. file \in [0 .. R - 1 -> 0 .. Total] /\ DOMAIN file = 0 .. R - 1
  BY <1>a, <1>1 DEF File!TypeOK
<1>7. /\ file' = [i \in 0 .. R - 1 |-> IF i \in e .. (e + n - 1)
                                       THEN e + (i - e) + 1 ELSE file[i]]
      /\ endpos' = e + n /\ accepted' = e + n
  BY <1>a, <1>1, <1>3, <1>4, <1>6 DEF FileContents
<1>8. length' = e + n
  BY <1>a, <1>1, <1>2, <1>3, <1>4, <1>5 DEF FileContents
<1>9. eof' \in BOOLEAN /\ UNCHANGED <<readpos, uselock, unlocked, delivered, result>>
  BY <1>a, <1>4 DEF File!SetsEof, File!ci_simple_file_write, File!lock
<1>10. file' \in [0 .. R - 1 -> 0 .. Total]
  BY <1>2, <1>5, <1>6, <1>7
<1>11. File!TypeOK'
  <2>1. e + n \in 0 .. R /\ e + n \in 0 .. Total
    BY <1>2, <1>5
  <2>2. File!Room' = R
    BY <1>1 DEF File!Room
  <2> QED
    BY <1>a, <1>1, <1>7, <1>8, <1>9, <1>10, <2>1, <2>2 DEF File!TypeOK
<1>12. FileContents'
  <2>1. ASSUME NEW i \in 0 .. (e + n) - 1 PROVE file'[i] = i + 1
    <3>1. i \in 0 .. R - 1 /\ i \in Nat
      BY <1>2, <1>5
    <3>2. CASE i \in e .. (e + n - 1)
      <4>1. file'[i] = e + (i - e) + 1
        BY <1>7, <3>1, <3>2
      <4> QED
        BY <1>2, <3>1, <4>1
    <3>3. CASE i \notin e .. (e + n - 1)
      <4>1. i \in 0 .. e - 1
        BY <1>2, <1>5, <3>1, <3>3
      <4>2. file'[i] = file[i]
        BY <1>7, <3>1, <3>3
      <4> QED
        BY <1>a, <1>1, <4>1, <4>2 DEF FileContents
    <3> QED
      BY <3>2, <3>3
  <2>2. readpos <= e + n
    BY <1>2, <1>5
  <2>3. Locking = "until_eof" => uselock /\ unlocked = 0
    BY <1>a DEF FileContents
  <2> QED
    BY <1>a, <1>7, <1>8, <1>9, <2>1, <2>2, <2>3 DEF FileContents
<1> QED
  BY <1>a, <1>1, <1>2, <1>5, <1>7, <1>9, <1>11, <1>12 DEF FileInv, FileContents

\* A step that leaves the contents and the reader where they are.
LEMMA FileFrame ==
  ASSUME FileInv, UNCHANGED <<file, length, endpos, readpos, accepted, delivered>>,
         eof' \in BOOLEAN, uselock' \in BOOLEAN, unlocked' \in 0 .. Total,
         result' \in Seq(0 .. Total),
         uselock' => readpos <= unlocked',
         Locking = "until_eof" => IF uselock' THEN unlocked' = 0 ELSE eof'
  PROVE  FileInv'
<1>1. File!TypeOK'
  BY DEF FileInv, File!TypeOK, File!Room
<1>2. FileContents'
  BY DEF FileInv, FileContents
<1> QED
  BY <1>1, <1>2 DEF FileInv

\* A read returns the bytes behind readpos, none behind the lock, and CI_EOF when
\* there are none left and the end was written.
LEMMA FileReadInv ==
  ASSUME FileConstants, FileInv, NEW len \in 1 .. MaxCall, File!ci_simple_file_read(len)
  PROVE  /\ FileInv' /\ UNCHANGED <<accepted, eof, uselock, unlocked>>
         /\ \/ /\ delivered' \in delivered .. accepted
               /\ result' = [i \in 1 .. (delivered' - delivered) |-> delivered + i]
               /\ uselock /\ delivered' > delivered => readpos' <= unlocked
            \/ /\ eof /\ delivered = accepted /\ delivered' = delivered
               /\ result' = <<0>>
<1>a. File!TypeOK /\ FileContents
  BY DEF FileInv
<1>b. UNCHANGED <<file, length, endpos, eof, uselock, unlocked, accepted>>
  BY DEF File!ci_simple_file_read, File!ReadData, File!ReadNothing, File!content, File!lock
<1>1. PICK e, r, u : e = endpos /\ r = readpos /\ u = unlocked
  OBVIOUS
<1>2. /\ e \in Nat /\ r \in Nat /\ u \in Nat /\ r <= e /\ e <= Total /\ Total \in Nat
      /\ e <= File!Room /\ File!Room \in Nat /\ len \in Nat
      /\ uselock => r <= u
      /\ accepted = e /\ delivered = r /\ length = e
      /\ \A i \in 0 .. e - 1 : file[i] = i + 1
  BY <1>a, <1>1, FileNumbers DEF FileContents
<1>3. CASE File!ReadNothing
  <2>1. /\ r = e /\ result' = (IF eof THEN <<0>> ELSE <<>>)
        /\ UNCHANGED <<readpos, delivered>>
    BY <1>1, <1>3 DEF File!ReadNothing, File!content, File!Eof
  <2>2. result' \in Seq(0 .. Total)
    <3>1. <<0>> \in Seq(0 .. Total) /\ <<>> \in Seq(0 .. Total)
      BY <1>2
    <3> QED
      BY <2>1, <3>1
  <2>3. FileInv'
    <3>1. eof' \in BOOLEAN /\ uselock' \in BOOLEAN /\ unlocked' \in 0 .. Total
      BY <1>a, <1>b DEF File!TypeOK
    <3>2. /\ uselock' => readpos <= unlocked'
          /\ Locking = "until_eof" => IF uselock' THEN unlocked' = 0 ELSE eof'
      BY <1>a, <1>b DEF FileContents
    <3> QED
      BY <1>b, <2>1, <2>2, <3>1, <3>2, FileFrame
  <2>4. CASE eof
    BY <1>b, <1>2, <2>1, <2>3, <2>4
  <2>5. CASE ~eof
    <3>1. result' = <<>> /\ delivered' = delivered /\ delivered' - delivered = 0
      BY <1>2, <2>1, <2>5
    <3>2. result' = [i \in 1 .. 0 |-> delivered + i]
      BY <3>1
    <3>3. delivered' \in delivered .. accepted /\ ~(delivered' > delivered)
      BY <1>2, <2>1, <3>1
    <3> QED
      BY <1>b, <2>3, <3>1, <3>2, <3>3
  <2> QED
    BY <2>4, <2>5
<1>4. CASE File!ReadData(len)
  <2>1. PICK n : n = File!Smaller(File!Smaller(File!remains, len), length - File!rpos)
    OBVIOUS
  <2>2. readpos # endpos /\ File!rpos = r
    BY <1>1, <1>2, <1>4, FileNumbers DEF File!ReadData
  <2>3. /\ result' = [i \in 1 .. n |-> file[r + i - 1]]
        /\ readpos' = r + n /\ delivered' = r + n
    BY <1>2, <1>4, <2>1, <2>2 DEF File!ReadData
  <2>4. File!remains = (IF uselock THEN u - r ELSE e - r)
    BY <1>1, <1>2, <2>2 DEF File!remains
  <2>5. n \in 0 .. (e - r) /\ (uselock => r + n <= u)
    <3>1. PICK x : x = File!remains
      OBVIOUS
    <3>2. n = File!Smaller(File!Smaller(x, len), e - r)
      BY <1>2, <2>1, <2>2, <3>1
    <3>3. x \in Nat /\ r < e /\ (uselock => x = u - r)
      BY <1>1, <1>2, <2>2, <2>4, <3>1
    <3>4. n \in Nat /\ n <= x /\ n <= e - r
      BY <1>2, <3>2, <3>3 DEF File!Smaller
    <3> QED
      BY <1>2, <3>3, <3>4
  <2>6. result' = [i \in 1 .. n |-> r + i]
    <3>1. ASSUME NEW i \in 1 .. n PROVE file[r + i - 1] = r + i
      <4>1. r + i - 1 \in 0 .. e - 1
        BY <1>2, <2>5
      <4>2. file[r + i - 1] = r + i - 1 + 1
        BY <1>2, <4>1
      <4> QED
        BY <1>2, <2>5, <4>2
    <3> QED
      BY <2>3, <3>1
  <2>7. result' \in Seq(0 .. Total)
    BY <1>2, <2>5, <2>6
  <2>8. File!TypeOK'
    <3>1. PICK R \in Nat : R = File!Room /\ e <= R
      BY <1>2
    <3>2. r + n \in 0 .. R /\ r + n \in Nat
      BY <1>2, <2>5, <3>1
    <3> QED
      BY <1>a, <1>b, <2>3, <2>7, <3>1, <3>2 DEF File!TypeOK, File!Room
  <2>9. FileContents'
    <3>1. r + n <= endpos
      BY <1>1, <1>2, <2>5
    <3> QED
      BY <1>a, <1>b, <1>1, <2>3, <2>5, <3>1 DEF FileContents
  <2>10. delivered' - delivered = n /\ delivered' \in delivered .. accepted
    BY <1>2, <2>3, <2>5
  <2> QED
    BY <1>b, <1>1, <1>2, <2>3, <2>5, <2>6, <2>8, <2>9, <2>10 DEF FileInv
<1> QED
  BY <1>3, <1>4 DEF File!ci_simple_file_read

\* ci_simple_file_new makes an empty file.
LEMMA FileInit == FileConstants /\ File!Init => FileInv
<1> SUFFICES ASSUME FileConstants, File!Init PROVE FileInv
  OBVIOUS
<1>1. Total \in Nat /\ max_store_size \in Nat
  BY ConstantsAssumption DEF FileConstants
<1>2. File!Room \in Nat
  BY <1>1 DEF File!Room
<1>3. /\ file \in [0 .. File!Room - 1 -> 0 .. Total] /\ result \in Seq(0 .. Total)
      /\ 0 \in 0 .. File!Room /\ 0 \in 0 .. Total
  BY <1>1, <1>2 DEF File!Init
<1>4. File!TypeOK
  BY <1>3 DEF File!Init, File!TypeOK
<1>5. FileContents
  <2>1. \A i \in 0 .. endpos - 1 : file[i] = i + 1
    BY DEF File!Init
  <2>2. Locking = "until_eof" => uselock
    BY Zenon DEF File!Init
  <2> QED
    BY <2>1, <2>2 DEF File!Init, FileContents
<1> QED
  BY <1>4, <1>5 DEF FileInv

\* Every call keeps the invariant.
LEMMA FileStep == FileConstants /\ FileInv /\ [File!Next]_(File!vars) => FileInv'
<1> SUFFICES ASSUME FileConstants, FileInv, [File!Next]_(File!vars) PROVE FileInv'
  OBVIOUS
<1>a. /\ eof \in BOOLEAN /\ uselock \in BOOLEAN /\ unlocked \in 0 .. Total
      /\ result \in Seq(0 .. Total) /\ accepted \in 0 .. Total
      /\ uselock => readpos <= unlocked
      /\ Locking = "until_eof" => IF uselock THEN unlocked = 0 ELSE eof
      /\ delivered = readpos /\ accepted = endpos
  BY DEF FileInv, File!TypeOK, FileContents
<1>b. Total \in Nat /\ MaxCall \in Nat /\ readpos \in Nat /\ endpos \in Nat /\ readpos <= endpos
  BY FileNumbers, ConstantsAssumption
<1>1. CASE File!Write
  <2>1. PICK len \in 1 .. File!Smaller(MaxCall, Total - accepted), iseof \in BOOLEAN :
          File!ci_simple_file_write(len, iseof)
    BY <1>1 DEF File!Write
  <2>2. len \in Nat /\ accepted + len <= Total
    BY <1>a, <1>b, <2>1 DEF File!Smaller
  <2> QED
    BY <2>1, <2>2, FileWriteInv
<1>2. CASE File!WriteEof
  BY <1>2, <1>a, FileFrame DEF File!WriteEof, File!content, File!lock
<1>3. CASE File!Read
  BY <1>3, FileReadInv DEF File!Read
<1>4. CASE File!lock_all
  <2>1. 0 \in 0 .. Total /\ (readpos = 0 => readpos <= 0)
    BY <1>b
  <2> QED
    BY <1>4, <1>a, <2>1, FileFrame DEF File!lock_all, File!content
<1>5. CASE File!Unlock
  <2>1. PICK len \in 0 .. accepted : File!unlock(len)
    BY <1>5 DEF File!Unlock
  <2>2. unlocked' \in 0 .. Total /\ readpos <= unlocked'
    BY <1>a, <1>b, <2>1 DEF File!unlock
  <2> QED
    BY <1>a, <2>1, <2>2, FileFrame DEF File!unlock, File!content
<1>6. CASE File!unlock_all
  <2>1. 0 \in 0 .. Total
    BY <1>b
  <2> QED
    BY <1>6, <1>a, <2>1, FileFrame DEF File!unlock_all, File!content
<1>7. CASE UNCHANGED File!vars
  BY <1>7, <1>a, FileFrame DEF File!vars, File!content, File!lock
<1> QED
  BY <1>1, <1>2, <1>3, <1>4, <1>5, <1>6, <1>7 DEF File!Next

\* No position of a file leaves it, and assert(remains >= 0) (body.c:785) holds:
\* the lock is never behind the reader.
THEOREM FileCallsAlways ==
  ASSUME FileConstants PROVE File!Spec => [](File!TypeOK /\ File!RemainsAsserted)
<1>1. FileInv => File!TypeOK /\ File!RemainsAsserted
  <2> SUFFICES ASSUME FileInv, readpos # endpos PROVE File!remains >= 0
    BY DEF FileInv, File!RemainsAsserted
  <2>1. /\ endpos \in Nat /\ readpos \in Nat /\ unlocked \in Nat /\ readpos < endpos
        /\ File!rpos = readpos
    BY FileNumbers
  <2>2. uselock => readpos <= unlocked
    BY DEF FileInv, FileContents
  <2> QED
    BY <2>1, <2>2 DEF File!remains
<1>2. File!Init => FileInv
  BY FileInit
<1>3. FileInv /\ [File!Next]_(File!vars) => FileInv'
  BY FileStep
<1> QED
  BY <1>1, <1>2, <1>3, PTL DEF File!Spec

\* Each call of ci_simple_file is a step of the abstract stream, or changes
\* nothing that it shows; a read goes no further than the lock.
LEMMA FileRefines ==
  ASSUME FileConstants, FileInv, [File!Next]_(File!vars)
  PROVE  /\ [File!Stream!Next]_(File!Stream!vars)
         /\ uselock /\ delivered' > delivered => readpos' <= unlocked
<1>a. accepted \in 0 .. Total /\ delivered \in Nat /\ Total \in Nat /\ MaxCall \in Nat
  BY ConstantsAssumption DEF FileInv, File!TypeOK
<1>1. CASE File!Write
  <2>1. PICK len \in 1 .. File!Smaller(MaxCall, Total - accepted), iseof \in BOOLEAN :
          File!ci_simple_file_write(len, iseof)
    BY <1>1 DEF File!Write
  <2>2. len \in Nat /\ accepted + len <= Total
    BY <1>a, <2>1 DEF File!Smaller
  <2>3. accepted' \in Nat /\ accepted' >= accepted /\ eof' \in BOOLEAN
    BY <2>1, <2>2, FileWriteInv
  <2>4. ~eof /\ UNCHANGED <<delivered, result>>
    BY <2>1 DEF File!ci_simple_file_write
  <2>5. File!Stream!Write
    BY <2>3, <2>4 DEF File!Stream!Write
  <2> QED
    BY <1>a, <2>4, <2>5 DEF File!Stream!Next
<1>2. CASE File!WriteEof
  <2>1. ~eof /\ eof' \in BOOLEAN /\ UNCHANGED <<accepted, delivered, result>>
    BY <1>2 DEF File!WriteEof
  <2>2. accepted' \in Nat /\ accepted' >= accepted /\ ~(delivered' > delivered)
    BY <1>a, <2>1
  <2>3. File!Stream!Write
    BY <2>1, <2>2 DEF File!Stream!Write
  <2> QED
    BY <2>2, <2>3 DEF File!Stream!Next
<1>3. CASE File!Read
  <2>1. /\ UNCHANGED <<accepted, eof, uselock, unlocked>>
        /\ \/ /\ delivered' \in delivered .. accepted
              /\ result' = [i \in 1 .. (delivered' - delivered) |-> delivered + i]
              /\ uselock /\ delivered' > delivered => readpos' <= unlocked
           \/ /\ eof /\ delivered = accepted /\ delivered' = delivered
              /\ result' = <<0>>
    BY <1>3, FileReadInv DEF File!Read
  <2>2. File!Stream!Read \/ File!Stream!End
    BY <2>1 DEF File!Stream!Read, File!Stream!End, File!Stream!Eof
  <2>3. delivered' = delivered => ~(delivered' > delivered)
    BY <1>a
  <2> QED
    BY <2>1, <2>2, <2>3 DEF File!Stream!Next
<1>4. CASE File!lock_all \/ File!Unlock \/ File!unlock_all \/ UNCHANGED File!vars
  <2>1. UNCHANGED <<accepted, delivered, eof, result>>
    BY <1>4 DEF File!lock_all, File!Unlock, File!unlock, File!unlock_all, File!vars
  <2>2. ~(delivered' > delivered)
    BY <1>a, <2>1
  <2> QED
    BY <2>1, <2>2 DEF File!Stream!vars
<1> QED
  BY <1>1, <1>2, <1>3, <1>4 DEF File!Next

\* ci_simple_file_write and ci_simple_file_read implement the abstract stream,
\* whatever the locks do and however short the writes to the disk are.
THEOREM FileIsStream ==
  ASSUME FileConstants PROVE File!Spec => File!KeepsStream
<1>1. File!Init => File!Stream!Init
  BY DEF File!Init, File!Stream!Init
<1>2. File!Init => FileInv
  BY FileInit
<1>3. FileInv /\ [File!Next]_(File!vars) => FileInv'
  BY FileStep
<1>4. FileInv /\ [File!Next]_(File!vars) => [File!Stream!Next]_(File!Stream!vars)
  BY FileRefines
<1> QED
  BY <1>1, <1>2, <1>3, <1>4, PTL DEF File!Spec, File!KeepsStream, File!Stream!Spec

\* While a file is locked nothing behind the lock is read: gw_rebuild keeps a body
\* back in this way until it is scanned.
THEOREM FileLockHolds ==
  ASSUME FileConstants
  PROVE  File!Spec => [][uselock /\ delivered' > delivered => readpos' <= unlocked]_(File!vars)
<1>1. File!Init => FileInv
  BY FileInit
<1>2. FileInv /\ [File!Next]_(File!vars) => FileInv'
  BY FileStep
<1>3. FileInv /\ [File!Next]_(File!vars)
      => [uselock /\ delivered' > delivered => readpos' <= unlocked]_(File!vars)
  BY FileRefines
<1> QED
  BY <1>1, <1>2, <1>3, PTL DEF File!Spec
=============================================================================
