------------------------------- MODULE MemBuf -------------------------------
(* ci_membuf of body.c: a body in memory. A write that does not fit grows the *)
(* buffer by INCSTEP until it does; when the memory runs out it takes what    *)
(* fits. With CI_MEMBUF_NULL_TERMINATED set, the contents are also a C string *)
(* and one byte is kept for its terminator.                                   *)
EXTENDS Integers, Sequences

CONSTANTS
  STARTLEN, INCSTEP,
  Memory,    \* the largest buffer that ci_buffer_realloc can give
  MaxCall,   \* the largest length passed to a read or a write
  Total      \* bound on the bytes written in a behaviour

VARIABLES
  buf, bufsize,         \* contents: offset -> byte, see ByteStream; their size
  endpos, readpos,
  terminate, ro, eof,   \* the flags NULL_TERMINATED, RO and HAS_EOF
  string,               \* was the terminator asked for, and the last write
                        \* not refused, since?
  accepted, delivered,  \* bytes taken by writes, returned by reads
  result                \* what the last read returned

flags == <<terminate, ro, eof>>
vars == <<buf, bufsize, endpos, readpos, flags, string, accepted, delivered, result>>

Eof == <<0>>
NUL == 0
Unset == -1

TypeOK ==
  /\ bufsize \in Nat \ {0} /\ buf \in [0 .. bufsize - 1 -> Unset .. Total]
  /\ endpos \in 0 .. bufsize /\ readpos \in 0 .. endpos
  /\ {terminate, ro, eof, string} \subseteq BOOLEAN
  /\ accepted \in 0 .. Total /\ delivered \in 0 .. Total
  /\ result \in Seq(Unset .. Total)

\* ci_membuf_new
Init ==
  /\ bufsize = STARTLEN /\ buf = [i \in 0 .. STARTLEN - 1 |-> Unset]
  /\ endpos = 0 /\ readpos = 0
  /\ terminate = FALSE /\ ro = FALSE /\ eof = FALSE /\ string = FALSE
  /\ accepted = 0 /\ delivered = 0 /\ result = <<>>

-----------------------------------------------------------------------------
\* The room for data in a buffer of that size: -1 when the terminator was asked
\* for after the buffer was full.
remains(size) == size - endpos - (IF terminate THEN 1 ELSE 0)

\* The sizes that the loop can stop at: the first that is large enough, or any
\* before it, where the memory ran out.
Sizes == {bufsize + k * INCSTEP : k \in 0 .. (MaxCall + 1)}
Enough(len) == {s \in Sizes : remains(s) >= len}
Smallest(S) == CHOOSE s \in S : \A t \in S : s <= t
Grown(len) == Smallest(Enough(len))
Short(len) == {s \in Sizes : s < Grown(len) /\ s <= Memory}

Copied_fresh(size, n) ==
  [i \in 0 .. size - 1 |->
     IF i \in endpos .. (endpos + n - 1) THEN accepted + (i - endpos) + 1
     ELSE IF terminate /\ i = endpos + n THEN NUL
     ELSE IF size = bufsize THEN buf[i] ELSE Unset]

\* The buffer of that size after n bytes were copied to its end.
Copied(size, n) ==
  [i \in 0 .. size - 1 |->
     IF i \in endpos .. (endpos + n - 1) THEN accepted + (i - endpos) + 1
     ELSE IF terminate /\ i = endpos + n THEN NUL
     ELSE IF i < bufsize THEN buf[i] ELSE Unset]

Takes(size, n) ==
  /\ bufsize' = size
  /\ buf' = Copied(size, n)
  /\ endpos' = endpos + n /\ accepted' = accepted + n
  /\ string' = terminate

WriteWhole(len) ==
  /\ Grown(len) <= Memory \/ Grown(len) = bufsize
  /\ Takes(Grown(len), len)

\* ci_buffer_realloc fails; what still fits is taken, or nothing when not even
\* the terminator fits.
WriteShort(len) ==
  \E s \in Short(len) :
    IF remains(s) >= 0 THEN Takes(s, remains(s))
    ELSE /\ bufsize' = s
         /\ buf' = [i \in 0 .. s - 1 |-> IF i < bufsize THEN buf[i] ELSE Unset]
         /\ string' = FALSE
         /\ UNCHANGED <<endpos, accepted>>

\* ci_membuf_write; the end is taken before the data is.
ci_membuf_write(len, iseof) ==
  /\ ~ro /\ ~eof
  /\ eof' = iseof
  /\ WriteWhole(len) \/ WriteShort(len)
  /\ UNCHANGED <<readpos, terminate, ro, delivered, result>>

\* ci_membuf_read of a buffer that is not locked.
ci_membuf_read(len) ==
  /\ IF endpos = readpos /\ eof
     THEN result' = Eof /\ UNCHANGED <<readpos, delivered>>
     ELSE LET n == IF len <= endpos - readpos THEN len ELSE endpos - readpos IN
            /\ result' = [i \in 1 .. n |-> buf[readpos + i - 1]]
            /\ readpos' = readpos + n /\ delivered' = delivered + n
  /\ UNCHANGED <<buf, bufsize, endpos, flags, string, accepted>>

\* ci_membuf_set_flag with one of CI_MEMBUF_USER_FLAGS
ci_membuf_set_flag ==
  /\ \/ terminate' = TRUE /\ ro' = ro
     \/ ro' = TRUE /\ terminate' = terminate
  /\ UNCHANGED <<buf, bufsize, endpos, readpos, eof, string, accepted, delivered, result>>

Write == \E len \in 0 .. MaxCall, iseof \in BOOLEAN :
           accepted + len <= Total /\ ci_membuf_write(len, iseof)

Read == \E len \in 1 .. MaxCall : ci_membuf_read(len)

Next == Write \/ Read \/ ci_membuf_set_flag

Spec == Init /\ [][Next]_vars

-----------------------------------------------------------------------------
Stream == INSTANCE ByteStream WITH closed <- eof

(* A memory buffer is a first-in first-out stream, also across the moves of   *)
(* its contents to larger buffers and when a write is cut short.              *)
KeepsStream == Stream!Spec

(* After a write to a buffer with CI_MEMBUF_NULL_TERMINATED, whole or short,  *)
(* its contents are a C string: the byte behind the last one is in the buffer *)
(* and is NUL. The templates and the decoders hand such buffers to string     *)
(* functions.                                                                 *)
IsString == string => endpos < bufsize /\ buf[endpos] = NUL
=============================================================================
