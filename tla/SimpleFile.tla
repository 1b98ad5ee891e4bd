----------------------------- MODULE SimpleFile -----------------------------
(* ci_simple_file of body.c: a temporary file with a write position endpos    *)
(* and a read position readpos. A file with a max_store_size goes over to a   *)
(* "ring mode", in which writes start again at the beginning of the file      *)
(* behind the reader. With CI_FILE_USELOCK set, only the bytes before         *)
(* `unlocked` can be read.                                                    *)
EXTENDS Integers, Sequences

CONSTANTS
  max_store_size,   \* 0: no limit
  Locking,          \* how the owner locks: "never", "freely", or "until_eof",
                    \* as gw_rebuild does
  DiskFails,        \* may write(2) fail or be short?
  MaxCall,          \* the largest length passed to a read or a write
  Total             \* bound on the bytes written in a behaviour

VARIABLES
  file, length,         \* contents: offset -> byte, see ByteStream; their number
  endpos, readpos,
  eof,                  \* CI_FILE_HAS_EOF
  uselock, unlocked,    \* CI_FILE_USELOCK and the limit of the lock
  accepted, delivered,  \* bytes taken by writes, returned by reads
  result                \* what the last read returned

content == <<file, length, endpos, readpos>>
lock == <<uselock, unlocked>>
vars == <<content, eof, lock, accepted, delivered, result>>

Eof == <<0>>

\* A file without a limit never holds more than what was written to it.
Room == IF max_store_size > 0 THEN max_store_size ELSE Total

TypeOK ==
  /\ file \in [0 .. Room - 1 -> 0 .. Total]
  /\ length \in 0 .. Room /\ endpos \in 0 .. Room /\ readpos \in 0 .. Room
  /\ eof \in BOOLEAN /\ uselock \in BOOLEAN /\ unlocked \in 0 .. Total
  /\ accepted \in 0 .. Total /\ delivered \in Nat
  /\ result \in Seq(0 .. Total)

\* ci_simple_file_new
Init ==
  /\ file = [i \in 0 .. Room - 1 |-> 0]
  /\ length = 0 /\ endpos = 0 /\ readpos = 0 /\ eof = FALSE
  /\ uselock = (Locking = "until_eof") /\ unlocked = 0
  /\ accepted = 0 /\ delivered = 0 /\ result = <<>>

Smaller(a, b) == IF a < b THEN a ELSE b

-----------------------------------------------------------------------------
\* The file is at its limit and writing may start again at its beginning.
EntersRing == max_store_size > 0 /\ endpos >= max_store_size
              /\ readpos # 0 /\ ~uselock

Blocked == max_store_size > 0 /\ endpos >= max_store_size
           /\ ~(readpos # 0 /\ ~uselock)

\* How much of len bytes may be written, and where, in ci_simple_file_write.
wsize(len) ==
  IF endpos < readpos THEN Smaller(readpos - endpos - 1, len)
  ELSE IF Blocked THEN 0
  ELSE IF EntersRing THEN Smaller(readpos - 1, len)
  ELSE IF max_store_size > 0 THEN Smaller(max_store_size - endpos, len)
  ELSE len

wpos == IF endpos >= readpos /\ EntersRing THEN 0 ELSE endpos

\* The end is only taken with the last of the bytes.
SetsEof(iseof, n, len) == eof' = (eof \/ (iseof /\ n = len))

ci_simple_file_write(len, iseof) ==
  /\ ~eof /\ len > 0
  /\ \E n \in (IF DiskFails THEN 0 .. wsize(len) ELSE {wsize(len)}) :
       /\ file' = [i \in DOMAIN file |->
                     IF i \in wpos .. (wpos + n - 1)
                     THEN accepted + (i - wpos) + 1 ELSE file[i]]
       /\ endpos' = wpos + n
       /\ length' = IF wpos + n > length THEN wpos + n ELSE length
       /\ accepted' = accepted + n
       /\ SetsEof(iseof, n, len)
  /\ UNCHANGED <<readpos, lock, delivered, result>>

\* A call that only brings the end.
WriteEof ==
  /\ ~eof /\ eof' = TRUE
  /\ UNCHANGED <<content, lock, accepted, delivered, result>>

-----------------------------------------------------------------------------
\* readpos after the wrap of ci_simple_file_read.
rpos == IF max_store_size > 0 /\ readpos = max_store_size THEN 0 ELSE readpos

remains_unlocked ==
  IF endpos > rpos THEN endpos - rpos ELSE max_store_size - rpos

remains ==
  IF uselock THEN unlocked - rpos
  ELSE IF endpos > rpos THEN endpos - rpos
  ELSE max_store_size - rpos

\* Bytes behind the end of the file itself are not read.
ReadData(len) ==
  /\ readpos # endpos
  /\ LET n == Smaller(Smaller(remains, len), length - rpos) IN
       /\ result' = [i \in 1 .. n |-> file[rpos + i - 1]]
       /\ readpos' = rpos + n
       /\ delivered' = delivered + n
  /\ UNCHANGED <<file, length, endpos, eof, lock, accepted>>

ReadNothing ==
  /\ readpos = endpos
  /\ result' = IF eof THEN Eof ELSE <<>>
  /\ UNCHANGED <<content, eof, lock, accepted, delivered>>

ci_simple_file_read(len) == ReadData(len) \/ ReadNothing

-----------------------------------------------------------------------------
\* A file is locked before anything was read from it.
lock_all ==
  /\ Locking = "freely" /\ delivered = 0 /\ uselock' = TRUE /\ unlocked' = 0
  /\ UNCHANGED <<content, eof, accepted, delivered, result>>

unlock_behind(len) ==
  /\ Locking = "freely"
  /\ unlocked' = len
  /\ UNCHANGED <<content, eof, uselock, accepted, delivered, result>>

\* ci_simple_file_unlock does not go back behind the reader.
unlock(len) ==
  /\ Locking = "freely"
  /\ unlocked' = IF readpos > len THEN readpos ELSE len
  /\ UNCHANGED <<content, eof, uselock, accepted, delivered, result>>

unlock_all ==
  /\ Locking = "freely" \/ (Locking = "until_eof" /\ eof)
  /\ uselock' = FALSE /\ unlocked' = 0
  /\ UNCHANGED <<content, eof, accepted, delivered, result>>

Write == \E len \in 1 .. Smaller(MaxCall, Total - accepted), iseof \in BOOLEAN :
           ci_simple_file_write(len, iseof)

Read == \E len \in 1 .. MaxCall : ci_simple_file_read(len)

Unlock == \E len \in 0 .. accepted : unlock(len)

Next ==
  \/ Write \/ WriteEof \/ Read
  \/ lock_all \/ Unlock \/ unlock_all

Spec == Init /\ [][Next]_vars

-----------------------------------------------------------------------------
Stream == INSTANCE ByteStream WITH closed <- eof

(* A simple file is a first-in first-out stream: bytes are returned once, in  *)
(* order, and CI_EOF only after the last one, whatever the reader, the writer *)
(* and the locks do and however short the writes are.                         *)
KeepsStream == Stream!Spec

(* "Has EOF and no data to read, send EOF" (body.c:761): when every byte was  *)
(* read and the end was written, a read returns CI_EOF and not data that was  *)
(* returned before. Ring mode does not keep this: TLC refutes it for          *)
(* max_store_size = 3 and Locking = "never".                                  *)
EofAfterLastByte == [][eof /\ delivered = accepted => delivered' = delivered]_vars

(* assert(remains >= 0) (body.c:785): the lock is never behind the reader.    *)
RemainsAsserted == readpos # endpos => remains >= 0
=============================================================================
