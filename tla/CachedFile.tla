----------------------------- MODULE CachedFile -----------------------------
(* ci_cached_file of body.c: a body that stays in memory while it fits and     *)
(* moves to a temporary file when it does not.  Bytes are numbered as they     *)
(* are accepted, see ByteStream.                                               *)
EXTENDS Integers, Sequences

CONSTANTS
  CI_BODY_MAX_MEM,
  NewSizes,         \* sizes asked for in ci_cached_file_new and _reset
  MaxCall,          \* the largest length passed to a read or a write
  Total             \* bound on the bytes written to a body

VARIABLES
  buf, bufsize,         \* the bytes in memory and the room for them
  file,                 \* the bytes of the temporary file
  fd,                   \* is a temporary file open?
  endpos, readpos,
  eof, uselock, unlocked,
  accepted, delivered, result,
  damaged               \* history: a write(2) did not do all it was asked

vars == <<buf, bufsize, file, fd, endpos, readpos, eof, uselock, unlocked, accepted, delivered, result, damaged>>

Eof == <<0>>
Bytes(n) == [i \in 1 .. n |-> accepted + i]
Smaller(a, b) == IF a < b THEN a ELSE b

\* ci_cached_file_new: size 0 asks for all the memory a body may have; more than that, or a
\* negative size, for a file
Init ==
  /\ buf = <<>> /\ file = <<>> /\ endpos = 0 /\ readpos = 0 /\ eof = FALSE
  /\ uselock = FALSE /\ unlocked = 0 /\ accepted = 0 /\ delivered = 0 /\ result = <<>> /\ damaged = FALSE
  /\ \E size \in NewSizes :
       LET room == IF size = 0 THEN CI_BODY_MAX_MEM ELSE size
           inMemory == room > 0 /\ room <= CI_BODY_MAX_MEM
       IN  bufsize = (IF inMemory THEN room ELSE 0) /\ fd = ~inMemory

resize_buffer(size) == IF size < bufsize \/ size > CI_BODY_MAX_MEM THEN bufsize ELSE size

\* The body is used again for other data.
ci_cached_file_reset ==
  /\ buf' = <<>> /\ file' = <<>> /\ fd' = FALSE /\ endpos' = 0 /\ readpos' = 0 /\ eof' = FALSE
  /\ uselock' = FALSE /\ unlocked' = 0 /\ accepted' = 0 /\ delivered' = 0 /\ result' = <<>> /\ damaged' = FALSE
  /\ \E size \in NewSizes : bufsize' = resize_buffer(size)

\* What a call of do_write adds to the file; only a failure is noticed.
Written(bytes) == {SubSeq(bytes, 1, n) : n \in 0 .. Len(bytes)}

WriteToFile(len) ==
  /\ fd /\ \E w \in Written(Bytes(len)) \cup {<<>>} : file' = file \o w
  /\ endpos' = endpos + len /\ accepted' = accepted + len
  /\ UNCHANGED <<buf, bufsize, fd>>

\* What is in memory goes to a new file, the new data after it.
Spill(len) ==
  /\ ~fd /\ bufsize - endpos < len
  /\ \/ /\ fd' = TRUE
        /\ \E w \in Written(buf), v \in Written(Bytes(len)) : file' = w \o v
        /\ endpos' = endpos + len /\ accepted' = accepted + len
     \/ fd' = TRUE /\ file' \in {<<>>} \cup Written(buf) /\ UNCHANGED <<endpos, accepted>>
     \/ UNCHANGED <<fd, file, endpos, accepted>>    \* ci_mktemp_file fails
  /\ UNCHANGED <<buf, bufsize>>

WriteToMemory(len) ==
  /\ ~fd /\ bufsize - endpos >= len
  /\ buf' = buf \o Bytes(len) /\ endpos' = endpos + len /\ accepted' = accepted + len
  /\ UNCHANGED <<bufsize, file, fd>>

\* The end is set whatever becomes of the data.
ci_cached_file_write(len, iseof) ==
  /\ ~eof /\ eof' = iseof
  /\ \/ len = 0 /\ UNCHANGED <<buf, bufsize, file, fd, endpos, accepted>>
     \/ len > 0 /\ (WriteToFile(len) \/ Spill(len) \/ WriteToMemory(len))
  /\ damaged' = (damaged \/ (fd' /\ Len(file') # endpos'))
  /\ UNCHANGED <<readpos, uselock, unlocked, delivered, result>>

\* In the file a read ends where the file does, in memory at endpos.
Unlocked_in_memory == IF uselock /\ ~fd THEN unlocked ELSE IF fd THEN Len(file) ELSE endpos
Unlocked == IF uselock THEN unlocked ELSE IF fd THEN Len(file) ELSE endpos
Limit(len) == Smaller(readpos + len, IF fd THEN Smaller(Unlocked, Len(file)) ELSE Unlocked)
ci_cached_file_read(len) ==
  /\ IF readpos = endpos /\ eof THEN result' = Eof /\ UNCHANGED <<readpos, delivered>>
     ELSE LET bytes == SubSeq(IF fd THEN file ELSE buf, readpos + 1, Limit(len)) IN
          /\ result' = bytes /\ readpos' = readpos + Len(bytes) /\ delivered' = delivered + Len(bytes)
  /\ UNCHANGED <<buf, bufsize, file, fd, endpos, eof, uselock, unlocked, accepted, damaged>>

unlock(len) == unlocked' = IF readpos > len THEN readpos ELSE len
\* A body is locked before anything is read from it, and unlocked up to bytes that are there.
Locking ==
  /\ \/ delivered = 0 /\ uselock' = TRUE /\ unlocked' = 0
     \/ uselock' = uselock /\ \E len \in 0 .. endpos : unlock(len)
     \/ uselock' = FALSE /\ unlocked' = 0
  /\ UNCHANGED <<buf, bufsize, file, fd, endpos, readpos, eof, accepted, delivered, result, damaged>>

Write == \E len \in 0 .. Smaller(MaxCall, Total - accepted), iseof \in BOOLEAN : ci_cached_file_write(len, iseof)
Read == \E len \in 1 .. MaxCall : ci_cached_file_read(len)
Next == Write \/ Read \/ Locking \/ ci_cached_file_reset
Spec == Init /\ [][Next]_vars

-----------------------------------------------------------------------------
(* Whether a body is in memory, in a file, or moved from the one to the other  *)
(* between two reads, a read returns the bytes that were accepted, in order,   *)
(* none behind the lock, and CI_EOF only after the last one; a body in memory  *)
(* has not outgrown its buffer (assert(remains >= 0), body.c:494).  The bytes   *)
(* of a write to the file that failed, or was short, are counted as accepted    *)
(* (body.c:483): nothing is said of a body that has met one.                    *)
CachedExact ==
  /\ ~damaged =>
       /\ result = Eof => eof /\ readpos = accepted
       /\ result \notin {Eof, <<>>} => result = [i \in 1 .. Len(result) |-> readpos - Len(result) + i]
       /\ (IF fd THEN file ELSE buf) = [i \in 1 .. accepted |-> i]
  /\ delivered = readpos /\ readpos <= accepted /\ endpos = accepted
  /\ ~fd => endpos <= bufsize
  /\ uselock => readpos <= unlocked

(* (refuted) A body is all there when its end was written.                      *)
WholeAtEnd == eof => Len(IF fd THEN file ELSE buf) = accepted
=============================================================================
