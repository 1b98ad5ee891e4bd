------------------------------- MODULE MCBody -------------------------------
(* The data path of a body for TLC: the three containers of body.c and the    *)
(* reader of chunked bodies. A behaviour is one of them, `which` says which;  *)
(* the variables of the others keep one value. The containers share the       *)
(* variables of the abstract stream.                                          *)
(*                                                                            *)
(* Bounds: the ring buffer (constants in the cfg) has calls larger than       *)
(* itself and goes round more than twice; a file without a limit takes five   *)
(* bytes in calls of three, one with a limit of nine is given twelve; the     *)
(* memory buffer grows from two by two up to six bytes and is given eight.    *)
(* Bodies have up to three chunks, among them none, chunks of one byte and    *)
(* one longer than the read buffer, each cut at every place.                  *)
EXTENDS RingBuf

VARIABLES
  which, eof,
  file, length, endpos, readpos, uselock, unlocked,                \* SimpleFile
  bufsize, terminate, ro, string,                                  \* MemBuf
  Preview, wire, block, current_chunk_len, chunk_bytes_read,       \* ChunkStream
  pending, parsed_ret, eof_received, request_bytes_in, pc, malformed, total,
  parsed, given

ring_only == <<read_pos, write_pos, full, op, size, ret>>
file_only == <<file, length, uselock, unlocked>>
mem_only == <<bufsize, terminate, ro, string>>
stream == <<accepted, delivered, eof, result>>
chunk_only == <<Preview, wire, block, current_chunk_len, chunk_bytes_read,
                pending, parsed_ret, eof_received, request_bytes_in, pc,
                malformed, total, parsed, given>>
body_vars == <<which, buf, endpos, readpos, ring_only, file_only, mem_only,
               stream, chunk_only>>

Free == INSTANCE SimpleFile WITH max_store_size <- 0, Locking <- "freely",
          DiskFails <- TRUE, MaxCall <- 3, Total <- 5
Limited == INSTANCE SimpleFile WITH max_store_size <- 9, Locking <- "until_eof",
             DiskFails <- TRUE, MaxCall <- 3, Total <- 12
Mem == INSTANCE MemBuf WITH STARTLEN <- 2, INCSTEP <- 2, Memory <- 6,
         MaxCall <- 3, Total <- 8

\* No length; an extension or a lone CR on a chunk with data; a definition that fills the
\* buffer without its end; a zero chunk that fills it but for its last byte; a
\* zero chunk with something behind the length or a CR in its extension, and one
\* that is not closed.
READ_SIZE == 8
SomeMalformed ==
  LET CR == -1 LF == -2 ieof == -3 other == -4 Digit(n) == -10 - n IN
    {<<CR, LF, CR, LF>>,
     <<Digit(1), CR, other, CR, LF, 1, CR, LF, Digit(0), CR, LF, CR, LF>>,
     <<Digit(1), ieof, CR, LF, 1, CR, LF, Digit(0), CR, LF, CR, LF>>,
     [i \in 1 .. READ_SIZE |-> Digit(1)],
     <<Digit(0), other, CR, LF, CR, LF>>,
     <<Digit(0), CR, LF, other, other>>,
     <<Digit(0), ieof, CR, other, CR, LF, CR, LF>>,
     <<Digit(0), ieof>> \o [i \in 1 .. READ_SIZE - 5 |-> other]
       \o <<CR, LF, CR, LF>>}

Chunk == INSTANCE ChunkStream WITH
           Bodies <- {<<>>, <<1>>, <<3>>, <<9>>, <<1, 2>>, <<4, 1>>, <<2, 1, 3>>},
           Malformed <- SomeMalformed, Following <- 2, BUFSIZE <- READ_SIZE,
           MaxCount <- 40, ret <- parsed_ret, delivered <- given

-----------------------------------------------------------------------------
No_ring == read_pos = 0 /\ write_pos = 0 /\ full = FALSE /\ op = "idle"
           /\ size = 0 /\ ret = FALSE
No_file == file = 0 /\ length = 0 /\ uselock = FALSE /\ unlocked = 0
No_mem == bufsize = 0 /\ terminate = FALSE /\ ro = FALSE /\ string = FALSE
No_positions == endpos = 0 /\ readpos = 0
No_stream == accepted = 0 /\ delivered = 0 /\ eof = FALSE /\ result = <<>>
No_chunks ==
  /\ Preview = FALSE /\ wire = <<>> /\ block = <<>> /\ current_chunk_len = 0
  /\ chunk_bytes_read = 0 /\ pending = <<>> /\ parsed_ret = "none"
  /\ eof_received = FALSE /\ request_bytes_in = 0 /\ pc = "unused"
  /\ malformed = FALSE /\ total = 0 /\ parsed = 0 /\ given = 0

BodyInit ==
  \/ /\ which = "ring" /\ Init /\ eof = FALSE
     /\ No_positions /\ No_file /\ No_mem /\ No_chunks
  \/ /\ which = "free" /\ Free!Init
     /\ buf = 0 /\ No_ring /\ No_mem /\ No_chunks
  \/ /\ which = "limited" /\ Limited!Init
     /\ buf = 0 /\ No_ring /\ No_mem /\ No_chunks
  \/ /\ which = "mem" /\ Mem!Init
     /\ No_ring /\ No_file /\ No_chunks
  \/ /\ which = "chunked" /\ Chunk!Init
     /\ buf = 0 /\ No_positions /\ No_stream /\ No_ring /\ No_file /\ No_mem

BodyNext ==
  \/ /\ which = "ring" /\ Next
     /\ UNCHANGED <<which, eof, endpos, readpos, file_only, mem_only, chunk_only>>
  \/ /\ which = "free" /\ Free!Next
     /\ UNCHANGED <<which, buf, ring_only, mem_only, chunk_only>>
  \/ /\ which = "limited" /\ Limited!Next
     /\ UNCHANGED <<which, buf, ring_only, mem_only, chunk_only>>
  \/ /\ which = "mem" /\ Mem!Next
     /\ UNCHANGED <<which, ring_only, file_only, chunk_only>>
  \/ /\ which = "chunked" /\ Chunk!Next
     /\ UNCHANGED <<which, buf, endpos, readpos, ring_only, file_only, mem_only,
                    stream>>

BodySpec == BodyInit /\ [][BodyNext]_body_vars /\ Chunk!Fairness

-----------------------------------------------------------------------------
(* The variables of the container, or of the reader, that is in use have      *)
(* their types: no position leaves its buffer.                                *)
BodyTypeOK ==
  /\ which = "ring" => TypeOK
  /\ which = "free" => Free!TypeOK
  /\ which = "limited" => Limited!TypeOK
  /\ which = "mem" => Mem!TypeOK
  /\ which = "chunked" => Chunk!TypeOK

Stream_of_body == INSTANCE ByteStream WITH closed <- eof

(* ci_ring_buf, ci_simple_file and ci_membuf all implement the abstract       *)
(* stream: bytes are read once and in the order they were written, and CI_EOF *)
(* comes after the last one, across wraps, limits, locks, growth, short       *)
(* writes and failing allocations. The lock of ci_simple_file holds for both  *)
(* files: what a read returns lies before `unlocked`; gw_rebuild counts on it *)
(* to keep a body back until it is scanned.                                   *)
BodyIsStream ==
  /\ Stream_of_body!Spec
  /\ [][uselock /\ delivered' > delivered => readpos' <= unlocked]_body_vars

(* What single calls promise. assert(remains >= 0) (body.c:785) holds for both *)
(* files. A memory buffer with CI_MEMBUF_NULL_TERMINATED is a C string after  *)
(* every write, whole or short. A read of the ring buffer that returns less   *)
(* than asked has emptied it, and a write that takes less than given leaves   *)
(* something to read. No position leaves its buffer.                          *)
BodyCalls ==
  /\ BodyTypeOK
  /\ which = "free" => Free!RemainsAsserted
  /\ which = "limited" => Limited!RemainsAsserted
  /\ which = "mem" => Mem!IsString
  /\ which = "ring" => ShortReadEmpties /\ ShortWriteFills

(* Wherever the network cuts it, parse_chunk_data hands over the body and     *)
(* nothing else, in order, and reports the end when all of it was handed      *)
(* over; it rejects a body if and only if a definition in it is malformed or  *)
(* the zero chunk is not closed at all (one of the bytes of its CR LF is      *)
(* enough); and it leaves the bytes of the next request in the buffer.        *)
ChunkExact == which = "chunked" => Chunk!ChunkExact

(* A body is read to its end, by get_send_body and by read_preview_data.      *)
ChunkEnds == which = "chunked" ~> malformed \/ (pc = "done" /\ given = total)
=============================================================================
