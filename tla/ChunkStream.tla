----------------------------- MODULE ChunkStream -----------------------------
(* How the chunked body of an ICAP request is read: net_data_read,            *)
(* parse_chunk_data (request_common.c) and the loops around them in           *)
(* get_send_body and read_preview_data (request.c). The network may cut the   *)
(* bytes at any place. A round of the loop in parse_chunk_data is a step.     *)
EXTENDS Integers, Sequences

CONSTANTS
  Bodies,    \* the bodies to read, each the sequence of its chunk lengths
  Following, \* how many bytes of the next request follow
  BUFSIZE,
  MaxCount,  \* bound on request_bytes_in, which stays there once it is reached
  Malformed  \* wires that are not a body

VARIABLES
  Preview,              \* is read_preview_data the caller, or get_send_body?
  wire,                 \* bytes that the client sent and the server did not read
  block,                \* pstrblock_read[0 .. pstrblock_read_len - 1]
  current_chunk_len, chunk_bytes_read,
  pending,              \* wdata[0 .. write_to_module_pending - 1]
  ret,                  \* what parse_chunk_data returned
  eof_received,
  request_bytes_in,
  pc,                   \* "wait", "parse", "io", "done" or "failed"
  malformed,            \* is the wire not a body?
  total, parsed,        \* length of the body; bytes parsed so far
  delivered             \* body bytes given to the service

chunk == <<current_chunk_len, chunk_bytes_read>>
ghosts == <<Preview, malformed, total, delivered>>
vars == <<wire, block, chunk, pending, ret, eof_received, request_bytes_in, pc,
          parsed, ghosts>>

-----------------------------------------------------------------------------
\* Bytes are numbers: body byte number i is i, a byte of the next request is 0,
\* and the others are negative. The extension "; ieof" is one byte;
\* what follows it in a definition is ignored.
CR == -1
LF == -2
ieof == -3
other == -4
Clobbered == -5
Digit(n) == -10 - n
Value(b) == -10 - b
IsDigit(b) == b <= -10

\* Before(body)[i] is how many bytes of the body its first i chunks have.
Before(body) == LET f[i \in 0 .. Len(body)] == IF i = 0 THEN 0 ELSE f[i-1] + body[i] IN f
Sum(body) == Before(body)[Len(body)]

\* The two bytes behind the data of a chunk, at which the code does not look, and
\* those behind the zero chunk, of which it is enough that one is right.
Closings ==
  {[data |-> <<CR, LF>>, zero |-> <<CR, LF>>],
   [data |-> <<other, other>>, zero |-> <<CR, other>>],
   [data |-> <<CR, LF>>, zero |-> <<other, LF>>]}

\* A body on the wire, with the zero chunk that ends it.
OnWire(body, i, c) ==
  <<Digit(body[i]), CR, LF>> \o [k \in 1 .. body[i] |-> Before(body)[i-1] + k] \o c.data
Chunks(body, c) ==
  LET f[i \in 0 .. Len(body)] == IF i = 0 THEN <<>> ELSE f[i-1] \o OnWire(body, i, c) IN f
Encoded(body, ext, c) ==
  Chunks(body, c)[Len(body)] \o (<<Digit(0)>> \o ext \o <<CR, LF>> \o c.zero)

Next_request == [i \in 1 .. Following |-> 0]

\* After a preview without ieof the client waits for an answer.
Rest(whole) == IF Preview /\ ~whole THEN <<>> ELSE Next_request

TypeOK ==
  /\ wire \in Seq(Int) /\ block \in Seq(Int) /\ Len(block) <= BUFSIZE
  /\ current_chunk_len \in Nat /\ chunk_bytes_read \in 0 .. current_chunk_len
  /\ pending \in Seq(Int)
  /\ ret \in {"none", "ok", "more", "eof"}
  /\ eof_received \in BOOLEAN /\ request_bytes_in \in Nat /\ parsed \in Nat
  /\ pc \in {"wait", "parse", "io", "done", "failed"}
  /\ {Preview, malformed} \subseteq BOOLEAN /\ total \in Nat /\ delivered \in Nat

Extensions == IF Preview THEN {<<>>, <<ieof>>} ELSE {<<>>}

\* Part of the body may already be in the buffer, read with the headers.
Arrives(all) ==
  \E n \in 0 .. (IF Len(all) < BUFSIZE THEN Len(all) ELSE BUFSIZE) :
    /\ block = SubSeq(all, 1, n)
    /\ wire = SubSeq(all, n + 1, Len(all))
    /\ pc = IF n = 0 THEN "wait" ELSE "parse"

Init ==
  /\ Preview \in BOOLEAN
  /\ \/ /\ malformed = FALSE
        /\ \E body \in Bodies, ext \in Extensions, c \in Closings :
             /\ Arrives(Encoded(body, ext, c) \o Rest(ext # <<>>))
             /\ total = Sum(body)
     \/ malformed = TRUE /\ total = 0 /\ (\E w \in Malformed : Arrives(w))
  /\ current_chunk_len = 0 /\ chunk_bytes_read = 0 /\ pending = <<>>
  /\ ret = "none" /\ eof_received = FALSE
  /\ request_bytes_in = 0 /\ parsed = 0 /\ delivered = 0

-----------------------------------------------------------------------------
\* net_data_read of n bytes. The bytes kept move to the start of the buffer,
\* which clobbers data that is still pending.
Fetch(n) ==
  /\ block' = block \o SubSeq(wire, 1, n)
  /\ wire' = SubSeq(wire, n + 1, Len(wire))
  /\ pending' = [i \in DOMAIN pending |-> Clobbered]

Reads_always == TRUE

\* get_send_body waits for data only when the service took all there was.
Reads == pending = <<>>

net_data_read ==
  /\ pc = "wait" /\ Reads
  /\ \E n \in 1 .. Len(wire) : n <= BUFSIZE - Len(block) /\ Fetch(n)
  /\ pc' = "parse"
  /\ UNCHANGED <<chunk, ret, eof_received, request_bytes_in, parsed, ghosts>>

NoSpace ==
  /\ pc = "wait" /\ Reads /\ wire # <<>> /\ Len(block) >= BUFSIZE
  /\ pc' = "failed"
  /\ UNCHANGED <<wire, block, chunk, pending, ret, eof_received,
                 request_bytes_in, parsed, ghosts>>

\* Only the client's side became ready for writing.
WriteOnly ==
  /\ ~Preview /\ pc = "wait"
  /\ pc' = IF block # <<>> /\ pending = <<>> THEN "parse" ELSE "io"
  /\ UNCHANGED <<wire, block, chunk, pending, ret, eof_received,
                 request_bytes_in, parsed, ghosts>>

-----------------------------------------------------------------------------
\* A round of parse_chunk_data.
Returns(r) == ret' = r /\ pc' = "io"
Count(n) == request_bytes_in' = IF request_bytes_in + n < MaxCount
                                THEN request_bytes_in + n ELSE MaxCount
Drop(n) == block' = SubSeq(block, n + 1, Len(block)) /\ parsed' = parsed + n

AtDef == current_chunk_len = chunk_bytes_read

\* Where the first CR LF of the block ends; 0 if there is none.
Eol ==
  LET ends == {i \in 2 .. Len(block) : block[i-1] = CR /\ block[i] = LF} IN
    IF ends = {} THEN 0 ELSE CHOOSE i \in ends : \A j \in ends : i <= j

ParseDefMore ==
  /\ pc = "parse" /\ AtDef /\ Eol = 0
  /\ IF Len(block) >= BUFSIZE THEN pc' = "failed" /\ ret' = ret
     ELSE Returns("more")
  /\ UNCHANGED <<wire, block, chunk, pending, eof_received, request_bytes_in,
                 parsed, ghosts>>

\* strtol finds no digit, or something other than CR LF follows the length of a
\* chunk with data.
BadDef == ~IsDigit(block[1]) \/ (Value(block[1]) # 0 /\ Eol # 3)

ParseDefBad ==
  /\ pc = "parse" /\ AtDef /\ Eol > 0 /\ BadDef
  /\ Count(Eol)
  /\ pc' = "failed"
  /\ UNCHANGED <<wire, block, chunk, pending, ret, eof_received, parsed, ghosts>>

\* The definition of a chunk with data; the CR LF behind the data counts too.
ParseDef ==
  /\ pc = "parse" /\ AtDef /\ Eol > 0 /\ ~BadDef /\ Value(block[1]) > 0
  /\ Count(Eol)
  /\ current_chunk_len' = Value(block[1]) + 2 /\ chunk_bytes_read' = 0
  /\ Drop(Eol)
  /\ IF pending # <<>> THEN Returns("ok")
     ELSE IF Len(block) = Eol THEN Returns("more") ELSE UNCHANGED <<ret, pc>>
  /\ UNCHANGED <<wire, pending, eof_received, ghosts>>

\* Neither of the two bytes behind the zero chunk is right.
Unclosed == block[Eol + 1] # CR /\ block[Eol + 2] # LF

\* CR LF follows the length, or does after ieof and what else is there.
ZeroDef == Eol = 3 \/ (block[2] = ieof /\ \A i \in 3 .. Eol - 2 : block[i] # CR)

\* The zero chunk, complete or not. Its definition is looked at last.
ParseZero ==
  /\ pc = "parse" /\ AtDef /\ Eol > 0 /\ ~BadDef /\ Value(block[1]) = 0
  /\ current_chunk_len' = 0 /\ chunk_bytes_read' = 0
  /\ IF Len(block) - Eol < 2
     THEN Count(Eol) /\ Returns("more") /\ UNCHANGED <<block, parsed, eof_received>>
     ELSE IF Unclosed
     THEN Count(Eol) /\ pc' = "failed" /\ UNCHANGED <<ret, block, parsed, eof_received>>
     ELSE /\ Count(Eol + 2)
          /\ eof_received' = (eof_received \/ block[2] = ieof)
          /\ IF ZeroDef THEN Returns("eof") /\ Drop(Eol + 2)
             ELSE pc' = "failed" /\ UNCHANGED <<ret, block, parsed>>
  /\ UNCHANGED <<wire, pending, ghosts>>

left == current_chunk_len - chunk_bytes_read

\* How many of the bytes at hand are data, and not the CR LF behind it.
PendingOf ==
  IF left <= Len(block) THEN (IF left > 2 THEN left - 2 ELSE 0)
  ELSE IF left - Len(block) < 2 THEN Len(block) - (left - Len(block))
  ELSE Len(block)

ParseData ==
  /\ pc = "parse" /\ ~AtDef
  /\ IF block = <<>>
     THEN /\ Returns("more")
          /\ UNCHANGED <<block, chunk, pending, request_bytes_in, parsed>>
     ELSE LET n == IF left <= Len(block) THEN left ELSE Len(block) IN
            /\ pending' = SubSeq(block, 1, PendingOf)
            /\ chunk_bytes_read' = chunk_bytes_read + n
            /\ Count(n)
            /\ Drop(n)
            /\ IF Len(block) = n THEN Returns("more") ELSE UNCHANGED <<ret, pc>>
            /\ UNCHANGED current_chunk_len
  /\ UNCHANGED <<wire, eof_received, ghosts>>

parse_chunk_data ==
  ParseDefMore \/ ParseDefBad \/ ParseDef \/ ParseZero \/ ParseData

-----------------------------------------------------------------------------
\* The service takes n of the pending bytes.
Gives(n) ==
  /\ pending' = SubSeq(pending, n + 1, Len(pending))
  /\ delivered' = delivered + n

Ends_at_once(n) == ret = "eof" /\ ~eof_received /\ n = Len(pending)

Ends(n) == (eof_received \/ ret = "eof") /\ n = Len(pending)

\* The end of a round of get_send_body.
ServiceIo(n) ==
  /\ ~Preview /\ pc = "io" /\ n <= Len(pending)
  /\ Gives(n)
  /\ eof_received' = (eof_received \/ ret = "eof")
  /\ pc' = IF Ends(n) THEN "done"
           ELSE IF block # <<>> /\ ret = "ok" /\ n > 0
                THEN (IF n = Len(pending) THEN "parse" ELSE "io")
           ELSE "wait"
  /\ UNCHANGED <<Preview, wire, block, chunk, ret, request_bytes_in, parsed, malformed, total>>

\* A round of read_preview_data: ci_buf_write takes everything, and the end of
\* the preview drops the rest of the buffer.
PreviewIo ==
  /\ Preview /\ pc = "io"
  /\ Gives(Len(pending))
  /\ IF ret = "eof" THEN pc' = "done" /\ block' = <<>>
     ELSE pc' = (IF ret = "more" THEN "wait" ELSE "parse") /\ block' = block
  /\ UNCHANGED <<Preview, wire, chunk, ret, eof_received, request_bytes_in, parsed, malformed,
                 total>>

Io == PreviewIo \/ \E n \in 0 .. Len(pending) : ServiceIo(n)

\* The service takes something when there is something.
Progress == PreviewIo \/ \E n \in 0 .. Len(pending) :
                           (n > 0 \/ pending = <<>>) /\ ServiceIo(n)

Done == pc \in {"done", "failed"} /\ UNCHANGED vars

Next == net_data_read \/ NoSpace \/ WriteOnly \/ parse_chunk_data \/ Io \/ Done

Spec == Init /\ [][Next]_vars

\* The worker does not stop, the client goes on sending, and the service, when
\* called often enough, takes something.
Fairness ==
  /\ WF_vars(parse_chunk_data \/ Io \/ WriteOnly)
  /\ SF_vars(net_data_read) /\ SF_vars(Progress)

FairSpec == Spec /\ Fairness

-----------------------------------------------------------------------------
(* Wherever the network cuts the bytes and however little the service takes,  *)
(* what parse_chunk_data hands over is the body: the pending bytes are the    *)
(* ones that follow the delivered ones, with no chunk header, CR LF or byte   *)
(* of the next request among them and none overwritten by a later read.       *)
InOrder == pending = [i \in 1 .. Len(pending) |-> delivered + i]

(* The end of the body is reported when all of it is delivered or pending.    *)
WholeAtEof ==
  ~malformed /\ (eof_received \/ (pc = "io" /\ ret = "eof"))
  => delivered + Len(pending) = total

(* No cut makes parse_chunk_data or net_data_read reject a well-formed body, *)
(* and none lets one with a malformed definition pass, one whose definitions  *)
(* do not fit into the buffer, or one whose zero chunk is followed by neither *)
(* CR nor LF. Well-formed is what the code takes for it: "Not an \r\n\r\n eof *)
(* chunk definition" (request_common.c:573) is tested with &&, so one of the  *)
(* two bytes is enough, and TLC refutes this property when Malformed has such *)
(* a wire.                                                                    *)
RejectsMalformed ==
  /\ pc = "failed" => malformed
  /\ pc = "done" => ~malformed

(* "There are unparsed data of size ... Move to connection buffer"            *)
(* (request.c:1666), for Pipelining: the bytes of the next request that were  *)
(* read with this one are still in the buffer when the body has ended. A      *)
(* preview is left out: read_preview_data empties the buffer.                 *)
RestKept == pc = "done" /\ ~Preview => block \o wire = Rest(eof_received)

(* Wherever the network cuts it, parse_chunk_data hands over the body and     *)
(* nothing else, in order, and reports the end when all of it was handed      *)
(* over; it rejects a body if and only if a definition in it is malformed or  *)
(* the zero chunk is not closed at all; and it leaves the bytes of the next   *)
(* request in the buffer.                                                     *)
ChunkExact == InOrder /\ WholeAtEof /\ RejectsMalformed /\ RestKept

(* "Current request input bytes" (include/request.h:170): request_bytes_in    *)
(* counts every byte of the body once. TLC refutes this one: a zero chunk     *)
(* that arrives in pieces is counted each time it is parsed.                  *)
BytesCounted == pc = "done" => request_bytes_in = parsed
=============================================================================
