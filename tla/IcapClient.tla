----------------------------- MODULE IcapClient ------------------------------
(***************************************************************************)
(* The ICAP client of the library (request_common.c) as the program        *)
(* c-icap-client drives it: an OPTIONS request, then one REQMOD or RESPMOD *)
(* request with a preview on the same connection.  What goes over the      *)
(* connection is a sequence of <<kind, number>>; a call moves as much of   *)
(* it as the connection takes.  The server is external: it may answer a    *)
(* preview, answer early, refuse or close.  parse_chunk_data is            *)
(* ChunkStream's.  The file may be a pipe, whose reads return less than    *)
(* was asked for.                                                          *)
(***************************************************************************)
EXTENDS Integers, Sequences, FiniteSets
LOCAL INSTANCE SequencesExt

CONSTANTS Runs,                  \* the command lines
          Options, Codes,        \* the server's: [preview, allow204]; what it may answer
          Answer,                \* the body it answers with
          Moves, BUFSIZE, MAX_CHUNK_SIZE, MaxTimeouts

VARIABLES run, options,          \* the command line; the server's options
          pc, io, ret,           \* main, the last ci_connection_wait, what the filter returned
          req,                   \* ci_request_t
          fd_in, fd_out,         \* what is left of the file; what was written
          srv, in, timeouts      \* the server; what it sent and the client has not read
vars == <<run, options, pc, io, ret, req, fd_in, fd_out, srv, in, timeouts>>

CI_ERROR == -1
Least(a, b) == IF a < b THEN a ELSE b
Drop(s, n) == SubSeq(s, n + 1, Len(s))
Field(h, k) == IF \E i \in DOMAIN h : h[i][1] = k THEN h[CHOOSE i \in DOMAIN h : h[i][1] = k][2] ELSE -1
EOH == <<<<"r", 0>>, <<"n", 0>>, <<"r", 0>>, <<"n", 0>>>>
LastChunk(ieof) == <<"last", IF ieof THEN 1 ELSE 0>>
Sending == {"send", "icap", "req", "res", "info", "preview", "eofinfo"}
Processing == {"nothing", "headers", "body", "eof"}

(* --------------------- the request to be sent -------------------------- *)
ci_client_request == [status |-> "init", type |-> "", preview |-> -1, preview_data |-> <<>>, allow204 |-> FALSE, allow206 |-> FALSE,
                      eof_sent |-> FALSE, request_header |-> <<>>, hdrs |-> <<>>, ents |-> <<>>, block |-> <<>>,
                      pstrblock_read |-> <<>>, response_header |-> <<>>, resp_head |-> <<>>, return_code |-> 0, cut |-> FALSE]
\* the preview and the return code stay
ci_client_request_reuse(r) == [ci_client_request EXCEPT !.preview = r.preview, !.return_code = r.return_code]
\* 204, 206 is followed by a second Allow: 206
client_create_request(r, t) ==
  [r EXCEPT !.type = t,
            !.request_header = <<<<t, 0>>>> \o (IF r.allow204 /\ r.allow206 THEN <<<<"allow", 410>>>> ELSE IF r.allow204 THEN <<<<"allow", 204>>>> ELSE <<>>)
                               \o (IF r.allow206 THEN <<<<"allow", 206>>>> ELSE <<>>)]
ci_request_t_pack(r) == r.request_header \o (IF r.preview >= 0 THEN <<<<"preview", r.preview>>>> ELSE <<>>)
                        \o <<<<"encaps", Len(r.ents)>>, <<"eoh", 0>>>>
build_respmod_headers == <<<<"HTTP/1.0 200 OK", 0>>, <<"date", 0>>, <<"modified", 0>>, <<"length", 0>>, <<"eoh", 0>>>>
\* without a file the date goes out in the place of its length, with one the length goes out twice
build_reqmod_headers(file) ==
  <<<<"method", 0>>>> \o (IF file THEN <<<<"modified", 0>>, <<"length", 0>>, <<"length", 0>>>> ELSE <<<<"date", 0>>>>) \o <<<<"agent", 0>>, <<"eoh", 0>>>>
client_build_headers(r, reqh, resh, body) ==
  [r EXCEPT !.ents = (IF reqh # <<>> THEN <<"req-hdr">> ELSE <<>>) \o (IF resh # <<>> THEN <<"res-hdr">> ELSE <<>>)
                     \o <<IF ~body THEN "null-body" ELSE IF r.type = "RESPMOD" THEN "res-body" ELSE "req-body">>,
            !.hdrs = [k \in {"req-hdr", "res-hdr"} |-> IF k = "req-hdr" THEN reqh ELSE resh]]
\* The reads of the preview begin at the offsets reads and all go to the start of the buffer: a byte of it is what the
\* last read that was long enough left there, or what the memory held.
Latest(S) == CHOOSE x \in S : \A y \in S : y <= x
ReadInto(src, n, reads) ==
  [i \in 1..n |-> LET S == {x \in reads : x + i <= n /\ \A y \in reads : y > x => x + i <= y}
                 IN IF S = {} THEN <<"d", 0>> ELSE src[Latest(S) + i]]
\* the file is read into the preview until that is full or the file ends
prepare_headers(r, reqh, resh, src, file, reads) ==
  LET r1 == client_create_request(r, r.type)
      n == Least(r.preview, Len(src))
      r2 == IF ~file THEN [r1 EXCEPT !.preview = -1]
            ELSE IF r.preview > 0
              THEN [r1 EXCEPT !.preview = n, !.preview_data = ReadInto(src, n, reads), !.eof_sent = n < r.preview,
                              !.cut = reads # {0}]
              ELSE r1
  IN [client_build_headers(r2, reqh, resh, file) EXCEPT !.status = "send"]

(* --------------- the headers and the preview, block by block ----------- *)
Block(r, s, b) == [r EXCEPT !.status = s, !.block = b]
NextBlock(r) ==
  CASE r.status = "icap" /\ "req-hdr" \in Range(r.ents) -> Block(r, "req", r.hdrs["req-hdr"])
    [] r.status \in {"icap", "req"} /\ "res-hdr" \in Range(r.ents) -> Block(r, "res", r.hdrs["res-hdr"])
    [] r.status \in {"icap", "req", "res"} /\ r.preview > 0 /\ r.preview_data # <<>> -> Block(r, "info", <<<<"len", r.preview>>>>)
    [] r.status \in {"icap", "req", "res"} /\ r.preview = 0 -> Block(r, "eofinfo", <<LastChunk(r.eof_sent)>>)
    [] r.status = "info" -> Block(r, "preview", r.preview_data)
    [] r.status = "preview" -> Block(r, "eofinfo", <<<<"crlf", 0>>, LastChunk(r.eof_sent)>>)
    [] OTHER -> [r EXCEPT !.status = "nothing"]
\* a call writes of one block only; the answer is the request, whether more is to be written, and what was
block_write_nonblock_whole(r, w) == [r |-> [r EXCEPT !.block = <<>>], out |-> SubSeq(r.block, 1, Least(w, Len(r.block)))]
block_write_nonblock(r, w) == [r |-> [r EXCEPT !.block = Drop(@, Least(w, Len(@)))], out |-> SubSeq(r.block, 1, Least(w, Len(r.block)))]
client_send_request_headers(r, w) ==
  LET p == IF r.status = "send" THEN Block(r, "icap", ci_request_t_pack(r)) ELSE r
      b == block_write_nonblock(p, w)
      n == IF b.r.block # <<>> THEN b.r ELSE NextBlock(b.r)
  IN [r |-> n, out |-> b.out, more |-> n.status # "nothing"]

(* --------------------------- the answer -------------------------------- *)
\* n bytes at most, as many as there are and fit
ReadSize(r, n) == Least(n, Least(BUFSIZE - Len(r.pstrblock_read), Len(in)))
ReadError(r) == Len(r.pstrblock_read) >= BUFSIZE \/ (in = <<>> /\ srv.closed)
net_data_read(r, k) == [r EXCEPT !.pstrblock_read = @ \o SubSeq(in, 1, k)]
Ends(s) == {i \in 1..Len(s) - 3 : SubSeq(s, i, i + 3) = EOH}
\* without its end, all but three bytes of it are taken
client_parse_icap_header(r) ==
  LET s == r.pstrblock_read
      E == Ends(s)
      n == IF E = {} THEN Len(s) - 3 ELSE CHOOSE i \in E : \A j \in E : i <= j
  IN IF Len(s) < 4 THEN [r |-> r, more |-> TRUE]
     ELSE IF E = {} THEN [r |-> [r EXCEPT !.response_header = @ \o SubSeq(s, 1, n), !.pstrblock_read = Drop(s, n)], more |-> TRUE]
     ELSE [r |-> [r EXCEPT !.response_header = @ \o SubSeq(s, 1, n + 1), !.pstrblock_read = Drop(s, n + 3)], more |-> FALSE]
\* enc: 0 none, 1 a body, 2 headers and a body, 3 headers and null-body; the headers are h CR LF CR LF
Encapsulated(r) == LET e == Field(r.response_header, "enc")
                   IN [r EXCEPT !.ents = IF e = 1 THEN <<"body">> ELSE IF e = 2 THEN <<"hdr", "body">> ELSE <<"hdr", "null-body">>,
                                !.status = IF e = 1 THEN "body" ELSE "headers", !.resp_head = <<>>]
EncapsHead == <<<<"h", 0>>>> \o EOH
client_parse_encaps_header(r) ==
  LET k == Least(Len(EncapsHead) - Len(r.resp_head), Len(r.pstrblock_read))
  IN [r EXCEPT !.resp_head = @ \o SubSeq(r.pstrblock_read, 1, k), !.pstrblock_read = Drop(@, k)]
\* the chunks that are there, up to the last one or to what is no chunk
parse_chunk_data(r) ==
  LET s == r.pstrblock_read
      stop == {i \in DOMAIN s : s[i][1] \notin {"len", "d", "crlf"}}
      e == IF stop = {} THEN Len(s) + 1 ELSE CHOOSE i \in stop : \A j \in stop : i <= j
      bad == e <= Len(s) /\ s[e][1] # "last"
  IN [r |-> [r EXCEPT !.pstrblock_read = Drop(s, Least(e, Len(s))), !.status = IF e <= Len(s) /\ ~bad THEN "eof" ELSE @],
      data |-> SelectSeq(SubSeq(s, 1, e - 1), LAMBDA t : t[1] = "d"), bad |-> bad, is204 |-> FALSE]
\* the request, what goes to the output, whether it failed, and whether 204 is returned: after the head, the encapsulated headers, the body
Parsed(r, bad) == [r |-> r, data |-> <<>>, bad |-> bad, is204 |-> FALSE]
ParseIcap(r, p) ==
  LET c == Field(p.r.response_header, "status")
      q == [p.r EXCEPT !.return_code = c]
  IN IF r.status # "nothing" THEN Parsed(r, FALSE)
     ELSE IF p.more THEN Parsed(p.r, FALSE)
     ELSE IF q.allow204 /\ c = 204 THEN [Parsed([q EXCEPT !.status = "eof"], FALSE) EXCEPT !.is204 = TRUE]
     ELSE IF Field(q.response_header, "enc") = 0 THEN Parsed(q, TRUE) ELSE Parsed(Encapsulated(q), FALSE)
ParseEncaps(x, h) ==
  IF x.bad \/ x.r.status # "headers" THEN x
  ELSE IF Len(h.resp_head) < Len(EncapsHead) THEN Parsed(h, FALSE)
  ELSE IF Drop(h.resp_head, Len(EncapsHead) - 4) # EOH THEN Parsed(x.r, TRUE)
  ELSE Parsed([h EXCEPT !.status = IF h.ents[2] = "null-body" THEN "eof" ELSE "body"], FALSE)
ParseBody(x) == IF x.bad \/ x.r.status # "body" THEN x ELSE parse_chunk_data(x.r)
Encaps(x) == ParseEncaps(x, client_parse_encaps_header(x.r))
client_parse_incoming_data(r) == ParseBody(Encaps(ParseIcap(r, client_parse_icap_header(r))))

(* ------------------- sending the body, reading the answer -------------- *)
Chunk(d) == <<<<"len", Len(d)>>>> \o d \o <<<<"crlf", 0>>>>
\* of the MAX_CHUNK_SIZE bytes that are asked for, a read returns m at most
client_prepere_body_chunk(r, src, m) ==
  LET n == Least(m, Len(src))
  IN IF src = <<>> THEN [r |-> [r EXCEPT !.eof_sent = TRUE, !.block = <<LastChunk(FALSE)>>], n |-> 0]
     ELSE [r |-> [r EXCEPT !.block = Chunk(SubSeq(src, 1, n))], n |-> n]
\* what a call with the request r does: c is the request with its next chunk, b with a part of it written, p what was
\* read; ret is the action it returns
NextChunk(r, act, file, m) ==
  IF "write" \in act /\ r.block = <<>> /\ ~r.eof_sent /\ file THEN client_prepere_body_chunk(r, fd_in, m) ELSE [r |-> r, n |-> 0]
Written(c, act, w) == [b |-> IF "write" \in act THEN block_write_nonblock(c.r, w) ELSE [r |-> c.r, out |-> <<>>], took |-> c.n]
Action(r) == (IF ~r.eof_sent \/ r.block # <<>> THEN {"write"} ELSE {}) \cup (IF r.status # "eof" THEN {"read"} ELSE {})
Got(x, p, k, out0) ==
  [r |-> p.r, ret |-> IF ReadError(x.b.r) \/ p.bad THEN {"error"} ELSE IF p.is204 THEN {} ELSE Action(p.r),
   out |-> out0 \o x.b.out, took |-> x.took, read |-> k, data |-> p.data]
SendAndGetData(x, act, n, out0) ==
  IF "read" \in act THEN LET k == ReadSize(x.b.r, n) IN Got(x, client_parse_incoming_data(net_data_read(x.b.r, k)), k, out0)
  ELSE [r |-> x.b.r, ret |-> Action(x.b.r), out |-> out0 \o x.b.out, took |-> x.took, read |-> 0, data |-> <<>>]
ci_client_send_and_get_data(r, act, w, n, m, file, out0) ==
  LET r1 == IF file THEN r ELSE [r EXCEPT !.eof_sent = TRUE]
  IN SendAndGetData(Written(NextChunk(r1, act, file, m), act, w), act, n, out0)
Plain(r, action, out) == [r |-> r, ret |-> action, out |-> out, took |-> 0, read |-> 0, data |-> <<>>]
ci_client_handle_previewed_response(r) ==
  LET p == client_parse_icap_header(r)
      c == Field(p.r.response_header, "status")
  IN [more |-> p.more, code |-> c,
      r |-> IF p.more \/ c = 204 THEN p.r
            ELSE IF (r.eof_sent /\ c = 200) \/ c = 206 THEN Encapsulated(p.r)
            ELSE [p.r EXCEPT !.status = IF c = 100 THEN "nothing" ELSE @, !.response_header = <<>>]]
\* an answer to the preview other than 100, 204 and 206 that leaves the status ends the call with nothing to do
AfterPreview(r, k, n, file) ==
  LET h == ci_client_handle_previewed_response(net_data_read(r, k))
      q == [h.r EXCEPT !.return_code = h.code]
      rest == [x \in 1..Len(in) - k |-> in[k + x]]
      k2 == Least(n, Least(BUFSIZE - Len(q.pstrblock_read), Len(rest)))
      p == client_parse_incoming_data([q EXCEPT !.pstrblock_read = @ \o SubSeq(rest, 1, k2)])
      Is(x, ret_, k_, d) == [r |-> x, ret |-> ret_, out |-> <<>>, took |-> 0, read |-> k_, data |-> d]
  IN CASE ReadError(r) -> Is(r, {"error"}, 0, <<>>)
       [] ~ReadError(r) /\ h.more -> Is(h.r, {"read"}, k, <<>>)
       [] ~ReadError(r) /\ ~h.more /\ h.code \in {204, 206} -> Is(q, {}, k, <<>>)
       [] ~ReadError(r) /\ ~h.more /\ h.code = 100 -> Is(q, {"write"}, k, <<>>)
       [] ~ReadError(r) /\ ~h.more /\ h.code \notin {100, 204, 206} /\ q.status \in Processing ->
            IF (rest = <<>> /\ srv.closed) \/ p.bad THEN Is(p.r, {"error"}, k + k2, p.data)
            ELSE Is(p.r, IF p.r.status # "eof" THEN {"read"} ELSE {}, k + k2, p.data)
       [] OTHER -> Is(q, {}, k, <<>>)

(* --------------------------- c-icap-client ----------------------------- *)
NoFile == <<<<"nofile", 0>>>>
HasFile == run.file # NoFile
Data == IF HasFile THEN run.file ELSE <<>>
Wire(x) == /\ srv' = [srv EXCEPT !.got = @ \o x.out]
           /\ in' = Drop(in, x.read)
Init ==
  /\ run \in Runs /\ options \in Options
  /\ pc = "options" /\ io = {"write"} /\ ret = 0 /\ fd_in = Data /\ fd_out = <<>>
  /\ req = [client_create_request(ci_client_request, "OPTIONS") EXCEPT !.status = "send"]
  /\ srv = [phase |-> "options", got |-> <<>>, code |-> 0, at |-> "", closed |-> FALSE] /\ in = <<>> /\ timeouts = 0
get_request_options(r) == [r EXCEPT !.preview = Field(r.response_header, "preview"), !.allow204 = Field(r.response_header, "allow") = 204]
\* one call of the nonblocking function, after the wait said so
ci_client_get_server_options_write ==
  /\ pc = "options" /\ "write" \in io /\ req.status \in Sending
  /\ \E w \in Moves : LET x == client_send_request_headers(req, w)
                      IN /\ req' = x.r /\ io' = IF x.more THEN {"write"} ELSE {"read"}
                         /\ srv' = [srv EXCEPT !.got = @ \o x.out]
  /\ UNCHANGED <<run, options, pc, ret, fd_in, fd_out, in, timeouts>>
ci_client_get_server_options_read ==
  /\ pc = "options" /\ "read" \in io /\ req.status = "nothing" /\ (in # <<>> \/ srv.closed)
  /\ \E n \in Moves :
       LET k == ReadSize(req, n)
           x == client_parse_icap_header(net_data_read(req, k))
       IN /\ req' = IF ReadError(req) THEN req ELSE IF x.more THEN x.r ELSE get_request_options(x.r)
          /\ pc' = IF ReadError(req) \/ ~x.more THEN "prepare" ELSE pc
          /\ in' = Drop(in, k)
  /\ UNCHANGED <<run, options, io, ret, fd_in, fd_out, srv, timeouts>>
\* where the reads of n bytes begin, and how much a read of a chunk returns
Reads(n) == IF run.pipe THEN {{0} \cup C : C \in SUBSET (1..n - 1)} ELSE {{0}}
Portions == IF run.pipe THEN 1..MAX_CHUNK_SIZE ELSE {MAX_CHUNK_SIZE}
\* main does not look at what the options call returned; without a file or a url it ends here
Prepare ==
  /\ pc = "prepare"
  /\ LET p == IF ~run.send_preview THEN -1 ELSE IF run.preview_size >= 0 /\ run.preview_size < req.preview THEN run.preview_size ELSE req.preview
         r == [ci_client_request_reuse([req EXCEPT !.preview = p]) EXCEPT !.type = IF run.req THEN "REQMOD" ELSE "RESPMOD",
                 !.allow204 = run.allow204 /\ req.allow204, !.allow206 = run.allow206]
         reqh == IF run.req THEN build_reqmod_headers(HasFile) ELSE IF run.send_headers /\ run.resp THEN build_reqmod_headers(FALSE) ELSE <<>>
         resh == IF ~run.req /\ run.send_headers THEN build_respmod_headers ELSE <<>>
     IN \E reads \in Reads(Least(p, Len(fd_in))) :
        LET x == prepare_headers(r, reqh, resh, fd_in, HasFile, reads)
        IN IF ~HasFile /\ ~run.req /\ ~run.resp THEN pc' = "done" /\ UNCHANGED <<req, fd_in>>
           ELSE pc' = "filter" /\ req' = x /\ fd_in' = Drop(fd_in, Len(x.preview_data))
  /\ io' = {"write"}
  /\ UNCHANGED <<run, options, ret, fd_out, srv, in, timeouts>>
Returns(x) ==
  /\ req' = x.r /\ fd_in' = Drop(fd_in, x.took) /\ fd_out' = fd_out \o x.data /\ Wire(x)
  /\ IF x.ret = {} THEN pc' = "after" /\ ret' = x.r.return_code /\ io' = {}
     ELSE IF x.ret = {"error"} THEN pc' = "after" /\ ret' = CI_ERROR /\ io' = {}
     ELSE io' = x.ret /\ UNCHANGED <<pc, ret>>
  /\ UNCHANGED <<run, options, timeouts>>
Ready == {"write"} \cup (IF in # <<>> \/ srv.closed THEN {"read"} ELSE {})
\* the headers; without a preview the call goes on with the body, for what the wait before it allowed
SendHeaders ==
  /\ pc = "filter" /\ req.status \in Sending
  /\ \E w \in Moves, m \in Portions :
       LET x == client_send_request_headers(req, w)
           r == [x.r EXCEPT !.ents = <<>>]
       IN Returns(IF x.more THEN Plain(x.r, {"write"}, x.out)
                  ELSE IF x.r.preview >= 0 THEN Plain([r EXCEPT !.status = "read-preview"], {"read"}, x.out)
                  ELSE ci_client_send_and_get_data(r, {"write"}, w, 0, m, HasFile, x.out))
ReadPreviewResponse ==
  /\ pc = "filter" /\ req.status = "read-preview" /\ "read" \in Ready
  /\ \E n \in Moves : Returns(AfterPreview(req, ReadSize(req, n), n, HasFile))
SendAndGet ==
  /\ pc = "filter" /\ req.status \in Processing
  /\ \E act \in SUBSET (io \cap Ready), w, n \in Moves, m \in Portions :
       act # {} /\ Returns(ci_client_send_and_get_data(req, act, w, n, m, HasFile, <<>>))
\* a write to a connection that the server closed: what was read before it is not looked at
WriteFails ==
  /\ pc = "filter" /\ req.status \in Sending \cup Processing /\ "write" \in io /\ srv.closed
  /\ pc' = "after" /\ ret' = CI_ERROR
  /\ UNCHANGED <<run, options, io, req, fd_in, fd_out, srv, in, timeouts>>
\* ci_connection_wait gives up
Timeout ==
  /\ pc \in {"options", "filter"} /\ timeouts < MaxTimeouts /\ timeouts' = timeouts + 1
  /\ IF pc = "options" THEN pc' = "prepare" /\ UNCHANGED ret ELSE pc' = "after" /\ ret' = CI_ERROR
  /\ UNCHANGED <<run, options, io, req, fd_in, fd_out, srv, in>>
\* i206_use_original_body was not read: lseek fails, and the copy goes on where the file stands; a 204 removes the output
After ==
  /\ pc = "after" /\ pc' = "done"
  /\ fd_out' = IF ret = 206 THEN fd_out \o fd_in ELSE IF ret = 204 THEN <<>> ELSE fd_out
  /\ fd_in' = IF ret = 206 THEN <<>> ELSE fd_in
  /\ UNCHANGED <<run, options, io, ret, req, srv, in, timeouts>>

(* ---------------------------- the server ------------------------------- *)
HeadEnd(g) == LET E == {i \in DOMAIN g : g[i][1] = "eoh"} IN IF E = {} THEN 0 ELSE CHOOSE i \in E : \A j \in E : i <= j
OptionsHead == ci_request_t_pack(client_create_request(ci_client_request, "OPTIONS"))
ServerOptions ==
  /\ srv.phase = "options" /\ HeadEnd(srv.got) # 0
  /\ LET h == SubSeq(srv.got, 1, HeadEnd(srv.got))
         good == h = OptionsHead
     IN /\ srv' = [srv EXCEPT !.phase = IF good THEN "request" ELSE "answered", !.got = IF good THEN Drop(@, Len(h)) ELSE @,
                              !.code = IF good THEN 0 ELSE 400, !.closed = ~good]
        /\ in' = in \o (IF good THEN <<<<"status", 200>>, <<"preview", options.preview>>, <<"allow", options.allow>>, <<"enc", 1>>>>
                        ELSE <<<<"status", 400>>, <<"enc", 0>>>>) \o EOH
  /\ UNCHANGED <<run, options, pc, io, ret, req, fd_in, fd_out, timeouts>>
Lasts(g) == {i \in DOMAIN g : g[i][1] = "last"}
Previews == Field(srv.got, "preview") >= 0
AnswerOf(c) ==
  <<<<"status", c>>, <<"enc", IF c \in {200, 206} THEN 2 ELSE 0>>>> \o EOH
  \o (IF c \in {200, 206} THEN EncapsHead \o Chunk(Answer) \o <<LastChunk(FALSE)>> ELSE <<>>)
ServerAnswers ==
  /\ srv.phase \in {"request", "rest"} /\ HeadEnd(srv.got) # 0
  /\ (srv.phase = "request" /\ Previews) => Lasts(srv.got) # {}
  /\ \E c \in Codes :
       LET preview == srv.phase = "request" /\ Previews
           ieof == \E i \in Lasts(srv.got) : srv.got[i][2] = 1
       IN /\ c = 100 => preview /\ ~ieof
          /\ c = 204 => preview \/ Field(srv.got, "allow") \in {204, 410}
          /\ c = 206 => Field(srv.got, "allow") \in {206, 410}
          /\ in' = in \o AnswerOf(c)
          /\ srv' = IF c = 100 THEN [srv EXCEPT !.phase = "rest"]
                    ELSE [srv EXCEPT !.phase = "answered", !.code = c, !.at = IF preview /\ ~ieof THEN "preview" ELSE "body"]
  /\ UNCHANGED <<run, options, pc, io, ret, req, fd_in, fd_out, timeouts>>
ServerCloses == /\ srv.phase = "answered" /\ ~srv.closed /\ srv' = [srv EXCEPT !.closed = TRUE]
                /\ UNCHANGED <<run, options, pc, io, ret, req, fd_in, fd_out, in, timeouts>>

Next == \/ ci_client_get_server_options_write \/ ci_client_get_server_options_read \/ Prepare
        \/ SendHeaders \/ ReadPreviewResponse \/ SendAndGet \/ WriteFails \/ Timeout \/ After
        \/ ServerOptions \/ ServerAnswers \/ ServerCloses
Spec == Init /\ [][Next]_vars

(* ---------------------------- properties ------------------------------- *)
Datas(g) == SelectSeq(g, LAMBDA t : t[1] = "d")
SentOf(ds) ==
  Len(ds) <= Len(Data) /\ \A i \in DOMAIN ds : ds[i] = Data[i] \/ (req.cut /\ i <= Field(srv.got, "preview"))
\* Every chunk that went out has the bytes its length states and its CR LF, and every byte is in a chunk.
ChunksTrue(g) ==
  /\ \A i \in DOMAIN g : g[i][1] = "len" =>
       /\ \A j \in 1..g[i][2] : i + j <= Len(g) => g[i + j][1] = "d"
       /\ i + g[i][2] + 1 <= Len(g) => g[i + g[i][2] + 1][1] = "crlf"
  /\ \A i \in DOMAIN g : g[i][1] = "d" => \E j \in 1..i - 1 : g[j][1] = "len" /\ i <= j + g[j][2]

\* What the server was sent is the request: the file's bytes in their order, each once, in whole chunks, all of them
\* when the body was ended, and nothing after that, also when the answer came before the body was out
\* (prepare_headers, client_send_request_headers, client_prepere_body_chunk with reads and writes that are cut).  The
\* exception is a preview that took more than one read: its length is right, its bytes need not be.
SentExact ==
  srv.phase \in {"request", "rest", "answered"} /\ srv.code # 400 =>
    /\ SentOf(Datas(srv.got)) /\ ChunksTrue(srv.got)
    /\ \A i \in Lasts(srv.got) :
         srv.got[i][2] = 1 \/ ~Previews \/ (\E j \in Lasts(srv.got) : j < i) => Len(Datas(srv.got)) = Len(Data) /\ i = Len(srv.got)

\* What the filter returned is the server's code for this request or an error, what was written is of its answer, and a
\* 200 that did not answer a preview with more to come was written out in full (client_parse_incoming_data with
\* answers that arrive in parts, early, after a timed out OPTIONS request or before the connection is closed).
AnsweredTrue ==
  /\ pc \in {"after", "done"} /\ ret # 0 => ret \in {CI_ERROR, srv.code}
  /\ ret = 206 \/ IsPrefix(fd_out, Answer)
  /\ ret = 204 /\ pc = "done" => fd_out = <<>>
  /\ ret = 200 /\ srv.at # "preview" => fd_out = Answer
ClientExact == SentExact /\ AnsweredTrue

\* (refuted) The preview is the first bytes of the file: the reads after a short one overwrite it from its start.
PreviewExact == IsPrefix(req.preview_data, Data)
\* (refuted) An answer that was read in full is not an error: the rest of the body is still written, and may fail.
EarlyIsKept == ret = CI_ERROR /\ timeouts = 0 => req.status # "eof"
\* (refuted) A 200 comes with the whole of the server's body: an answer to the preview of a longer body is taken for the end.
OkHasBody == ret = 200 => fd_out = Answer
\* (refuted) With 206 the output is the server's body before the original's.
PartialHasBody == ret = 206 => IsPrefix(Answer, fd_out)
\* (refuted) An answer that came in full before the connection was closed is not an error.
ReadIsKept == ret = CI_ERROR => ~(srv.code = 200 /\ in = <<>> /\ timeouts = 0)
=============================================================================
