----------------------------- MODULE IcapRequest -----------------------------
(* A request in a worker thread: do_request of request.c from the parsed      *)
(* headers to the last byte of the answer, with the preview handlers,         *)
(* get_send_body, which receives the body and sends the answer at the same    *)
(* time, and send_remaining_response. Body data is counted in items: the      *)
(* client's chunks, of which the last is the zero chunk (ChunkStream has the  *)
(* bytes). A block of the answer is sent in up to two writes.                 *)
EXTENDS Integers, Sequences, FiniteSets

CONSTANTS
  Requests,          \* the requests to handle, see Request
  PreviewAnswers,    \* what the service's preview handler may return
  EndAnswers,        \* what its end-of-data handler may return
  EchoCap,           \* items that echo_body can hold
  ChunkMax,          \* items in a chunk of the answer
  FAKE_ALLOW204, ALLOW204_AS_200OK_ZERO_ENCAPS

\* A request: preview is the number of items in its preview, -1 without one;
\* ieof says that the preview is the whole body; rest counts the data items
\* behind it; heads is the number of HTTP headers in the answer. Does the
\* service's preview handler call ci_req_unlock_data, how many items can the
\* service hold, and may the connection fail or time out?
Request ==
  [type : {"OPTIONS", "MOD"}, preview : Int, ieof : BOOLEAN, rest : Nat,
   hasbody : BOOLEAN, allow204 : BOOLEAN, allow206 : BOOLEAN, heads : 0 .. 1,
   unlock : BOOLEAN, cap : Nat, faults : BOOLEAN]

ASSUME ConstantsAssumption ==
  /\ Requests \subseteq Request
  /\ PreviewAnswers \subseteq {"continue", "204", "206", "error"}
  /\ EndAnswers \subseteq {"done", "204", "206", "error"}
  /\ {FAKE_ALLOW204, ALLOW204_AS_200OK_ZERO_ENCAPS} \subseteq BOOLEAN
  /\ EchoCap \in Nat /\ ChunkMax \in Nat \ {0}
  /\ \A r \in Requests : r.preview <= r.cap

-----------------------------------------------------------------------------
(* What a property asks of the services and the connections of Requests; a    *)
(* request that is not like this refutes it.                                  *)

\* The data items of a request's body.
BodySize(r) == IF r.preview < 0 THEN r.rest
               ELSE r.preview + (IF r.ieof THEN 0 ELSE r.rest)

\* A request without preview that may be answered with a 204 while its body comes.
Drops(r) == r.preview < 0 /\ r.hasbody /\ r.allow204

\* A service that answers such a request with a 204 has not unlocked its data.
LocksFor204 == \A r \in Requests : Drops(r) => ~r.unlock

\* A service can hold all of a body, or passes it on: then it unlocks its data,
\* has room for an item, and the connection does not fail.
Tight(r) == r.unlock /\ r.cap > 0 /\ ~r.faults
Roomy(r) == r.cap >= BodySize(r)

TakesAll ==
  \A r \in Requests : /\ Roomy(r) \/ Tight(r)
                      /\ Drops(r) => ~r.allow206
                      /\ r.preview < 0 /\ r.hasbody /\ ~r.allow204 => r.rest <= EchoCap

\* The connection does not fail under an OPTIONS request or a body that is dropped.
Undisturbed ==
  \A r \in Requests : /\ r.type = "OPTIONS" => ~r.hasbody /\ ~r.faults
                      /\ Drops(r) => ~r.faults

-----------------------------------------------------------------------------
VARIABLES
  req,            \* the request
  pc,             \* where do_request is
  coming,         \* items that the client still sends (the zero chunk included)
  arrived,        \* complete items in pstrblock_read
  partial,        \* is there part of another one behind them?
  pending,        \* write_to_module_pending
  eof_received,
  send,           \* the answer: status, and the block in pstrblock_responce
  data_locked, return_code, keepalive,
  preview_status, \* "ok" or "eof"
  loop,           \* the locals of get_send_body
  held,           \* items that the service, or echo_body, holds
  echo,           \* is echo_body set?
  said204, ended, \* the preview handler returned 204; end-of-data was called
  erred,          \* did the service break off, or let stale data be sent?
  result          \* what do_request returns

input == <<coming, arrived, partial, pending, eof_received>>
service == <<held, echo, said204, ended, erred>>
vars == <<req, pc, input, send, data_locked, return_code, keepalive,
          preview_status, loop, service, result>>

\* The send states of include/request.h.
SEND_NOTHING == 0
SEND_RESPHEAD == 1
SEND_HEAD1 == 2
SEND_HEAD3 == 4
SEND_BODY == 5
SEND_EOF == 6

TypeOK ==
  /\ req \in Requests
  /\ pc \in {"parsed", "preview", "handler", "drop", "decide", "wait", "io", "end", "rest", "done"}
  /\ {coming, arrived, pending, held} \subseteq Nat
  /\ {partial, eof_received, data_locked, keepalive, echo, said204, ended, erred}
       \subseteq BOOLEAN
  /\ send.status \in SEND_NOTHING .. SEND_EOF /\ send.remain \in 0 .. 2
  /\ return_code \in {"none", "100", "200", "204", "206", "error"}
  /\ preview_status \in {"ok", "eof"} /\ result \in {"none", "ok", "error"}

Smaller(a, b) == IF a < b THEN a ELSE b

NoLoop ==
  [parse_only |-> FALSE, action |-> {}, formated |-> FALSE, fill |-> 0,
   full |-> FALSE, buffer |-> FALSE, service_eof |-> FALSE, ret |-> "none"]

\* The request's headers are parsed; some of a body without preview may
\* have come with them.
Init ==
  /\ req \in Requests
  /\ pc = "parsed"
  /\ \E all \in {IF req.hasbody /\ req.preview < 0 THEN req.rest + 1 ELSE 0} :
       arrived \in 0 .. all /\ coming = all - arrived
  /\ partial = FALSE /\ pending = 0 /\ eof_received = FALSE
  /\ send = [status |-> SEND_NOTHING, remain |-> 0, block |-> "none",
             items |-> 0, sent |-> 0, out |-> <<>>]
  /\ data_locked = TRUE /\ return_code = "none" /\ keepalive = TRUE
  /\ preview_status = "ok" /\ loop = NoLoop
  /\ held = 0 /\ echo = FALSE /\ said204 = FALSE /\ ended = FALSE /\ erred = FALSE
  /\ result = "none"

-----------------------------------------------------------------------------
Outcomes == IF req.faults THEN BOOLEAN ELSE {TRUE}

Put(block) == [send EXCEPT !.out = Append(@, block)]

\* ec_responce: a complete answer without a body. ok says that it was written.
Written(ok) ==
  send' = [(IF ok THEN Put("answer") ELSE send) EXCEPT !.status = SEND_EOF]

Code204 == IF ALLOW204_AS_200OK_ZERO_ENCAPS THEN "200" ELSE "204"

Finish(res) == pc' = "done" /\ result' = res

\* The ways out with an answer that reports an error.
Fails ==
  /\ keepalive' = FALSE
  /\ return_code' = "error" /\ \E ok \in Outcomes : Written(ok)
  /\ Finish("error")

\* The headers, the service, the client's access or the encapsulated headers
\* are not in order.
Refused ==
  /\ pc = "parsed" /\ req.faults
  /\ \/ Fails
     \/ keepalive' = FALSE /\ Finish("error") /\ UNCHANGED <<send, return_code>>
  /\ UNCHANGED <<req, input, data_locked, preview_status, loop, service>>

\* options_responce; do_request does not learn that it could not be sent.
Options ==
  /\ pc = "parsed" /\ req.type = "OPTIONS"
  /\ return_code' = "200"
  /\ \E ok \in Outcomes : send' = IF ok THEN Put("answer") ELSE send
  /\ Finish("ok")
  /\ UNCHANGED <<req, input, data_locked, keepalive, preview_status, loop, service>>

Start ==
  /\ pc = "parsed" /\ req.type = "MOD"
  /\ pc' = IF req.preview >= 0 THEN "preview" ELSE "handler"
  /\ UNCHANGED <<req, input, send, data_locked, return_code, keepalive,
                 preview_status, loop, service, result>>

-----------------------------------------------------------------------------
\* read_preview_data and the handler's answer in do_request_preview.
ReadPreview ==
  /\ pc = "preview"
  /\ \/ /\ eof_received' = (req.hasbody /\ req.ieof)
        /\ preview_status' = IF ~req.hasbody \/ req.ieof THEN "eof" ELSE "ok"
        /\ pc' = "handler"
        /\ UNCHANGED <<send, return_code, keepalive, result>>
     \/ req.faults /\ req.hasbody /\ Fails /\ UNCHANGED <<eof_received, preview_status>>
  /\ UNCHANGED <<req, coming, arrived, partial, pending, data_locked, loop, service>>

Decides(code) ==
  /\ return_code' = code /\ pc' = "decide"
  /\ UNCHANGED <<send, keepalive, result>>

\* ec_responce(req, EC_204) from a preview handler; `then` follows when it is
\* written, with that return code.
Says204(code, then) ==
  /\ said204' = TRUE
  /\ \E ok \in Outcomes :
       /\ Written(ok)
       /\ return_code' = IF ok THEN code ELSE Code204
       /\ IF ok THEN pc' = then /\ UNCHANGED <<keepalive, result>>
          ELSE keepalive' = FALSE /\ Finish("error")

\* The client sends the rest of the body when it sees "100 Continue".
Continues ==
  \/ /\ preview_status = "eof" /\ Decides(return_code) /\ UNCHANGED coming
  \/ /\ preview_status = "ok"
     /\ return_code' = "100" /\ pc' = "decide"
     /\ \E ok \in Outcomes :
          /\ send' = IF ok THEN Put("100") ELSE send
          /\ coming' = IF ok THEN req.rest + 1 ELSE 0
     /\ UNCHANGED <<keepalive, result>>

PreviewHandler ==
  /\ pc = "handler" /\ req.preview >= 0
  /\ \E a \in PreviewAnswers :
       /\ data_locked' = ~req.unlock
       /\ \/ a = "204" /\ Says204(Code204, "decide") /\ preview_status' = "ok"
             /\ UNCHANGED <<coming, held>>
          \/ a = "206" /\ req.allow206 /\ Decides("206") /\ preview_status' = "ok"
             /\ held' = req.preview /\ UNCHANGED <<coming, said204>>
          \/ a = "continue" /\ Continues
             /\ held' = req.preview /\ UNCHANGED <<preview_status, said204>>
          \/ (a = "error" \/ (a = "206" /\ ~req.allow206)) /\ Fails
             /\ UNCHANGED <<coming, preview_status, held, said204>>
  /\ UNCHANGED <<req, arrived, partial, pending, eof_received, loop, echo, ended, erred>>

\* get_send_body begins.
StartLoop(parse_only) ==
  loop' = [NoLoop EXCEPT !.parse_only = parse_only,
                         !.action = IF arrived = 0 THEN {"r"} ELSE {}]

\* do_fake_preview: the handler is called for a request without preview. Body
\* data that comes after a 204 is read and dropped.
FakePreview ==
  /\ pc = "handler" /\ req.preview < 0
  /\ \E a \in PreviewAnswers :
       /\ data_locked' = ~req.unlock
       /\ \/ /\ a = "204" /\ req.allow204 /\ req.hasbody
             /\ Says204(Code204, "drop") /\ UNCHANGED echo
          \/ /\ a = "204" /\ req.allow204 /\ ~req.hasbody
             /\ Says204("204", "decide") /\ UNCHANGED echo
          \/ /\ a = "204" /\ ~req.allow204 /\ req.hasbody /\ FAKE_ALLOW204
             /\ echo' = TRUE /\ Decides("100") /\ UNCHANGED said204
          \/ /\ a = "204" /\ ~req.allow204 /\ ~req.hasbody
             /\ Decides("200") /\ UNCHANGED <<said204, echo>>
          \/ /\ a = "206" /\ req.allow204 /\ req.allow206
             /\ Decides("206") /\ UNCHANGED <<said204, echo>>
          \/ /\ a = "continue"
             /\ Decides(IF req.hasbody THEN "100" ELSE "200")
             /\ UNCHANGED <<said204, echo>>
          \/ /\ \/ a = "error"
                \/ a = "204" /\ ~req.allow204 /\ req.hasbody /\ ~FAKE_ALLOW204
                \/ a = "206" /\ ~(req.allow204 /\ req.allow206)
             /\ Fails /\ UNCHANGED <<said204, echo>>
  /\ UNCHANGED <<req, input, preview_status, loop, held, ended, erred>>

Drop ==
  /\ pc = "drop" /\ pc' = "wait"
  /\ StartLoop(TRUE) /\ send' = [send EXCEPT !.status = SEND_NOTHING]
  /\ UNCHANGED <<req, input, data_locked, return_code, keepalive, preview_status,
                 service, result>>

\* What do_request makes of the preview.
Decide ==
  /\ pc = "decide"
  /\ LET code == IF preview_status = "eof" THEN "200" ELSE return_code IN
       \/ /\ code = "204" /\ Finish("ok") /\ return_code' = code
          /\ UNCHANGED <<send, loop>>
       \/ /\ code = "100" /\ req.hasbody
          /\ return_code' = "200" /\ pc' = "wait"
          /\ StartLoop(FALSE) /\ send' = [send EXCEPT !.status = SEND_NOTHING]
          /\ UNCHANGED result
       \/ /\ code \notin {"204", "100"} /\ return_code' = code /\ pc' = "end"
          /\ UNCHANGED <<send, loop, result>>
  /\ UNCHANGED <<req, input, data_locked, keepalive, preview_status, service>>

-----------------------------------------------------------------------------
update_send_status_twice(s) ==
  LET block(status, b) == [s EXCEPT !.status = status, !.remain = 2, !.block = b] IN
    IF s.status = SEND_NOTHING THEN block(SEND_RESPHEAD, "head")
    ELSE IF s.status \in {SEND_BODY, SEND_EOF} THEN s
    ELSE IF s.status + 1 - SEND_HEAD1 <= req.heads THEN block(s.status + 1, "header")
    ELSE IF req.hasbody THEN [s EXCEPT !.status = SEND_BODY]
    ELSE [s EXCEPT !.status = SEND_EOF]

\* update_send_status: the next block of the answer.
update_send_status(s) ==
  LET block(status, b) == [s EXCEPT !.status = status, !.remain = 2, !.block = b] IN
    IF s.status = SEND_NOTHING THEN block(SEND_RESPHEAD, "head")
    ELSE IF s.status \in {SEND_BODY, SEND_EOF} THEN s
    ELSE IF s.status + 1 - SEND_HEAD1 < req.heads THEN block(s.status + 1, "header")
    ELSE IF req.hasbody THEN [s EXCEPT !.status = SEND_BODY]
    ELSE [s EXCEPT !.status = SEND_EOF]

\* format_body_chunk: n items as a chunk, or the end of the body.
format_body_chunk(s, n) ==
  IF n > 0 THEN [s EXCEPT !.remain = 2, !.block = "chunk", !.items = n]
  ELSE [s EXCEPT !.remain = 2, !.block = "end", !.items = 0, !.status = SEND_EOF]

\* send_current_block_data: some or all of the block.
SendSome(s) ==
  LET all == [s EXCEPT !.remain = 0, !.out = Append(@, s.block),
                       !.sent = @ + s.items, !.items = 0] IN
    IF s.remain = 0 THEN {s} ELSE IF s.remain = 1 THEN {all}
    ELSE {all, [s EXCEPT !.remain = 1]}

\* get_send_body returns.
Return(ok) ==
  \/ /\ ok /\ loop.parse_only /\ pc' = "decide" /\ return_code' = "204"
     /\ UNCHANGED <<keepalive, result>>
  \/ /\ ok /\ ~loop.parse_only /\ pc' = "end"
     /\ UNCHANGED <<return_code, keepalive, result>>
  \/ /\ ~ok /\ Finish("error") /\ keepalive' = (keepalive /\ loop.parse_only)
     /\ UNCHANGED return_code

\* The wait times out, or the child is going down.
WaitFails ==
  /\ pc = "wait" /\ req.faults /\ loop.action # {}
  /\ Return(eof_received)
  /\ UNCHANGED <<req, input, send, data_locked, preview_status, loop, service>>

\* net_data_read, send_current_block_data or mod_service_io returns CI_ERROR.
RoundFails ==
  /\ pc = "io" /\ req.faults
  /\ Return(FALSE)
  /\ UNCHANGED <<req, input, send, data_locked, preview_status, loop, service>>

Receive(r) ==
  IF r THEN \E n \in 0 .. coming :
              /\ coming' = coming - n /\ arrived' = arrived + n
              /\ partial' \in {p \in BOOLEAN : (p => coming' > 0) /\ (n > 0 \/ (p /\ ~partial))}
  ELSE UNCHANGED <<coming, arrived, partial>>

Refilled_locked(s) == IF s.remain = 0 THEN update_send_status(s) ELSE s

\* Is there a block to begin?
Refilled(s) == IF ~data_locked /\ s.remain = 0 THEN update_send_status(s) ELSE s

\* The upper half of a round: wait, then read and write what is ready.
Wait ==
  /\ pc = "wait"
  /\ \E ready \in SUBSET loop.action :
       /\ ready = {} => loop.action = {}
       /\ Receive("r" \in ready)
       /\ \E s \in IF "w" \in ready THEN SendSome(send) ELSE {send} :
            /\ send' = Refilled(s)
            /\ loop' = [loop EXCEPT !.formated = Refilled(s).remain > 0, !.ret = "none",
                                    !.fill = 0, !.action = {}]
  /\ pc' = "io"
  /\ UNCHANGED <<req, pending, eof_received, data_locked, return_code, keepalive,
                 preview_status, service, result>>

\* parse_chunk_data in items: what it takes, leaves pending and returns. Data
\* can come together with the end.
Parsed ==
  LET none == [take |-> 0, pend |-> pending, ret |-> loop.ret, eof |-> eof_received]
      left == arrived + coming IN
    IF pending > 0 \/ (arrived = 0 /\ ~partial) THEN none
    ELSE IF arrived = 0 THEN [none EXCEPT !.ret = "more"]
    ELSE IF left = 1 THEN [take |-> 1, pend |-> 0, ret |-> "eof", eof |-> TRUE]
    ELSE IF arrived = 1 THEN [none EXCEPT !.take = 1, !.pend = 1, !.ret = "more"]
    ELSE IF left = 2 THEN [take |-> 2, pend |-> 1, ret |-> "eof", eof |-> TRUE]
    ELSE [none EXCEPT !.take = 1, !.pend = 1, !.ret = "ok"]

EOF == -1
Capacity == IF echo THEN EchoCap ELSE req.cap

\* The I/O function of the service, mod_echo_io or mod_null_io: how many of w
\* items it takes and how many it gives when asked for r. A service ends when
\* it is told the end and has nothing left; mod_echo_io also when it is asked
\* for nothing.
service_io(w, r, buffer, eof) ==
  IF loop.parse_only THEN [taken |-> w, given |-> IF eof THEN EOF ELSE 0]
  ELSE LET taken == Smaller(w, Capacity - held)
           given == Smaller(r, held + taken) IN
         [taken |-> taken,
          given |-> IF given = 0 /\ eof /\ (IF echo THEN buffer ELSE r > 0)
                    THEN EOF ELSE given]

\* What the lower half leaves to be sent.
Formatted(fill, service_eof) ==
  IF send.status # SEND_BODY \/ loop.formated THEN send
  ELSE IF fill > 0 \/ service_eof THEN format_body_chunk(send, fill)
  ELSE send

Repeats_until_eof(eof, rest, action) == ~eof /\ action # {}

\* Is there another round?
Repeats(eof, rest, action) == (~eof \/ rest > 0) /\ action # {}

\* The lower half of a round, once through its inner loop.
Io ==
  /\ pc = "io"
  /\ LET p == Parsed
         body == send.status = SEND_BODY /\ ~loop.service_eof
         room == IF loop.formated THEN 0 ELSE ChunkMax - loop.fill
         full == IF body /\ room = 0 THEN TRUE
                 ELSE IF body /\ ~loop.formated /\ loop.fill = 0 THEN FALSE ELSE loop.full
         buffer == loop.buffer \/ (body /\ ~loop.formated /\ loop.fill = 0)
         io == service_io(p.pend, IF body THEN room ELSE 0, buffer, p.eof)
         given == IF io.given = EOF THEN 0 ELSE io.given
         service_eof == loop.service_eof \/ io.given = EOF
         rest == p.pend - io.taken
         again == /\ io.given # 0 \/ io.taken > 0
                  /\ arrived' > 0 \/ partial
                  /\ p.ret \notin {"more", "eof"} /\ ~full
         s == IF again THEN send ELSE Formatted(loop.fill + given, service_eof)
         action == (IF rest = 0 THEN {"r"} ELSE {}) \cup (IF s.remain > 0 THEN {"w"} ELSE {})
     IN  /\ arrived' = arrived - p.take
         /\ pending' = rest /\ eof_received' = p.eof
         /\ held' = IF loop.parse_only THEN held ELSE held + io.taken - given
         /\ send' = s
         /\ loop' = [loop EXCEPT !.ret = p.ret, !.fill = @ + given, !.full = full,
                                 !.buffer = buffer, !.service_eof = service_eof,
                                 !.action = IF again THEN {} ELSE action]
         /\ IF again THEN UNCHANGED <<pc, return_code, keepalive, result>>
            ELSE IF Repeats(p.eof, rest, action)
                 THEN pc' = "wait" /\ UNCHANGED <<return_code, keepalive, result>>
            ELSE Return(p.eof)
  /\ UNCHANGED <<req, coming, partial, data_locked, preview_status, echo, said204, ended,
                 erred>>

-----------------------------------------------------------------------------
\* do_end_of_data, and unlock_data behind it.
Sent == send.status # SEND_NOTHING

GoesOn == pc' = "rest" /\ data_locked' = FALSE

EndOfData ==
  /\ pc = "end"
  /\ ended' = TRUE
  /\ \E a \in EndAnswers :
       \/ /\ a = "204" /\ req.allow204 /\ ~Sent
          /\ return_code' = Code204
          /\ \E ok \in Outcomes :
               /\ Written(ok)
               /\ keepalive' = (keepalive /\ ok)
               /\ IF ~ok THEN Finish("error") /\ UNCHANGED data_locked
                  ELSE IF Code204 = "204" THEN Finish("ok") /\ UNCHANGED data_locked
                  ELSE GoesOn /\ UNCHANGED result
       \/ /\ a = "206" /\ req.allow204 /\ req.allow206 /\ ~Sent
          /\ return_code' = "206" /\ GoesOn /\ UNCHANGED <<send, keepalive, result>>
       \/ /\ a = "done" /\ GoesOn
          /\ UNCHANGED <<send, return_code, keepalive, result>>
       \/ /\ \/ a = "error"
             \/ a = "204" /\ ~(req.allow204 /\ ~Sent)
             \/ a = "206" /\ ~(req.allow204 /\ req.allow206 /\ ~Sent)
          /\ IF Sent THEN /\ keepalive' = FALSE /\ Finish("error")
                          /\ UNCHANGED <<send, return_code>>
             ELSE Fails
          /\ UNCHANGED data_locked
  /\ UNCHANGED <<req, input, preview_status, loop, held, echo, said204, erred>>

\* send_remaining_response
SendRest ==
  /\ pc = "rest" /\ send.remain > 0
  /\ send' \in SendSome(send)
  /\ UNCHANGED <<req, pc, input, data_locked, return_code, keepalive,
                 preview_status, loop, service, result>>

SendRestFails_keeps ==
  /\ pc = "rest" /\ send.remain > 0 /\ req.faults
  /\ Finish("error") /\ UNCHANGED keepalive
  /\ UNCHANGED <<req, input, send, data_locked, return_code, preview_status,
                 loop, service>>

SendRestFails ==
  /\ pc = "rest" /\ send.remain > 0 /\ req.faults
  /\ Finish("error") /\ keepalive' = FALSE
  /\ UNCHANGED <<req, input, send, data_locked, return_code, preview_status,
                 loop, service>>

ReadRest_stops ==
  /\ pc = "rest" /\ send.remain = 0 /\ send.status = SEND_BODY
  /\ LET n == Smaller(ChunkMax, held) IN
       /\ send' = format_body_chunk(send, IF held > ChunkMax THEN n ELSE 0)
       /\ held' = held - n
  /\ UNCHANGED <<req, pc, input, data_locked, return_code, keepalive,
                 preview_status, loop, echo, said204, ended, erred, result>>

\* The service gives what it holds, and CI_EOF when it has nothing left.
ReadRest ==
  /\ pc = "rest" /\ send.remain = 0 /\ send.status = SEND_BODY
  /\ LET n == Smaller(ChunkMax, held) IN
       /\ send' = format_body_chunk(send, n)
       /\ held' = held - n
  /\ UNCHANGED <<req, pc, input, data_locked, return_code, keepalive,
                 preview_status, loop, echo, said204, ended, erred, result>>

\* What else the service may do there. Its result is not looked at: when it fails and
\* leaves the length alone the old contents of the buffer are sent as a chunk, and
\* so on, until the client closes; the chunks after the first change nothing here.
RestStale ==
  /\ pc = "rest" /\ send.remain = 0 /\ send.status = SEND_BODY /\ ~echo /\ ~erred
  /\ send' = Put("stale") /\ erred' = TRUE
  /\ UNCHANGED <<req, pc, input, data_locked, return_code, keepalive,
                 preview_status, loop, held, echo, said204, ended, result>>

\* A length of 0 ends the answer without its zero chunk, as if all were well.
RestStops ==
  /\ pc = "rest" /\ send.remain = 0 /\ send.status = SEND_BODY /\ ~echo
  /\ Finish("ok") /\ erred' = TRUE
  /\ UNCHANGED <<req, input, send, data_locked, return_code, keepalive,
                 preview_status, loop, held, echo, said204, ended>>

\* The service sets the length to CI_ERROR, or the client closes.
RestErrs ==
  /\ pc = "rest" /\ send.remain = 0 /\ send.status = SEND_BODY /\ ~echo
  /\ Finish("error") /\ keepalive' = FALSE
  /\ UNCHANGED <<req, input, send, data_locked, return_code, preview_status,
                 loop, service>>

UpdateRest_on ==
  /\ pc = "rest" /\ send.remain = 0 /\ send.status # SEND_BODY
  /\ send' = update_send_status(send)
  /\ UNCHANGED <<req, pc, result, input, data_locked, return_code, keepalive,
                 preview_status, loop, service>>

UpdateRest ==
  /\ pc = "rest" /\ send.remain = 0 /\ send.status # SEND_BODY
  /\ send' = update_send_status(send)
  /\ IF send'.status = SEND_EOF THEN Finish("ok") ELSE UNCHANGED <<pc, result>>
  /\ UNCHANGED <<req, input, data_locked, return_code, keepalive,
                 preview_status, loop, service>>

Done == pc = "done" /\ UNCHANGED vars

Next ==
  \/ Refused \/ Options \/ Start \/ ReadPreview \/ PreviewHandler \/ FakePreview
  \/ Drop \/ Decide \/ Wait \/ WaitFails \/ Io \/ RoundFails \/ EndOfData
  \/ SendRest \/ SendRestFails \/ ReadRest \/ RestStale \/ RestStops \/ RestErrs
  \/ UpdateRest \/ Done

Spec == Init /\ [][Next]_vars

\* The worker does not stop; a wait ends with data, room or a time-out. Nothing is
\* asked of one that sends stale data.
FairSpec == Spec /\ WF_vars(~erred /\ Next)

-----------------------------------------------------------------------------
\* The answer without "100 Continue".
Answer == IF send.out # <<>> /\ send.out[1] = "100" THEN Tail(send.out) ELSE send.out

BodyItems == BodySize(req)

Complete ==
  \/ Answer = <<"answer">>
  \/ ~req.hasbody /\ Len(Answer) = 1 + req.heads
  \/ /\ Answer # <<>> /\ Answer[Len(Answer)] = "end"
     /\ return_code = "206" \/ send.sent = BodyItems

\* The client gets one answer: a complete one of ec_responce, or the head, the
\* HTTP headers, chunks and one end, in this order, whichever of the preview
\* handler, get_send_body, do_end_of_data and send_remaining_response sends it.
OneAnswer ==
  \/ Answer \in {<<>>, <<"answer">>}
  \/ /\ Answer[1] = "head"
     /\ \A i \in 2 .. Len(Answer) :
          IF i <= 1 + req.heads THEN Answer[i] = "header"
          ELSE Answer[i] \in {"chunk", "stale"} \/ (Answer[i] = "end" /\ i = Len(Answer))

\* thread_main keeps the connection for another request only when the answer to
\* this one was sent to its end and its body was read to its end: otherwise the
\* rest of the one would be taken for the beginning of the next.
KeptWhole ==
  pc = "done" /\ keepalive => Complete /\ coming = 0 /\ arrived = 0 /\ pending = 0

\* do_request returns CI_OK only after a complete answer; a body that is sent
\* in chunks has every item that the client has sent.
OkIsWhole == result = "ok" => Complete

\* What do_request and thread_main take for done was done to the end, if the
\* service's I/O function goes on to give its data and then CI_EOF.
DoneIsWhole == erred \/ (KeptWhole /\ OkIsWhole)

\* "CI_EOF of CI_ERROR, stop sending" (request.c:1139): an I/O function that fails
\* ends the answer. TLC refutes this: the length is looked at, not the result.
ErrorStops == \A i \in DOMAIN Answer : Answer[i] # "stale"

\* When the end-of-data handler is called, the service has been given all of
\* the body.
ServiceGetsAll == ended => coming = 0 /\ arrived = 0 /\ pending = 0

\* A request whose preview handler has answered 204 does not reach the
\* end-of-data handler; not so with ALLOW204_AS_200OK_ZERO_ENCAPS.
EndsAt204 == said204 => ~ended

\* A service that keeps its data locked has nothing of its answer sent before
\* its end-of-data handler has returned.
LockedIsSilent == data_locked /\ ~ended => \A i \in DOMAIN Answer : Answer[i] = "answer"

\* The answer goes out as one, and not before a service that locks its data
\* allows it (ci_req_lock_data); every variable has its type.
AnswerInOrder == TypeOK /\ OneAnswer /\ LockedIsSilent

\* do_request closes the connection on every error.
ErrorCloses == result = "error" => ~keepalive

\* Every request ends, unless its service fails while the rest of the answer is
\* sent: send_remaining_response then repeats what the buffer holds.
RequestEnds == <>(pc = "done" \/ erred)
=============================================================================
