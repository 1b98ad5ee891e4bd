-------------------------- MODULE IcapRequestProofs --------------------------
(* Proofs about IcapRequest, for requests of any size with any number of     *)
(* items in a chunk of the answer: the service gets all of the body, and     *)
(* what counts as done was done to the end.                                  *)
EXTENDS IcapRequestOrder

USE DEF SEND_NOTHING, SEND_RESPHEAD, SEND_HEAD1, SEND_HEAD3, SEND_BODY, SEND_EOF, EOF

\* get_send_body that hands the body to the service, or is about to.
Passing == (pc = "decide" /\ Code = "100") \/ (Rounds /\ ~loop.parse_only)

GivesInv ==
  /\ ~req.hasbody => arrived + coming = 0
  /\ pc \notin {"wait", "io", "done"} => pending = 0
  /\ pc = "decide" /\ Code # "100" => arrived + coming = 0
  /\ preview_status = "eof" => arrived + coming = 0 /\ req.preview >= 0
  /\ pc = "handler" /\ preview_status = "ok" /\ req.preview >= 0 => req.hasbody /\ ~req.ieof
  /\ pc = "drop" => req.hasbody
  /\ pc \notin {"rest", "done"} => ~ended
  /\ pc = "drop" \/ (pc = "decide" /\ Code = "100") => ~eof_received
  /\ pc \in {"end", "rest"} \/ ended => arrived + coming = 0 /\ pending = 0
  /\ pc \in {"drop", "decide", "wait", "io", "end"} => (data_locked <=> ~req.unlock)
  /\ Passing => held + pending + Left <= BodySize(req)
  /\ Rounds => /\ ~loop.service_eof /\ req.hasbody
               /\ eof_received \/ pending > 0 => Tight(req) /\ ~echo /\ ~loop.parse_only
  /\ Rounds /\ ~loop.parse_only => send.status # SEND_EOF
  /\ pc = "io" => /\ loop.formated <=> send.remain > 0
                  /\ ~loop.parse_only /\ ~data_locked /\ send.remain = 0 =>
                       send.status = SEND_BODY
                  /\ loop.fill > 0 => send.status = SEND_BODY /\ send.remain = 0

\* The items of a body, wherever they are.
Total ==
  send.sent + send.items + (IF pc = "io" THEN loop.fill ELSE 0) + held + pending + Left

\* "100 Continue" was not written: nothing will come.
Lost == arrived + coming = 0 /\ ~eof_received

WholeInv ==
  /\ Before \/ pc \in {"drop", "decide"} => send.sent = 0 /\ send.items = 0
  /\ Before /\ req.hasbody /\ req.preview < 0 => arrived + coming = req.rest + 1
  /\ pc = "handler" /\ preview_status = "eof" /\ req.hasbody => req.ieof
  /\ pc = "decide" => Code \in {"100", "200", "204", "206"}
  /\ Rounds /\ loop.parse_only => send.sent = 0 /\ send.items = 0
  /\ Passing => Total = BodySize(req) \/ Lost
  /\ pc = "decide" /\ Code = "200" /\ req.hasbody /\ Answer = <<>> => held = BodySize(req)
  /\ pc \in {"end", "rest"} /\ req.hasbody /\ Answer # <<"answer">> /\ return_code # "206"
     => /\ send.sent + send.items + held = BodySize(req)
        /\ send.status = SEND_EOF => held = 0
  /\ result = "ok" => Complete /\ arrived + coming = 0 /\ pending = 0
  /\ result = "error" => ~keepalive
  /\ result = "none" <=> pc # "done"
-----------------------------------------------------------------------------
\* What the send functions do to the status.
LEMMA SendSomeStatus ==
  ASSUME NEW s \in Sends, NEW t \in SendSome(s)
  PROVE  t.status = s.status
<1>1. /\ [s EXCEPT !.remain = 0, !.out = Append(@, s.block),
                   !.sent = @ + s.items, !.items = 0].status = s.status
      /\ [s EXCEPT !.remain = 1].status = s.status
  BY DEF Sends
<1> QED
  BY Zenon, <1>1 DEF SendSome

\* update_send_status does not end an answer that has a body.
LEMMA UpdateStatus ==
  ASSUME NEW s \in Sends, req \in Request, req.hasbody, NEW u, u = update_send_status(s)
  PROVE  /\ s.remain = 0 /\ u.remain = 0 => u.status \in {SEND_BODY, SEND_EOF}
         /\ u.status = SEND_EOF => s.status = SEND_EOF
<1>1. s.status \in 0 .. 6 /\ req.heads \in 0 .. 1
  BY SendFields, RequestFields
<1>2. s.status + 1 - SEND_HEAD1 < req.heads /\ s.status # SEND_NOTHING => s.status + 1 = 2
  BY <1>1
<1>3. CASE u = [s EXCEPT !.status = SEND_RESPHEAD, !.remain = 2, !.block = "head"]
  <2>1. u.status = SEND_RESPHEAD /\ u.remain = 2
    BY <1>3 DEF Sends
  <2> QED
    BY <2>1
<1>4. CASE u = [s EXCEPT !.status = 2, !.remain = 2, !.block = "header"]
  <2>1. u.status = 2 /\ u.remain = 2
    BY <1>4 DEF Sends
  <2> QED
    BY <2>1
<1>5. CASE u = [s EXCEPT !.status = SEND_BODY]
  <2>1. u.status = SEND_BODY
    BY <1>5 DEF Sends
  <2> QED
    BY <2>1
<1>6. CASE u = s /\ s.status \in {SEND_BODY, SEND_EOF}
  BY <1>6
<1> QED
  BY <1>2, <1>3, <1>4, <1>5, <1>6 DEF update_send_status

\* What a round leaves to be sent: a chunk with the items that the service gave.
LEMMA FormattedStatus ==
  ASSUME send \in Sends, NEW n \in Nat, NEW e \in BOOLEAN, NEW t, t = Formatted(n, e)
  PROVE  /\ send.status # SEND_BODY \/ loop.formated => t = send
         /\ send.status = SEND_BODY /\ ~loop.formated /\ n > 0 =>
              t.status = SEND_BODY /\ t.remain = 2 /\ t.items = n /\ t.sent = send.sent
         /\ n = 0 /\ ~e => t = send
<1>1. CASE send.status = SEND_BODY /\ ~loop.formated /\ n > 0
  <2>1. t = [send EXCEPT !.remain = 2, !.block = "chunk", !.items = n]
    BY <1>1 DEF Formatted, format_body_chunk
  <2> QED
    BY <1>1, <2>1 DEF Sends
<1>2. CASE ~(send.status = SEND_BODY /\ ~loop.formated /\ n > 0)
  BY <1>2 DEF Formatted
<1> QED
  BY <1>1, <1>2

\* The service takes what it is offered, or it is one that passes data on; the
\* rounds end only when it has got everything.
LEMMA IoTakes ==
  ASSUME TakesAll, TypeInv, GivesInv, pc = "io",
         NEW take \in Nat, NEW pend \in Nat, NEW taken \in Nat, NEW given \in Nat,
         NEW eof \in BOOLEAN, NEW seof \in BOOLEAN, NEW again \in BOOLEAN,
         IoFrom(take, pend, taken, given, eof, seof, again),
         IoTo(pend, taken, given, eof, seof, again)
  PROVE  /\ taken # pend => Tight(req) /\ ~echo /\ ~loop.parse_only
         /\ seof => eof /\ taken = pend
         /\ Rounds' => ~seof /\ (eof => taken # pend)
         /\ ~Rounds' => Return(eof) /\ eof /\ taken = pend
<1>a. /\ req \in Requests /\ req \in Request /\ send \in Sends /\ held \in Nat
      /\ coming \in Nat /\ arrived \in Nat /\ pending \in Nat /\ held <= Capacity
      /\ Capacity \in Nat /\ ChunkMax \in Nat /\ ChunkMax > 0 /\ echo \in BOOLEAN
      /\ loop.fill \in Nat /\ loop.fill <= ChunkMax /\ loop.parse_only \in BOOLEAN
      /\ loop.service_eof \in BOOLEAN /\ loop.formated \in BOOLEAN /\ data_locked \in BOOLEAN
  BY TypeFacts, LoopFields
<1>b. /\ req.preview \in Int /\ req.rest \in Nat /\ req.cap \in Nat /\ BodySize(req) \in Nat
      /\ req.hasbody \in BOOLEAN /\ req.allow204 \in BOOLEAN /\ req.unlock \in BOOLEAN
  BY <1>a, RequestFields
<1>c. /\ ~loop.service_eof /\ (data_locked <=> ~req.unlock)
      /\ ~loop.parse_only => held + pending + Left <= BodySize(req)
      /\ loop.formated <=> send.remain > 0
      /\ ~loop.parse_only /\ ~data_locked /\ send.remain = 0 => send.status = SEND_BODY
      /\ loop.fill > 0 => send.status = SEND_BODY /\ send.remain = 0
  BY DEF GivesInv, Rounds, Passing
<1>d. /\ pend <= 1 /\ taken <= pend /\ take <= arrived
      /\ pend + Data(arrived - take + coming) = pending + Left
      /\ loop.parse_only => taken = pend
      /\ ~loop.parse_only =>
           /\ taken = Smaller(pend, Capacity - held) /\ held + taken <= Capacity
           /\ send.status = SEND_BODY /\ ~loop.service_eof /\ ~loop.formated =>
                given = Smaller(ChunkMax - loop.fill, held + taken)
      /\ seof /\ ~loop.service_eof =>
           eof /\ given = 0 /\ (loop.parse_only \/ echo \/ held + taken = 0)
      /\ eof => ~again
  <2>1. Left = Data(arrived + coming)
    BY DEF Left
  <2> QED
    BY <2>1 DEF IoFrom
<1>e. pend <= pending + Left
  BY <1>a, <1>d DEF Data
<1>1. (loop.parse_only \/ echo \/ Roomy(req)) => taken = pend
  <2>1. CASE loop.parse_only
    BY <1>d, <2>1
  <2>2. CASE ~loop.parse_only /\ echo
    <3>1. Capacity = EchoCap /\ BodySize(req) = req.rest /\ req.rest <= EchoCap
      <4>1. req.preview < 0 /\ req.hasbody /\ ~req.allow204
        BY <2>2 DEF TypeInv
      <4> QED
        BY <1>a, <1>b, <2>2, <4>1 DEF Capacity, BodySize, TakesAll
    <3> QED
      BY <1>a, <1>b, <1>c, <1>d, <1>e, <2>2, <3>1 DEF Smaller, Left, Data
  <2>3. CASE ~loop.parse_only /\ ~echo /\ Roomy(req)
    <3>1. Capacity >= BodySize(req)
      BY <2>3 DEF Capacity, Roomy
    <3> QED
      BY <1>a, <1>b, <1>c, <1>d, <1>e, <2>3, <3>1 DEF Smaller, Left, Data
  <2> QED
    BY <2>1, <2>2, <2>3
<1>2. taken # pend => Tight(req) /\ ~echo /\ ~loop.parse_only
  BY <1>1, <1>a DEF TakesAll
<1>3. seof => eof /\ taken = pend
  <2>1. SUFFICES ASSUME seof, taken # pend PROVE FALSE
    BY <1>c, <1>d
  <2>2. Tight(req) /\ ~echo /\ ~loop.parse_only
    BY <1>2, <2>1
  <2>3. held + taken = 0 /\ Capacity = req.cap /\ req.cap > 0
    BY <1>c, <1>d, <2>1, <2>2 DEF Tight, Capacity
  <2> QED
    BY <1>a, <1>b, <1>d, <2>1, <2>2, <2>3 DEF Smaller
<1>4. ASSUME taken < pend, ~again
      PROVE  send'.remain > 0
  <2>1. Tight(req) /\ ~echo /\ ~loop.parse_only /\ ~data_locked /\ Capacity = req.cap /\ req.cap > 0
    BY <1>2, <1>4, <1>c DEF Tight, Capacity
  <2>2. send' = Formatted(loop.fill + given, seof)
    BY <1>4 DEF IoTo
  <2>3. CASE send.remain > 0
    <3>1. send' = send
      BY <1>c, <2>2, <2>3 DEF Formatted
    <3> QED
      BY <2>3, <3>1
  <2>4. CASE ~(send.remain > 0)
    <3>1. send.status = SEND_BODY /\ ~loop.formated
      BY <1>a, <1>c, <2>1, <2>4, SendFields
    <3>2. held + taken > 0
      BY <1>a, <1>b, <1>d, <1>4, <2>1 DEF Smaller
    <3>3. given = Smaller(ChunkMax - loop.fill, held + taken)
      BY <1>c, <1>d, <2>1, <3>1
    <3>4. loop.fill + given > 0 /\ loop.fill + given \in Nat
      BY <1>a, <3>2, <3>3 DEF Smaller
    <3>5. PICK t : t = send'
      OBVIOUS
    <3> QED
      BY <1>a, <2>2, <3>1, <3>4, <3>5, FormattedStatus
  <2> QED
    BY <2>3, <2>4
<1>5. \/ again /\ pc' = "io"
      \/ pc' = "wait" /\ (~eof \/ taken < pend)
      \/ Return(eof) /\ ((eof /\ taken = pend) \/ (~again /\ taken < pend /\ ~(send'.remain > 0)))
  BY DEF IoTo
<1>6. \/ again /\ pc' = "io"
      \/ pc' = "wait" /\ (~eof \/ taken < pend)
      \/ Return(eof) /\ eof /\ taken = pend
  BY <1>4, <1>5
<1>7. Return(eof) => ~Rounds'
  BY TypeFacts, ReturnFacts DEF Rounds
<1>8. Rounds' => ~seof /\ (eof => taken # pend)
  BY <1>3, <1>6, <1>7, <1>d
<1>9. ~Rounds' => Return(eof) /\ eof /\ taken = pend
  BY <1>6 DEF Rounds
<1> QED
  BY <1>2, <1>3, <1>8, <1>9

\* A request that ends has not given the service less than before.
LEMMA DoneGives ==
  ASSUME TypeInv, GivesInv, pc' = "done", UNCHANGED <<req, coming, arrived, pending>>,
         ended' => ended \/ pc = "end", preview_status' \in {"ok", preview_status}
  PROVE  GivesInv'
<1>1. /\ ~req.hasbody => arrived + coming = 0
      /\ preview_status = "eof" => arrived + coming = 0 /\ req.preview >= 0
      /\ pc = "end" \/ ended => arrived + coming = 0 /\ pending = 0
  BY DEF GivesInv
<1>2. /\ ~req'.hasbody => arrived' + coming' = 0
      /\ preview_status' = "eof" => arrived' + coming' = 0 /\ req'.preview >= 0
      /\ ended' => arrived' + coming' = 0 /\ pending' = 0
  BY <1>1
<1> QED
  BY <1>2 DEF GivesInv, Rounds, Passing

\* Every step keeps the account of what the service has been given.
LEMMA GivesStep ==
  ASSUME TakesAll, TypeInv, GivesInv, [Next]_vars
  PROVE  GivesInv'
<1>a. /\ req \in Requests /\ req \in Request /\ send \in Sends /\ loop \in Loops
      /\ coming \in Nat /\ arrived \in Nat /\ pending \in Nat /\ held \in Nat
      /\ loop.parse_only \in BOOLEAN /\ data_locked \in BOOLEAN /\ ended \in BOOLEAN
      /\ loop.fill \in Nat /\ eof_received \in BOOLEAN /\ loop.service_eof \in BOOLEAN
  BY TypeFacts, LoopFields
<1>b. /\ req.preview \in Int /\ req.hasbody \in BOOLEAN /\ req.unlock \in BOOLEAN
      /\ req.rest \in Nat /\ req.ieof \in BOOLEAN /\ req.allow204 \in BOOLEAN
  BY <1>a, RequestFields
<1>c. /\ ~req.hasbody => arrived + coming = 0
      /\ pc \notin {"wait", "io", "done"} => pending = 0
      /\ preview_status = "eof" => arrived + coming = 0 /\ req.preview >= 0
      /\ pc \notin {"rest", "done"} => ~ended
      /\ pc \in {"end", "rest"} \/ ended => arrived + coming = 0 /\ pending = 0
      /\ pc \in {"drop", "decide", "wait", "io", "end"} => (data_locked <=> ~req.unlock)
  BY DEF GivesInv
<1>d. Before => /\ ~echo /\ held = 0 /\ arrived + coming <= req.rest + 1
                /\ req.preview >= 0 => arrived + coming = 0
                /\ eof_received => preview_status = "eof"
  BY DEF TypeInv
<1>1. CASE Refused
  BY Zenon, <1>1, FailsFacts, DoneGives DEF Refused, Failed, Finish, input, service
<1>2. CASE Options
  BY <1>2, DoneGives DEF Options, Finish, input, service
<1>3. CASE Start
  <2>1. /\ pc = "parsed" /\ pc' \in {"preview", "handler"} /\ (pc' = "handler" => ~(req.preview >= 0))
        /\ UNCHANGED <<req, coming, arrived, pending, preview_status, ended>>
    BY <1>3 DEF Start, service, input
  <2> QED
    BY <1>c, <2>1 DEF GivesInv, Rounds, Passing
<1>4. CASE ReadPreview
  <2>1. pc = "preview" /\ UNCHANGED <<req, coming, arrived, pending, ended>>
    BY <1>4 DEF ReadPreview, service
  <2>2. CASE Fails /\ UNCHANGED preview_status
    BY <2>1, <2>2, FailsFacts, DoneGives DEF Failed
  <2>3. CASE /\ pc' = "handler"
             /\ preview_status' = IF ~req.hasbody \/ req.ieof THEN "eof" ELSE "ok"
    <3>1. req.preview >= 0 /\ arrived + coming = 0
      BY <1>d, <2>1 DEF TypeInv, Before
    <3> QED
      BY <1>b, <1>c, <2>1, <2>3, <3>1 DEF GivesInv, Rounds, Passing
  <2> QED
    BY <1>4, <2>2, <2>3 DEF ReadPreview
<1>5. CASE PreviewHandler \/ FakePreview
  <2>a. /\ pc = "handler" /\ data_locked' = ~req.unlock
        /\ UNCHANGED <<req, arrived, partial, pending, eof_received, loop, ended>>
        /\ Handled204 \/ HandledContinue \/ HandledSilently \/ HandledFails
    BY <1>5, HandlerEffect
  <2>b. /\ held = 0 /\ arrived + coming <= req.rest + 1 /\ pending = 0 /\ ~ended
        /\ req.preview >= 0 => arrived + coming = 0
        /\ eof_received => preview_status = "eof"
        /\ preview_status = "ok" /\ req.preview >= 0 => req.hasbody /\ ~req.ieof
    BY <1>c, <1>d, <2>a DEF Before, GivesInv
  <2>1. CASE Handled204
    <3>1. /\ pc' = "drop" => req.hasbody /\ req.preview < 0
          /\ pc' = "decide" => arrived + coming = 0
      BY <1>c, <2>1, <2>b DEF Handled204, Drops
    <3>2. pc' \in {"drop", "decide"} /\ coming' = coming /\ preview_status' \in {"ok", preview_status}
      BY <2>1 DEF Handled204
    <3>3. pc' = "drop" => ~eof_received'
      BY <1>b, <1>c, <2>a, <2>b, <3>1
    <3>4. pc' = "decide" => Code' # "100"
      BY <2>1 DEF Handled204, Code, Code204
    <3>5. /\ ~req'.hasbody => arrived' + coming' = 0
          /\ preview_status' = "eof" => arrived' + coming' = 0 /\ req'.preview >= 0
          /\ pc' = "decide" => arrived' + coming' = 0
      BY <1>c, <2>a, <3>1, <3>2
    <3> QED
      BY Zenon, <2>a, <2>b, <3>1, <3>2, <3>3, <3>4, <3>5 DEF GivesInv, Rounds, Passing
  <2>2. CASE HandledContinue
    <3>1. /\ req.hasbody /\ ~req.ieof /\ preview_status' = "ok" /\ pc' = "decide" /\ Code' = "100"
          /\ held' = req.preview /\ req.preview >= 0 /\ ~eof_received' /\ arrived' = 0
          /\ coming' \in {0, req.rest + 1}
      BY <1>a, <2>2, <2>a, <2>b DEF HandledContinue, Code
    <3>2. held' + pending' + Left' <= BodySize(req)'
      <4>1. BodySize(req)' = req.preview + req.rest /\ pending' = 0
        BY <1>b, <2>a, <2>b, <3>1 DEF BodySize
      <4>2. Left' <= req.rest /\ Left' \in Nat
        <5>1. CASE coming' = 0
          BY <1>b, <3>1, <5>1 DEF Left, Data
        <5>2. CASE coming' = req.rest + 1
          <6>1. arrived' + coming' = req.rest + 1
            BY <1>b, <3>1, <5>2
          <6> QED
            BY <1>b, <6>1 DEF Left, Data
        <5> QED
          BY <3>1, <5>1, <5>2
      <4> QED
        BY <1>b, <3>1, <4>1, <4>2
    <3> QED
      BY Zenon, <2>a, <2>b, <3>1, <3>2 DEF GivesInv, Rounds, Passing
  <2>3. CASE HandledSilently
    <3>1. pc' = "decide" /\ coming' = coming
      BY <2>3 DEF HandledSilently
    <3>2. preview_status' \in {"ok", preview_status}
      BY <2>3 DEF HandledSilently
    <3>3. Code' = "100" => req.preview < 0 /\ held' = 0 /\ preview_status' # "eof"
      BY <1>b, <2>3, <2>b DEF HandledSilently, Code
    <3>4. Code' # "100" => arrived + coming = 0
      <4>1. CASE req.preview >= 0
        BY <2>b, <4>1
      <4>2. CASE req.preview < 0 /\ req.hasbody
        <5>1. ~(req.allow204 /\ req.allow206)
          BY <1>a, <4>2 DEF TakesAll, Drops
        <5>2. return_code' = "100"
          BY <1>b, <2>3, <4>2, <5>1 DEF HandledSilently
        <5> QED
          BY <1>b, <1>c, <2>3, <4>2, <5>2 DEF HandledSilently, Code
      <4>3. CASE ~req.hasbody
        BY <1>c, <4>3
      <4> QED
        BY <1>b, <4>1, <4>2, <4>3
    <3>5. Code' = "100" => ~eof_received' /\ held' + pending' + Left' <= BodySize(req)'
      <4>1. SUFFICES ASSUME Code' = "100"
                     PROVE  ~eof_received' /\ held' + pending' + Left' <= BodySize(req)'
        OBVIOUS
      <4>2. ~eof_received'
        BY <1>b, <1>c, <2>a, <2>b, <3>3, <4>1
      <4>3. held' + pending' + Left' <= BodySize(req)'
        BY <1>a, <1>b, <2>a, <2>b, <3>1, <3>3, <4>1 DEF Left, Data, BodySize
      <4> QED
        BY <4>2, <4>3
    <3>6. /\ ~req'.hasbody => arrived' + coming' = 0
          /\ preview_status' = "eof" => arrived' + coming' = 0 /\ req'.preview >= 0
          /\ Code' # "100" => arrived' + coming' = 0
      BY <1>c, <2>a, <3>1, <3>2, <3>4
    <3> QED
      BY Zenon, <2>a, <2>b, <3>1, <3>2, <3>5, <3>6 DEF GivesInv, Rounds, Passing
  <2>4. CASE HandledFails
    BY <2>4, <2>a, <2>b, DoneGives DEF HandledFails, Failed
  <2> QED
    BY <2>a, <2>1, <2>2, <2>3, <2>4
<1>7. CASE Drop
  <2>1. /\ pc = "drop" /\ pc' = "wait" /\ loop'.parse_only = TRUE /\ ~loop'.service_eof
        /\ UNCHANGED <<req, coming, arrived, pending, eof_received, data_locked, preview_status,
                       ended>>
    BY Zenon, <1>7, StartType DEF Drop, service, input
  <2>2. req.hasbody /\ ~eof_received /\ pending = 0 /\ ~ended
    BY <2>1 DEF GivesInv
  <2> QED
    BY <1>c, <2>1, <2>2 DEF GivesInv, Rounds, Passing
<1>8. CASE Decide
  <2>1. /\ pc = "decide"
        /\ UNCHANGED <<req, coming, arrived, pending, eof_received, data_locked, preview_status,
                       ended, held>>
    BY <1>8 DEF Decide, service, input
  <2>2. CASE pc' = "done"
    BY <2>1, <2>2, DoneGives
  <2>3. CASE /\ Code = "100" /\ req.hasbody /\ pc' = "wait" /\ StartLoop(FALSE)
             /\ send' = [send EXCEPT !.status = SEND_NOTHING]
    <3>1. loop'.parse_only = FALSE /\ ~loop'.service_eof
      BY Zenon, <2>3, StartType
    <3>2. send'.status = SEND_NOTHING
      BY <1>a, <2>3 DEF Sends
    <3>3. ~eof_received /\ held + pending + Left <= BodySize(req) /\ pending = 0 /\ ~ended
      BY <2>1, <2>3 DEF GivesInv, Passing
    <3>4. held' + pending' + Left' <= BodySize(req)'
      BY <2>1, <3>3 DEF Left, BodySize
    <3> QED
      BY <1>c, <2>1, <2>3, <3>1, <3>2, <3>3, <3>4 DEF GivesInv, Rounds, Passing
  <2>4. CASE Code \notin {"204", "100"} /\ pc' = "end"
    <3>1. arrived + coming = 0 /\ pending = 0 /\ ~ended
      BY <2>1, <2>4 DEF GivesInv
    <3> QED
      BY <1>c, <2>1, <2>4, <3>1 DEF GivesInv, Rounds, Passing
  <2> QED
    BY Zenon, <1>8, <2>2, <2>3, <2>4 DEF Decide, Code, Finish
<1>9. CASE Wait
  <2>1. /\ pc = "wait" /\ pc' = "io" /\ loop'.parse_only = loop.parse_only /\ loop'.fill = 0
        /\ loop'.formated <=> send'.remain > 0
        /\ loop'.service_eof = loop.service_eof
        /\ arrived' \in Nat /\ coming' \in Nat /\ arrived' + coming' = arrived + coming
        /\ UNCHANGED <<req, pending, eof_received, data_locked, preview_status, ended, held, echo>>
    BY <1>9, WaitEffect DEF service
  <2>2. PICK s : (s = send \/ s \in SendSome(send)) /\ send' = Refilled(s)
    BY <1>9, WaitEffect
  <2>3. /\ ~loop.service_eof /\ req.hasbody
        /\ eof_received \/ pending > 0 => Tight(req) /\ ~echo /\ ~loop.parse_only
        /\ ~loop.parse_only => send.status # SEND_EOF /\ held + pending + Left <= BodySize(req)
    BY <2>1 DEF GivesInv, Rounds, Passing
  <2>4. ~loop.parse_only => held' + pending' + Left' <= BodySize(req)'
    BY <2>1, <2>3 DEF Left, BodySize
  <2>5. s \in Sends /\ s.status = send.status
    BY <1>a, <2>2, SendSomeType, SendSomeStatus
  <2>6. PICK t : t = send'
    OBVIOUS
  <2>7. ~loop.parse_only => t.status # SEND_EOF
    BY <1>a, <2>2, <2>3, <2>5, <2>6, UpdateStatus DEF Refilled
  <2>8. ~loop.parse_only /\ ~data_locked /\ t.remain = 0 => t.status = SEND_BODY
    BY <1>a, <2>2, <2>3, <2>5, <2>6, <2>7, UpdateStatus DEF Refilled
  <2>9. /\ ~loop.parse_only => send'.status # SEND_EOF
        /\ ~loop.parse_only /\ ~data_locked /\ send'.remain = 0 => send'.status = SEND_BODY
    BY <2>6, <2>7, <2>8
  <2>10. /\ preview_status' = "eof" => arrived' + coming' = 0 /\ req'.preview >= 0
         /\ ~ended' /\ (data_locked' <=> ~req'.unlock)
    BY <1>c, <2>1
  <2>11. /\ ~loop'.service_eof /\ req'.hasbody
         /\ eof_received' \/ pending' > 0 => Tight(req)' /\ ~echo' /\ ~loop'.parse_only
    BY <2>1, <2>3 DEF Tight
  <2>12. /\ pc' = "io" /\ ~(loop'.fill > 0) /\ (loop'.formated <=> send'.remain > 0)
         /\ ~loop'.parse_only => send'.status # SEND_EOF
         /\ ~loop'.parse_only /\ ~data_locked' /\ send'.remain = 0 => send'.status = SEND_BODY
         /\ ~loop'.parse_only => held' + pending' + Left' <= BodySize(req)'
    BY <2>1, <2>4, <2>9
  <2> QED
    BY <2>10, <2>11, <2>12 DEF GivesInv, Rounds, Passing
<1>10. CASE WaitFails
  <2>1. ~eof_received
    BY <1>10 DEF WaitFails, GivesInv, Rounds, Tight
  <2>2. pc' = "done" /\ UNCHANGED <<req, coming, arrived, pending, ended, preview_status>>
    BY <1>10, <1>a, <2>1, TypeFacts, ReturnFacts DEF WaitFails, input, service
  <2> QED
    BY <2>2, DoneGives
<1>12. CASE RoundFails
  <2>1. pc' = "done" /\ UNCHANGED <<req, coming, arrived, pending, ended, preview_status>>
    BY Zenon, <1>12, TypeFacts, ReturnFacts DEF RoundFails, input, service
  <2> QED
    BY <2>1, DoneGives

<1>11. CASE Io
  <2>1. PICK take \in Nat, pend \in Nat, taken \in Nat, given \in Nat,
            eof \in BOOLEAN, seof \in BOOLEAN, again \in BOOLEAN :
           /\ IoFrom(take, pend, taken, given, eof, seof, again)
           /\ IoTo(pend, taken, given, eof, seof, again)
    BY <1>11, IoEffect
  <2>2. /\ UNCHANGED <<req, coming, data_locked, preview_status, ended, echo>> /\ pc = "io" /\ Rounds
    BY <1>11, IoNamed DEF Rounds
  <2>3. /\ taken # pend => Tight(req) /\ ~echo /\ ~loop.parse_only
        /\ Rounds' => ~seof /\ (eof => taken # pend)
        /\ ~Rounds' => Return(eof) /\ eof /\ taken = pend
    BY <2>1, <2>2, IoTakes
  <2>4. /\ arrived' = arrived - take /\ take <= arrived /\ pending' = pend - taken /\ taken <= pend
        /\ eof_received' = eof /\ (eof => arrived' + coming = 0)
        /\ held' = IF loop.parse_only THEN held ELSE held + taken - given
        /\ pend + Data(arrived' + coming) = pending + Data(arrived + coming)
        /\ given > 0 => send.status = SEND_BODY /\ ~loop.formated
    BY <2>1 DEF IoFrom
  <2>5. /\ ~loop.service_eof /\ req.hasbody /\ ~ended
        /\ ~loop.parse_only => send.status # SEND_EOF /\ held + pending + Left <= BodySize(req)
        /\ loop.formated <=> send.remain > 0
        /\ ~loop.parse_only /\ ~data_locked /\ send.remain = 0 => send.status = SEND_BODY
        /\ loop.fill > 0 => send.status = SEND_BODY /\ send.remain = 0
    BY <2>2 DEF GivesInv, Rounds, Passing
  <2>6. Left = Data(arrived + coming) /\ Left' = Data(arrived' + coming')
    BY DEF Left
  <2>7. ~loop.parse_only => held' + pending' + Left' <= BodySize(req)'
    <3>1. BodySize(req)' = BodySize(req) /\ BodySize(req) \in Nat
      BY <1>a, <2>2, RequestFields DEF BodySize
    <3>2. Data(arrived' + coming) \in Nat /\ Data(arrived + coming) \in Nat
      BY <1>a, <2>4 DEF Data
    <3> QED
      BY <1>a, <2>2, <2>4, <2>5, <2>6, <3>1, <3>2
  <2>8. /\ preview_status' = "eof" => arrived' + coming' = 0 /\ req'.preview >= 0
        /\ ~ended' /\ (data_locked' <=> ~req'.unlock)
    BY <1>a, <1>c, <2>2, <2>4
  <2>9. CASE Rounds'
    <3>1. loop'.parse_only = loop.parse_only /\ ~loop'.service_eof
      BY <2>1, <2>3, <2>9 DEF IoTo
    <3>2. eof_received' \/ pending' > 0 => Tight(req)' /\ ~echo' /\ ~loop'.parse_only
      BY <2>2, <2>3, <2>4, <2>9, <3>1 DEF Tight
    <3>3. ~loop.parse_only => send'.status # SEND_EOF
      <4>1. CASE again
        BY <2>1, <2>5, <4>1 DEF IoTo
      <4>2. CASE ~again
        <5>1. PICK t : t = send'
          OBVIOUS
        <5>2. t = Formatted(loop.fill + given, seof) /\ ~seof /\ loop.fill + given \in Nat
          BY <1>a, <2>1, <2>3, <2>9, <4>2, <5>1 DEF IoTo
        <5>3. t = send \/ t.status = SEND_BODY
          BY <1>a, <5>2, FormattedStatus
        <5> QED
          BY <2>5, <5>1, <5>3
      <4> QED
        BY <4>1, <4>2
    <3>4. pc' = "io" => /\ loop'.formated <=> send'.remain > 0
                        /\ ~loop'.parse_only /\ ~data_locked' /\ send'.remain = 0 =>
                             send'.status = SEND_BODY
                        /\ loop'.fill > 0 => send'.status = SEND_BODY /\ send'.remain = 0
      <4>1. SUFFICES ASSUME pc' = "io"
                     PROVE  /\ loop'.formated <=> send'.remain > 0
                            /\ ~loop'.parse_only /\ ~data_locked' /\ send'.remain = 0 =>
                                 send'.status = SEND_BODY
                            /\ loop'.fill > 0 => send'.status = SEND_BODY /\ send'.remain = 0
        OBVIOUS
      <4>2. again
        BY <2>1, <4>1, TypeFacts, ReturnFacts DEF IoTo
      <4>3. send' = send /\ loop'.formated = loop.formated /\ loop'.fill = loop.fill + given
        BY <2>1, <4>2 DEF IoTo
      <4>4. loop'.fill > 0 => send.status = SEND_BODY /\ send.remain = 0
        BY <1>a, <2>4, <2>5, <4>3, SendFields
      <4> QED
        BY <2>2, <2>5, <3>1, <4>3, <4>4
    <3>5. pc' \in {"wait", "io"}
      BY <2>9 DEF Rounds
    <3>6. ~req'.hasbody => arrived' + coming' = 0
      BY <2>2, <2>5
    <3> QED
      BY <2>2, <2>5, <2>7, <2>8, <3>1, <3>2, <3>3, <3>4, <3>5, <3>6 DEF GivesInv, Passing
  <2>10. CASE ~Rounds'
    <3>1. eof /\ taken = pend /\ arrived' + coming' = 0 /\ pending' = 0
      BY <1>a, <2>2, <2>3, <2>4, <2>10
    <3>2. (pc' = "decide" /\ return_code' = "204") \/ pc' = "end"
      BY Zenon, <2>3, <2>10, <3>1, TypeFacts, ReturnFacts
    <3>3. pc' = "decide" => Code' # "100"
      BY <3>2 DEF Code
    <3> QED
      BY <2>8, <3>1, <3>2, <3>3, <2>10 DEF GivesInv, Passing
  <2> QED
    BY <2>9, <2>10
<1>13. CASE EndOfData
  <2>1. /\ pc = "end" /\ pc' \in {"rest", "done"}
        /\ UNCHANGED <<req, coming, arrived, pending, preview_status>>
    BY Zenon, <1>13, EndEffect DEF input, EndGoesOn, Ends204, EndFails, Failed
  <2> QED
    BY <1>c, <2>1 DEF GivesInv, Rounds, Passing
<1>14. CASE SendRest \/ ReadRest \/ RestStale \/ UpdateRest
  <2>1. /\ pc = "rest" /\ pc' \in {"rest", "done"}
        /\ UNCHANGED <<req, coming, arrived, pending, preview_status, ended>>
    BY <1>14 DEF SendRest, ReadRest, RestStale, UpdateRest, Finish, service, input
  <2> QED
    BY <1>c, <2>1 DEF GivesInv, Rounds, Passing
<1>15. CASE SendRestFails \/ RestStops \/ RestErrs
  <2>1. pc' = "done" /\ UNCHANGED <<req, coming, arrived, pending, preview_status, ended>>
    BY <1>15 DEF SendRestFails, RestStops, RestErrs, Finish, service, input
  <2> QED
    BY <2>1, DoneGives
<1>18. CASE UNCHANGED vars
  BY <1>18 DEF vars, input, service, GivesInv, Rounds, Passing, Code, Left, Data, BodySize, Tight
<1> QED
  BY <1>1, <1>2, <1>3, <1>4, <1>5, <1>7, <1>8, <1>9, <1>10, <1>11, <1>12, <1>13, <1>14,
     <1>15, <1>18 DEF Next, Done

\* do_request begins with all of the body still to come.
LEMMA InitGives ==
  ASSUME Init
  PROVE  GivesInv
<1>1. req \in Request
  BY ConstantsAssumption DEF Init
<1>2. req.preview \in Int /\ req.rest \in Nat /\ req.hasbody \in BOOLEAN
  BY <1>1, RequestFields
<1>3. ~req.hasbody => arrived + coming = 0
  BY <1>2 DEF Init
<1> QED
  BY <1>3 DEF Init, GivesInv, Rounds, Passing

\* get_send_body and do_request call the end-of-data handler only after the
\* service has been given all of the body, for all requests of services that
\* can hold the body or that pass it on over a connection that does not fail.
THEOREM GivesAlways ==
  ASSUME TakesAll
  PROVE  Spec => []ServiceGetsAll
<1>1. Init => TypeInv /\ GivesInv
  BY InitTyped, InitGives
<1>2. TypeInv /\ GivesInv /\ [Next]_vars => (TypeInv /\ GivesInv)'
  BY TypeStep, GivesStep
<1>3. TypeInv /\ GivesInv => ServiceGetsAll
  BY TypeFacts DEF GivesInv, ServiceGetsAll
<1> QED
  BY <1>1, <1>2, <1>3, PTL DEF Spec

-----------------------------------------------------------------------------
\* An error that closes the connection leaves nothing to be whole.
LEMMA ErrorWhole ==
  ASSUME pc' = "done", result' = "error", keepalive' = FALSE
  PROVE  WholeInv'
BY DEF WholeInv, Before, Passing, Rounds

\* How many items are where, from one field to the other.
LEMMA SendsCount ==
  ASSUME TypeInv
  PROVE  /\ send.sent \in Nat /\ send.items \in Nat /\ send.remain \in 0 .. 2
         /\ send.status \in 0 .. 6 /\ loop.fill \in Nat /\ Left \in Nat
         /\ loop.parse_only \in BOOLEAN /\ BodySize(req) \in Nat /\ BodyItems = BodySize(req)
<1>1. send \in Sends /\ loop \in Loops /\ arrived + coming \in Nat /\ req \in Request
  BY TypeFacts
<1> QED
  BY <1>1, SendFields, LoopFields, RequestFields DEF Left, Data, BodyItems, BodySize

\* An answer of which a block is still to be sent is not one of ec_responce.
LEMMA Unsent ==
  ASSUME TypeInv, Shape(send), send.remain > 0
  PROVE  Answer # <<"answer">>
<1> DEFINE a == AnswerOf(send.out)
<1>1. Answer = a /\ req.heads \in 0 .. 1
  BY TypeFacts, RequestFields, AnswerNow
<1>2. a = <<>> \/ a = <<"head">> \/ Chunks(a, Len(a))
  BY DEF Shape
<1> HIDE DEF a
<1>3. a # <<"answer">>
  <2>1. CASE a = <<>>
    BY <2>1
  <2>2. CASE a = <<"head">>
    BY <2>2
  <2>3. CASE Chunks(a, Len(a))
    <3>1. a[1] = "head"
      BY <2>3 DEF Chunks
    <3>2. <<"answer">>[1] = "answer"
      OBVIOUS
    <3> QED
      BY <3>1, <3>2
  <2> QED
    BY <1>2, <2>1, <2>2, <2>3
<1> QED
  BY <1>1, <1>3

\* The preview handler completes the answer, holds what it was given, or leaves
\* all of the body to come.
LEMMA WholeHandled ==
  ASSUME TypeInv, SendInv, GivesInv, WholeInv, PreviewHandler \/ FakePreview
  PROVE  WholeInv'
<1>a. /\ pc = "handler" /\ UNCHANGED <<req, arrived, pending, eof_received, ended>>
      /\ Handled204 \/ HandledContinue \/ HandledSilently \/ HandledFails
  BY HandlerEffect
<1>b. /\ req \in Request /\ send \in Sends /\ arrived \in Nat /\ coming \in Nat
      /\ req.preview \in Int /\ req.rest \in Nat /\ req.hasbody \in BOOLEAN
      /\ req.ieof \in BOOLEAN
  BY TypeFacts, RequestFields
<1>c. /\ send.sent = 0 /\ send.items = 0 /\ held = 0 /\ pending = 0 /\ result = "none"
      /\ req.hasbody /\ req.preview < 0 => arrived + coming = req.rest + 1
      /\ preview_status = "eof" /\ req.hasbody => req.ieof
      /\ req.preview >= 0 => arrived + coming = 0
      /\ eof_received => preview_status = "eof"
      /\ preview_status = "ok" /\ req.preview >= 0 => req.hasbody /\ ~req.ieof
      /\ preview_status = "eof" => req.preview >= 0
  <2>1. pending = 0 /\ (preview_status = "eof" => req.preview >= 0)
        /\ (preview_status = "ok" /\ req.preview >= 0 => req.hasbody /\ ~req.ieof)
    BY <1>a DEF GivesInv
  <2>2. held = 0 /\ (req.preview >= 0 => arrived + coming = 0)
        /\ (eof_received => preview_status = "eof")
    BY <1>a DEF TypeInv, Before
  <2> QED
    BY <1>a, <2>1, <2>2 DEF WholeInv, Before
<1>1. CASE Handled204
  <2>1. /\ pc' \in {"decide", "drop"} /\ send'.sent = 0 /\ send'.items = 0 /\ result' = "none"
        /\ pc' = "decide" => Code' \in {"200", "204"}
    BY <1>1, <1>c DEF Handled204, AnswerWritten, Code, Code204
  <2>2. Answer' = <<"answer">>
    BY <1>1, <1>a, NothingShape, WrittenShape DEF Handled204, SendInv, Place, Before, Answer
  <2> QED
    BY <2>1, <2>2 DEF WholeInv, Before, Rounds, Passing
<1>2. CASE HandledContinue
  <2>1. /\ req.hasbody /\ ~req.ieof /\ preview_status' = "ok" /\ pc' = "decide" /\ Code' = "100"
        /\ held' = req.preview /\ req.preview >= 0 /\ ~eof_received' /\ arrived' = 0
        /\ coming' \in {0, req.rest + 1} /\ pending' = 0 /\ result' = "none"
    BY <1>2, <1>a, <1>b, <1>c DEF HandledContinue, Code
  <2>2. send'.sent = 0 /\ send'.items = 0
    <3>1. PICK t : t = send'
      OBVIOUS
    <3>2. t = send \/ t = Put("100")
      BY <1>2, <3>1 DEF HandledContinue
    <3>3. t.sent = 0 /\ t.items = 0
      BY <1>b, <1>c, <3>2, PutFacts, Levels
    <3> QED
      BY <3>1, <3>3
  <2>3. Total' = BodySize(req)' \/ Lost'
    <3>1. CASE coming' = 0
      BY <2>1, <3>1 DEF Lost
    <3>2. CASE coming' = req.rest + 1
      <4>1. arrived' + coming' = req.rest + 1
        BY <1>b, <2>1, <3>2
      <4>2. Left' = req.rest
        BY <1>b, <4>1 DEF Left, Data
      <4>3. BodySize(req)' = req.preview + req.rest
        BY <1>a, <1>b, <2>1 DEF BodySize
      <4>4. Total' = req.preview + req.rest
        BY <1>b, <2>1, <2>2, <4>2 DEF Total
      <4> QED
        BY <4>3, <4>4
    <3> QED
      BY <2>1, <3>1, <3>2
  <2> QED
    BY <2>1, <2>2, <2>3 DEF WholeInv, Before, Rounds
<1>3. CASE HandledSilently
  <2>1. /\ pc' = "decide" /\ send' = send /\ coming' = coming /\ result' = "none"
    BY <1>3, <1>c DEF HandledSilently
  <2>2. Code' \in {"100", "200", "204", "206"}
    BY <1>3, <1>c DEF HandledSilently, Code
  <2>3. Code' = "100" => req.hasbody /\ req.preview < 0 /\ held' = 0
    BY <1>3, <1>b, <1>c DEF HandledSilently, Code
  <2>4. Code' = "100" => Total' = BodySize(req)'
    <3> SUFFICES ASSUME Code' = "100" PROVE Total' = BodySize(req)'
      OBVIOUS
    <3>1. arrived' + coming' = req.rest + 1
      BY <1>a, <1>b, <1>c, <2>1, <2>3
    <3>2. Left' = req.rest
      BY <1>b, <3>1 DEF Left, Data
    <3>3. BodySize(req)' = req.rest
      BY <1>a, <1>b, <2>3 DEF BodySize
    <3>4. Total' = req.rest
      BY <1>a, <1>b, <1>c, <2>1, <2>3, <3>2 DEF Total
    <3> QED
      BY <3>3, <3>4
  <2>5. Code' = "200" /\ req.hasbody => held' = BodySize(req)'
    <3> SUFFICES ASSUME Code' = "200", req.hasbody PROVE held' = BodySize(req)'
      OBVIOUS
    <3>1. preview_status = "eof" /\ req.preview >= 0 /\ held' = req.preview
      BY <1>3, <1>b, <1>c DEF HandledSilently, Code
    <3> QED
      BY <1>a, <1>b, <1>c, <3>1 DEF BodySize
  <2> QED
    BY <1>a, <1>c, <2>1, <2>2, <2>4, <2>5 DEF WholeInv, Before, Rounds, Passing
<1>4. CASE HandledFails
  BY Zenon, <1>4, ErrorWhole DEF HandledFails, Failed
<1> QED
  BY <1>a, <1>1, <1>2, <1>3, <1>4

\* A round loses no item.
LEMMA WholeIo ==
  ASSUME TakesAll, TypeInv, SendInv, GivesInv, WholeInv, Io
  PROVE  WholeInv'
<1>1. PICK take \in Nat, pend \in Nat, taken \in Nat, given \in Nat,
          eof \in BOOLEAN, seof \in BOOLEAN, again \in BOOLEAN :
         /\ IoFrom(take, pend, taken, given, eof, seof, again)
         /\ IoTo(pend, taken, given, eof, seof, again)
  BY IoEffect
<1>0. take \in Nat /\ pend \in Nat /\ taken \in Nat /\ given \in Nat
  BY <1>1
<1>2. UNCHANGED <<req, coming, data_locked, preview_status, ended, echo>> /\ pc = "io" /\ Rounds
  BY IoNamed DEF Rounds
<1>3. /\ seof => eof /\ taken = pend
      /\ Rounds' => ~seof
      /\ ~Rounds' => Return(eof) /\ eof /\ taken = pend
  BY <1>1, <1>2, IoTakes
<1>4. /\ arrived' = arrived - take /\ take <= arrived /\ pending' = pend - taken /\ taken <= pend
      /\ eof_received' = eof /\ (eof => arrived' + coming' = 0 /\ ~again)
      /\ held' = IF loop.parse_only THEN held ELSE held + taken - given
      /\ pend + Left' = pending + Left
      /\ given > 0 => send.status = SEND_BODY /\ ~loop.formated
      /\ arrived + coming = 0 => take = 0 /\ (eof <=> eof_received)
      /\ ~loop.parse_only =>
           /\ given <= held + taken
           /\ send.status = SEND_BODY /\ ~loop.service_eof /\ ~loop.formated =>
                given = Smaller(ChunkMax - loop.fill, held + taken)
  BY <1>1, <1>2 DEF IoFrom, Left
<1>5. /\ ~loop.service_eof /\ (loop.formated <=> send.remain > 0)
      /\ ~loop.parse_only => send.status # SEND_EOF
      /\ loop.fill > 0 => send.status = SEND_BODY /\ send.remain = 0
      /\ result = "none" /\ (~loop.parse_only => Total = BodySize(req) \/ Lost)
      /\ loop.parse_only => /\ send.sent = 0 /\ send.items = 0 /\ send.status = SEND_NOTHING
                            /\ Drops(req)
      /\ Shape(send) /\ (preview_status = "eof" => req.preview >= 0)
  <2>1. /\ ~loop.service_eof /\ (loop.formated <=> send.remain > 0)
        /\ ~loop.parse_only => send.status # SEND_EOF
        /\ loop.fill > 0 => send.status = SEND_BODY /\ send.remain = 0
    BY <1>2 DEF GivesInv
  <2>2. /\ result = "none" /\ (~loop.parse_only => Total = BodySize(req) \/ Lost)
        /\ loop.parse_only => send.sent = 0 /\ send.items = 0
    BY <1>2 DEF WholeInv, Passing
  <2>3. /\ loop.parse_only => send.status = SEND_NOTHING /\ Drops(req)
        /\ Shape(send) /\ (preview_status = "eof" => req.preview >= 0)
    BY <1>2 DEF SendInv, Place
  <2> QED
    BY <2>1, <2>2, <2>3
<1>6. /\ send \in Sends /\ req \in Request /\ held \in Nat /\ pending \in Nat /\ arrived \in Nat
      /\ coming \in Nat /\ ChunkMax \in Nat /\ ChunkMax > 0 /\ loop.fill <= ChunkMax
      /\ loop.formated \in BOOLEAN /\ req.preview \in Int
  BY TypeFacts, LoopFields, RequestFields
<1>7. /\ send.sent \in Nat /\ send.items \in Nat /\ send.remain \in 0 .. 2
      /\ loop.fill \in Nat /\ Left \in Nat /\ loop.parse_only \in BOOLEAN
      /\ BodySize(req) \in Nat /\ BodySize(req)' = BodySize(req)
  BY <1>2, SendsCount DEF BodySize
<1>t. /\ send.sent \in Nat /\ send.items \in Nat /\ loop.fill \in Nat /\ Left \in Nat
      /\ held \in Nat /\ pending \in Nat
  BY <1>6, <1>7
<1>8. Left' \in Nat
  BY <1>2, <1>4, <1>6 DEF Left, Data
<1>9. Lost => Lost' /\ ~eof
  BY <1>2, <1>4, <1>6 DEF Lost
\* What is sent, being sent or in the buffer.
<1>10. ASSUME ~again, ~loop.parse_only
       PROVE  /\ send'.sent + send'.items = send.sent + send.items + loop.fill + given
              /\ send'.status = SEND_EOF => held + taken = 0
  <2>1. PICK t : t = send'
    OBVIOUS
  <2>2. t = Formatted(loop.fill + given, seof) /\ loop.fill + given \in Nat
    BY <1>1, <1>7, <1>10, <2>1 DEF IoTo
  <2>3. CASE loop.fill + given > 0
    <3>1. send.status = SEND_BODY /\ send.remain = 0 /\ ~loop.formated
      BY <1>4, <1>5, <1>7, <2>3
    <3>2. send.items = 0
      BY <1>5, <3>1 DEF Shape
    <3>3. t.status = SEND_BODY /\ t.items = loop.fill + given /\ t.sent = send.sent
      BY <1>6, <2>2, <2>3, <3>1, FormattedStatus
    <3> QED
      BY <1>7, <2>1, <3>2, <3>3
  <2>4. CASE loop.fill + given = 0 /\ send.status = SEND_BODY /\ ~loop.formated /\ seof
    <3>1. loop.fill = 0 /\ given = 0 /\ send.remain = 0
      <4>1. loop.fill = 0 /\ given = 0
        BY <1>0, <1>7, <2>4
      <4>2. ~(send.remain > 0)
        BY <1>5, <2>4
      <4> QED
        BY <1>7, <4>1, <4>2
    <3>2. held + taken = 0
      BY <1>4, <1>5, <1>6, <1>10, <2>4, <3>1 DEF Smaller
    <3>3. t = format_body_chunk(send, 0)
      BY <2>2, <2>4, <3>1 DEF Formatted
    <3>4. t.sent = send.sent /\ t.items = 0 /\ send.items = 0
      BY <1>5, <1>6, <2>4, <3>1, <3>3, FormatFacts DEF Shape
    <3> QED
      BY <1>7, <2>1, <3>1, <3>2, <3>4
  <2>5. CASE /\ loop.fill + given = 0
             /\ ~(send.status = SEND_BODY /\ ~loop.formated /\ seof)
    <3>1. t = send
      BY <1>6, <2>2, <2>5, FormattedStatus
    <3>2. send.sent + send.items = send.sent + send.items + loop.fill + given
      <4>1. loop.fill + given = 0
        BY <2>5
      <4>2. PICK a \in Nat, b \in Nat, c \in Nat, d \in Nat :
              a = send.sent /\ b = send.items /\ c = loop.fill /\ d = given
        BY <1>0, <1>t
      <4>3. c + d = 0
        BY <4>1, <4>2
      <4>4. a + b = a + b + c + d
        BY <4>3
      <4> QED
        BY <4>2, <4>4
    <3> QED
      BY <1>5, <1>10, <2>1, <3>1, <3>2
  <2> QED
    BY <1>7, <2>3, <2>4, <2>5
<1>11. ~loop.parse_only => held' \in Nat /\ held' + pending' + Left' + given = held + pending + Left
  <2> SUFFICES ASSUME ~loop.parse_only
               PROVE  held' \in Nat /\ held' + pending' + Left' + given = held + pending + Left
    OBVIOUS
  <2>1. held' = held + taken - given /\ given <= held + taken /\ pending' = pend - taken
        /\ pend + Left' = pending + Left /\ taken <= pend
    BY <1>4
  <2>2. PICK h \in Nat, t \in Nat, g \in Nat, p \in Nat, l \in Nat, m \in Nat, q \in Nat :
          h = held /\ t = taken /\ g = given /\ p = pending /\ l = Left /\ m = Left' /\ q = pend
    BY <1>0, <1>t, <1>8
  <2>3. g <= h + t /\ t <= q /\ q + m = p + l
    BY Zenon, <2>1, <2>2
  <2>4. h + t - g \in Nat /\ (h + t - g) + (q - t) + m + g = h + p + l
    BY <2>3
  <2> QED
    BY Zenon, <2>1, <2>2, <2>4
<1>12. Total = send.sent + send.items + loop.fill + held + pending + Left
  BY <1>2 DEF Total
<1>13. pending' \in Nat
  BY <1>4
<1>14. loop.parse_only => send' = send
  <2>1. send.status # SEND_BODY => Formatted(loop.fill + given, seof) = send
    BY DEF Formatted
  <2> QED
    BY <1>1, <1>5, <2>1 DEF IoTo
<1>15. CASE Rounds'
  <2>1. /\ loop'.parse_only = loop.parse_only /\ loop'.fill = loop.fill + given
        /\ pc' \in {"wait", "io"} /\ UNCHANGED result
    BY <1>1, <1>15, TypeFacts, ReturnFacts DEF IoTo, Rounds
  <2>2. ~loop.parse_only => Total' = Total
    <3> SUFFICES ASSUME ~loop.parse_only PROVE Total' = Total
      OBVIOUS
    <3>1. CASE pc' = "io"
      <4>1. send' = send
        BY <1>1, <3>1, TypeFacts, ReturnFacts DEF IoTo
      <4>2. Total' = send.sent + send.items + (loop.fill + given) + held' + pending' + Left'
        BY <2>1, <3>1, <4>1 DEF Total
      <4>3. held' \in Nat /\ held' + pending' + Left' + given = held + pending + Left
        BY <1>11
      <4>4. PICK a \in Nat, b \in Nat, f \in Nat, g \in Nat, h \in Nat, p \in Nat, l \in Nat,
                 h2 \in Nat, p2 \in Nat, l2 \in Nat :
              /\ a = send.sent /\ b = send.items /\ f = loop.fill /\ g = given /\ h = held
              /\ p = pending /\ l = Left /\ h2 = held' /\ p2 = pending' /\ l2 = Left'
        BY <1>0, <1>t, <1>8, <1>13, <4>3
      <4>5. h2 + p2 + l2 + g = h + p + l
        BY Zenon, <4>3, <4>4
      <4>6. a + b + (f + g) + h2 + p2 + l2 = a + b + f + h + p + l
        BY <4>5
      <4> QED
        BY <1>12, <4>2, <4>4, <4>6
    <3>2. CASE pc' = "wait"
      <4>1. ~again
        BY <1>1, <3>2 DEF IoTo
      <4>2. Total' = send'.sent + send'.items + 0 + held' + pending' + Left'
        BY <3>2 DEF Total
      <4>3. send'.sent + send'.items = send.sent + send.items + loop.fill + given
        BY <1>10, <4>1
      <4> QED
        BY <1>6, <1>7, <1>8, <1>11, <1>12, <1>13, <4>2, <4>3
    <3> QED
      BY <2>1, <3>1, <3>2
  <2>3. ~loop.parse_only => Total' = BodySize(req)' \/ Lost'
    BY <1>5, <1>7, <1>9, <2>2
  <2> QED
    BY <1>5, <1>14, <2>1, <2>3 DEF WholeInv, Before, Rounds, Passing
<1>16. CASE ~Rounds'
  <2>1. eof /\ taken = pend /\ ~again /\ pending' = 0 /\ Left' = 0 /\ Return(eof)
    BY <1>3, <1>4, <1>16 DEF Left, Data
  <2>2. CASE loop.parse_only
    <3>1. pc' = "decide" /\ return_code' = "204" /\ UNCHANGED result
      BY Zenon, <2>1, <2>2, TypeFacts, ReturnFacts
    <3>2. Code' = "204"
      <4>1. preview_status' # "eof"
        BY <1>2, <1>5, <1>6, <2>2 DEF Drops
      <4> QED
        BY <3>1, <4>1 DEF Code
    <3> QED
      BY <1>5, <1>14, <2>2, <3>1, <3>2 DEF WholeInv, Before, Rounds, Passing
  <2>3. CASE ~loop.parse_only
    <3>1. pc' = "end" /\ UNCHANGED result
      BY Zenon, <2>1, <2>3, TypeFacts, ReturnFacts
    <3>2. Total = BodySize(req)
      BY <1>5, <1>9, <2>1, <2>3
    <3>3. send'.sent + send'.items = send.sent + send.items + loop.fill + given
      BY <1>10, <2>1, <2>3
    <3>4. send'.sent + send'.items + held' = BodySize(req)'
      BY <1>4, <1>6, <1>7, <1>11, <1>12, <2>1, <2>3, <3>2, <3>3
    <3>5. send'.status = SEND_EOF => held' = 0
      BY <1>4, <1>6, <1>10, <2>1, <2>3
    <3> QED
      BY <1>5, <3>1, <3>4, <3>5 DEF WholeInv, Before, Rounds, Passing
  <2> QED
    BY <1>7, <2>2, <2>3
<1> QED
  BY <1>15, <1>16


\* Until the preview handler is called, nothing has been answered.
LEMMA WholeBefore ==
  ASSUME Undisturbed, TypeInv, SendInv, GivesInv, WholeInv, Options \/ Start \/ ReadPreview
  PROVE  WholeInv'
<1>a. /\ req \in Requests /\ req \in Request /\ send \in Sends /\ req.preview \in Int
      /\ req.hasbody \in BOOLEAN /\ req.ieof \in BOOLEAN
  BY TypeFacts, RequestFields
<1>b. Before
  BY DEF Options, Start, ReadPreview, Before
<1>c. /\ send.sent = 0 /\ send.items = 0 /\ result = "none" /\ send.out = <<>>
      /\ req.hasbody /\ req.preview < 0 => arrived + coming = req.rest + 1
      /\ preview_status = "eof" => req.preview >= 0
      /\ ~req.hasbody => arrived + coming = 0
      /\ pending = 0
  <2>1. send.out = <<>>
    BY <1>b DEF SendInv, Place
  <2>2. /\ preview_status = "eof" => req.preview >= 0
        /\ ~req.hasbody => arrived + coming = 0
        /\ pending = 0
    BY <1>b DEF GivesInv, Before
  <2> QED
    BY <1>b, <2>1, <2>2 DEF WholeInv, Before
<1>1. CASE Options
  <2>1. ~req.hasbody /\ ~req.faults
    BY <1>1, <1>a DEF Options, Undisturbed
  <2>2. /\ pc' = "done" /\ result' = "ok" /\ send' = Put("answer")
        /\ UNCHANGED <<arrived, coming, pending>>
    BY <1>1, <2>1 DEF Options, Outcomes, Finish, input
  <2>3. PICK t : t = send'
    OBVIOUS
  <2>4. t.out = <<"answer">>
    BY <1>a, <1>c, <2>2, <2>3, PutFacts DEF Blocks
  <2>5. Answer' = <<"answer">>
    BY <2>3, <2>4 DEF Answer
  <2>6. Complete'
    BY <2>5 DEF Complete
  <2>7. arrived' + coming' = 0 /\ pending' = 0
    BY <1>c, <2>1, <2>2
  <2> QED
    BY <2>2, <2>6, <2>7 DEF WholeInv, Before, Rounds, Passing
<1>2. CASE Start
  <2>1. /\ pc' \in {"preview", "handler"} /\ (pc' = "handler" => ~(req.preview >= 0))
        /\ UNCHANGED <<req, arrived, coming, preview_status, send, result>>
    BY <1>2 DEF Start, input
  <2> QED
    BY <1>c, <2>1 DEF WholeInv, Before, Rounds, Passing
<1>3. CASE ReadPreview
  <2>1. CASE Fails
    BY <2>1, FailsFacts, ErrorWhole DEF Failed
  <2>2. CASE /\ pc' = "handler"
             /\ preview_status' = IF ~req.hasbody \/ req.ieof THEN "eof" ELSE "ok"
             /\ UNCHANGED <<send, return_code, keepalive, result>>
    <3>1. UNCHANGED <<req, arrived, coming>>
      BY <1>3 DEF ReadPreview
    <3>2. preview_status' = "eof" /\ req'.hasbody => req'.ieof
      BY <1>a, <2>2, <3>1
    <3> QED
      BY <1>c, <2>2, <3>1, <3>2 DEF WholeInv, Before, Rounds, Passing
  <2> QED
    BY <1>3, <2>1, <2>2 DEF ReadPreview
<1> QED
  BY <1>1, <1>2, <1>3

\* What do_request decides on is an answer that is complete, a body that
\* comes, or one that the service holds.
LEMMA WholeDecided ==
  ASSUME TypeInv, SendInv, GivesInv, WholeInv, Drop \/ Decide
  PROVE  WholeInv'
<1>a. /\ req \in Request /\ send \in Sends /\ arrived \in Nat /\ coming \in Nat
      /\ held \in Nat /\ pending \in Nat /\ BodySize(req) \in Nat
  BY TypeFacts, RequestFields
<1>b. /\ pc \in {"drop", "decide"} /\ send.sent = 0 /\ send.items = 0 /\ result = "none"
      /\ pending = 0
      /\ UNCHANGED <<req, arrived, coming, pending, eof_received, held, preview_status>>
  <2>1. /\ pc \in {"drop", "decide"}
        /\ UNCHANGED <<req, arrived, coming, pending, eof_received, held, preview_status>>
    BY Zenon DEF Drop, Decide, input, service
  <2>2. pending = 0
    BY <2>1 DEF GivesInv
  <2> QED
    BY <2>1, <2>2 DEF WholeInv
<1>c. ASSUME send' = [send EXCEPT !.status = SEND_NOTHING]
      PROVE  send'.sent = 0 /\ send'.items = 0
  <2>1. PICK t : t = send'
    OBVIOUS
  <2>2. t.sent = 0 /\ t.items = 0
    BY <1>a, <1>b, <1>c, <2>1, StatusFacts, Levels
  <2> QED
    BY <2>1, <2>2
<1>1. CASE Drop
  <2>1. pc' = "wait" /\ loop'.parse_only = TRUE /\ result' = "none"
    BY Zenon, <1>1, <1>b, StartType DEF Drop
  <2>2. send'.sent = 0 /\ send'.items = 0
    BY <1>1, <1>c DEF Drop
  <2> QED
    BY <2>1, <2>2 DEF WholeInv, Before, Rounds, Passing
<1>2. CASE Decide
  <2>a. pc = "decide" /\ Code \in {"100", "200", "204", "206"}
    BY <1>2 DEF Decide, WholeInv
  <2>b. \/ send.status = SEND_NOTHING /\ Answer = <<>> /\ return_code # "204"
        \/ Answer = <<"answer">>
    BY <2>a DEF SendInv, Place
  <2>1. CASE Code = "204" /\ pc' = "done" /\ result' = "ok" /\ send' = send
    <3>1. Answer = <<"answer">>
      BY <2>1, <2>b DEF Code
    <3>2. Complete'
      BY <2>1, <3>1 DEF Complete, Answer
    <3>3. arrived + coming = 0
      BY <2>1, <2>a DEF GivesInv
    <3>4. arrived' + coming' = 0 /\ pending' = 0
      BY <1>b, <3>3
    <3> QED
      BY <2>1, <3>2, <3>4 DEF WholeInv, Before, Rounds, Passing
  <2>2. CASE /\ Code = "100" /\ pc' = "wait" /\ StartLoop(FALSE) /\ UNCHANGED result
             /\ send' = [send EXCEPT !.status = SEND_NOTHING]
    <3>1. send'.sent = 0 /\ send'.items = 0
      BY <2>2, <1>c
    <3>2. Total = BodySize(req) \/ Lost
      BY <2>2, <2>a DEF WholeInv, Passing
    <3>3. Left \in Nat /\ Left' = Left
      BY <1>a, <1>b DEF Left, Data
    <3>4. Total' = Total
      BY <1>a, <1>b, <2>a, <2>2, <3>1, <3>3 DEF Total
    <3>5. BodySize(req)' = BodySize(req) /\ (Lost => Lost')
      BY <1>b DEF BodySize, Lost
    <3>6. Total' = BodySize(req)' \/ Lost'
      BY <3>2, <3>4, <3>5
    <3> QED
      BY <1>b, <2>2, <3>1, <3>6 DEF WholeInv, Before, Rounds, Passing
  <2>3. CASE Code \notin {"204", "100"} /\ return_code' = Code /\ pc' = "end"
             /\ UNCHANGED <<send, result>>
    <3>1. ASSUME req'.hasbody, Answer' # <<"answer">>, return_code' # "206"
          PROVE  /\ (send.sent + send.items + held)' = BodySize(req)'
                 /\ send'.status = SEND_EOF => held' = 0
      <4>1. Answer # <<"answer">> /\ Code = "200" /\ req.hasbody
        BY <1>b, <2>a, <2>3, <3>1 DEF Answer
      <4>2. send.status = SEND_NOTHING /\ Answer = <<>>
        BY <2>b, <4>1
      <4>3. held = BodySize(req)
        BY <2>a, <4>1, <4>2 DEF WholeInv
      <4>4. send' = send /\ held' = held /\ BodySize(req)' = BodySize(req)
        BY <1>b, <2>3 DEF BodySize
      <4> QED
        BY <1>a, <1>b, <4>2, <4>3, <4>4
    <3> QED
      BY <1>b, <2>3, <3>1 DEF WholeInv, Before, Rounds, Passing
  <2> QED
    BY Zenon, <1>2, <2>1, <2>2, <2>3 DEF Decide, Code, Finish
<1> QED
  BY <1>1, <1>2


\* The upper half of a round moves items to the client and loses none.
LEMMA WholeWait ==
  ASSUME TypeInv, SendInv, GivesInv, WholeInv, Wait
  PROVE  WholeInv'
<1>1. /\ pc = "wait" /\ pc' = "io" /\ loop'.parse_only = loop.parse_only /\ loop'.fill = 0
      /\ arrived' + coming' = arrived + coming
      /\ UNCHANGED <<req, pending, eof_received, data_locked, preview_status, held, result>>
  BY WaitEffect DEF service
<1>2. PICK s : (s = send \/ s \in SendSome(send)) /\ send' = Refilled(s)
  BY WaitEffect
<1>3. /\ req \in Request /\ send \in Sends /\ held \in Nat /\ pending \in Nat /\ Left \in Nat
      /\ send.sent \in Nat /\ send.items \in Nat
  BY TypeFacts, SendsCount
<1>4. /\ result = "none" /\ (~loop.parse_only => Total = BodySize(req) \/ Lost)
      /\ loop.parse_only => send.sent = 0 /\ send.items = 0
  BY <1>1 DEF WholeInv, Passing, Rounds
<1>5. /\ Shape(send) /\ (preview_status = "eof" => req.preview >= 0)
      /\ loop.parse_only => send.status = SEND_NOTHING /\ data_locked
      /\ ~loop.parse_only => Answer # <<"answer">>
  BY <1>1 DEF SendInv, Place, Rounds
<1>6. s \in Sends /\ Shape(s) /\ s.status = send.status /\ (send.remain = 0 => s = send)
      /\ s.sent + s.items = send.sent + send.items
  BY <1>2, <1>3, <1>5, SendSomeFacts
<1>7. send.status = SEND_NOTHING => s = send /\ AnswerOf(s.out) \in {<<>>, <<"answer">>}
  BY <1>5, <1>6, NothingShape, AnswerNow
<1>8. CASE loop.parse_only
  <2>1. send' = send
    BY <1>2, <1>5, <1>7, <1>8 DEF Refilled
  <2> QED
    BY <1>1, <1>4, <1>8, <2>1 DEF WholeInv, Before, Rounds, Passing
<1>9. CASE ~loop.parse_only
  <2>1. PICK t : t = send'
    OBVIOUS
  <2>2. s.status = SEND_NOTHING => AnswerOf(s.out) = <<>>
    BY <1>5, <1>6, <1>7, <1>9, AnswerNow
  <2>3. t \in Sends /\ t.sent + t.items = send.sent + send.items
    <3>1. CASE ~data_locked /\ s.remain = 0
      <4>1. t = update_send_status(s)
        BY <1>2, <2>1, <3>1 DEF Refilled
      <4>2. t \in Sends /\ t.sent = s.sent /\ t.items = s.items
        BY <1>3, <1>6, <2>2, <3>1, <4>1, UpdateFacts
      <4> QED
        BY <1>6, <4>2
    <3>2. CASE ~(~data_locked /\ s.remain = 0)
      BY <1>2, <1>6, <2>1, <3>2 DEF Refilled
    <3> QED
      BY <3>1, <3>2
  <2>4. t.sent \in Nat /\ t.items \in Nat
    BY <2>3, SendFields
  <2>5. Left' = Left /\ BodySize(req)' = BodySize(req) /\ (Lost => Lost')
    BY <1>1 DEF Left, BodySize, Lost
  <2>6. Total' = t.sent + t.items + 0 + held + pending + Left
    BY <1>1, <2>1, <2>5 DEF Total
  <2>7. Total = send.sent + send.items + 0 + held + pending + Left
    BY <1>1 DEF Total
  <2>8. Total' = BodySize(req)' \/ Lost'
    BY <1>4, <1>9, <2>3, <2>5, <2>6, <2>7
  <2> QED
    BY <1>1, <1>4, <1>9, <2>8 DEF WholeInv, Before, Rounds, Passing
<1> QED
  BY <1>8, <1>9, TypeFacts, LoopFields

\* A round that fails closes the connection.
LEMMA WholeFails ==
  ASSUME Undisturbed, TypeInv, SendInv, GivesInv, WaitFails \/ RoundFails
  PROVE  WholeInv'
<1>1. Rounds /\ req.faults /\ req \in Requests /\ loop \in Loops /\ keepalive \in BOOLEAN
  BY Zenon, TypeFacts DEF WaitFails, RoundFails, Rounds
<1>2. ~loop.parse_only
  BY <1>1 DEF SendInv, Place, Undisturbed
<1>3. ~eof_received
  BY <1>1 DEF GivesInv, Tight
<1>4. Return(FALSE)
  BY <1>3 DEF WaitFails, RoundFails, Return
<1>5. pc' = "done" /\ result' = "error" /\ keepalive' = FALSE
  BY Zenon, <1>1, <1>2, <1>4, ReturnFacts
<1> QED
  BY Zenon, <1>5, ErrorWhole

\* The end-of-data handler leaves the answer to be sent, or completes it.
LEMMA WholeEnd ==
  ASSUME TypeInv, SendInv, GivesInv, WholeInv, EndOfData
  PROVE  WholeInv'
<1>1. /\ pc = "end" /\ UNCHANGED <<req, arrived, coming, pending, held>>
      /\ EndGoesOn \/ Ends204 \/ EndFails
  BY EndEffect DEF input
<1>2. arrived + coming = 0 /\ pending = 0
  BY <1>1 DEF GivesInv
<1>3. ASSUME AnswerWritten, ~Sent
      PROVE  Answer' = <<"answer">>
  <2>1. send.status = SEND_NOTHING /\ Answer = <<>> /\ Shape(send)
    BY <1>1, <1>3 DEF Sent, SendInv, Place
  <2> QED
    BY <1>1, <1>3, <2>1, NothingShape, WrittenShape
<1>4. CASE EndGoesOn
  <2>1. pc' = "rest" /\ result' = "none"
    BY <1>1, <1>4 DEF EndGoesOn, WholeInv
  <2>2. ASSUME req'.hasbody, Answer' # <<"answer">>, return_code' # "206"
        PROVE  /\ (send.sent + send.items + held)' = BodySize(req)'
               /\ send'.status = SEND_EOF => held' = 0
    <3>1. send' = send /\ return_code' = return_code
      BY <1>3, <1>4, <2>2 DEF EndGoesOn
    <3>2. Answer' = Answer /\ BodySize(req)' = BodySize(req)
      BY <1>1, <3>1 DEF Answer, BodySize
    <3>3. /\ send.sent + send.items + held = BodySize(req)
          /\ send.status = SEND_EOF => held = 0
      BY <1>1, <2>2, <3>1, <3>2 DEF WholeInv
    <3> QED
      BY <1>1, <3>1, <3>2, <3>3
  <2> QED
    BY <2>1, <2>2 DEF WholeInv, Before, Rounds, Passing
<1>5. CASE Ends204
  <2>1. Complete' /\ pc' = "done" /\ result' = "ok"
    BY <1>3, <1>5 DEF Ends204, Complete
  <2>2. arrived' + coming' = 0 /\ pending' = 0
    BY <1>1, <1>2
  <2> QED
    BY <2>1, <2>2 DEF WholeInv, Before, Rounds, Passing
<1>6. CASE EndFails
  BY Zenon, <1>6, ErrorWhole DEF EndFails, Failed
<1> QED
  BY <1>1, <1>4, <1>5, <1>6

\* send_remaining_response sends what the service holds, to the last item.
LEMMA WholeRest ==
  ASSUME TypeInv, SendInv, GivesInv, WholeInv, SendRest \/ ReadRest \/ UpdateRest
  PROVE  WholeInv'
<1>1. /\ pc = "rest" /\ result = "none"
      /\ UNCHANGED <<req, arrived, coming, pending, return_code>>
  <2>1. pc = "rest" /\ UNCHANGED <<req, arrived, coming, pending, return_code>>
    BY DEF SendRest, ReadRest, UpdateRest, input
  <2> QED
    BY <2>1 DEF WholeInv
<1>2. /\ req \in Request /\ send \in Sends /\ held \in Nat /\ ChunkMax \in Nat /\ ChunkMax > 0
      /\ send.sent \in Nat /\ send.items \in Nat /\ BodySize(req) \in Nat
      /\ BodyItems = BodySize(req) /\ req.hasbody \in BOOLEAN
  BY TypeFacts, SendsCount, RequestFields
<1>3. /\ Shape(send) /\ (send.status = SEND_NOTHING => Answer = <<>>)
      /\ send.status = SEND_EOF => Answer # <<>>
  BY <1>1 DEF SendInv, Place
<1>4. req.hasbody /\ Answer # <<"answer">> /\ return_code # "206"
      => /\ send.sent + send.items + held = BodySize(req)
         /\ send.status = SEND_EOF => held = 0
  BY <1>1 DEF WholeInv
<1>5. PICK t : t = send'
  OBVIOUS
<1>6. BodySize(req)' = BodySize(req)
  BY <1>1 DEF BodySize
<1>7. CASE SendRest
  <2>1. /\ pc' = "rest" /\ result' = "none" /\ held' = held /\ send.remain > 0
        /\ t \in SendSome(send)
    BY <1>1, <1>5, <1>7 DEF SendRest, service
  <2>2. Answer # <<"answer">>
    BY <1>3, <2>1, Unsent
  <2>3. t.status = send.status /\ t.sent + t.items = send.sent + send.items
    BY <1>2, <1>3, <2>1, SendSomeFacts
  <2>4. req'.hasbody /\ return_code' # "206"
        => /\ send'.sent + send'.items + held' = BodySize(req)'
           /\ send'.status = SEND_EOF => held' = 0
    BY <1>1, <1>4, <1>5, <1>6, <2>1, <2>2, <2>3
  <2> QED
    BY <2>1, <2>4 DEF WholeInv, Before, Rounds, Passing
<1>8. CASE ReadRest
  <2>1. /\ pc' = "rest" /\ result' = "none" /\ send.remain = 0 /\ send.status = SEND_BODY
    BY <1>1, <1>8 DEF ReadRest
  <2>2. PICK n \in Nat : n = Smaller(ChunkMax, held)
    BY <1>2 DEF Smaller
  <2>3. t = format_body_chunk(send, n) /\ held' = held - n
    BY <1>5, <1>8, <2>2 DEF ReadRest
  <2>4. n <= held /\ (n = 0 => held = 0)
    BY <1>2, <2>2 DEF Smaller
  <2>5. /\ t.out = send.out /\ t.sent = send.sent /\ t.items = n
        /\ t.status = IF n > 0 THEN SEND_BODY ELSE SEND_EOF
        /\ AnswerOf(t.out) \notin {<<>>, <<"answer">>}
    BY <1>2, <1>3, <2>1, <2>3, FormatFacts
  <2>6. Answer # <<"answer">> /\ send.items = 0
    BY <1>3, <2>1, <2>5, AnswerNow DEF Shape
  <2>7. t.sent + t.items + held' = send.sent + send.items + held
    BY <1>2, <2>3, <2>4, <2>5, <2>6
  <2>8. t.status = SEND_EOF => held' = 0
    BY <1>2, <2>3, <2>4, <2>5
  <2>9. req'.hasbody /\ return_code' # "206"
        => /\ send'.sent + send'.items + held' = BodySize(req)'
           /\ send'.status = SEND_EOF => held' = 0
    BY <1>1, <1>4, <1>5, <1>6, <2>6, <2>7, <2>8
  <2> QED
    BY <2>1, <2>9 DEF WholeInv, Before, Rounds, Passing
<1>9. CASE UpdateRest
  <2>1. /\ send.remain = 0 /\ send.status # SEND_BODY /\ held' = held
        /\ t = update_send_status(send)
        /\ IF t.status = SEND_EOF THEN pc' = "done" /\ result' = "ok"
           ELSE pc' = "rest" /\ result' = "none"
    BY <1>1, <1>5, <1>9 DEF UpdateRest, service, Finish
  <2>2. /\ t \in Sends /\ Shape(t) /\ t.out = send.out /\ t.sent = send.sent
        /\ t.items = send.items
        /\ t.status = SEND_EOF =>
             send.status = SEND_EOF \/ (~req.hasbody /\ AnswerOf(t.out) # <<>>)
        /\ send.status = SEND_EOF => t = send
    BY <1>2, <1>3, <2>1, UpdateFacts, AnswerNow
  <2>3. Answer' = Answer /\ Answer = AnswerOf(t.out)
    BY <1>5, <2>2, AnswerNow DEF Answer
  <2>4. CASE t.status # SEND_EOF
    <3>1. pc' = "rest" /\ result' = "none" /\ send'.status # SEND_EOF
      BY <1>5, <2>1, <2>4
    <3>2. req'.hasbody /\ Answer' # <<"answer">> /\ return_code' # "206"
          => send'.sent + send'.items + held' = BodySize(req)'
      BY <1>1, <1>4, <1>5, <1>6, <2>1, <2>2, <2>3
    <3> QED
      BY <3>1, <3>2 DEF WholeInv, Before, Rounds, Passing
  <2>5. CASE t.status = SEND_EOF
    <3>1. pc' = "done" /\ result' = "ok" /\ Answer # <<>>
      BY <1>3, <2>1, <2>2, <2>3, <2>5
    <3>2. t.remain = 0
      <4>1. send.status = SEND_EOF => t.remain = 0
        BY <2>1, <2>2
      <4>2. ~req.hasbody => ~(t.remain > 0)
        BY <2>2, <2>5 DEF Shape
      <4>3. t.remain \in 0 .. 2
        BY <2>2, SendFields
      <4> QED
        BY <2>2, <2>5, <4>1, <4>2, <4>3
    <3>3. \/ Answer = <<"answer">>
          \/ ~req.hasbody /\ Len(Answer) = 1 + req.heads
          \/ Whole(Answer) /\ req.hasbody
      BY <2>2, <2>3, <2>5, <3>1, <3>2 DEF Shape
    <3>4. ASSUME Whole(Answer), req.hasbody, Answer # <<"answer">>
          PROVE  return_code = "206" \/ send.sent = BodyItems
      <4>1. send.status = SEND_EOF
        BY <2>2, <2>5, <3>4
      <4>2. send.items = 0
        BY <1>3, <4>1 DEF Shape
      <4> QED
        BY <1>2, <1>4, <3>4, <4>1, <4>2
    <3>5. Complete
      BY <3>1, <3>3, <3>4 DEF Complete, Whole
    <3>6. Complete'
      <4>1. send'.sent = send.sent /\ BodyItems' = BodyItems
        BY <1>1, <1>5, <2>2 DEF BodyItems, BodySize
      <4> QED
        BY <1>1, <2>3, <3>5, <4>1 DEF Complete
    <3>7. arrived' + coming' = 0 /\ pending' = 0
      BY <1>1 DEF GivesInv
    <3> QED
      BY <3>1, <3>6, <3>7 DEF WholeInv, Before, Rounds, Passing
  <2> QED
    BY <2>4, <2>5
<1> QED
  BY <1>7, <1>8, <1>9

\* Only a failed read of the service in send_remaining_response sets erred, and
\* no step resets it.
LEMMA ErredStays ==
  ASSUME TypeInv, erred, [Next]_vars
  PROVE  erred'
<1>1. CASE EndOfData
  BY <1>1, EndEffect
<1>2. CASE Io
  BY <1>2, IoNamed
<1>3. CASE PreviewHandler \/ FakePreview
  BY <1>3, HandlerEffect
<1>4. CASE Refused \/ Options \/ Start \/ ReadPreview \/ Drop \/ Decide
  BY <1>4 DEF Refused, Options, Start, ReadPreview, Drop, Decide, service
<1>5. CASE Wait \/ WaitFails \/ RoundFails
  BY <1>5 DEF Wait, WaitFails, RoundFails, service
<1>6. CASE SendRest \/ SendRestFails \/ ReadRest \/ UpdateRest
  BY <1>6 DEF SendRest, SendRestFails, ReadRest, UpdateRest, service
<1>7. CASE RestStale \/ RestStops \/ RestErrs
  BY <1>7 DEF RestStale, RestStops, RestErrs, service
<1>8. CASE UNCHANGED vars
  BY <1>8 DEF vars, service
<1> QED
  BY <1>1, <1>2, <1>3, <1>4, <1>5, <1>6, <1>7, <1>8 DEF Next, Done

\* Every step keeps the account of the items of the body, but for one in which
\* the service's I/O function fails or has nothing.
LEMMA WholeStep ==
  ASSUME TakesAll, Undisturbed, TypeInv, SendInv, GivesInv, WholeInv, [Next]_vars
  PROVE  erred' \/ WholeInv'
<1>1. CASE Refused
  BY Zenon, <1>1, FailsFacts, ErrorWhole DEF Refused, Failed, Finish
<1>2. CASE SendRestFails \/ RestErrs
  BY Zenon, <1>2, ErrorWhole DEF SendRestFails, RestErrs, Finish
<1>4. CASE RestStale \/ RestStops
  BY <1>4 DEF RestStale, RestStops
<1>3. CASE UNCHANGED vars
  <2>1. /\ UNCHANGED <<req, pc, send, return_code, keepalive, loop, result, preview_status>>
        /\ UNCHANGED <<coming, arrived, pending, eof_received, held>>
    BY <1>3 DEF vars, input, service
  <2>2. UNCHANGED <<Answer, BodySize(req), BodyItems, Left, Code>> /\ (Before' <=> Before)
        /\ (Rounds' <=> Rounds)
    BY <2>1 DEF Answer, BodySize, BodyItems, Left, Data, Code, Before, Rounds
  <2>3. (Complete' <=> Complete) /\ Total' = Total /\ (Lost' <=> Lost) /\ (Passing' <=> Passing)
    BY <2>1, <2>2 DEF Complete, Total, Lost, Passing
  <2> QED
    BY <2>1, <2>2, <2>3 DEF WholeInv
<1> QED
  BY <1>1, <1>2, <1>3, <1>4, WholeBefore, WholeHandled, WholeDecided, WholeWait, WholeFails, WholeIo,
     WholeEnd, WholeRest DEF Next, Done

\* do_request begins with every item still to come.
LEMMA InitWhole ==
  ASSUME Init
  PROVE  WholeInv
<1>1. req \in Request
  BY ConstantsAssumption DEF Init
<1>2. req.preview \in Int /\ req.rest \in Nat /\ req.hasbody \in BOOLEAN
  BY <1>1, RequestFields
<1>3. req.hasbody /\ req.preview < 0 => arrived + coming = req.rest + 1
  BY <1>2 DEF Init
<1> QED
  BY <1>3 DEF Init, WholeInv, Before, Rounds, Passing

\* do_request returns CI_OK only after a complete answer, and thread_main
\* keeps the connection only when the body was read to its end as well: for all
\* requests of services that can hold the body or pass it on, that keep their
\* data locked for a 204 to a body that still comes, over connections that do
\* not fail under an OPTIONS request or a body that is dropped, until the
\* service's I/O function fails or has nothing in send_remaining_response.
THEOREM WholeAlways ==
  ASSUME LocksFor204, TakesAll, Undisturbed
  PROVE  Spec => []DoneIsWhole
<1> DEFINE Inv == TypeInv /\ SendInv /\ GivesInv /\ (erred \/ WholeInv)
<1>1. Init => Inv
  BY InitTyped, InitGives, InitWhole
<1>2. Inv /\ [Next]_vars => Inv'
  BY TypeStep, SendStep, GivesStep, WholeStep, ErredStays
<1>3. Inv => DoneIsWhole
  <2> SUFFICES ASSUME Inv, ~erred PROVE DoneIsWhole
    BY DEF DoneIsWhole
  <2>1. /\ result = "ok" => Complete /\ arrived + coming = 0 /\ pending = 0
        /\ result = "error" => ~keepalive
        /\ pc = "done" => result # "none"
    BY DEF WholeInv
  <2>2. result \in {"none", "ok", "error"} /\ arrived \in Nat /\ coming \in Nat
    BY TypeFacts DEF TypeInv, TypeOK
  <2> QED
    BY <2>1, <2>2 DEF DoneIsWhole, KeptWhole, OkIsWhole
<1> QED
  BY <1>1, <1>2, <1>3, PTL DEF Spec
=============================================================================
