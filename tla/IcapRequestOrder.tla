-------------------------- MODULE IcapRequestOrder --------------------------
(* What the operators and the actions of IcapRequest do, for requests of any  *)
(* size with any number of items in a chunk of the answer, and the theorem    *)
(* that the answer goes out in order. IcapRequestProofs has the others.       *)
EXTENDS IcapRequest, TLAPS

USE DEF SEND_NOTHING, SEND_RESPHEAD, SEND_HEAD1, SEND_HEAD3, SEND_BODY, SEND_EOF, EOF

-----------------------------------------------------------------------------
Blocks == {"none", "answer", "100", "head", "header", "chunk", "stale", "end"}

Statuses == 0 .. 6
Remains == 0 .. 2

Sends == [status : Statuses, remain : Remains, block : Blocks, items : Nat, sent : Nat,
          out : Seq(Blocks)]

Loops == [parse_only : BOOLEAN, action : SUBSET {"r", "w"}, formated : BOOLEAN, fill : Nat,
          full : BOOLEAN, buffer : BOOLEAN, service_eof : BOOLEAN,
          ret : {"none", "more", "ok", "eof"}]

Rounds == pc \in {"wait", "io"}
Before == pc \in {"parsed", "preview", "handler"}
Code == IF preview_status = "eof" THEN "200" ELSE return_code

TypeInv ==
  /\ TypeOK /\ send \in Sends /\ loop \in Loops
  /\ pending <= 1 /\ held <= Capacity /\ loop.fill <= ChunkMax
  /\ partial => coming > 0
  /\ eof_received => arrived + coming = 0
  /\ Before => /\ ~echo /\ held = 0 /\ ~partial /\ arrived + coming <= req.rest + 1
               /\ req.preview >= 0 => arrived + coming = 0
               /\ eof_received => preview_status = "eof"
  /\ pc = "preview" => req.preview >= 0
  /\ echo => req.preview < 0 /\ req.hasbody /\ ~req.allow204

-----------------------------------------------------------------------------
\* The head and the headers of an answer, with chunks behind them, and with the end.
Chunks(a, n) ==
  /\ n >= 1 + req.heads /\ a[1] = "head" /\ (req.heads = 1 => a[2] = "header")
  /\ \A i \in (2 + req.heads) .. n : a[i] \in {"chunk", "stale"}

Whole(a) == Len(a) > 1 + req.heads /\ a[Len(a)] = "end" /\ Chunks(a, Len(a) - 1)

\* The blocks that were sent without "100 Continue", and what they are at each
\* send status.
AnswerOf(out) == IF out # <<>> /\ out[1] = "100" THEN Tail(out) ELSE out

Shape(s) ==
  \/ /\ s.status = SEND_NOTHING /\ s.remain = 0 /\ s.items = 0
     /\ AnswerOf(s.out) \in {<<>>, <<"answer">>}
  \/ /\ s.status = SEND_RESPHEAD /\ s.block = "head" /\ s.items = 0
     /\ AnswerOf(s.out) = IF s.remain = 0 THEN <<"head">> ELSE <<>>
  \/ /\ s.status = SEND_HEAD1 /\ s.block = "header" /\ s.items = 0 /\ req.heads = 1
     /\ AnswerOf(s.out) = IF s.remain = 0 THEN <<"head", "header">> ELSE <<"head">>
  \/ /\ s.status = SEND_BODY /\ req.hasbody /\ Chunks(AnswerOf(s.out), Len(AnswerOf(s.out)))
     /\ IF s.remain = 0 THEN s.items = 0 ELSE s.block = "chunk"
  \/ /\ s.status = SEND_EOF /\ s.items = 0
     /\ \/ s.remain = 0 /\ AnswerOf(s.out) \in {<<>>, <<"answer">>}
        \/ s.remain > 0 /\ s.block = "end" /\ Chunks(AnswerOf(s.out), Len(AnswerOf(s.out))) /\ req.hasbody
        \/ /\ s.remain = 0 /\ ~req.hasbody /\ Chunks(AnswerOf(s.out), Len(AnswerOf(s.out)))
           /\ Len(AnswerOf(s.out)) = 1 + req.heads
        \/ s.remain = 0 /\ Whole(AnswerOf(s.out)) /\ req.hasbody

\* Where do_request is when an answer has been begun.
Place ==
  /\ Before => send.status = SEND_NOTHING /\ send.out = <<>> /\ data_locked
               /\ return_code = "none" /\ send.sent = 0
  /\ pc = "drop" => /\ Answer = <<"answer">> /\ send.status = SEND_EOF /\ send.remain = 0
                    /\ Drops(req) /\ data_locked /\ send.sent = 0
  /\ pc = "decide" =>
       \/ send.status = SEND_NOTHING /\ Answer = <<>> /\ return_code # "204"
       \/ /\ Answer = <<"answer">> /\ send.remain = 0
          /\ \/ send.status = SEND_EOF /\ Code \in {"200", "204"}
             \/ send.status = SEND_NOTHING /\ Code = "204"
  /\ Rounds => /\ req.hasbody
               /\ IF loop.parse_only
                  THEN Drops(req) /\ data_locked /\ send.status = SEND_NOTHING /\ Answer = <<"answer">>
                  ELSE /\ Answer # <<"answer">>
                       /\ send.status = SEND_EOF => Answer # <<>>
                       /\ data_locked => send.status = SEND_NOTHING
  /\ pc = "end" => /\ data_locked => send.status \in {SEND_NOTHING, SEND_EOF}
                   /\ send.status = SEND_NOTHING => Answer = <<>>
                   /\ send.status = SEND_EOF => Answer # <<>>
                   /\ data_locked /\ send.status = SEND_EOF => Answer = <<"answer">>
  /\ pc = "rest" => /\ ~data_locked /\ ended
                    /\ send.status = SEND_NOTHING => Answer = <<>>
                    /\ send.status = SEND_EOF => Answer # <<>>
  /\ pc \notin {"rest", "done"} => ~ended
  /\ data_locked /\ ~ended => Answer \in {<<>>, <<"answer">>}
  /\ preview_status = "eof" => req.preview >= 0
  /\ pc = "io" => (loop.formated <=> send.remain > 0)

SendInv == Shape(send) /\ Place

-----------------------------------------------------------------------------
\* Data items among n items that end with the zero chunk, and those that have
\* not been parsed.
Data(n) == IF n > 0 THEN n - 1 ELSE 0
Left == Data(arrived + coming)

-----------------------------------------------------------------------------
\* The fields of the answer under way and of the loop.
LEMMA SendFields ==
  ASSUME NEW s \in Sends
  PROVE  /\ s.status \in 0 .. 6 /\ s.remain \in 0 .. 2 /\ s.block \in Blocks
         /\ s.items \in Nat /\ s.sent \in Nat /\ s.out \in Seq(Blocks)
BY DEF Sends, Statuses, Remains

\* Numbers as the send states and the writes that a block still needs.
LEMMA Levels ==
  /\ 0 \in Statuses /\ 1 \in Statuses /\ 2 \in Statuses /\ 5 \in Statuses /\ 6 \in Statuses
  /\ 0 \in Remains /\ 1 \in Remains /\ 2 \in Remains
  /\ {"none", "answer", "100", "head", "header", "chunk", "stale", "end"} \subseteq Blocks
BY DEF Statuses, Remains, Blocks

\* The locals of get_send_body, each with its type.
LEMMA LoopFields ==
  ASSUME NEW l \in Loops
  PROVE  /\ l.parse_only \in BOOLEAN /\ l.action \subseteq {"r", "w"} /\ l.formated \in BOOLEAN
         /\ l.fill \in Nat /\ l.full \in BOOLEAN /\ l.buffer \in BOOLEAN
         /\ l.service_eof \in BOOLEAN /\ l.ret \in {"none", "more", "ok", "eof"}
BY DEF Loops

\* Two sequences with the same elements are the same.
LEMMA SameSequence ==
  ASSUME NEW S, NEW a \in Seq(S), NEW b \in Seq(S), Len(a) = Len(b),
         \A i \in 1 .. Len(a) : a[i] = b[i]
  PROVE  a = b
OBVIOUS

\* Nothing is a sequence of blocks.
LEMMA NoBlocks == <<>> \in Seq(Blocks)
OBVIOUS

\* What comes behind the first element of a sequence that grows.
LEMMA TailGrows ==
  ASSUME NEW S, NEW s \in Seq(S), NEW e \in S, s # <<>>
  PROVE  Tail(Append(s, e)) = Append(Tail(s), e) /\ Tail(s) \in Seq(S)
<1>1. /\ Append(s, e) \in Seq(S) /\ Len(Append(s, e)) = Len(s) + 1 /\ Len(s) \in Nat
      /\ Append(s, e) # <<>> /\ Len(s) > 0
  OBVIOUS
<1>2. /\ Tail(s) \in Seq(S) /\ Len(Tail(s)) = Len(s) - 1
      /\ \A i \in 1 .. Len(s) - 1 : Tail(s)[i] = s[i + 1]
  BY <1>1
<1>3. PICK a : a = Tail(Append(s, e))
  OBVIOUS
<1>4. PICK b : b = Append(Tail(s), e)
  OBVIOUS
<1>5. /\ a \in Seq(S) /\ Len(a) = Len(s)
      /\ \A i \in 1 .. Len(s) : a[i] = Append(s, e)[i + 1]
  BY <1>1, <1>3
<1>6. b \in Seq(S) /\ Len(b) = Len(s)
  BY <1>1, <1>2, <1>4
<1>7. \A i \in 1 .. Len(s) : a[i] = b[i]
  <2> SUFFICES ASSUME NEW i \in 1 .. Len(s) PROVE a[i] = b[i]
    OBVIOUS
  <2>1. CASE i = Len(s)
    BY <1>1, <1>2, <1>4, <1>5, <2>1
  <2>2. CASE i < Len(s)
    <3>1. Append(s, e)[i + 1] = s[i + 1]
      BY <1>1, <2>2
    <3>2. PICK t \in Seq(S) : t = Tail(s)
      BY <1>2
    <3>3. b = Append(t, e) /\ i \in 1 .. Len(t)
      BY <1>1, <1>2, <1>4, <2>2, <3>2
    <3>4. b[i] = t[i]
      BY <3>3
    <3> QED
      BY <1>1, <1>2, <1>5, <2>2, <3>1, <3>2, <3>4
  <2> QED
    BY <1>1, <2>1, <2>2
<1>8. a = b
  BY <1>5, <1>6, <1>7, SameSequence
<1> QED
  BY <1>2, <1>3, <1>4, <1>8

\* The head of the answer with the HTTP header behind it.
LEMMA TwoBlocks == Append(<<"head">>, "header") = <<"head", "header">>
<1> DEFINE a == Append(<<"head">>, "header")
           b == <<"head", "header">>
<1>1. a \in Seq(Blocks) /\ b \in Seq(Blocks)
  <2>1. <<"head">> \in Seq(Blocks) /\ b \in Seq(Blocks)
    BY Levels
  <2> QED
    BY <2>1, Levels
<1>2. Len(a) = 2 /\ Len(b) = 2
  <2>1. <<"head">> \in Seq(Blocks) /\ Len(<<"head">>) = 1
    BY Levels
  <2> QED
    BY <2>1
<1>3. a[1] = "head" /\ a[2] = "header" /\ b[1] = "head" /\ b[2] = "header"
  OBVIOUS
<1>4. \A i \in 1 .. Len(a) : a[i] = b[i]
  BY <1>2, <1>3
<1> HIDE DEF a, b
<1>5. a = b
  BY <1>1, <1>2, <1>4, SameSequence
<1> QED
  BY <1>5 DEF a, b

\* What was sent without "100 Continue" is a sequence of blocks.
LEMMA AnswerLen ==
  ASSUME NEW out \in Seq(Blocks)
  PROVE  AnswerOf(out) \in Seq(Blocks) /\ Len(AnswerOf(out)) \in Nat
BY DEF AnswerOf

\* A block more of the answer; "100 Continue" is not part of it.
LEMMA AnswerGrows ==
  ASSUME NEW out \in Seq(Blocks), NEW b \in Blocks, b # "100"
  PROVE  /\ AnswerOf(Append(out, b)) = Append(AnswerOf(out), b)
         /\ AnswerOf(out) \in Seq(Blocks) /\ AnswerOf(<<>>) = <<>>
         /\ AnswerOf(<<"100">>) = <<>> /\ Append(out, b) \in Seq(Blocks)
<1>1. CASE out = <<>>
  <2>1. Append(out, b) = <<b>> /\ Append(out, b)[1] = b /\ Append(out, b) # <<>>
    BY <1>1
  <2> QED
    BY <1>1, <2>1 DEF AnswerOf
<1>2. CASE out # <<>>
  <2>1. Append(out, b) # <<>> /\ Append(out, b)[1] = out[1]
    BY <1>2
  <2>2. Tail(Append(out, b)) = Append(Tail(out), b) /\ Tail(out) \in Seq(Blocks)
    BY <1>2, TailGrows
  <2> QED
    BY <1>2, <2>1, <2>2 DEF AnswerOf
<1>3. Tail(<<"100">>) = <<>> /\ <<"100">> # <<>> /\ <<"100">>[1] = "100"
  OBVIOUS
<1> QED
  BY <1>1, <1>2, <1>3 DEF AnswerOf

\* update_send_status: the next block keeps the order.
LEMMA UpdateFacts ==
  ASSUME NEW s \in Sends, Shape(s), s.remain = 0, req \in Request,
         s.status = SEND_NOTHING => AnswerOf(s.out) = <<>>,
         NEW u, u = update_send_status(s)
  PROVE  /\ u \in Sends /\ Shape(u) /\ u.out = s.out /\ u.sent = s.sent /\ u.items = s.items
         /\ u.status # SEND_NOTHING
         /\ u.remain = 0 => u.status \in {SEND_BODY, SEND_EOF}
         /\ u.status = SEND_EOF => s.status = SEND_EOF \/ (~req.hasbody /\ AnswerOf(u.out) # <<>>)
         /\ s.status = SEND_EOF => u = s
<1>0. /\ s.status \in 0 .. 6 /\ req.heads \in 0 .. 1 /\ req.hasbody \in BOOLEAN
      /\ s.items = 0
  BY SendFields DEF Request, Shape
<1>1. CASE s.status = SEND_NOTHING
  <2>1. u = [s EXCEPT !.status = SEND_RESPHEAD, !.remain = 2, !.block = "head"]
    BY <1>1 DEF update_send_status
  <2>2. /\ u \in Sends /\ u.status = SEND_RESPHEAD /\ u.remain = 2 /\ u.block = "head"
        /\ u.out = s.out /\ u.sent = s.sent /\ u.items = s.items
    BY Zenon, <2>1, Levels DEF Sends
  <2> QED
    BY <1>0, <1>1, <2>2 DEF Shape
<1>2. CASE s.status = SEND_RESPHEAD /\ req.heads = 1
  <2>1. u = [s EXCEPT !.status = SEND_HEAD1, !.remain = 2, !.block = "header"]
    BY <1>2 DEF update_send_status
  <2>2. /\ u \in Sends /\ u.status = SEND_HEAD1 /\ u.remain = 2 /\ u.block = "header"
        /\ u.out = s.out /\ u.sent = s.sent /\ u.items = s.items
    BY Zenon, <2>1, Levels DEF Sends
  <2> QED
    BY <1>0, <1>2, <2>2 DEF Shape
<1>3. CASE (s.status = SEND_RESPHEAD /\ req.heads = 0) \/ s.status = SEND_HEAD1
  <2>1. u = [s EXCEPT !.status = IF req.hasbody THEN SEND_BODY ELSE SEND_EOF]
    BY <1>0, <1>3 DEF update_send_status
  <2>2. /\ u \in Sends /\ u.status = (IF req.hasbody THEN SEND_BODY ELSE SEND_EOF)
        /\ u.remain = s.remain /\ u.block = s.block
        /\ u.out = s.out /\ u.sent = s.sent /\ u.items = s.items
    BY <2>1, Levels DEF Sends
  <2>3. /\ AnswerOf(u.out) = IF req.heads = 1 THEN <<"head", "header">> ELSE <<"head">>
        /\ req.heads = 1 <=> s.status = SEND_HEAD1
    BY <1>0, <1>3, <2>2 DEF Shape
  <2>4. /\ Chunks(AnswerOf(u.out), Len(AnswerOf(u.out)))
        /\ Len(AnswerOf(u.out)) = 1 + req.heads /\ AnswerOf(u.out) # <<>>
    BY <1>0, <2>3 DEF Chunks
  <2>5. CASE req.hasbody
    <3>1. Shape(u)
      BY <1>0, <2>2, <2>4, <2>5 DEF Shape
    <3> QED
      BY <1>0, <1>3, <2>2, <2>5, <3>1
  <2>6. CASE ~req.hasbody
    <3>1. Shape(u)
      BY <1>0, <2>2, <2>4, <2>6 DEF Shape
    <3> QED
      BY <1>0, <1>3, <2>2, <2>4, <2>6, <3>1
  <2> QED
    BY <2>5, <2>6
<1>4. CASE s.status \in {SEND_BODY, SEND_EOF}
  BY <1>4 DEF update_send_status
<1> QED
  BY <1>0, <1>1, <1>2, <1>3, <1>4 DEF Shape

\* format_body_chunk: a chunk, or the end, behind what has been sent.
LEMMA FormatFacts ==
  ASSUME NEW s \in Sends, Shape(s), s.remain = 0, s.status = SEND_BODY, NEW n \in Nat,
         req \in Request, NEW f, f = format_body_chunk(s, n)
  PROVE  /\ f \in Sends /\ Shape(f) /\ f.out = s.out /\ f.sent = s.sent /\ f.items = n
         /\ f.remain = 2 /\ f.status = IF n > 0 THEN SEND_BODY ELSE SEND_EOF
         /\ AnswerOf(f.out) \notin {<<>>, <<"answer">>}
<1>1. /\ Chunks(AnswerOf(s.out), Len(AnswerOf(s.out))) /\ req.hasbody
      /\ AnswerOf(s.out) \notin {<<>>, <<"answer">>}
  <2>1. Chunks(AnswerOf(s.out), Len(AnswerOf(s.out))) /\ req.hasbody
    BY DEF Shape
  <2> DEFINE a == AnswerOf(s.out)
  <2>2. Len(a) >= 1 /\ a[1] = "head"
    <3>1. req.heads \in 0 .. 1
      BY DEF Request
    <3>2. Len(a) \in Nat
      BY SendFields, AnswerLen
    <3> QED
      BY <2>1, <3>1, <3>2 DEF Chunks
  <2> HIDE DEF a
  <2>3. a # <<>> /\ a # <<"answer">>
    BY <2>2
  <2> QED
    BY <2>1, <2>3 DEF a
<1>2. CASE n > 0
  <2>1. f = [s EXCEPT !.remain = 2, !.block = "chunk", !.items = n]
    BY <1>2 DEF format_body_chunk
  <2>2. /\ f \in Sends /\ f.status = s.status /\ f.remain = 2 /\ f.block = "chunk"
        /\ f.out = s.out /\ f.sent = s.sent /\ f.items = n
    BY Zenon, <2>1, Levels DEF Sends
  <2> QED
    BY <1>1, <1>2, <2>2 DEF Shape
<1>3. CASE ~(n > 0)
  <2>1. f = [s EXCEPT !.remain = 2, !.block = "end", !.items = 0, !.status = SEND_EOF]
    BY <1>3 DEF format_body_chunk
  <2>2. /\ f \in Sends /\ f.status = SEND_EOF /\ f.remain = 2 /\ f.block = "end"
        /\ f.out = s.out /\ f.sent = s.sent /\ f.items = 0
    <3>1. 0 \in Nat /\ SEND_EOF \in Statuses /\ 2 \in Remains /\ "end" \in Blocks
      BY Levels
    <3>2. f \in Sends
      BY Zenon, <2>1, <3>1 DEF Sends
    <3>3. /\ f.status = SEND_EOF /\ f.remain = 2 /\ f.block = "end" /\ f.items = 0
      BY <2>1 DEF Sends
    <3>4. f.out = s.out /\ f.sent = s.sent
      BY <2>1 DEF Sends
    <3> QED
      BY <3>2, <3>3, <3>4
  <2> QED
    BY <1>1, <1>3, <2>2 DEF Shape
<1> QED
  BY <1>2, <1>3

\* send_current_block_data: a block is sent once it is whole.
LEMMA SendSomeFacts ==
  ASSUME NEW s \in Sends, Shape(s), req \in Request, NEW t \in SendSome(s)
  PROVE  /\ t \in Sends /\ Shape(t) /\ t.status = s.status
         /\ t.sent + t.items = s.sent + s.items
         /\ s.remain = 0 => t = s
         /\ AnswerOf(s.out) # <<>> => AnswerOf(t.out) # <<>>
         /\ AnswerOf(s.out) # <<"answer">> => AnswerOf(t.out) # <<"answer">>
<1>0. /\ s.remain \in 0 .. 2 /\ s.items \in Nat /\ s.sent \in Nat /\ s.out \in Seq(Blocks)
      /\ s.block \in Blocks /\ s.status \in 0 .. 6 /\ req.heads \in 0 .. 1
  BY SendFields DEF Request
<1>1. CASE t = s
  BY <1>1
<1>2. CASE s.remain = 2 /\ t = [s EXCEPT !.remain = 1]
  <2>1. /\ t \in Sends /\ t.status = s.status /\ t.remain = 1 /\ t.block = s.block
        /\ t.out = s.out /\ t.sent = s.sent /\ t.items = s.items
    BY <1>2, Levels DEF Sends
  <2> QED
    BY <1>0, <1>2, <2>1 DEF Shape
<1>3. CASE s.remain > 0 /\ t = [s EXCEPT !.remain = 0, !.out = Append(@, s.block),
                                         !.sent = @ + s.items, !.items = 0]
  <2>1. s.block \in {"head", "header", "chunk", "end"}
    BY <1>0, <1>3 DEF Shape
  <2>2. /\ Append(s.out, s.block) \in Seq(Blocks)
        /\ AnswerOf(Append(s.out, s.block)) = Append(AnswerOf(s.out), s.block)
        /\ AnswerOf(s.out) \in Seq(Blocks)
    BY <1>0, <2>1, AnswerGrows
  <2>3. /\ t \in Sends /\ t.status = s.status /\ t.remain = 0 /\ t.block = s.block
        /\ t.out = Append(s.out, s.block) /\ t.sent = s.sent + s.items /\ t.items = 0
    <3>1. s.sent + s.items \in Nat
      BY <1>0
    <3> QED
      BY Zenon, <1>3, <2>2, <3>1, Levels DEF Sends
  <2> DEFINE a == AnswerOf(s.out)
             b == AnswerOf(t.out)
  <2>4. /\ b = Append(a, s.block) /\ a \in Seq(Blocks)
    BY <2>2, <2>3
  <2>5. /\ b # <<>> /\ b # <<"answer">> /\ Len(b) = Len(a) + 1 /\ b[Len(a) + 1] = s.block
        /\ \A i \in 1 .. Len(a) : b[i] = a[i]
    <3> HIDE DEF a, b
    <3>1. /\ Len(b) = Len(a) + 1 /\ b[Len(a) + 1] = s.block
          /\ \A i \in 1 .. Len(a) : b[i] = a[i]
      BY <2>4
    <3>2. b # <<>>
      BY <2>4, <3>1
    <3>3. b # <<"answer">>
      <4> SUFFICES ASSUME b = <<"answer">> PROVE FALSE
        OBVIOUS
      <4>1. Len(b) = 1 /\ b[1] = "answer"
        OBVIOUS
      <4>2. Len(a) = 0
        BY <2>4, <3>1, <4>1
      <4> QED
        BY <2>1, <3>1, <4>1, <4>2
    <3> QED
      BY <3>1, <3>2, <3>3
  <2>6. Shape(t)
    <3>1. CASE s.status = SEND_RESPHEAD
      <4>1. a = <<>> /\ s.block = "head"
        BY <1>3, <3>1 DEF Shape
      <4>2. b = <<"head">>
        BY <2>4, <4>1
      <4> QED
        BY <2>3, <3>1, <4>1, <4>2 DEF Shape
    <3>2. CASE s.status = SEND_HEAD1
      <4>1. a = <<"head">> /\ s.block = "header" /\ req.heads = 1
        BY <1>3, <3>2 DEF Shape
      <4>2. b = <<"head", "header">>
        <5>1. Append(<<"head">>, "header") = <<"head", "header">>
          BY TwoBlocks
        <5> QED
          BY <2>4, <4>1, <5>1
      <4> QED
        BY <2>3, <3>2, <4>1, <4>2 DEF Shape
    <3>3. CASE s.status = SEND_BODY
      <4>1. Chunks(a, Len(a)) /\ s.block = "chunk" /\ req.hasbody
        BY <1>3, <3>3 DEF Shape
      <4>2. Chunks(b, Len(b))
        BY <1>0, <2>4, <2>5, <4>1 DEF Chunks
      <4> QED
        BY <2>3, <3>3, <4>1, <4>2 DEF Shape
    <3>4. CASE s.status = SEND_EOF
      <4>1. Chunks(a, Len(a)) /\ s.block = "end" /\ req.hasbody
        BY <1>3, <3>4 DEF Shape
      <4>2. Whole(b)
        BY <1>0, <2>4, <2>5, <4>1 DEF Chunks, Whole
      <4> QED
        BY <2>3, <3>4, <4>1, <4>2 DEF Shape
    <3> QED
      BY <1>0, <1>3, <3>1, <3>2, <3>3, <3>4 DEF Shape
  <2> QED
    BY <1>0, <1>3, <2>3, <2>5, <2>6
<1> QED
  BY <1>0, <1>1, <1>2, <1>3 DEF SendSome

-----------------------------------------------------------------------------
\* The type of every variable of do_request, from the invariant.
LEMMA TypeFacts ==
  ASSUME TypeInv
  PROVE  /\ req \in Requests /\ req \in Request
         /\ coming \in Nat /\ arrived \in Nat /\ pending \in Nat /\ held \in Nat
         /\ partial \in BOOLEAN /\ eof_received \in BOOLEAN /\ data_locked \in BOOLEAN
         /\ keepalive \in BOOLEAN /\ echo \in BOOLEAN /\ ended \in BOOLEAN /\ said204 \in BOOLEAN
         /\ erred \in BOOLEAN
         /\ send \in Sends /\ loop \in Loops /\ pending <= 1 /\ held <= Capacity
         /\ Capacity \in Nat /\ ChunkMax \in Nat /\ ChunkMax > 0 /\ loop.fill <= ChunkMax
         /\ partial => coming > 0
         /\ eof_received => arrived + coming = 0
<1>1. req \in Requests /\ req \in Request
  BY ConstantsAssumption DEF TypeInv, TypeOK
<1>2. /\ coming \in Nat /\ arrived \in Nat /\ pending \in Nat /\ held \in Nat
      /\ partial \in BOOLEAN /\ eof_received \in BOOLEAN /\ data_locked \in BOOLEAN
      /\ keepalive \in BOOLEAN /\ echo \in BOOLEAN /\ ended \in BOOLEAN /\ said204 \in BOOLEAN
      /\ erred \in BOOLEAN
  BY DEF TypeInv, TypeOK
<1>3. Capacity \in Nat /\ ChunkMax \in Nat /\ ChunkMax > 0
  BY <1>1, ConstantsAssumption DEF Capacity, Request
<1> QED
  BY <1>1, <1>2, <1>3 DEF TypeInv

\* The fields of a request, each with its type.
LEMMA RequestFields ==
  ASSUME NEW r \in Request
  PROVE  /\ r.preview \in Int /\ r.rest \in Nat /\ r.heads \in 0 .. 1 /\ r.cap \in Nat
         /\ r.ieof \in BOOLEAN /\ r.hasbody \in BOOLEAN /\ r.allow204 \in BOOLEAN
         /\ r.allow206 \in BOOLEAN /\ r.unlock \in BOOLEAN /\ r.faults \in BOOLEAN
         /\ BodySize(r) \in Nat
BY DEF Request, BodySize

\* parse_chunk_data: what it takes was there, and an item that it takes is the
\* zero chunk or waits for the service.
LEMMA ParsedFacts ==
  ASSUME TypeInv, NEW p, p = Parsed
  PROVE  /\ p.take \in Nat /\ p.take <= arrived /\ p.pend \in 0 .. 1
         /\ p.ret \in {"none", "more", "ok", "eof"} /\ p.eof \in BOOLEAN
         /\ p.eof => arrived - p.take + coming = 0
         /\ p.pend + Data(arrived - p.take + coming) = pending + Data(arrived + coming)
         /\ eof_received => p.eof
         /\ arrived + coming = 0 => p.take = 0 /\ (p.eof <=> eof_received)
<1> DEFINE none == [take |-> 0, pend |-> pending, ret |-> loop.ret, eof |-> eof_received]
<1>0. /\ coming \in Nat /\ arrived \in Nat /\ pending \in 0 .. 1 /\ partial \in BOOLEAN
      /\ eof_received \in BOOLEAN /\ (partial => coming > 0)
      /\ (eof_received => arrived + coming = 0)
      /\ loop.ret \in {"none", "more", "ok", "eof"}
  BY TypeFacts, LoopFields
<1>1. CASE pending > 0 \/ (arrived = 0 /\ ~partial)
  <2>1. p = none
    BY <1>1 DEF Parsed
  <2>2. p.take = 0 /\ p.pend = pending /\ p.ret = loop.ret /\ p.eof = eof_received
    BY <2>1
  <2> QED
    BY <1>0, <2>2
<1>2. CASE ~(pending > 0) /\ arrived = 0 /\ partial
  <2>1. p = [none EXCEPT !.ret = "more"]
    BY <1>2 DEF Parsed
  <2>2. p.take = 0 /\ p.pend = pending /\ p.ret = "more" /\ p.eof = eof_received
    BY <2>1
  <2> QED
    BY <1>0, <1>2, <2>2
<1>3. CASE ~(pending > 0) /\ arrived # 0 /\ arrived + coming = 1
  <2>1. p = [take |-> 1, pend |-> 0, ret |-> "eof", eof |-> TRUE]
    BY <1>3, <1>0 DEF Parsed
  <2>2. p.take = 1 /\ p.pend = 0 /\ p.ret = "eof" /\ p.eof
    BY <2>1
  <2>3. arrived = 1 /\ coming = 0 /\ pending = 0
    BY <1>0, <1>3
  <2>4. ~eof_received
    BY <1>0, <2>3
  <2>5. Data(arrived - p.take + coming) = 0 /\ Data(arrived + coming) = 0
    BY <2>2, <2>3 DEF Data
  <2> QED
    BY <2>2, <2>3, <2>4, <2>5
<1>4. CASE ~(pending > 0) /\ arrived # 0 /\ arrived + coming # 1 /\ arrived = 1
  <2>1. p = [none EXCEPT !.take = 1, !.pend = 1, !.ret = "more"]
    BY <1>4, <1>0 DEF Parsed
  <2>2. p.take = 1 /\ p.pend = 1 /\ p.ret = "more" /\ p.eof = eof_received
    BY <2>1
  <2> QED
    BY <1>0, <1>4, <2>2 DEF Data
<1>5. CASE ~(pending > 0) /\ arrived # 0 /\ arrived # 1 /\ arrived + coming = 2
  <2>1. p = [take |-> 2, pend |-> 1, ret |-> "eof", eof |-> TRUE]
    BY <1>5, <1>0 DEF Parsed
  <2>2. p.take = 2 /\ p.pend = 1 /\ p.ret = "eof" /\ p.eof
    BY <2>1
  <2>3. arrived = 2 /\ coming = 0 /\ pending = 0
    BY <1>0, <1>5
  <2>4. ~eof_received
    BY <1>0, <2>3
  <2>5. Data(arrived - p.take + coming) = 0 /\ Data(arrived + coming) = 1
    BY <2>2, <2>3 DEF Data
  <2> QED
    BY <2>2, <2>3, <2>4, <2>5
<1>6. CASE /\ ~(pending > 0) /\ arrived # 0 /\ arrived # 1
           /\ arrived + coming # 1 /\ arrived + coming # 2
  <2>1. p = [none EXCEPT !.take = 1, !.pend = 1, !.ret = "ok"]
    BY <1>6, <1>0 DEF Parsed
  <2>2. p.take = 1 /\ p.pend = 1 /\ p.ret = "ok" /\ p.eof = eof_received
    BY <2>1
  <2> QED
    BY <1>0, <1>6, <2>2 DEF Data
<1> QED
  BY <1>0, <1>1, <1>2, <1>3, <1>4, <1>5, <1>6

\* The service, mod_echo_io and mod_null_io: they take what there is room for,
\* and give what they hold.
LEMMA ServiceFacts ==
  ASSUME TypeInv, NEW w \in Nat, NEW r \in Nat, NEW buffer \in BOOLEAN, NEW eof \in BOOLEAN,
         NEW c, c = service_io(w, r, buffer, eof), NEW g, g = IF c.given = EOF THEN 0 ELSE c.given
  PROVE  /\ c.taken \in Nat /\ c.taken <= w /\ g \in Nat /\ g <= r
         /\ (c.given # 0 => g > 0 \/ c.given = EOF)
         /\ c.given = EOF => eof /\ g = 0
         /\ loop.parse_only => c.taken = w /\ g = 0
         /\ ~loop.parse_only =>
              /\ c.taken = Smaller(w, Capacity - held) /\ held + c.taken <= Capacity
              /\ g = Smaller(r, held + c.taken)
              /\ c.given = EOF => echo \/ r > 0
<1>0. /\ held \in Nat /\ held <= Capacity /\ Capacity \in Nat /\ echo \in BOOLEAN
      /\ loop.parse_only \in BOOLEAN
  BY TypeFacts, LoopFields
<1>1. CASE loop.parse_only
  <2>1. c = [taken |-> w, given |-> IF eof THEN EOF ELSE 0]
    BY <1>1 DEF service_io
  <2>2. c.taken = w /\ c.given = IF eof THEN EOF ELSE 0
    BY <2>1
  <2> QED
    BY <1>1, <2>2
<1>2. CASE ~loop.parse_only
  <2> DEFINE taken == Smaller(w, Capacity - held)
             given == Smaller(r, held + taken)
  <2>1. c = [taken |-> taken,
             given |-> IF given = 0 /\ eof /\ (IF echo THEN buffer ELSE r > 0)
                       THEN EOF ELSE given]
    BY <1>2 DEF service_io
  <2>2. taken \in Nat /\ taken <= w /\ held + taken <= Capacity
    BY <1>0 DEF Smaller
  <2> HIDE DEF taken
  <2>3. given \in Nat /\ given <= r
    BY <1>0, <2>2 DEF Smaller
  <2> HIDE DEF given
  <2>4. c.taken = taken /\ c.given = IF given = 0 /\ eof /\ (IF echo THEN buffer ELSE r > 0)
                                     THEN EOF ELSE given
    BY <2>1
  <2>5. g = given
    BY <2>3, <2>4
  <2>6. taken = Smaller(w, Capacity - held) /\ given = Smaller(r, held + taken)
    BY DEF taken, given
  <2> QED
    BY <1>0, <1>2, <2>2, <2>3, <2>4, <2>5, <2>6
<1> QED
  BY <1>0, <1>1, <1>2

-----------------------------------------------------------------------------
\* The steps of the lower half of a round, by name.
IoBody == send.status = SEND_BODY /\ ~loop.service_eof
IoRoom == IF loop.formated THEN 0 ELSE ChunkMax - loop.fill
IoFull == IF IoBody /\ IoRoom = 0 THEN TRUE
          ELSE IF IoBody /\ ~loop.formated /\ loop.fill = 0 THEN FALSE ELSE loop.full
IoBuffer == loop.buffer \/ (IoBody /\ ~loop.formated /\ loop.fill = 0)
IoCall == service_io(Parsed.pend, IF IoBody THEN IoRoom ELSE 0, IoBuffer, Parsed.eof)
IoGiven == IF IoCall.given = EOF THEN 0 ELSE IoCall.given
IoEof == loop.service_eof \/ IoCall.given = EOF
IoRest == Parsed.pend - IoCall.taken
IoAgain == /\ IoCall.given # 0 \/ IoCall.taken > 0
           /\ arrived' > 0 \/ partial
           /\ Parsed.ret \notin {"more", "eof"} /\ ~IoFull
IoSend == IF IoAgain THEN send ELSE Formatted(loop.fill + IoGiven, IoEof)
IoAction == (IF IoRest = 0 THEN {"r"} ELSE {}) \cup (IF IoSend.remain > 0 THEN {"w"} ELSE {})

\* The lower half of a round of get_send_body, with its locals named.
LEMMA IoNamed ==
  ASSUME Io
  PROVE  /\ pc = "io" /\ arrived' = arrived - Parsed.take
         /\ pending' = IoRest /\ eof_received' = Parsed.eof
         /\ held' = IF loop.parse_only THEN held ELSE held + IoCall.taken - IoGiven
         /\ send' = IoSend
         /\ loop' = [loop EXCEPT !.ret = Parsed.ret, !.fill = @ + IoGiven, !.full = IoFull,
                                 !.buffer = IoBuffer, !.service_eof = IoEof,
                                 !.action = IF IoAgain THEN {} ELSE IoAction]
         /\ IF IoAgain THEN UNCHANGED <<pc, return_code, keepalive, result>>
            ELSE IF Repeats(Parsed.eof, IoRest, IoAction)
                 THEN pc' = "wait" /\ UNCHANGED <<return_code, keepalive, result>>
            ELSE Return(Parsed.eof)
         /\ UNCHANGED <<req, coming, partial, data_locked, preview_status, echo, said204, ended, erred>>
BY Zenon DEF Io, IoBody, IoRoom, IoFull, IoBuffer, IoCall, IoGiven, IoEof, IoRest, IoAgain, IoSend,
       IoAction

\* What the lower half of a round does: take items are parsed, pend wait, taken
\* go to the service and given come from it.
IoFrom(take, pend, taken, given, eof, seof, again) ==
  /\ take <= arrived /\ pend <= 1 /\ taken <= pend /\ loop.fill + given <= ChunkMax
  /\ arrived' = arrived - take /\ pending' = pend - taken /\ eof_received' = eof
  /\ held' = IF loop.parse_only THEN held ELSE held + taken - given
  /\ pend + Data(arrived - take + coming) = pending + Data(arrived + coming)
  /\ eof => arrived - take + coming = 0 /\ ~again
  /\ eof_received => eof
  /\ arrived + coming = 0 => take = 0 /\ (eof <=> eof_received)
  /\ loop.parse_only => taken = pend /\ given = 0
  /\ ~loop.parse_only =>
       /\ taken = Smaller(pend, Capacity - held) /\ held + taken <= Capacity
       /\ given <= held + taken
       /\ send.status = SEND_BODY /\ ~loop.service_eof /\ ~loop.formated =>
            given = Smaller(ChunkMax - loop.fill, held + taken)
  /\ given > 0 => send.status = SEND_BODY /\ ~loop.formated
  /\ seof /\ ~loop.service_eof =>
       eof /\ given = 0 /\ (loop.parse_only \/ echo \/ held + taken = 0)

\* ... and what becomes of the answer and of the loop.
IoTo(pend, taken, given, eof, seof, again) ==
  /\ loop' \in Loops /\ loop'.parse_only = loop.parse_only /\ loop'.formated = loop.formated
  /\ loop'.fill = loop.fill + given /\ loop'.service_eof = seof
  /\ again => send' = send /\ pc' = "io" /\ UNCHANGED <<return_code, keepalive, result>>
  /\ ~again => /\ send' = Formatted(loop.fill + given, seof)
               /\ \/ /\ pc' = "wait" /\ UNCHANGED <<return_code, keepalive, result>>
                     /\ ~eof \/ taken < pend
                  \/ /\ Return(eof)
                     /\ (eof /\ taken = pend) \/ (taken < pend /\ ~(send'.remain > 0))

\* What the lower half of a round moves from where to where: parse_chunk_data
\* takes items, the service takes and gives, format_body_chunk sends.
LEMMA IoEffect ==
  ASSUME TypeInv, Io
  PROVE  \E take \in Nat, pend \in Nat, taken \in Nat, given \in Nat,
            eof \in BOOLEAN, seof \in BOOLEAN, again \in BOOLEAN :
           /\ IoFrom(take, pend, taken, given, eof, seof, again)
           /\ IoTo(pend, taken, given, eof, seof, again)
<1> DEFINE p == Parsed
           r == IF IoBody THEN IoRoom ELSE 0
<1>a. /\ coming \in Nat /\ arrived \in Nat /\ pending \in Nat /\ held \in Nat
      /\ partial \in BOOLEAN /\ echo \in BOOLEAN /\ loop \in Loops
      /\ ChunkMax \in Nat /\ loop.fill <= ChunkMax /\ Capacity \in Nat
      /\ partial => coming > 0
  BY TypeFacts
<1>b. /\ loop.parse_only \in BOOLEAN /\ loop.fill \in Nat /\ loop.formated \in BOOLEAN
      /\ loop.full \in BOOLEAN /\ loop.buffer \in BOOLEAN /\ loop.service_eof \in BOOLEAN
  BY <1>a, LoopFields
<1>c. /\ p.take \in Nat /\ p.take <= arrived /\ p.pend \in 0 .. 1
      /\ p.ret \in {"none", "more", "ok", "eof"} /\ p.eof \in BOOLEAN
      /\ p.eof => arrived - p.take + coming = 0
      /\ p.pend + Data(arrived - p.take + coming) = pending + Data(arrived + coming)
      /\ eof_received => p.eof
      /\ arrived + coming = 0 => p.take = 0 /\ (p.eof <=> eof_received)
  BY ParsedFacts
<1>d. /\ r \in Nat /\ loop.fill + r <= ChunkMax
      /\ r > 0 => send.status = SEND_BODY /\ ~loop.formated
      /\ send.status = SEND_BODY /\ ~loop.service_eof /\ ~loop.formated => r = ChunkMax - loop.fill
  BY <1>a, <1>b DEF IoBody, IoRoom
<1>e. IoBuffer \in BOOLEAN /\ IoFull \in BOOLEAN /\ IoAgain \in BOOLEAN /\ IoEof \in BOOLEAN
  BY Zenon, <1>b DEF IoBuffer, IoFull, IoAgain, IoEof
<1> HIDE DEF p, r
<1>f. IoCall = service_io(p.pend, r, IoBuffer, p.eof) /\ p.pend \in Nat
  BY <1>c DEF IoCall, p, r
<1>g. /\ IoCall.taken \in Nat /\ IoCall.taken <= p.pend /\ IoGiven \in Nat /\ IoGiven <= r
      /\ (IoCall.given # 0 => IoGiven > 0 \/ IoCall.given = EOF)
      /\ IoCall.given = EOF => p.eof /\ IoGiven = 0
      /\ loop.parse_only => IoCall.taken = p.pend /\ IoGiven = 0
      /\ ~loop.parse_only =>
           /\ IoCall.taken = Smaller(p.pend, Capacity - held) /\ held + IoCall.taken <= Capacity
           /\ IoGiven = Smaller(r, held + IoCall.taken)
           /\ IoCall.given = EOF => echo \/ r > 0
  <2>1. IoGiven = IF IoCall.given = EOF THEN 0 ELSE IoCall.given
    BY DEF IoGiven
  <2>2. p.pend \in Nat /\ r \in Nat /\ IoBuffer \in BOOLEAN /\ p.eof \in BOOLEAN
    BY <1>c, <1>d, <1>e, <1>f
  <2> QED
    BY <1>f, <2>1, <2>2, ServiceFacts
<1>h. p = Parsed
  BY DEF p
<1>1. p.eof => ~IoAgain
  BY <1>a, <1>c, IoNamed, <1>h DEF IoAgain
<1>2. IoFrom(p.take, p.pend, IoCall.taken, IoGiven, p.eof, IoEof, IoAgain)
  <2>1. /\ p.take <= arrived /\ p.pend <= 1 /\ IoCall.taken <= p.pend
        /\ loop.fill + IoGiven <= ChunkMax
    BY <1>a, <1>b, <1>c, <1>d, <1>g
  <2>2. /\ arrived' = arrived - p.take /\ pending' = p.pend - IoCall.taken
        /\ eof_received' = p.eof
        /\ held' = IF loop.parse_only THEN held ELSE held + IoCall.taken - IoGiven
    BY IoNamed, <1>h DEF IoRest
  <2>3. ~loop.parse_only =>
           /\ IoGiven <= held + IoCall.taken
           /\ send.status = SEND_BODY /\ ~loop.service_eof /\ ~loop.formated =>
                IoGiven = Smaller(ChunkMax - loop.fill, held + IoCall.taken)
    BY <1>a, <1>d, <1>g DEF Smaller
  <2>4. IoGiven > 0 => send.status = SEND_BODY /\ ~loop.formated
    BY <1>d, <1>g
  <2>5. IoEof /\ ~loop.service_eof =>
          p.eof /\ IoGiven = 0 /\ (loop.parse_only \/ echo \/ held + IoCall.taken = 0)
    BY <1>a, <1>d, <1>g DEF IoEof, Smaller
  <2> QED
    BY <1>1, <1>c, <1>g, <2>1, <2>2, <2>3, <2>4, <2>5 DEF IoFrom
<1>3. IoTo(p.pend, IoCall.taken, IoGiven, p.eof, IoEof, IoAgain)
  <2>1. loop' = [loop EXCEPT !.ret = p.ret, !.fill = @ + IoGiven, !.full = IoFull,
                             !.buffer = IoBuffer, !.service_eof = IoEof,
                             !.action = IF IoAgain THEN {} ELSE IoAction]
    BY IoNamed, <1>h
  <2>2. (IF IoAgain THEN {} ELSE IoAction) \in SUBSET {"r", "w"} /\ loop.fill + IoGiven \in Nat
    BY <1>b, <1>g DEF IoAction
  <2>3. /\ loop' \in Loops /\ loop'.parse_only = loop.parse_only
        /\ loop'.formated = loop.formated
        /\ loop'.fill = loop.fill + IoGiven /\ loop'.service_eof = IoEof
    BY Zenon, <1>a, <1>c, <1>e, <2>1, <2>2 DEF Loops
  <2>4. IoAgain => send' = send /\ pc' = "io" /\ UNCHANGED <<return_code, keepalive, result>>
    BY IoNamed DEF IoSend
  <2>5. ASSUME ~IoAgain
        PROVE  /\ send' = Formatted(loop.fill + IoGiven, IoEof)
               /\ \/ /\ pc' = "wait" /\ UNCHANGED <<return_code, keepalive, result>>
                     /\ ~p.eof \/ IoCall.taken < p.pend
                  \/ /\ Return(p.eof)
                     /\ (p.eof /\ IoCall.taken = p.pend)
                        \/ (IoCall.taken < p.pend /\ ~(send'.remain > 0))
    <3>1. send' = IoSend /\ send' = Formatted(loop.fill + IoGiven, IoEof)
      BY <2>5, IoNamed DEF IoSend
    <3>2. CASE Repeats(p.eof, IoRest, IoAction)
      <4>1. pc' = "wait" /\ UNCHANGED <<return_code, keepalive, result>>
        BY <2>5, <3>2, IoNamed, <1>h
      <4> QED
        BY <1>c, <1>g, <3>1, <3>2, <4>1, <1>h DEF Repeats, IoRest
    <3>3. CASE ~Repeats(p.eof, IoRest, IoAction)
      <4>1. Return(p.eof)
        BY <2>5, <3>3, IoNamed, <1>h
      <4>2. (p.eof /\ ~(IoRest > 0)) \/ (IoRest # 0 /\ ~(IoSend.remain > 0))
        BY <3>3 DEF Repeats, IoAction
      <4>3. IoRest = p.pend - IoCall.taken
        BY <1>h DEF IoRest
      <4> QED
        BY <1>c, <1>g, <3>1, <4>1, <4>2, <4>3
    <3> QED
      BY <3>2, <3>3
  <2> QED
    BY <2>3, <2>4, <2>5 DEF IoTo
<1> QED
  BY <1>2, <1>3, <1>c, <1>e, <1>f, <1>g

-----------------------------------------------------------------------------
\* Blocks that are written outside the loop.
LEMMA PutFacts ==
  ASSUME send \in Sends, NEW b \in Blocks, NEW t, t = Put(b)
  PROVE  /\ t \in Sends /\ t.status = send.status /\ t.remain = send.remain
         /\ t.block = send.block /\ t.items = send.items /\ t.sent = send.sent
         /\ t.out = Append(send.out, b)
<1>1. Append(send.out, b) \in Seq(Blocks)
  BY SendFields
<1>2. t = [send EXCEPT !.out = Append(send.out, b)]
  BY DEF Put
<1> QED
  BY Zenon, <1>1, <1>2 DEF Sends

\* Setting the send status leaves the block alone.
LEMMA StatusFacts ==
  ASSUME NEW s \in Sends, NEW n \in Statuses, NEW t, t = [s EXCEPT !.status = n]
  PROVE  /\ t \in Sends /\ t.status = n /\ t.remain = s.remain /\ t.block = s.block
         /\ t.items = s.items /\ t.sent = s.sent /\ t.out = s.out
BY DEF Sends

\* What ec_responce leaves of the block, and what it adds to what was sent.
LEMMA WrittenFacts ==
  ASSUME send \in Sends, req \in Request, NEW ok \in Outcomes, Written(ok)
  PROVE  /\ send' \in Sends /\ send'.status = SEND_EOF /\ send'.remain = send.remain
         /\ send'.block = send.block /\ send'.items = send.items /\ send'.sent = send.sent
         /\ send'.out = IF ok THEN Append(send.out, "answer") ELSE send.out
         /\ ok \in BOOLEAN /\ (~req.faults => ok)
<1>1. ok \in BOOLEAN /\ (~req.faults => ok)
  BY Zenon, RequestFields DEF Outcomes
<1>2. PICK a : a = IF ok THEN Put("answer") ELSE send
  OBVIOUS
<1>3. PICK t : t = send'
  OBVIOUS
<1>4. t = [a EXCEPT !.status = SEND_EOF]
  BY <1>2, <1>3 DEF Written
<1>5. /\ a \in Sends /\ a.remain = send.remain /\ a.block = send.block
      /\ a.items = send.items /\ a.sent = send.sent
      /\ a.out = IF ok THEN Append(send.out, "answer") ELSE send.out
  BY Zenon, <1>1, <1>2, PutFacts, Levels
<1>6. /\ t \in Sends /\ t.status = SEND_EOF /\ t.remain = a.remain /\ t.block = a.block
      /\ t.items = a.items /\ t.sent = a.sent /\ t.out = a.out
  BY <1>4, <1>5, Levels, StatusFacts
<1> QED
  BY <1>1, <1>3, <1>5, <1>6

\* update_send_status gives an answer that can be sent.
LEMMA UpdateType ==
  ASSUME NEW s \in Sends, req \in Request
  PROVE  update_send_status(s) \in Sends
<1>1. s.status \in 0 .. 6 /\ req.heads \in 0 .. 1
  BY SendFields, RequestFields
<1>2. s.status + 1 - SEND_HEAD1 < req.heads /\ s.status # SEND_NOTHING => s.status + 1 = 2
  BY <1>1
<1>3. /\ [s EXCEPT !.status = SEND_RESPHEAD, !.remain = 2, !.block = "head"] \in Sends
      /\ [s EXCEPT !.status = 2, !.remain = 2, !.block = "header"] \in Sends
      /\ [s EXCEPT !.status = SEND_BODY] \in Sends
      /\ [s EXCEPT !.status = SEND_EOF] \in Sends
  BY Zenon, Levels DEF Sends
<1> QED
  BY Zenon, <1>2, <1>3 DEF update_send_status

\* So does format_body_chunk,
LEMMA FormatType ==
  ASSUME NEW s \in Sends, NEW n \in Nat
  PROVE  format_body_chunk(s, n) \in Sends
<1>1. 0 \in Nat /\ SEND_EOF \in Statuses /\ 2 \in Remains /\ "end" \in Blocks /\ "chunk" \in Blocks
  BY Levels
<1>2. /\ [s EXCEPT !.remain = 2, !.block = "chunk", !.items = n] \in Sends
      /\ [s EXCEPT !.remain = 2, !.block = "end", !.items = 0, !.status = SEND_EOF] \in Sends
  BY Zenon, <1>1 DEF Sends
<1> QED
  BY <1>2 DEF format_body_chunk

\* so does a write of a part of the block,
LEMMA SendSomeType ==
  ASSUME NEW s \in Sends, NEW t \in SendSome(s)
  PROVE  t \in Sends
<1>1. Append(s.out, s.block) \in Seq(Blocks) /\ s.sent + s.items \in Nat /\ 0 \in Nat
  BY SendFields
<1>2. /\ [s EXCEPT !.remain = 0, !.out = Append(@, s.block),
                   !.sent = @ + s.items, !.items = 0] \in Sends
      /\ [s EXCEPT !.remain = 1] \in Sends
  BY Zenon, <1>1, Levels DEF Sends
<1> QED
  BY <1>2 DEF SendSome

\* and so does the end of a round of get_send_body.
LEMMA FormattedType ==
  ASSUME send \in Sends, NEW n \in Nat, NEW e \in BOOLEAN
  PROVE  Formatted(n, e) \in Sends
BY FormatType DEF Formatted

\* The locals with which get_send_body begins.
LEMMA StartType ==
  ASSUME NEW b \in BOOLEAN, StartLoop(b)
  PROVE  /\ loop' \in Loops /\ loop'.parse_only = b /\ loop'.fill = 0 /\ ~loop'.service_eof
<1>1. NoLoop \in Loops /\ NoLoop.fill = 0 /\ NoLoop.service_eof = FALSE
  BY DEF NoLoop, Loops
<1>2. (IF arrived = 0 THEN {"r"} ELSE {}) \in SUBSET {"r", "w"}
  OBVIOUS
<1>3. loop' = [NoLoop EXCEPT !.parse_only = b, !.action = IF arrived = 0 THEN {"r"} ELSE {}]
  BY DEF StartLoop
<1>4. loop' \in Loops
  BY ZenonT(60), <1>1, <1>2, <1>3 DEF Loops
<1>5. loop'.parse_only = b /\ loop'.fill = NoLoop.fill /\ loop'.service_eof = NoLoop.service_eof
  BY <1>1, <1>3 DEF Loops
<1> QED
  BY <1>1, <1>4, <1>5

-----------------------------------------------------------------------------
\* The upper half of a round: items arrive, and part of a block or all of it is sent.
LEMMA WaitEffect ==
  ASSUME TypeInv, Wait
  PROVE  /\ arrived' \in Nat /\ coming' \in Nat /\ partial' \in BOOLEAN
         /\ arrived' + coming' = arrived + coming /\ (partial' => coming' > 0)
         /\ loop' \in Loops /\ loop'.parse_only = loop.parse_only /\ loop'.fill = 0
         /\ loop'.service_eof = loop.service_eof /\ (loop'.formated <=> send'.remain > 0)
         /\ \E s : (s = send \/ s \in SendSome(send)) /\ send' = Refilled(s)
         /\ pc = "wait" /\ pc' = "io"
         /\ UNCHANGED <<req, pending, eof_received, data_locked, return_code, keepalive,
                        preview_status, service, result>>
<1>1. PICK ready \in SUBSET loop.action :
        /\ Receive("r" \in ready)
        /\ \E s \in IF "w" \in ready THEN SendSome(send) ELSE {send} :
             /\ send' = Refilled(s)
             /\ loop' = [loop EXCEPT !.formated = Refilled(s).remain > 0, !.ret = "none",
                                     !.fill = 0, !.action = {}]
  BY Zenon DEF Wait
<1>2. /\ arrived' \in Nat /\ coming' \in Nat /\ partial' \in BOOLEAN
      /\ arrived' + coming' = arrived + coming /\ (partial' => coming' > 0)
  BY <1>1, TypeFacts DEF Receive
<1>3. PICK s : /\ s = send \/ s \in SendSome(send)
               /\ send' = Refilled(s)
               /\ loop' = [loop EXCEPT !.formated = Refilled(s).remain > 0, !.ret = "none",
                                       !.fill = 0, !.action = {}]
  BY Zenon, <1>1
<1>4. /\ loop' \in Loops /\ loop'.parse_only = loop.parse_only /\ loop'.fill = 0
      /\ loop'.service_eof = loop.service_eof /\ loop'.formated = (Refilled(s).remain > 0)
  <2>1. loop \in Loops /\ (Refilled(s).remain > 0) \in BOOLEAN /\ 0 \in Nat
    BY TypeFacts
  <2> QED
    BY Zenon, <1>3, <2>1 DEF Loops
<1>5. loop'.formated <=> send'.remain > 0
  BY Zenon, <1>3, <1>4
<1> QED
  BY <1>2, <1>3, <1>4, <1>5 DEF Wait

\* What stays, whatever is done.
LEMMA RefilledType ==
  ASSUME NEW s \in Sends, req \in Request
  PROVE  Refilled(s) \in Sends
BY UpdateType DEF Refilled

\* The three ways in which do_request goes on when get_send_body returns.
LEMMA ReturnFacts ==
  ASSUME NEW ok \in BOOLEAN, Return(ok), loop \in Loops, keepalive \in BOOLEAN
  PROVE  /\ \/ ok /\ loop.parse_only /\ pc' = "decide" /\ return_code' = "204"
               /\ UNCHANGED <<keepalive, result>>
            \/ ok /\ ~loop.parse_only /\ pc' = "end"
               /\ UNCHANGED <<return_code, keepalive, result>>
            \/ ~ok /\ pc' = "done" /\ result' = "error" /\ UNCHANGED return_code
               /\ (~loop.parse_only => ~keepalive')
         /\ keepalive' \in BOOLEAN
BY LoopFields DEF Return, Finish

\* A complete answer was written behind what had been sent.
AnswerWritten ==
  /\ send' \in Sends /\ send'.status = SEND_EOF /\ send'.remain = send.remain
  /\ send'.items = send.items /\ send'.sent = send.sent
  /\ send'.out = Append(send.out, "answer")

Codes == {"none", "100", "200", "204", "206", "error"}

\* The request ends with an error, which the client may have been told.
Failed ==
  /\ pc' = "done" /\ result' = "error" /\ keepalive' = FALSE /\ return_code' \in Codes
  /\ \/ send' = send
     \/ AnswerWritten
     \/ /\ send' \in Sends /\ send'.status = SEND_EOF /\ send'.remain = send.remain
        /\ send'.items = send.items /\ send'.sent = send.sent /\ send'.out = send.out

\* A way out with an error closes the connection and answers at most once.
LEMMA FailsFacts ==
  ASSUME TypeInv, Fails
  PROVE  Failed
<1>1. PICK ok \in Outcomes : Written(ok)
  BY DEF Fails
<1>2. /\ send' \in Sends /\ send'.status = SEND_EOF /\ send'.remain = send.remain
      /\ send'.items = send.items /\ send'.sent = send.sent
      /\ send'.out = IF ok THEN Append(send.out, "answer") ELSE send.out
      /\ ok \in BOOLEAN
  BY <1>1, TypeFacts, WrittenFacts
<1>3. /\ pc' = "done" /\ result' = "error" /\ keepalive' = FALSE /\ return_code' \in Codes
  BY DEF Fails, Finish, Codes
<1> QED
  BY <1>2, <1>3 DEF Failed, AnswerWritten

\* A 204 from a preview handler, written or not.
LEMMA Says204Facts ==
  ASSUME TypeInv, NEW code, NEW then, Says204(code, then)
  PROVE  \/ /\ AnswerWritten /\ return_code' = code /\ pc' = then
            /\ UNCHANGED <<keepalive, result>>
         \/ Failed
<1>1. PICK ok \in Outcomes :
       /\ Written(ok)
       /\ return_code' = IF ok THEN code ELSE Code204
       /\ IF ok THEN pc' = then /\ UNCHANGED <<keepalive, result>>
          ELSE keepalive' = FALSE /\ Finish("error")
  BY DEF Says204
<1>2. /\ send' \in Sends /\ send'.status = SEND_EOF /\ send'.remain = send.remain
      /\ send'.items = send.items /\ send'.sent = send.sent
      /\ send'.out = IF ok THEN Append(send.out, "answer") ELSE send.out
      /\ ok \in BOOLEAN
  BY <1>1, TypeFacts, WrittenFacts
<1>3. CASE ok
  BY <1>1, <1>2, <1>3 DEF AnswerWritten
<1>4. CASE ~ok
  BY <1>1, <1>2, <1>4 DEF Failed, Finish, Codes, Code204
<1> QED
  BY <1>3, <1>4

\* What the preview handlers do: a 204 is written, "100 Continue" is written or
\* lost, the rest is decided without a word, or the request fails.
Handled204 ==
  /\ AnswerWritten /\ UNCHANGED <<coming, held, echo, keepalive, result>>
  /\ \/ req.preview >= 0 /\ pc' = "decide" /\ return_code' = Code204 /\ preview_status' = "ok"
     \/ Drops(req) /\ pc' = "drop" /\ return_code' = Code204 /\ UNCHANGED preview_status
     \/ /\ req.preview < 0 /\ ~req.hasbody /\ pc' = "decide" /\ return_code' = "204"
        /\ UNCHANGED preview_status

HandledContinue ==
  /\ req.preview >= 0 /\ preview_status = "ok" /\ return_code' = "100" /\ pc' = "decide"
  /\ held' = req.preview /\ UNCHANGED <<echo, keepalive, result, preview_status>>
  /\ \/ send' = Put("100") /\ coming' = req.rest + 1
     \/ req.faults /\ send' = send /\ coming' = 0

HandledSilently ==
  /\ pc' = "decide" /\ UNCHANGED <<send, coming, keepalive, result>>
  /\ \/ /\ req.preview >= 0 /\ held' = req.preview /\ UNCHANGED echo
        /\ \/ return_code' = "206" /\ preview_status' = "ok"
           \/ preview_status = "eof" /\ UNCHANGED <<return_code, preview_status>>
     \/ /\ req.preview < 0 /\ UNCHANGED <<held, preview_status>>
        /\ \/ echo' = TRUE /\ return_code' = "100" /\ req.hasbody /\ ~req.allow204
           \/ UNCHANGED echo /\ return_code' = (IF req.hasbody THEN "100" ELSE "200")
           \/ UNCHANGED echo /\ return_code' = "206" /\ req.allow204 /\ req.allow206

HandledFails ==
  Failed /\ preview_status' \in {"ok", preview_status} /\ UNCHANGED <<coming, held, echo>>

\* What a preview handler, called with a preview or without, leaves to be done:
\* a 204 is out, the body comes, nothing is out yet, or the request failed.
LEMMA HandlerEffect ==
  ASSUME TypeInv, PreviewHandler \/ FakePreview
  PROVE  /\ pc = "handler" /\ data_locked' = ~req.unlock /\ said204' \in BOOLEAN
         /\ UNCHANGED <<req, arrived, partial, pending, eof_received, loop, ended, erred>>
         /\ Handled204 \/ HandledContinue \/ HandledSilently \/ HandledFails
<1>a. req \in Request /\ said204 \in BOOLEAN /\ req.faults \in BOOLEAN /\ req.preview \in Int
      /\ req.hasbody \in BOOLEAN
  BY TypeFacts, RequestFields
<1>1. CASE PreviewHandler
  <2>1. /\ pc = "handler" /\ data_locked' = ~req.unlock /\ req.preview >= 0
        /\ UNCHANGED <<req, arrived, partial, pending, eof_received, loop, echo, ended, erred>>
    BY <1>1 DEF PreviewHandler
  <2>2. CASE Says204(Code204, "decide") /\ preview_status' = "ok" /\ UNCHANGED <<coming, held>>
    <3>1. said204' \in BOOLEAN
      BY <2>2 DEF Says204
    <3> QED
      BY <2>1, <2>2, <3>1, Says204Facts DEF Handled204, HandledFails
  <2>3. CASE Decides("206") /\ preview_status' = "ok" /\ held' = req.preview
             /\ UNCHANGED <<coming, said204>>
    BY <1>a, <2>1, <2>3 DEF Decides, HandledSilently
  <2>4. CASE Continues /\ held' = req.preview /\ UNCHANGED <<preview_status, said204>>
    BY Zenon, <1>a, <2>1, <2>4 DEF Continues, Decides, HandledSilently, HandledContinue, Outcomes
  <2>5. CASE Fails /\ UNCHANGED <<coming, preview_status, held, said204>>
    BY <1>a, <2>1, <2>5, FailsFacts DEF HandledFails
  <2> QED
    BY <1>1, <2>2, <2>3, <2>4, <2>5 DEF PreviewHandler
<1>2. CASE FakePreview
  <2>1. /\ pc = "handler" /\ data_locked' = ~req.unlock /\ req.preview < 0
        /\ UNCHANGED <<req, arrived, partial, pending, eof_received, loop, ended, erred>>
        /\ UNCHANGED <<coming, preview_status, held>>
    BY <1>2 DEF FakePreview, input
  <2>2. CASE req.allow204 /\ req.hasbody /\ Says204(Code204, "drop") /\ UNCHANGED echo
    <3>1. said204' \in BOOLEAN
      BY <2>2 DEF Says204
    <3> QED
      BY <2>1, <2>2, <3>1, Says204Facts DEF Handled204, HandledFails, Drops
  <2>3. CASE ~req.hasbody /\ Says204("204", "decide") /\ UNCHANGED echo
    <3>1. said204' \in BOOLEAN
      BY <2>3 DEF Says204
    <3> QED
      BY <2>1, <2>3, <3>1, Says204Facts DEF Handled204, HandledFails
  <2>4. CASE /\ ~req.allow204 /\ req.hasbody /\ echo' = TRUE /\ Decides("100")
             /\ UNCHANGED said204
    BY Zenon, <1>a, <2>1, <2>4 DEF Decides, HandledSilently
  <2>5. CASE ~req.hasbody /\ Decides("200") /\ UNCHANGED <<said204, echo>>
    BY <1>a, <2>1, <2>5 DEF Decides, HandledSilently
  <2>6. CASE req.allow204 /\ req.allow206 /\ Decides("206") /\ UNCHANGED <<said204, echo>>
    BY <1>a, <2>1, <2>6 DEF Decides, HandledSilently
  <2>7. CASE Decides(IF req.hasbody THEN "100" ELSE "200") /\ UNCHANGED <<said204, echo>>
    BY <1>a, <2>1, <2>7 DEF Decides, HandledSilently
  <2>8. CASE Fails /\ UNCHANGED <<said204, echo>>
    BY <1>a, <2>1, <2>8, FailsFacts DEF HandledFails
  <2> QED
    BY Zenon, <1>2, <2>2, <2>3, <2>4, <2>5, <2>6, <2>7, <2>8 DEF FakePreview
<1> QED
  BY <1>1, <1>2

\* do_end_of_data: the answer goes on, a 204 is written first, or the request
\* ends with it or fails.
EndGoesOn ==
  /\ pc' = "rest" /\ data_locked' = FALSE /\ UNCHANGED <<keepalive, result>>
  /\ \/ send' = send /\ (return_code' = "206" \/ UNCHANGED return_code)
     \/ AnswerWritten /\ ~Sent /\ return_code' = "200"

Ends204 ==
  /\ AnswerWritten /\ ~Sent /\ return_code' = "204" /\ pc' = "done" /\ result' = "ok"
  /\ UNCHANGED <<keepalive, data_locked>>

EndFails == Failed /\ (send' = send \/ ~Sent) /\ UNCHANGED data_locked

\* What the end-of-data handler leaves to be done: an answer to send, a 204 that
\* is out, or a request that failed.
LEMMA EndEffect ==
  ASSUME TypeInv, EndOfData
  PROVE  /\ pc = "end" /\ ended' = TRUE
         /\ UNCHANGED <<req, input, preview_status, loop, held, echo, said204, erred>>
         /\ EndGoesOn \/ Ends204 \/ EndFails
<1>1. PICK a \in EndAnswers :
       \/ /\ a = "204" /\ req.allow204 /\ ~Sent
          /\ return_code' = Code204
          /\ \E ok \in Outcomes :
               /\ Written(ok)
               /\ keepalive' = (keepalive /\ ok)
               /\ IF ~ok THEN Finish("error") /\ UNCHANGED data_locked
                  ELSE IF Code204 = "204" THEN Finish("ok") /\ UNCHANGED data_locked
                  ELSE GoesOn /\ UNCHANGED result
       \/ /\ a = "206" /\ req.allow204 /\ req.allow206 /\ ~Sent
          /\ return_code' = "206" /\ GoesOn /\ UNCHANGED <<send, keepalive, result>>
       \/ /\ a = "done" /\ GoesOn
          /\ UNCHANGED <<send, return_code, keepalive, result>>
       \/ /\ IF Sent THEN /\ keepalive' = FALSE /\ Finish("error")
                          /\ UNCHANGED <<send, return_code>>
             ELSE Fails
          /\ UNCHANGED data_locked
  BY DEF EndOfData
<1>2. /\ pc = "end" /\ ended' = TRUE
      /\ UNCHANGED <<req, input, preview_status, loop, held, echo, said204, erred>>
  BY DEF EndOfData
<1>3. keepalive \in BOOLEAN /\ return_code \in Codes /\ Code204 \in {"200", "204"}
  BY TypeFacts DEF TypeInv, TypeOK, Codes, Code204
<1>4. ASSUME NEW ok \in Outcomes, ~Sent, return_code' = Code204, Written(ok),
             keepalive' = (keepalive /\ ok),
             IF ~ok THEN Finish("error") /\ UNCHANGED data_locked
             ELSE IF Code204 = "204" THEN Finish("ok") /\ UNCHANGED data_locked
             ELSE GoesOn /\ UNCHANGED result
      PROVE  EndGoesOn \/ Ends204 \/ EndFails
  <2>1. /\ send' \in Sends /\ send'.status = SEND_EOF /\ send'.remain = send.remain
        /\ send'.items = send.items /\ send'.sent = send.sent
        /\ send'.out = IF ok THEN Append(send.out, "answer") ELSE send.out
        /\ ok \in BOOLEAN
    BY <1>4, TypeFacts, WrittenFacts
  <2>2. CASE ~ok
    <3>1. Failed
      BY <1>3, <1>4, <2>1, <2>2 DEF Failed, Finish, Codes
    <3> QED
      BY <1>4, <2>2, <3>1 DEF EndFails
  <2>3. CASE ok /\ Code204 = "204"
    <3>1. AnswerWritten /\ keepalive' = keepalive
      BY <1>3, <1>4, <2>1, <2>3 DEF AnswerWritten
    <3> QED
      BY <1>4, <2>3, <3>1 DEF Ends204, Finish
  <2>4. CASE ok /\ Code204 # "204"
    <3>1. AnswerWritten /\ keepalive' = keepalive
      BY <1>3, <1>4, <2>1, <2>4 DEF AnswerWritten
    <3> QED
      BY <1>3, <1>4, <2>4, <3>1 DEF EndGoesOn, GoesOn
  <2> QED
    BY <2>1, <2>2, <2>3, <2>4
<1>5. CASE /\ return_code' = "206" /\ GoesOn /\ UNCHANGED <<send, keepalive, result>>
  BY <1>2, <1>5 DEF EndGoesOn, GoesOn
<1>6. CASE GoesOn /\ UNCHANGED <<send, return_code, keepalive, result>>
  BY <1>2, <1>6 DEF EndGoesOn, GoesOn
<1>7. CASE /\ Sent /\ keepalive' = FALSE /\ Finish("error")
           /\ UNCHANGED <<send, return_code, data_locked>>
  BY <1>2, <1>3, <1>7 DEF EndFails, Failed, Finish, Codes
<1>8. CASE ~Sent /\ Fails /\ UNCHANGED data_locked
  BY <1>2, <1>8, FailsFacts DEF EndFails
<1> QED
  BY Zenon, <1>1, <1>2, <1>4, <1>5, <1>6, <1>7, <1>8

\* Every step of do_request keeps the types, and the bounds on what is held.
LEMMA TypeStep ==
  ASSUME TypeInv, [Next]_vars
  PROVE  TypeInv'
<1>a. /\ req \in Requests /\ req \in Request
      /\ coming \in Nat /\ arrived \in Nat /\ pending \in Nat /\ held \in Nat
      /\ partial \in BOOLEAN /\ eof_received \in BOOLEAN /\ data_locked \in BOOLEAN
      /\ keepalive \in BOOLEAN /\ echo \in BOOLEAN /\ ended \in BOOLEAN /\ said204 \in BOOLEAN
      /\ erred \in BOOLEAN
      /\ send \in Sends /\ loop \in Loops /\ pending <= 1 /\ held <= Capacity
      /\ Capacity \in Nat /\ ChunkMax \in Nat /\ ChunkMax > 0 /\ loop.fill <= ChunkMax
      /\ partial => coming > 0
      /\ eof_received => arrived + coming = 0
  BY TypeFacts
<1>b. /\ Before => /\ ~echo /\ held = 0 /\ ~partial /\ arrived + coming <= req.rest + 1
                   /\ req.preview >= 0 => arrived + coming = 0
                   /\ eof_received => preview_status = "eof"
      /\ pc = "preview" => req.preview >= 0
      /\ echo => req.preview < 0 /\ req.hasbody /\ ~req.allow204
  BY DEF TypeInv
<1>c. /\ pc \in {"parsed", "preview", "handler", "drop", "decide", "wait", "io", "end", "rest",
                 "done"}
      /\ return_code \in {"none", "100", "200", "204", "206", "error"}
      /\ preview_status \in {"ok", "eof"} /\ result \in {"none", "ok", "error"}
  BY DEF TypeInv, TypeOK
<1>d. /\ req.preview \in Int /\ req.rest \in Nat /\ req.heads \in 0 .. 1 /\ req.cap \in Nat
      /\ req.ieof \in BOOLEAN /\ req.hasbody \in BOOLEAN /\ req.allow204 \in BOOLEAN
      /\ req.allow206 \in BOOLEAN /\ req.unlock \in BOOLEAN /\ req.faults \in BOOLEAN
      /\ req.preview <= req.cap
  BY <1>a, RequestFields, ConstantsAssumption
<1>e. Code204 \in {"200", "204"}
  BY DEF Code204
<1>f. \A s \in Sends : s.status \in 0 .. 6 /\ s.remain \in 0 .. 2
  BY SendFields
<1>g. \A ok \in Outcomes : Written(ok) => send' \in Sends /\ ok \in BOOLEAN
  BY <1>a, WrittenFacts
\* The frame of the steps that change neither the input nor the loop.
<1>h. ASSUME UNCHANGED <<req, coming, arrived, partial, pending, loop, held, echo>>,
             send' \in Sends, eof_received' = eof_received,
             {data_locked', keepalive', said204', ended', erred'} \subseteq BOOLEAN,
             pc' \in {"parsed", "preview", "handler", "drop", "decide", "wait", "io", "end",
                      "rest", "done"},
             return_code' \in {"none", "100", "200", "204", "206", "error"},
             preview_status' \in {"ok", "eof"}, result' \in {"none", "ok", "error"},
             Before' => Before, Before' => preview_status' = preview_status,
             pc' = "preview" => req.preview >= 0
      PROVE  TypeInv'
  <2>1. TypeOK'
    BY <1>a, <1>f, <1>h DEF TypeOK
  <2>2. Capacity' = Capacity
    BY <1>h DEF Capacity
  <2> QED
    BY <1>a, <1>b, <1>h, <2>1, <2>2 DEF TypeInv
<1>1. CASE Refused
  <2>1. send' \in Sends
    BY <1>1, <1>a, <1>g DEF Refused, Fails
  <2> QED
    BY Zenon, <1>1, <1>a, <1>b, <1>c, <1>h, <2>1 DEF Refused, Fails, Finish, input, service, Before
<1>2. CASE Options
  <2>1. send' \in Sends
    BY <1>2, <1>a, PutFacts, Levels DEF Options
  <2> QED
    BY <1>2, <1>a, <1>b, <1>c, <1>h, <2>1 DEF Options, Finish, input, service, Before
<1>3. CASE Start
  BY <1>3, <1>a, <1>b, <1>c, <1>h DEF Start, input, service, Before
<1>4. CASE ReadPreview
  <2>1. CASE ReadPreview /\ pc' = "done"
    <3>1. send' \in Sends
      BY <2>1, <1>a, <1>g DEF ReadPreview, Fails
    <3> QED
      BY Zenon, <2>1, <1>a, <1>b, <1>c, <1>h, <3>1 DEF ReadPreview, Fails, Finish, service, Before
  <2>2. CASE ReadPreview /\ pc' # "done"
    <3>1. /\ pc = "preview" /\ eof_received' = (req.hasbody /\ req.ieof) /\ pc' = "handler"
          /\ preview_status' = IF ~req.hasbody \/ req.ieof THEN "eof" ELSE "ok"
          /\ UNCHANGED <<send, return_code, keepalive, result>>
          /\ UNCHANGED <<req, coming, arrived, partial, pending, data_locked, loop, service>>
      BY <2>2 DEF ReadPreview, Fails, Finish
    <3>2. eof_received' \in BOOLEAN /\ preview_status' \in {"ok", "eof"}
          /\ (eof_received' => preview_status' = "eof")
      BY <1>d, <3>1
    <3>3. TypeOK'
      BY <1>a, <1>c, <1>f, <3>1, <3>2 DEF TypeOK, service
    <3>4. /\ Capacity' = Capacity /\ ~echo /\ held = 0 /\ ~partial /\ arrived + coming = 0
          /\ arrived + coming <= req.rest + 1
      BY <1>b, <3>1 DEF Capacity, Before, service
    <3> QED
      BY <1>a, <1>b, <3>1, <3>2, <3>3, <3>4 DEF TypeInv, Before, service
  <2> QED
    BY <1>4, <2>1, <2>2
<1>5. CASE PreviewHandler \/ FakePreview
  <2>a. /\ pc = "handler" /\ data_locked' \in BOOLEAN /\ said204' \in BOOLEAN
        /\ UNCHANGED <<req, arrived, partial, pending, eof_received, loop, ended, erred>>
        /\ Handled204 \/ HandledContinue \/ HandledSilently \/ HandledFails
    BY Zenon, <1>5, <1>d, HandlerEffect
  <2>b. ~echo /\ held = 0 /\ (req.preview >= 0 => arrived + coming = 0)
    BY <1>b, <2>a DEF Before
  <2>1. CASE Handled204
    BY <1>a, <1>b, <1>c, <1>e, <1>h, <2>1, <2>a DEF Handled204, AnswerWritten, Before
  <2>2. CASE HandledContinue
    <3>1. /\ send' \in Sends /\ coming' \in Nat /\ arrived' = 0 /\ ~eof_received'
          /\ held' = req.preview /\ held' \in Nat /\ held' <= req.cap /\ echo' = FALSE
          /\ partial' = FALSE
      BY <1>a, <1>b, <1>d, <2>2, <2>a, <2>b, PutFacts, Levels DEF HandledContinue, Before
    <3>2. TypeOK'
      BY <1>a, <1>c, <1>f, <2>2, <2>a, <3>1 DEF HandledContinue, TypeOK
    <3>3. Capacity' = req.cap
      BY <2>a, <3>1 DEF Capacity
    <3> QED
      BY Zenon, <1>a, <2>2, <2>a, <3>1, <3>2, <3>3 DEF HandledContinue, TypeInv, Before
  <2>3. CASE HandledSilently
    <3>1. /\ held' \in Nat /\ held' <= Capacity' /\ echo' \in BOOLEAN
      <4>1. EchoCap \in Nat /\ Capacity' \in Nat /\ (~echo' => Capacity' = req.cap)
        BY <1>d, <2>a, ConstantsAssumption DEF Capacity
      <4>2. CASE req.preview >= 0
        BY <1>a, <1>d, <2>3, <2>b, <4>1, <4>2 DEF HandledSilently
      <4>3. CASE ~(req.preview >= 0)
        <5>1. held' = held /\ (echo' = TRUE \/ echo' = echo)
          BY <1>d, <2>3, <4>3 DEF HandledSilently
        <5>2. held' \in Nat /\ held' <= Capacity'
          BY <2>b, <4>1, <5>1
        <5>3. echo' \in BOOLEAN
          BY Zenon, <1>a, <5>1
        <5> QED
          BY <5>2, <5>3
      <4> QED
        BY <4>2, <4>3
    <3>2. preview_status' \in {"ok", "eof"}
          /\ return_code' \in {"none", "100", "200", "204", "206", "error"}
      BY <1>c, <1>d, <2>3 DEF HandledSilently
    <3>3. TypeOK'
      BY <1>a, <1>c, <1>f, <2>3, <2>a, <3>1, <3>2 DEF HandledSilently, TypeOK
    <3>4. /\ pc' = "decide" /\ send' = send /\ coming' = coming
          /\ (echo' => req.preview < 0 /\ req.hasbody /\ ~req.allow204)
      BY <1>b, <2>3, <2>b DEF HandledSilently
    <3> QED
      BY <1>a, <2>a, <3>1, <3>3, <3>4 DEF TypeInv, Before
  <2>4. CASE HandledFails
    <3>1. send' \in Sends /\ pc' = "done"
      BY <1>a, <2>4 DEF HandledFails, Failed, AnswerWritten
    <3> QED
      BY Zenon, <1>a, <1>b, <1>c, <1>h, <2>4, <2>a, <3>1 DEF HandledFails, Failed, Codes, Before
  <2> QED
    BY <2>a, <2>1, <2>2, <2>3, <2>4
<1>7. CASE Drop
  <2>1. loop' \in Loops /\ loop'.fill = 0 /\ send' \in Sends
    BY Zenon, <1>7, <1>a, StartType, StatusFacts, Levels DEF Drop
  <2>2. pc' = "wait" /\ pc = "drop"
    BY <1>7 DEF Drop
  <2> QED
    BY <1>7, <1>a, <1>b, <1>c, <1>f, <2>1, <2>2
       DEF Drop, TypeInv, TypeOK, Before, service, input, Capacity
<1>8. CASE Decide
  <2>1. loop' \in Loops /\ loop'.fill <= ChunkMax /\ send' \in Sends
    <3>1. CASE loop' = loop /\ send' = send
      BY <1>a, <3>1
    <3>2. CASE StartLoop(FALSE) /\ send' = [send EXCEPT !.status = SEND_NOTHING]
      <4>1. loop' \in Loops /\ loop'.fill = 0
        BY Zenon, <3>2, StartType
      <4>2. send' \in Sends
        BY <1>a, <3>2, StatusFacts, Levels
      <4> QED
        BY <1>a, <4>1, <4>2
    <3> QED
      BY Zenon, <1>8, <3>1, <3>2 DEF Decide
  <2>2. /\ pc = "decide" /\ pc' \in {"done", "wait", "end"} /\ result' \in {"none", "ok", "error"}
        /\ return_code' \in {"none", "100", "200", "204", "206", "error"}
        /\ UNCHANGED <<req, input, data_locked, keepalive, preview_status, service>>
    BY Zenon, <1>8, <1>c DEF Decide, Finish
  <2> QED
    BY <1>a, <1>b, <1>c, <1>f, <2>1, <2>2
       DEF TypeInv, TypeOK, Before, service, input, Capacity
<1>9. CASE Wait
  <2>1. send' \in Sends
    BY <1>9, <1>a, WaitEffect, SendSomeType, RefilledType
  <2>2. /\ arrived' \in Nat /\ coming' \in Nat /\ partial' \in BOOLEAN
        /\ arrived' + coming' = arrived + coming /\ (partial' => coming' > 0)
        /\ loop' \in Loops /\ loop'.fill = 0 /\ pc' = "io"
        /\ UNCHANGED <<req, pending, eof_received, data_locked, return_code, keepalive,
                        preview_status, service, result>>
    BY <1>9, WaitEffect
  <2>3. TypeOK'
    BY <1>a, <1>c, <1>f, <2>1, <2>2 DEF TypeOK, service
  <2>4. /\ UNCHANGED <<req, pending, eof_received, held, echo>> /\ Capacity' = Capacity
        /\ ~Before' /\ pc' # "preview"
    BY <2>2 DEF service, Capacity, Before
  <2>5. /\ pending' <= 1 /\ held' <= Capacity' /\ loop'.fill <= ChunkMax
        /\ partial' => coming' > 0
    BY <1>a, <2>2, <2>4
  <2>6. eof_received' => arrived' + coming' = 0
    <3>1. eof_received' = eof_received /\ (eof_received => arrived + coming = 0)
      BY <1>a, <2>4
    <3>2. arrived' + coming' = arrived + coming
      BY <2>2
    <3> QED
      BY <3>1, <3>2
  <2> QED
    BY Zenon, <1>b, <2>1, <2>2, <2>3, <2>4, <2>5, <2>6 DEF TypeInv
<1>10. CASE WaitFails
  <2>1. /\ pc' \in {"decide", "end", "done"} /\ keepalive' \in BOOLEAN
        /\ result' \in {"none", "ok", "error"}
        /\ return_code' \in {"none", "100", "200", "204", "206", "error"}
    BY <1>10, <1>a, <1>c, ReturnFacts DEF WaitFails
  <2> QED
    BY <1>10, <1>a, <1>b, <1>c, <1>h, <2>1 DEF WaitFails, input, service, Before
<1>11. CASE Io
  <2>1. PICK take \in Nat, pend \in Nat, taken \in Nat, given \in Nat,
            eof \in BOOLEAN, seof \in BOOLEAN, again \in BOOLEAN :
           /\ IoFrom(take, pend, taken, given, eof, seof, again)
           /\ IoTo(pend, taken, given, eof, seof, again)
    BY <1>11, IoEffect
  <2>2. send' \in Sends
    BY <2>1, <1>a, FormattedType, LoopFields DEF IoTo
  <2>3. /\ pc' \in {"decide", "end", "done", "wait", "io"} /\ keepalive' \in BOOLEAN
        /\ result' \in {"none", "ok", "error"}
        /\ return_code' \in {"none", "100", "200", "204", "206", "error"}
    BY <2>1, <1>a, <1>c, ReturnFacts DEF IoTo
  <2>4. UNCHANGED <<req, coming, partial, data_locked, preview_status, echo, said204, ended, erred>>
    BY <1>11, IoNamed
  <2>5. /\ arrived' \in Nat /\ pending' \in Nat /\ pending' <= 1 /\ held' \in Nat
        /\ held' <= Capacity /\ eof_received' = eof /\ (eof => arrived' + coming = 0)
    BY <2>1, <1>a, LoopFields DEF IoFrom
  <2>6. loop' \in Loops /\ loop'.fill <= ChunkMax
    BY <2>1 DEF IoFrom, IoTo
  <2> QED
    BY ZenonT(60), <1>a, <1>b, <1>c, <1>f, <2>2, <2>3, <2>4, <2>5, <2>6 DEF TypeInv, TypeOK, Before, Capacity
<1>12. CASE RoundFails
  <2>1. /\ pc' \in {"decide", "end", "done"} /\ keepalive' \in BOOLEAN
        /\ result' \in {"none", "ok", "error"}
        /\ return_code' \in {"none", "100", "200", "204", "206", "error"}
    BY Zenon, <1>12, <1>a, <1>c, ReturnFacts DEF RoundFails
  <2> QED
    BY <1>12, <1>a, <1>b, <1>c, <1>h, <2>1 DEF RoundFails, input, service, Before
<1>13. CASE EndOfData
  <2>1. /\ ended' = TRUE /\ UNCHANGED <<req, input, preview_status, loop, held, echo, said204, erred>>
        /\ EndGoesOn \/ Ends204 \/ EndFails
    BY <1>13, EndEffect
  <2>2. /\ send' \in Sends /\ data_locked' \in BOOLEAN /\ keepalive' \in BOOLEAN
        /\ pc' \in {"rest", "done"} /\ result' \in {"none", "ok", "error"}
        /\ return_code' \in {"none", "100", "200", "204", "206", "error"}
    BY Zenon, <1>a, <1>c, <2>1 DEF EndGoesOn, Ends204, EndFails, Failed, AnswerWritten, Codes
  <2> QED
    BY <1>a, <1>b, <1>c, <1>h, <2>1, <2>2 DEF input, Before
<1>14. CASE SendRest
  <2>1. send' \in Sends
    BY <1>14, <1>a, SendSomeType DEF SendRest
  <2> QED
    BY <1>14, <1>a, <1>b, <1>c, <1>h, <2>1 DEF SendRest, input, service, Before
<1>15. CASE SendRestFails
  BY Zenon, <1>15, <1>a, <1>b, <1>c, <1>h DEF SendRestFails, Finish, input, service, Before
<1>16. CASE ReadRest
  <2>1. Smaller(ChunkMax, held) \in Nat /\ Smaller(ChunkMax, held) <= held
    BY <1>a DEF Smaller
  <2>2. send' \in Sends /\ held' \in Nat /\ held' <= held
    BY <1>16, <1>a, <2>1, FormatType DEF ReadRest
  <2> QED
    BY <1>16, <1>a, <1>b, <1>c, <1>f, <2>2
       DEF ReadRest, TypeInv, TypeOK, Before, input, Capacity
<1>6. CASE RestStale
  <2>1. send' \in Sends
    BY <1>6, <1>a, PutFacts, Levels DEF RestStale
  <2> QED
    BY <1>6, <1>a, <1>b, <1>c, <1>h, <2>1 DEF RestStale, input, Before
<1>19. CASE RestStops \/ RestErrs
  BY Zenon, <1>19, <1>a, <1>b, <1>c, <1>h
     DEF RestStops, RestErrs, Finish, input, service, Before
<1>17. CASE UpdateRest
  <2>1. send' \in Sends
    BY <1>17, <1>a, UpdateType DEF UpdateRest
  <2> QED
    BY <1>17, <1>a, <1>b, <1>c, <1>h, <2>1 DEF UpdateRest, Finish, input, service, Before
<1>18. CASE UNCHANGED vars
  BY <1>18, <1>a, <1>b, <1>c, <1>h DEF vars, input, service, Before
<1> QED
  BY <1>1, <1>2, <1>3, <1>4, <1>5, <1>6, <1>7, <1>8, <1>9, <1>10, <1>11, <1>12, <1>13, <1>14,
     <1>15, <1>16, <1>17, <1>18, <1>19 DEF Next, Done

-----------------------------------------------------------------------------
\* The shape of the new answer, from the value that it takes.
LEMMA ShapeNext ==
  ASSUME NEW t, t = send', req' = req, Shape(t)
  PROVE  Shape(send)' /\ Answer' = AnswerOf(t.out)
BY ZenonT(60) DEF Shape, Chunks, Whole, AnswerOf, Answer

\* The answer, as a function of the blocks that were sent.
LEMMA AnswerNow == Answer = AnswerOf(send.out)
BY DEF Answer, AnswerOf

\* A step that sends nothing keeps the shape of the answer.
LEMMA SameSend ==
  ASSUME Shape(send), send' = send, req' = req
  PROVE  Shape(send)' /\ Answer' = Answer
BY Zenon DEF Shape, Chunks, Whole, AnswerOf, Answer

\* Before its first block, the answer is empty or a complete one of ec_responce.
LEMMA NothingShape ==
  ASSUME Shape(send), TypeInv, send.status = SEND_NOTHING
  PROVE  send.remain = 0 /\ send.items = 0 /\ Answer \in {<<>>, <<"answer">>}
BY AnswerNow DEF Shape

\* An answer that is written when nothing was sent before is the only one.
LEMMA WrittenShape ==
  ASSUME TypeInv, AnswerWritten, UNCHANGED req, Answer = <<>>, send.remain = 0, send.items = 0
  PROVE  Shape(send)' /\ Answer' = <<"answer">> /\ send'.remain = 0 /\ send'.status = SEND_EOF
<1>1. PICK t : t = send'
  OBVIOUS
<1>2. send.out \in Seq(Blocks) /\ AnswerOf(send.out) = <<>>
  BY TypeFacts, SendFields, AnswerNow
<1>3. AnswerOf(t.out) = <<"answer">>
  <2>1. AnswerOf(Append(send.out, "answer")) = Append(<<>>, "answer")
    BY <1>2, AnswerGrows, Levels
  <2>2. Append(<<>>, "answer") = <<"answer">>
    OBVIOUS
  <2>3. t.out = Append(send.out, "answer")
    BY <1>1 DEF AnswerWritten
  <2> QED
    BY <2>1, <2>2, <2>3
<1>4. t.status = SEND_EOF /\ t.items = 0 /\ t.remain = 0
  BY <1>1 DEF AnswerWritten
<1>5. Shape(t)
  BY <1>3, <1>4 DEF Shape
<1> QED
  BY <1>1, <1>3, <1>4, <1>5, ShapeNext

\* An error is answered only where nothing of another answer has been sent.
LEMMA FailedShape ==
  ASSUME TypeInv, Failed, UNCHANGED req, Shape(send),
         send' = send \/ (send.status = SEND_NOTHING /\ Answer = <<>>)
  PROVE  Shape(send)' /\ Answer' \in {Answer, <<>>, <<"answer">>}
<1>1. CASE send' = send
  BY <1>1, SameSend
<1>2. CASE send.status = SEND_NOTHING /\ Answer = <<>> /\ AnswerWritten
  BY <1>2, NothingShape, WrittenShape
<1>3. CASE /\ send.status = SEND_NOTHING /\ Answer = <<>>
           /\ send'.status = SEND_EOF /\ send'.remain = send.remain
           /\ send'.items = send.items /\ send'.out = send.out
  <2>1. PICK t : t = send'
    OBVIOUS
  <2>2. t.status = SEND_EOF /\ t.items = 0 /\ t.remain = 0 /\ AnswerOf(t.out) = <<>>
    BY <1>3, <2>1, NothingShape, AnswerNow
  <2>3. Shape(t)
    BY <2>2 DEF Shape
  <2> QED
    BY <2>1, <2>2, <2>3, ShapeNext
<1> QED
  BY <1>1, <1>2, <1>3 DEF Failed

\* A request that is over, whatever was sent before.
LEMMA DonePlace ==
  ASSUME Place, pc' = "done", Answer' \in {Answer, <<>>, <<"answer">>},
         data_locked' = data_locked, ended => ended',
         preview_status' \in {"ok", preview_status}, req' = req
  PROVE  Place'
<1>1. data_locked' /\ ~ended' => Answer' \in {<<>>, <<"answer">>}
  BY DEF Place
<1>2. preview_status' = "eof" => req'.preview >= 0
  BY DEF Place
<1> QED
  BY <1>1, <1>2 DEF Place, Before, Rounds

\* The rounds go on, or get_send_body returns.
LEMMA RoundsPlace ==
  ASSUME TypeInv, Place, Shape(send)', Rounds, req.hasbody,
         UNCHANGED <<req, data_locked, preview_status, ended>>, send' \in Sends,
         IF loop.parse_only
         THEN /\ Drops(req) /\ data_locked /\ send'.status = SEND_NOTHING
              /\ Answer' = <<"answer">>
         ELSE /\ Answer' # <<"answer">> /\ (send'.status = SEND_EOF => Answer' # <<>>)
              /\ data_locked => send'.status = SEND_NOTHING,
         \/ \E ok \in BOOLEAN : Return(ok)
         \/ /\ pc' \in {"wait", "io"} /\ loop'.parse_only = loop.parse_only
            /\ pc' = "io" => (loop'.formated <=> send'.remain > 0)
  PROVE  Place'
<1>a. ~ended /\ ~ended' /\ loop.parse_only \in BOOLEAN
  BY TypeFacts, LoopFields DEF Place, Rounds
<1>b. preview_status' = "eof" => req'.preview >= 0
  BY DEF Place
<1>c. send'.status = SEND_NOTHING => send'.remain = 0 /\ Answer' \in {<<>>, <<"answer">>}
  BY DEF Shape, Answer, AnswerOf
<1>d. data_locked' => Answer' \in {<<>>, <<"answer">>}
  BY <1>a, <1>c
<1>1. CASE /\ pc' \in {"wait", "io"} /\ loop'.parse_only = loop.parse_only
           /\ pc' = "io" => (loop'.formated <=> send'.remain > 0)
  BY <1>1, <1>a, <1>b, <1>d DEF Place, Rounds, Before, Drops
<1>2. CASE \E ok \in BOOLEAN : Return(ok)
  <2>1. \/ loop.parse_only /\ pc' = "decide" /\ return_code' = "204"
        \/ ~loop.parse_only /\ pc' = "end"
        \/ pc' = "done"
    BY <1>2, TypeFacts, ReturnFacts
  <2>2. CASE loop.parse_only /\ pc' = "decide" /\ return_code' = "204"
    <3>1. Code' = "204"
      <4>1. preview_status' # "eof"
        BY <1>b, <2>2, TypeFacts, RequestFields DEF Drops
      <4> QED
        BY <2>2, <4>1 DEF Code
    <3> QED
      BY <1>a, <1>b, <1>c, <1>d, <2>2, <3>1 DEF Place, Rounds, Before
  <2>3. CASE ~loop.parse_only /\ pc' = "end"
    BY <1>a, <1>b, <1>c, <1>d, <2>3 DEF Place, Rounds, Before
  <2>4. CASE pc' = "done"
    BY <1>a, <1>b, <1>d, <2>4 DEF Place, Rounds, Before
  <2> QED
    BY <2>1, <2>2, <2>3, <2>4
<1> QED
  BY <1>1, <1>2

\* Every step keeps the answer in its order, for services that keep their data
\* locked when they may answer a body that still comes with a 204.
LEMMA SendStep ==
  ASSUME LocksFor204, TypeInv, SendInv, [Next]_vars
  PROVE  SendInv'
<1>a. /\ req \in Requests /\ req \in Request /\ send \in Sends /\ loop \in Loops
      /\ loop.parse_only \in BOOLEAN /\ data_locked \in BOOLEAN /\ ended \in BOOLEAN
      /\ loop.fill \in Nat
  BY TypeFacts, LoopFields
<1>b. Shape(send) /\ Place
  BY DEF SendInv
<1>c. /\ req.preview \in Int /\ req.hasbody \in BOOLEAN /\ req.unlock \in BOOLEAN
      /\ req.heads \in 0 .. 1
  BY <1>a, RequestFields
<1>d. Before => /\ send.status = SEND_NOTHING /\ send.out = <<>> /\ Answer = <<>> /\ data_locked
                /\ return_code = "none" /\ send.remain = 0 /\ send.items = 0 /\ send.sent = 0
                /\ ~ended
  <2>1. Before => /\ send.status = SEND_NOTHING /\ send.out = <<>> /\ data_locked
                  /\ return_code = "none" /\ send.sent = 0
    BY <1>b DEF Place
  <2>2. Before => ~ended
    BY <1>b DEF Place, Before
  <2>3. send.out = <<>> => Answer = <<>>
    BY DEF Answer
  <2> QED
    BY <1>b, <2>1, <2>2, <2>3, NothingShape
<1>1. CASE Refused
  <2>1. pc = "parsed" /\ UNCHANGED <<req, input, data_locked, preview_status, loop, service>>
    BY <1>1 DEF Refused
  <2>2. CASE Fails
    BY <1>b, <1>d, <2>1, <2>2, FailsFacts, FailedShape, DonePlace
       DEF Failed, Before, service, SendInv
  <2>3. CASE Finish("error") /\ UNCHANGED <<send, return_code>>
    BY <1>b, <2>1, <2>3, SameSend, DonePlace DEF Finish, service, SendInv
  <2> QED
    BY <1>1, <2>2, <2>3 DEF Refused
<1>2. CASE Options
  <2>1. /\ pc = "parsed" /\ pc' = "done"
        /\ UNCHANGED <<req, data_locked, preview_status, ended>>
    BY <1>2 DEF Options, Finish, service
  <2>2. CASE send' = send
    BY <1>b, <2>1, <2>2, SameSend, DonePlace DEF SendInv
  <2>3. CASE send' = Put("answer")
    <3>1. PICK t : t = send'
      OBVIOUS
    <3>2. /\ t.status = SEND_NOTHING /\ t.remain = 0 /\ t.items = 0
          /\ t.out = Append(<<>>, "answer")
      BY <1>a, <1>d, <2>1, <2>3, <3>1, PutFacts, Levels DEF Before
    <3>3. AnswerOf(t.out) = <<"answer">>
      <4>1. t.out = <<"answer">> /\ <<"answer">> # <<>> /\ <<"answer">>[1] = "answer"
        BY <3>2
      <4> QED
        BY <4>1 DEF AnswerOf
    <3>4. Shape(t)
      BY <3>2, <3>3 DEF Shape
    <3> QED
      BY <1>b, <2>1, <3>1, <3>3, <3>4, ShapeNext, DonePlace DEF SendInv
  <2> QED
    BY <1>2, <2>2, <2>3 DEF Options
<1>3. CASE Start
  <2>1. /\ pc = "parsed" /\ pc' \in {"preview", "handler"}
        /\ UNCHANGED <<req, send, data_locked, return_code, preview_status, ended>>
    BY <1>3 DEF Start, service
  <2>2. Shape(send)' /\ Answer' = Answer
    BY <1>b, <2>1, SameSend
  <2> QED
    BY <1>b, <1>d, <2>1, <2>2 DEF SendInv, Place, Before, Rounds
<1>4. CASE ReadPreview
  <2>1. pc = "preview" /\ UNCHANGED <<req, data_locked, loop, service>>
    BY <1>4 DEF ReadPreview
  <2>2. CASE Fails /\ UNCHANGED preview_status
    BY <1>b, <1>d, <2>1, <2>2, FailsFacts, FailedShape, DonePlace
       DEF Failed, Before, service, SendInv
  <2>3. CASE pc' = "handler" /\ UNCHANGED <<send, return_code, keepalive, result>>
    <3>1. Shape(send)' /\ Answer' = Answer
      BY <1>b, <2>1, <2>3, SameSend
    <3>2. req.preview >= 0
      BY <2>1 DEF TypeInv
    <3>3. UNCHANGED <<req, send, data_locked, return_code, ended>>
      BY <2>1, <2>3 DEF service
    <3> QED
      BY <1>b, <1>d, <2>1, <2>3, <3>1, <3>2, <3>3 DEF SendInv, Place, Before, Rounds
  <2> QED
    BY <1>4, <2>2, <2>3 DEF ReadPreview
<1>5. CASE PreviewHandler \/ FakePreview
  <2>a. /\ pc = "handler" /\ data_locked' = ~req.unlock
        /\ UNCHANGED <<req, arrived, partial, pending, eof_received, loop, ended, erred>>
        /\ Handled204 \/ HandledContinue \/ HandledSilently \/ HandledFails
    BY <1>5, HandlerEffect
  <2>b. /\ send.status = SEND_NOTHING /\ send.out = <<>> /\ Answer = <<>> /\ data_locked
        /\ return_code = "none" /\ send.remain = 0 /\ send.items = 0 /\ send.sent = 0 /\ ~ended
    BY <1>d, <2>a DEF Before
  <2>c. preview_status = "eof" => req.preview >= 0
    BY <1>b DEF Place
  <2>1. CASE Handled204
    <3>1. Shape(send)' /\ Answer' = <<"answer">> /\ send'.remain = 0 /\ send'.status = SEND_EOF
      BY <2>1, <2>a, <2>b, WrittenShape DEF Handled204
    <3>2. send'.sent = 0 /\ (pc' = "drop" => Drops(req) /\ data_locked')
      BY ZenonT(60), <1>a, <2>1, <2>a, <2>b DEF Handled204, AnswerWritten, LocksFor204
    <3>3. pc' = "decide" => Code' \in {"200", "204"}
      BY <1>c, <2>1, <2>c DEF Handled204, Code, Code204
    <3>4. preview_status' = "eof" => req'.preview >= 0
      BY <1>b, <2>1, <2>a DEF Handled204, Place
    <3>5. pc' \in {"decide", "drop"} /\ ~ended' /\ req' = req
      BY <2>1, <2>a, <2>b DEF Handled204
    <3> QED
      BY <3>1, <3>2, <3>3, <3>4, <3>5 DEF SendInv, Place, Before, Rounds, Drops
  <2>2. CASE HandledContinue
    <3>1. PICK t : t = send'
      OBVIOUS
    <3>2. t.status = SEND_NOTHING /\ t.remain = 0 /\ t.items = 0 /\ AnswerOf(t.out) = <<>>
      <4>1. CASE send' = send
        BY <2>b, <3>1, <4>1 DEF AnswerOf
      <4>2. CASE send' = Put("100")
        <5>1. /\ t.status = SEND_NOTHING /\ t.remain = 0 /\ t.items = 0
              /\ t.out = Append(<<>>, "100")
          BY <1>a, <2>b, <3>1, <4>2, PutFacts, Levels
        <5>2. Append(<<>>, "100") = <<"100">>
          OBVIOUS
        <5> QED
          BY ZenonT(60), <5>1, <5>2, AnswerGrows, Levels, NoBlocks
      <4> QED
        BY <2>2, <4>1, <4>2 DEF HandledContinue
    <3>3. Shape(t)
      BY <3>2 DEF Shape
    <3>4. Shape(send)' /\ Answer' = <<>>
      BY <2>a, <3>1, <3>2, <3>3, ShapeNext
    <3> QED
      BY Zenon, <1>b, <2>2, <2>a, <2>b, <3>1, <3>2, <3>4
         DEF HandledContinue, SendInv, Place, Before, Rounds
  <2>3. CASE HandledSilently
    <3>1. Shape(send)' /\ Answer' = <<>> /\ send'.status = SEND_NOTHING
      BY <1>b, <2>3, <2>a, <2>b, SameSend DEF HandledSilently
    <3>2. return_code' # "204"
      BY <2>3, <2>b DEF HandledSilently
    <3>3. preview_status' = "eof" => req'.preview >= 0
      BY <2>3, <2>a, <2>c DEF HandledSilently
    <3>4. pc' = "decide" /\ ~ended'
      BY <2>3, <2>a, <2>b DEF HandledSilently
    <3> QED
      BY <3>1, <3>2, <3>3, <3>4 DEF SendInv, Place, Before, Rounds
  <2>4. CASE HandledFails
    <3>1. Shape(send)' /\ Answer' \in {<<>>, <<"answer">>}
      BY <1>b, <2>4, <2>a, <2>b, FailedShape DEF HandledFails
    <3>2. preview_status' = "eof" => req'.preview >= 0
      BY <2>4, <2>a, <2>c DEF HandledFails
    <3>3. pc' = "done"
      BY <2>4 DEF HandledFails, Failed
    <3> QED
      BY <3>1, <3>2, <3>3 DEF SendInv, Place, Before, Rounds
  <2> QED
    BY <2>a, <2>1, <2>2, <2>3, <2>4
<1>7. CASE Drop
  <2>1. /\ pc = "drop" /\ pc' = "wait" /\ loop'.parse_only = TRUE
        /\ send' = [send EXCEPT !.status = SEND_NOTHING]
        /\ UNCHANGED <<req, data_locked, preview_status, ended>>
    BY Zenon, <1>7, StartType DEF Drop, service
  <2>2. /\ Answer = <<"answer">> /\ send.status = SEND_EOF /\ send.remain = 0 /\ Drops(req)
        /\ data_locked /\ ~ended
    BY <1>b, <2>1 DEF Place
  <2>3. PICK t : t = send'
    OBVIOUS
  <2>4. t.status = SEND_NOTHING /\ t.remain = 0 /\ t.items = 0 /\ AnswerOf(t.out) = <<"answer">>
    <3>1. send.items = 0
      BY <1>b, <2>2 DEF Shape
    <3>2. /\ t.status = SEND_NOTHING /\ t.remain = send.remain
          /\ t.items = send.items /\ t.out = send.out
      BY <1>a, <2>1, <2>3, StatusFacts, Levels
    <3> QED
      BY <2>2, <3>1, <3>2, AnswerNow
  <2>5. Shape(send)' /\ Answer' = <<"answer">>
    <3>1. Shape(t)
      BY <2>4 DEF Shape
    <3> QED
      BY Zenon, <2>1, <2>3, <2>4, <3>1, ShapeNext
  <2> QED
    BY <1>b, <2>1, <2>2, <2>3, <2>4, <2>5 DEF SendInv, Place, Before, Rounds, Drops
<1>8. CASE Decide
  <2>1. pc = "decide" /\ UNCHANGED <<req, data_locked, preview_status, ended>> /\ ~ended
    BY <1>8, <1>b DEF Decide, service, Place
  <2>2. CASE pc' = "done" /\ send' = send
    BY <1>b, <2>1, <2>2, SameSend, DonePlace DEF SendInv
  <2>3. CASE /\ Code = "100" /\ req.hasbody /\ pc' = "wait" /\ StartLoop(FALSE)
             /\ send' = [send EXCEPT !.status = SEND_NOTHING]
    <3>1. send.status = SEND_NOTHING /\ Answer = <<>>
      BY <1>b, <2>1, <2>3 DEF Place
    <3>2. PICK t : t = send'
      OBVIOUS
    <3>3. t.status = SEND_NOTHING /\ t.remain = 0 /\ t.items = 0 /\ AnswerOf(t.out) = <<>>
      <4>1. send.items = 0 /\ send.remain = 0
        BY <1>b, <3>1, NothingShape
      <4>2. /\ t.status = SEND_NOTHING /\ t.remain = send.remain
            /\ t.items = send.items /\ t.out = send.out
        BY <1>a, <2>3, <3>2, StatusFacts, Levels
      <4> QED
        BY <3>1, <4>1, <4>2, AnswerNow
    <3>4. Shape(send)' /\ Answer' = <<>>
      <4>1. Shape(t)
        BY <3>3 DEF Shape
      <4> QED
        BY <2>1, <3>2, <3>3, <4>1, ShapeNext
    <3>5. loop'.parse_only = FALSE
      BY Zenon, <2>3, StartType
    <3> QED
      BY <1>b, <2>1, <2>3, <3>2, <3>3, <3>4, <3>5 DEF SendInv, Place, Before, Rounds
  <2>4. CASE Code \notin {"204", "100"} /\ pc' = "end" /\ send' = send
    <3>1. Shape(send)' /\ Answer' = Answer
      BY <1>b, <2>1, <2>4, SameSend
    <3>2. \/ send.status = SEND_NOTHING /\ Answer = <<>>
          \/ Answer = <<"answer">> /\ send.status = SEND_EOF
      BY <1>b, <2>1, <2>4 DEF Place
    <3>3. ~ended /\ (preview_status = "eof" => req.preview >= 0)
      BY <1>b, <2>1 DEF Place
    <3>4. pc' = "end" /\ send'.status = send.status /\ ~ended'
          /\ (preview_status' = "eof" => req'.preview >= 0)
      BY <2>1, <2>4, <3>3
    <3>5. Place'
      BY <3>1, <3>2, <3>4 DEF Place, Before, Rounds
    <3> QED
      BY Zenon, <3>1, <3>5 DEF SendInv
  <2> QED
    BY Zenon, <1>8, <2>2, <2>3, <2>4 DEF Decide, Code, Finish
<1>9. CASE Wait
  <2>1. /\ pc = "wait" /\ pc' = "io" /\ loop'.parse_only = loop.parse_only
        /\ loop'.formated <=> send'.remain > 0
        /\ UNCHANGED <<req, data_locked, preview_status, ended>>
    BY Zenon, <1>9, WaitEffect DEF service
  <2>2. PICK s : (s = send \/ s \in SendSome(send)) /\ send' = Refilled(s)
    BY <1>9, WaitEffect
  <2>3. /\ req.hasbody
        /\ IF loop.parse_only
           THEN Drops(req) /\ data_locked /\ send.status = SEND_NOTHING /\ Answer = <<"answer">>
           ELSE /\ Answer # <<"answer">>
                /\ send.status = SEND_EOF => Answer # <<>>
                /\ data_locked => send.status = SEND_NOTHING
    BY <1>b, <2>1 DEF Place, Rounds
  <2>4. send' \in Sends
    BY <1>a, <2>2, SendSomeType, RefilledType
  <2>5. CASE data_locked
    <3>1. send.status = SEND_NOTHING
      BY <1>a, <2>3, <2>5
    <3>2. send.remain = 0
      BY <1>b, <3>1, NothingShape
    <3>3. s = send
      BY <1>a, <1>b, <2>2, <3>2, SendSomeFacts
    <3>4. send' = send
      BY <2>2, <2>5, <3>3 DEF Refilled
    <3>5. Shape(send)' /\ Answer' = Answer
      BY <1>b, <2>1, <3>4, SameSend
    <3> QED
      BY <1>b, <2>1, <2>3, <2>4, <2>5, <3>1, <3>4, <3>5, RoundsPlace DEF SendInv, Rounds
  <2>6. CASE ~data_locked
    <3>1. ~loop.parse_only /\ Answer # <<"answer">> /\ (send.status = SEND_EOF => Answer # <<>>)
      BY <1>a, <2>3, <2>6
    <3>2. /\ s \in Sends /\ Shape(s) /\ s.status = send.status
          /\ AnswerOf(s.out) # <<"answer">>
          /\ s.status = SEND_EOF => AnswerOf(s.out) # <<>>
      <4>1. CASE s = send
        BY <1>a, <1>b, <3>1, <4>1, AnswerNow
      <4>2. CASE s \in SendSome(send)
        BY <1>a, <1>b, <3>1, <4>2, AnswerNow, SendSomeFacts
      <4> QED
        BY <2>2, <4>1, <4>2
    <3>3. PICK t : t = send'
      OBVIOUS
    <3>4. /\ Shape(t) /\ AnswerOf(t.out) # <<"answer">>
          /\ t.status = SEND_EOF => AnswerOf(t.out) # <<>>
      <4>1. CASE s.remain # 0
        BY <2>2, <3>2, <3>3, <4>1 DEF Refilled
      <4>2. CASE s.remain = 0
        <5>1. t = update_send_status(s)
          BY <2>2, <2>6, <3>3, <4>2 DEF Refilled
        <5>2. s.status = SEND_NOTHING => AnswerOf(s.out) = <<>>
          BY <3>2 DEF Shape
        <5>3. /\ Shape(t) /\ t.out = s.out
              /\ t.status = SEND_EOF => s.status = SEND_EOF \/ AnswerOf(t.out) # <<>>
          BY <1>a, <3>2, <4>2, <5>1, <5>2, UpdateFacts
        <5> QED
          BY <3>2, <5>3
      <4> QED
        BY <4>1, <4>2
    <3>5. /\ Shape(send)' /\ Answer' # <<"answer">> /\ (send'.status = SEND_EOF => Answer' # <<>>)
      BY <2>1, <3>3, <3>4, ShapeNext
    <3> QED
      BY <1>b, <2>1, <2>3, <2>4, <2>6, <3>1, <3>5, RoundsPlace DEF SendInv, Rounds
  <2> QED
    BY <1>a, <2>5, <2>6
<1>10. CASE WaitFails \/ RoundFails
  <2>1. /\ Rounds /\ (\E ok \in BOOLEAN : Return(ok))
        /\ UNCHANGED <<req, send, data_locked, preview_status, ended>>
    BY Zenon, <1>10, TypeFacts DEF WaitFails, RoundFails, Rounds, service
  <2>2. Shape(send)' /\ Answer' = Answer
    BY <1>b, <2>1, SameSend
  <2>3. /\ req.hasbody
        /\ IF loop.parse_only
           THEN Drops(req) /\ data_locked /\ send.status = SEND_NOTHING /\ Answer = <<"answer">>
           ELSE /\ Answer # <<"answer">>
                /\ send.status = SEND_EOF => Answer # <<>>
                /\ data_locked => send.status = SEND_NOTHING
    BY <1>b, <2>1 DEF Place
  <2> QED
    BY <1>a, <1>b, <2>1, <2>2, <2>3, RoundsPlace DEF SendInv
<1>11. CASE Io
  <2>1. PICK take \in Nat, pend \in Nat, taken \in Nat, given \in Nat,
            eof \in BOOLEAN, seof \in BOOLEAN, again \in BOOLEAN :
           /\ IoFrom(take, pend, taken, given, eof, seof, again)
           /\ IoTo(pend, taken, given, eof, seof, again)
    BY <1>11, IoEffect
  <2>2. /\ UNCHANGED <<req, data_locked, preview_status, ended>> /\ pc = "io" /\ Rounds
    BY <1>11, IoNamed DEF Rounds
  <2>3. /\ req.hasbody
        /\ IF loop.parse_only
           THEN Drops(req) /\ data_locked /\ send.status = SEND_NOTHING /\ Answer = <<"answer">>
           ELSE /\ Answer # <<"answer">>
                /\ send.status = SEND_EOF => Answer # <<>>
                /\ data_locked => send.status = SEND_NOTHING
        /\ loop.formated <=> send.remain > 0
    BY <1>b, <2>2 DEF Place
  <2>4. /\ \/ \E ok \in BOOLEAN : Return(ok)
           \/ /\ pc' \in {"wait", "io"} /\ loop'.parse_only = loop.parse_only
              /\ pc' = "io" => (loop'.formated <=> send'.remain > 0)
        /\ send' = send \/ send' = Formatted(loop.fill + given, seof)
    BY <2>1, <2>3 DEF IoTo
  <2>5. CASE send' = send
    <3>1. Shape(send)' /\ Answer' = Answer
      BY <1>b, <2>2, <2>5, SameSend
    <3> QED
      BY <1>a, <1>b, <2>2, <2>3, <2>4, <2>5, <3>1, RoundsPlace DEF SendInv
  <2>6. CASE send' # send
    <3>1. /\ send.status = SEND_BODY /\ ~loop.formated
          /\ send' = format_body_chunk(send, loop.fill + given)
      BY <2>4, <2>6 DEF Formatted
    <3>2. send.remain = 0 /\ loop.fill + given \in Nat
      BY <1>a, <2>3, <3>1, SendFields
    <3>3. PICK t : t = send'
      OBVIOUS
    <3>4. Shape(t) /\ t \in Sends /\ AnswerOf(t.out) \notin {<<>>, <<"answer">>}
      BY <1>a, <1>b, <3>1, <3>2, <3>3, FormatFacts
    <3>5. Shape(send)' /\ Answer' \notin {<<>>, <<"answer">>} /\ send' \in Sends
      BY <2>2, <3>3, <3>4, ShapeNext
    <3>6. ~loop.parse_only /\ ~data_locked
      BY <1>a, <2>3, <3>1
    <3> QED
      BY <1>b, <2>2, <2>3, <2>4, <3>5, <3>6, RoundsPlace DEF SendInv
  <2> QED
    BY <2>5, <2>6
<1>13. CASE EndOfData
  <2>1. /\ pc = "end" /\ ended' = TRUE /\ UNCHANGED <<req, preview_status>>
        /\ EndGoesOn \/ Ends204 \/ EndFails
    BY <1>13, EndEffect
  <2>2. /\ send.status = SEND_NOTHING => Answer = <<>>
        /\ send.status = SEND_EOF => Answer # <<>>
    BY <1>b, <2>1 DEF Place
  <2>3. ASSUME AnswerWritten, ~Sent
        PROVE  Shape(send)' /\ Answer' = <<"answer">> /\ send'.status = SEND_EOF
    BY <1>b, <2>1, <2>2, <2>3, NothingShape, WrittenShape DEF Sent
  <2>4. preview_status' = "eof" => req'.preview >= 0
    BY <1>b, <2>1 DEF Place
  <2>5. CASE EndGoesOn /\ send' = send
    <3>1. Shape(send)' /\ Answer' = Answer
      BY <1>b, <2>1, <2>5, SameSend
    <3> QED
      BY <2>1, <2>2, <2>4, <2>5, <3>1 DEF EndGoesOn, SendInv, Place, Before, Rounds
  <2>6. CASE EndGoesOn /\ AnswerWritten /\ ~Sent
    <3>1. Shape(send)' /\ Answer' = <<"answer">> /\ send'.status = SEND_EOF
      BY <2>3, <2>6
    <3>2. pc' = "rest" /\ data_locked' = FALSE /\ Answer' # <<>>
      BY <2>6, <3>1 DEF EndGoesOn
    <3> QED
      BY <2>1, <2>4, <3>1, <3>2 DEF SendInv, Place, Before, Rounds
  <2>7. CASE Ends204
    BY <2>1, <2>3, <2>4, <2>7 DEF Ends204, SendInv, Place, Before, Rounds
  <2>8. CASE EndFails
    <3>1. Shape(send)'
      BY <1>b, <2>1, <2>2, <2>8, FailedShape DEF EndFails, Sent
    <3> QED
      BY Zenon, <2>1, <2>4, <2>8, <3>1 DEF EndFails, Failed, SendInv, Place, Before, Rounds
  <2> QED
    BY Zenon, <2>1, <2>5, <2>6, <2>7, <2>8 DEF EndGoesOn
<1>14. CASE SendRest \/ ReadRest \/ RestStale \/ UpdateRest
  <2>1. /\ pc = "rest" /\ pc' \in {"rest", "done"}
        /\ UNCHANGED <<req, data_locked, preview_status, ended>>
    BY <1>14 DEF SendRest, ReadRest, RestStale, UpdateRest, Finish, service
  <2>2. /\ ~data_locked /\ ended
        /\ send.status = SEND_NOTHING => Answer = <<>>
        /\ send.status = SEND_EOF => Answer # <<>>
        /\ preview_status' = "eof" => req'.preview >= 0
    BY Zenon, <1>b, <2>1 DEF Place
  <2>3. PICK t : t = send'
    OBVIOUS
  <2>4. /\ Shape(t) /\ t.status # SEND_NOTHING
        /\ t.status = SEND_EOF => AnswerOf(t.out) # <<>>
    <3>1. CASE SendRest
      <4>1. t \in SendSome(send) /\ send.remain > 0
        BY <2>3, <3>1 DEF SendRest
      <4>2. send.status # SEND_NOTHING
        BY <1>b, <4>1, NothingShape
      <4> QED
        BY <1>a, <1>b, <2>2, <4>1, <4>2, SendSomeFacts, AnswerNow
    <3>2. CASE ReadRest
      <4>1. PICK n \in Nat : n = Smaller(ChunkMax, held)
        BY TypeFacts DEF Smaller
      <4>2. t = format_body_chunk(send, n) /\ send.remain = 0 /\ send.status = SEND_BODY
        BY <2>3, <3>2, <4>1 DEF ReadRest
      <4>3. /\ Shape(t) /\ t.status = IF n > 0 THEN SEND_BODY ELSE SEND_EOF
            /\ AnswerOf(t.out) # <<>>
        BY <1>a, <1>b, <4>2, FormatFacts
      <4> QED
        BY <4>3
    <3>3. CASE UpdateRest
      <4>1. t = update_send_status(send) /\ send.remain = 0
        BY <2>3, <3>3 DEF UpdateRest
      <4> QED
        BY <1>a, <1>b, <2>2, <4>1, UpdateFacts, AnswerNow
    <3>4. CASE RestStale
      <4>1. t = Put("stale") /\ send.remain = 0 /\ send.status = SEND_BODY
        BY <2>3, <3>4 DEF RestStale
      <4>2. "stale" \in Blocks /\ send \in Sends /\ req.heads \in 0 .. 1
        BY <1>a, Levels, TypeFacts, RequestFields
      <4>3. /\ t.status = SEND_BODY /\ t.remain = 0 /\ t.items = send.items
            /\ t.out = Append(send.out, "stale")
        BY <4>1, <4>2, PutFacts
      <4>4. PICK a \in Seq(Blocks) : a = AnswerOf(send.out)
        BY <4>2, SendFields, AnswerLen
      <4>5. AnswerOf(t.out) = Append(a, "stale")
        BY <4>2, <4>3, <4>4, SendFields, AnswerGrows
      <4>6. send.items = 0 /\ req.hasbody /\ Chunks(a, Len(a))
        BY <1>b, <4>1, <4>4 DEF Shape
      <4>7. PICK b : b = AnswerOf(t.out)
        OBVIOUS
      <4>8. /\ Len(b) = Len(a) + 1 /\ b[Len(a) + 1] = "stale" /\ b # <<>>
            /\ \A i \in 1 .. Len(a) : b[i] = a[i]
        BY <4>2, <4>4, <4>5, <4>7
      <4>9. Chunks(b, Len(b))
        BY <4>2, <4>4, <4>6, <4>8 DEF Chunks
      <4> QED
        BY <4>3, <4>6, <4>7, <4>8, <4>9 DEF Shape
    <3> QED
      BY <1>14, <3>1, <3>2, <3>3, <3>4
  <2>5. /\ Shape(send)' /\ send'.status # SEND_NOTHING
        /\ send'.status = SEND_EOF => Answer' # <<>>
    BY <2>1, <2>3, <2>4, ShapeNext
  <2> QED
    BY <2>1, <2>2, <2>5 DEF SendInv, Place, Before, Rounds
<1>15. CASE SendRestFails \/ RestStops \/ RestErrs
  <2>1. pc' = "done" /\ UNCHANGED <<req, send, data_locked, preview_status, ended>>
    BY <1>15 DEF SendRestFails, RestStops, RestErrs, Finish, service
  <2> QED
    BY <1>b, <2>1, SameSend, DonePlace DEF SendInv
<1>18. CASE UNCHANGED vars
  <2>1. Shape(send)' /\ Answer' = Answer
    BY <1>b, <1>18, SameSend DEF vars
  <2> QED
    BY Zenon, <1>b, <1>18, <2>1 DEF SendInv, Place, Before, Rounds, Code, vars, input, service
<1> QED
  BY <1>1, <1>2, <1>3, <1>4, <1>5, <1>7, <1>8, <1>9, <1>10, <1>11, <1>13, <1>14,
     <1>15, <1>18 DEF Next, Done

\* do_request begins with nothing sent.
LEMMA InitTyped ==
  ASSUME Init
  PROVE  TypeInv /\ SendInv
<1>a. req \in Requests /\ req \in Request
  BY ConstantsAssumption DEF Init
<1>b. /\ req.preview \in Int /\ req.rest \in Nat /\ req.hasbody \in BOOLEAN /\ req.cap \in Nat
  BY <1>a, RequestFields
<1>1. send \in Sends /\ send.status = SEND_NOTHING /\ send.remain = 0 /\ send.items = 0
      /\ send.sent = 0 /\ send.out = <<>>
  BY Levels, NoBlocks DEF Init, Sends
<1>2. loop \in Loops /\ loop.fill = 0
  BY DEF Init, NoLoop, Loops
<1>3. arrived \in Nat /\ coming \in Nat /\ arrived + coming <= req.rest + 1
      /\ (req.preview >= 0 => arrived + coming = 0)
  BY <1>b DEF Init
<1>4. TypeOK
  <2>1. {partial, eof_received, data_locked, keepalive, echo, said204, ended, erred} \subseteq BOOLEAN
    BY Zenon DEF Init
  <2>2. {coming, arrived, pending, held} \subseteq Nat
    BY <1>3 DEF Init
  <2> QED
    BY <1>a, <1>1, <2>1, <2>2 DEF TypeOK, Init
<1>5. TypeInv
  BY <1>a, <1>b, <1>1, <1>2, <1>3, <1>4, ConstantsAssumption DEF Init, TypeInv, Capacity
<1>6. AnswerOf(send.out) = <<>> /\ Answer = <<>>
  BY <1>1 DEF AnswerOf, Answer
<1>7. Shape(send)
  BY <1>1, <1>6 DEF Shape
<1>8. Place
  BY <1>1, <1>6 DEF Init, Place, Before, Rounds
<1> QED
  BY <1>5, <1>7, <1>8 DEF SendInv

\* The order of the blocks, from the shape of the answer.
LEMMA ShapeOrders ==
  ASSUME TypeInv, Shape(send)
  PROVE  OneAnswer
<1> DEFINE a == AnswerOf(send.out)
<1>a. Answer = a /\ req.heads \in 0 .. 1 /\ Len(a) \in Nat
  BY TypeFacts, RequestFields, AnswerNow, AnswerLen, SendFields
<1> HIDE DEF a
<1>b. \/ a \in {<<>>, <<"answer">>, <<"head">>}
      \/ a = <<"head", "header">> /\ req.heads = 1
      \/ Chunks(a, Len(a))
      \/ Whole(a)
  BY DEF Shape, a
<1>1. CASE a \in {<<>>, <<"answer">>, <<"head">>}
  BY <1>1, <1>a DEF OneAnswer
<1>2. CASE a = <<"head", "header">> /\ req.heads = 1
  <2>1. a[1] = "head" /\ a[2] = "header" /\ Len(a) = 2
    BY <1>2
  <2> QED
    BY <1>2, <1>a, <2>1 DEF OneAnswer
<1>3. CASE Chunks(a, Len(a))
  BY <1>3, <1>a DEF OneAnswer, Chunks
<1>4. CASE Whole(a)
  BY <1>4, <1>a DEF OneAnswer, Chunks, Whole
<1> QED
  BY <1>b, <1>1, <1>2, <1>3, <1>4

\* The answer of do_request goes out in order, and not before a service that
\* locks its data allows it, for all requests of services that keep their data
\* locked when they may answer a body that still comes with a 204.
THEOREM AnswerAlways ==
  ASSUME LocksFor204
  PROVE  Spec => []AnswerInOrder
<1>1. Init => TypeInv /\ SendInv
  BY InitTyped
<1>2. TypeInv /\ SendInv /\ [Next]_vars => (TypeInv /\ SendInv)'
  BY TypeStep, SendStep
<1>3. TypeInv /\ SendInv => AnswerInOrder
  <2> SUFFICES ASSUME TypeInv, SendInv PROVE AnswerInOrder
    OBVIOUS
  <2>1. OneAnswer
    BY ShapeOrders DEF SendInv
  <2>2. data_locked /\ ~ended => Answer \in {<<>>, <<"answer">>}
    BY DEF SendInv, Place
  <2>3. LockedIsSilent
    BY <2>2 DEF LockedIsSilent
  <2> QED
    BY <2>1, <2>3 DEF AnswerInOrder, TypeInv
<1> QED
  BY <1>1, <1>2, <1>3, PTL DEF Spec
=============================================================================
