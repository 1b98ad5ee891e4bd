----------------------------- MODULE RequestHead -----------------------------
(***************************************************************************)
(* How the head of an ICAP request is read and parsed (request.c,          *)
(* request_common.c): the ICAP header, in blocks of at most                *)
(* ICAP_HEADER_READSIZE bytes, with what was read too far kept for later;  *)
(* the request line and the header lines; the encapsulated headers.  One   *)
(* ci_request_t serves the requests of a connection, and then those of the *)
(* next connection.  What a request says is the record that belongs to the *)
(* bytes of its header; a header ends in CR LF CR LF.                      *)
(***************************************************************************)
EXTENDS Integers, Sequences, FiniteSets
LOCAL INSTANCE SequencesExt

CONSTANTS Conns,                 \* for each connection, the requests that are sent on it
          Services, Aliases,     \* name -> methods; name -> [service, args]
          DEFAULT_SERVICE, ICAP_HEADER_READSIZE, PIPELINING, CHECK_FOR_BUGGY_CLIENT

VARIABLES conn, at,              \* the connection, and the request on it
          in,                    \* bytes not read yet
          buf, startsearch,      \* request_header->buf so far, and where the search goes on
          pstrblock,             \* read too far
          pc, req, code, ent, part
vars == <<conn, at, in, buf, startsearch, pstrblock, pc, req, code, ent, part>>

EOH == <<"r", "n", "r", "n">>
Bytes(rs) == FlattenSeq([i \in DOMAIN rs |-> rs[i].hdr \o FlattenSeq(rs[i].encaps)])
This == Conns[conn][at]
Hdr == {"req-hdr", "res-hdr"}
Body == {"req-body", "res-body"}
Types == Hdr \cup Body \cup {"null-body"}
NoText == <<>>

(* --------------------- the request structure --------------------------- *)
ci_request_alloc ==
  [type |-> "", req_server |-> "", service |-> "", mod |-> "", args |-> <<>>, preview |-> -1, keepalive |-> TRUE,
   allow |-> {}, hasbody |-> FALSE, entities |-> <<>>, trash |-> {}]
\* the entities go to the trash, one of each type, and are taken from there again
ci_request_release_entities(r) == r.trash \cup {r.entities[i].type : i \in DOMAIN r.entities}
ci_request_reset_keeps_args(r) == [ci_request_alloc EXCEPT !.req_server = r.req_server, !.trash = ci_request_release_entities(r), !.args = r.args]
ci_request_reset(r) == [ci_request_alloc EXCEPT !.req_server = r.req_server, !.trash = ci_request_release_entities(r)]
ci_request_alloc_entity(r, t, s) == [type |-> t, start |-> s, text |-> NoText]

(* --------------------- reading the ICAP header ------------------------- *)
Init == /\ conn = 1 /\ at = 1 /\ in = Bytes(Conns[1]) /\ buf = <<>> /\ startsearch = 0 /\ pstrblock = <<>>
        /\ pc = "first" /\ req = ci_request_alloc /\ code = 0 /\ ent = 0 /\ part = <<>>
\* the places in the last n bytes of b, from startsearch on, where the header ends
Ends(b, n, from) == {i \in from..n - 4 : Len(b) - n + i >= 0 /\ SubSeq(b, Len(b) - n + i + 1, Len(b) - n + i + 4) = EOH}
Startsearch_two(readed) == IF startsearch > -2 THEN (IF readed > 2 THEN -2 ELSE -readed) ELSE startsearch
Startsearch(readed) == IF startsearch > -3 THEN (IF readed > 3 THEN -3 ELSE -readed) ELSE startsearch
\* b is the buffer, of which the last n bytes are new
Search(b, n) ==
  LET E == Ends(b, n, startsearch) IN
  IF E = {} THEN /\ buf' = b /\ startsearch' = Startsearch(Len(b)) /\ pc' = "header" /\ pstrblock' = <<>>
  ELSE LET e == Len(b) - n + (CHOOSE i \in E : \A j \in E : i <= j) + 4
       IN buf' = SubSeq(b, 1, e) /\ pstrblock' = SubSeq(b, e + 1, Len(b)) /\ pc' = "parse" /\ startsearch' = 0
Prefetch == /\ pc = "first" /\ PIPELINING /\ pstrblock # <<>> /\ Search(pstrblock, Len(pstrblock))
            /\ UNCHANGED <<conn, at, in, req, code, ent, part>>
ReadBlock ==
  /\ pc = "header" \/ (pc = "first" /\ (pstrblock = <<>> \/ ~PIPELINING))
  /\ \E n \in 1..ICAP_HEADER_READSIZE : n <= Len(in) /\ Search(buf \o SubSeq(in, 1, n), n) /\ in' = SubSeq(in, n + 1, Len(in))
  /\ UNCHANGED <<conn, at, req, code, ent, part>>
\* the wait times out, the client closes, or the child halts
ReadFails == /\ pc \in {"first", "header", "encaps"} /\ pc' = "done" /\ code' = IF pc = "encaps" THEN -1 ELSE 408
             /\ UNCHANGED <<conn, at, in, buf, startsearch, pstrblock, req, ent, part>>

(* ------------------------- parsing the header -------------------------- *)
\* arguments are added to those already there; an alias that has some puts its own in their place
Args(r, l) == IF l.args = <<>> THEN r.args ELSE IF r.args = <<>> THEN l.args ELSE r.args \o <<"&">> \o l.args
parse_request(r, l) ==
  LET r1 == [r EXCEPT !.type = l.method]
      r2 == [r1 EXCEPT !.req_server = l.server, !.service = l.service, !.args = Args(r, l)]
      r3 == [r2 EXCEPT !.service = IF @ = "" THEN DEFAULT_SERVICE ELSE @]
      s == IF r3.service \in DOMAIN Services THEN r3.service
           ELSE IF r3.service \in DOMAIN Aliases THEN Aliases[r3.service].service ELSE ""
      byAlias == r3.service \notin DOMAIN Services /\ s # "" /\ Aliases[r3.service].args # <<>>
      r4 == [r3 EXCEPT !.mod = s, !.args = IF byAlias THEN Aliases[r3.service].args ELSE @]
  IN IF l.method \notin {"OPTIONS", "REQMOD", "RESPMOD"} \/ ~l.icap THEN [req |-> r1, code |-> 400]
     ELSE IF ~l.version THEN [req |-> r2, code |-> 400]
     ELSE IF s = "" THEN [req |-> r4, code |-> 404]
     ELSE IF l.method # "OPTIONS" /\ l.method \notin Services[s] THEN [req |-> r4, code |-> 405]
     ELSE [req |-> r4, code |-> 100]
\* the entities of one Encapsulated line, from the first place on; one of an unknown type is an error, after those before it
process_encapsulated(r, es) ==
  LET good == IF \E i \in DOMAIN es : es[i][1] \notin Types
              THEN (CHOOSE i \in DOMAIN es : es[i][1] \notin Types /\ \A j \in 1..i - 1 : es[j][1] \in Types) - 1 ELSE Len(es)
      new == [i \in 1..good |-> ci_request_alloc_entity(r, es[i][1], es[i][2])]
      kept == [i \in 1..(IF Len(r.entities) > good THEN Len(r.entities) - good ELSE 0) |-> r.entities[good + i]]
      r1 == [r EXCEPT !.entities = new \o kept, !.trash = @ \ {es[i][1] : i \in 1..good}]
  IN IF good < Len(es) THEN [req |-> r1, code |-> 400]
     ELSE [req |-> [r1 EXCEPT !.hasbody = \A i \in DOMAIN es : es[i][1] # "null-body"], code |-> 100]
HeaderLine(x, l) ==
  IF x.code # 100 THEN x
  ELSE CASE l.h = "Preview" -> [x EXCEPT !.req.preview = l.n]
         [] l.h = "Encapsulated" -> process_encapsulated(x.req, l.ents)
         [] l.h = "Connection: close" -> [x EXCEPT !.req.keepalive = FALSE]
         [] l.h = "Allow" -> [x EXCEPT !.req.allow = @ \cup {l.n}]
         [] OTHER -> x
\* at most [REQ_HDR] BODY for REQMOD and [REQ_HDR] [RES_HDR] BODY for RESPMOD
check_request(r) ==
  LET e == [i \in DOMAIN r.entities |-> r.entities[i].type]
      B(t) == {t, "null-body"}
  IN CASE r.type = "OPTIONS" -> 100
       [] e = <<>> -> 400
       [] r.type = "REQMOD" -> IF e = <<"req-body">> \/ (Len(e) = 2 /\ e[1] = "req-hdr" /\ e[2] \in B("req-body")) THEN 100 ELSE 400
       [] OTHER -> IF e = <<"res-body">> \/ (Len(e) = 2 /\ e[1] \in Hdr /\ e[2] \in B("res-body"))
                      \/ (Len(e) = 3 /\ e[1] = "req-hdr" /\ e[2] = "res-hdr" /\ e[3] \in B("res-body")) THEN 100 ELSE 400
parse_header(r, q) ==
  LET x == FoldLeft(HeaderLine, parse_request(r, q.line), q.heads)
  IN IF x.code = 100 THEN [x EXCEPT !.code = check_request(x.req)] ELSE x
\* what the bytes of a header say: those of no request are not one
Says(b) == LET S == {q \in Range(Conns[conn]) : q.hdr = b} IN IF S = {} THEN [req |-> req, code |-> 400] ELSE parse_header(req, CHOOSE q \in S : TRUE)
Parse == /\ pc = "parse"
         /\ LET x == Says(buf) IN req' = x.req /\ code' = x.code /\ pc' = IF x.code = 100 THEN "encaps" ELSE "done"
         /\ ent' = 1 /\ part' = <<>>
         /\ UNCHANGED <<conn, at, in, buf, startsearch, pstrblock>>

(* --------------------- the encapsulated headers ------------------------ *)
Es == req.entities
IsHeader == ent <= Len(Es) /\ Es[ent].type \in Hdr
Size == Es[ent + 1].start - Es[ent].start
\* the last two of CR LF CR LF are taken away; a client may leave the end out when there is no body
Eaten(t) == IF Len(t) >= 4 /\ SubSeq(t, Len(t) - 3, Len(t)) = EOH THEN SubSeq(t, 1, Len(t) - 2)
            ELSE IF CHECK_FOR_BUGGY_CLIENT /\ (Len(t) < 2 \/ SubSeq(t, Len(t) - 1, Len(t)) # <<"r", "n">>) THEN t \o <<"r", "n">> ELSE t
Got(t) == IF Len(t) = Size THEN req' = [req EXCEPT !.entities[ent].text = Eaten(t)] /\ ent' = ent + 1 /\ part' = <<>>
          ELSE part' = t /\ UNCHANGED <<req, ent>>
EncapsEnd == /\ pc = "encaps" /\ (~IsHeader \/ ent = Len(Es)) /\ pc' = "done"
             /\ code' = IF IsHeader THEN 400 ELSE 100
             /\ UNCHANGED <<conn, at, in, buf, startsearch, pstrblock, req, ent, part>>
\* read_encaps_header: what was read too far first, then from the connection
EncapsFromBlock ==
  /\ pc = "encaps" /\ IsHeader /\ ent < Len(Es) /\ pstrblock # <<>> /\ part = <<>>
  /\ LET n == IF Size > Len(pstrblock) THEN Len(pstrblock) ELSE Size
     IN Got(SubSeq(pstrblock, 1, n)) /\ pstrblock' = SubSeq(pstrblock, n + 1, Len(pstrblock))
  /\ UNCHANGED <<conn, at, in, buf, startsearch, pc, code>>
EncapsRead ==
  /\ pc = "encaps" /\ IsHeader /\ ent < Len(Es) /\ pstrblock = <<>>
  /\ \E n \in 1..Size - Len(part) : n <= Len(in) /\ Got(part \o SubSeq(in, 1, n)) /\ in' = SubSeq(in, n + 1, Len(in))
  /\ UNCHANGED <<conn, at, buf, startsearch, pstrblock, pc, code>>

(* ------------------------- the next request ---------------------------- *)
NextHead(c, a, p) == /\ req' = ci_request_reset(req) /\ conn' = c /\ at' = a /\ pstrblock' = p
                     /\ buf' = <<>> /\ startsearch' = 0 /\ pc' = "first" /\ code' = 0 /\ ent' = 0 /\ part' = <<>>
keepalive_request == /\ pc = "done" /\ code = 100 /\ req.keepalive /\ at < Len(Conns[conn])
                     /\ NextHead(conn, at + 1, IF PIPELINING THEN pstrblock ELSE <<>>) /\ UNCHANGED in
recycle_request == /\ pc = "done" /\ (code # 100 \/ ~req.keepalive \/ at = Len(Conns[conn])) /\ conn < Len(Conns)
                   /\ NextHead(conn + 1, 1, <<>>) /\ in' = Bytes(Conns[conn + 1])

Next == \/ Prefetch \/ ReadBlock \/ ReadFails \/ Parse \/ EncapsEnd \/ EncapsFromBlock \/ EncapsRead
        \/ keepalive_request \/ recycle_request
Spec == Init /\ [][Next]_vars

(* ------------------------------ properties ----------------------------- *)
\* However the bytes of the requests of a connection are split into reads, each header is what the client sent, no byte
\* is lost or taken twice between the header, the encapsulated headers and the next request, and no read is waited for
\* when the end of the header is in the buffer.
HeadExact ==
  /\ pc \in {"parse", "encaps"} => buf = This.hdr
  /\ pc = "header" => \A i \in 0..Len(buf) - 4 : SubSeq(buf, i + 1, i + 4) # EOH
  /\ pc = "done" /\ code = 100 => /\ pstrblock \o in = Bytes(SubSeq(Conns[conn], at + 1, Len(Conns[conn])))
                                  /\ \A i \in 1..Len(This.encaps) : Es[i].text = Eaten(This.encaps[i])
\* A request on a connection that was kept, or in a structure that was recycled, is understood as if it were the first:
\* nothing that an earlier request said remains.
NothingCarriedOver ==
  pc = "done" /\ code \notin {408, -1} =>
    LET x == parse_header(ci_request_alloc, This)
        View(r) == [f \in {"type", "service", "mod", "args", "preview", "keepalive", "allow", "hasbody"} |-> r[f]]
    IN View(req) = View(x.req) /\ (x.code # 100 => code = x.code)
       /\ [i \in DOMAIN Es |-> Es[i].type] = [i \in DOMAIN x.req.entities |-> x.req.entities[i].type]
\* The server name belongs to the request too.  (Refuted: ci_request_reset leaves it, and a request that fails to parse
\* is logged with the name of the one before.)
ServerOwn == pc = "done" /\ code = 400 => req.req_server \in {"", This.line.server}
=============================================================================
