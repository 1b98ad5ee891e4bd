---------------------------- MODULE DemoServices ----------------------------
(***************************************************************************)
(* The two services that come with the server: echo, which gives a body    *)
(* back through a ring buffer or, every other time, leaves it alone, and   *)
(* ex206, which has the client insert a script into a page with a 206      *)
(* answer.  Requests run in threads of one child and share the variable    *)
(* whattodo of echo.  How the server drives a service is in IcapRequest;   *)
(* here it hands over data and takes it in portions of any size.           *)
(***************************************************************************)
EXTENDS Integers, Sequences

CONSTANTS Requests,          \* the requests in progress
          Bodies,            \* bodies: sequences of words; "html" opens and "gt" closes a tag
          Previews,          \* sizes of previews
          RING_SIZE, Portion \* the echo service's buffer; the most handed over in a call

VARIABLES req,               \* [service, type, body, preview, allow206, length] and what became of it
          whattodo, pc,
          seen,              \* whattodo as a request read it
          ring, given, eof,  \* echo_req_data; the bytes of the body handed over
          out, code          \* what the client got; the answer
vars == <<req, whattodo, pc, seen, ring, given, eof, out, code>>

Smaller(a, b) == IF a < b THEN a ELSE b
New == [service : {"echo", "ex206"}, type : {"REQMOD", "RESPMOD"}, body : Bodies, preview : Previews, allow206 : BOOLEAN,
        length : {0, 1}]     \* 1: the message states its length
Idle == [service |-> "", type |-> "", body |-> <<>>, preview |-> 0, allow206 |-> FALSE, length |-> 0, origin |-> 0, stated |-> 0]
Init ==
  /\ req = [r \in Requests |-> Idle] /\ whattodo = 0 /\ pc = [r \in Requests |-> "idle"] /\ seen = [r \in Requests |-> 0]
  /\ ring = [r \in Requests |-> <<>>] /\ given = [r \in Requests |-> 0] /\ eof = [r \in Requests |-> FALSE]
  /\ out = [r \in Requests |-> <<>>] /\ code = [r \in Requests |-> 0]
Preview(r) == SubSeq(req[r].body, 1, Smaller(req[r].preview, Len(req[r].body)))
HasAllData(r) == Len(Preview(r)) = Len(req[r].body)

mod_init_request_data(r) ==
  /\ pc[r] = "idle" /\ pc' = [pc EXCEPT ![r] = "preview"]
  /\ \E n \in New :
       /\ n.service = "echo" => ~n.allow206 /\ n.length = 0 /\ n.type = "RESPMOD"    \* echo looks at none of these
       /\ req' = [req EXCEPT ![r] = [service |-> n.service, type |-> n.type, body |-> n.body, preview |-> n.preview,
                   allow206 |-> n.allow206, length |-> n.length, origin |-> 0, stated |-> n.length * Len(n.body)]]
  /\ UNCHANGED <<whattodo, seen, ring, given, eof, out, code>>
Answer(r, c, next) == code' = [code EXCEPT ![r] = c] /\ pc' = [pc EXCEPT ![r] = next]

(* -------------------------------- echo --------------------------------- *)
\* no body: 204; no preview: continue; else whattodo decides, and is turned
EchoPreview(r) ==
  /\ pc[r] = "preview" /\ req[r].service = "echo"
  /\ \/ req[r].body = <<>> /\ Answer(r, 204, "done") /\ UNCHANGED <<seen, given>>
     \/ req[r].body # <<>> /\ Preview(r) = <<>> /\ Answer(r, 200, "io") /\ UNCHANGED <<seen, given>>
     \/ /\ Preview(r) # <<>> /\ seen' = [seen EXCEPT ![r] = whattodo] /\ pc' = [pc EXCEPT ![r] = "decide"]
        /\ given' = [given EXCEPT ![r] = Len(Preview(r))] /\ UNCHANGED code
  /\ UNCHANGED <<req, whattodo, ring, eof, out>>
EchoDecide(r) ==
  /\ pc[r] = "decide"
  /\ \/ /\ seen[r] = 0 /\ whattodo' = 1 /\ Answer(r, 200, "io")
        /\ ring' = [ring EXCEPT ![r] = SubSeq(Preview(r), 1, Smaller(RING_SIZE, Len(Preview(r))))]
        /\ eof' = [eof EXCEPT ![r] = HasAllData(r)]
     \/ seen[r] # 0 /\ whattodo' = 0 /\ Answer(r, 204, "done") /\ UNCHANGED <<ring, eof>>
  /\ UNCHANGED <<req, seen, given, out>>
\* what does not fit into the ring stays with the server, which hands it over again
Stored(r, n) == Smaller(n, RING_SIZE - Len(ring[r]))
Rlen_given(r, n) == n
Rlen(r, n) == Stored(r, n)
echo_io(r, n, m) ==
  LET filled == ring[r] \o SubSeq(req[r].body, given[r] + 1, given[r] + Stored(r, n))
      w == Smaller(m, Len(filled))
  IN  /\ pc[r] = "io" /\ req[r].service = "echo" /\ n <= Len(req[r].body) - given[r] /\ ~(n > 0 /\ eof[r])
      /\ given' = [given EXCEPT ![r] = @ + Rlen(r, n)]
      /\ ring' = [ring EXCEPT ![r] = SubSeq(filled, w + 1, Len(filled))] /\ out' = [out EXCEPT ![r] = @ \o SubSeq(filled, 1, w)]
      /\ pc' = [pc EXCEPT ![r] = IF m > 0 /\ w = 0 /\ eof[r] THEN "done" ELSE "io"]
      /\ UNCHANGED <<req, whattodo, seen, eof, code>>
EchoIO(r) == \E n, m \in 0..Portion : n + m > 0 /\ echo_io(r, n, m)
echo_end_of_data_handler(r) ==
  /\ pc[r] = "io" /\ req[r].service = "echo" /\ given[r] = Len(req[r].body) /\ ~eof[r] /\ eof' = [eof EXCEPT ![r] = TRUE]
  /\ UNCHANGED <<req, whattodo, pc, seen, ring, given, out, code>>

(* -------------------------------- ex206 -------------------------------- *)
\* where the first tag of the page ends: after the first "gt" behind the first "html", both within the preview
TagEnds(p) == {j \in DOMAIN p : /\ p[j] = "gt"
                                /\ \E i \in 1..j : /\ p[i] = "html" /\ \A h \in 1..i - 1 : p[h] # "html"
                                                   /\ \A g \in i..j - 1 : p[g] # "gt"}
UseOrigin_before(j) == j - 1
UseOrigin(j) == j
\* the answer's own part is the page up to its tag and the script; a stated length grows with it, in a response
ex206_check_preview_handler(r) ==
  /\ pc[r] = "preview" /\ req[r].service = "ex206"
  /\ \/ ~req[r].allow206 /\ Answer(r, 204, "done") /\ UNCHANGED <<req, ring>>
     \/ /\ req[r].allow206 /\ Answer(r, 206, "io")
        /\ \/ TagEnds(Preview(r)) = {} /\ UNCHANGED <<req, ring>>
           \/ \E j \in TagEnds(Preview(r)) :
                /\ ring' = [ring EXCEPT ![r] = SubSeq(req[r].body, 1, j) \o <<"script">>]
                /\ req' = [req EXCEPT ![r].origin = UseOrigin(j),
                             ![r].stated = IF @ > 0 /\ req[r].type = "RESPMOD" THEN @ + 1 ELSE @]
  /\ UNCHANGED <<whattodo, seen, given, eof, out>>
ex206_io(r) ==
  /\ pc[r] = "io" /\ req[r].service = "ex206"
  /\ \E m \in 1..Portion : LET w == Smaller(m, Len(ring[r])) IN
       /\ out' = [out EXCEPT ![r] = @ \o SubSeq(ring[r], 1, w)] /\ ring' = [ring EXCEPT ![r] = SubSeq(@, w + 1, Len(@))]
       /\ pc' = [pc EXCEPT ![r] = IF w = 0 THEN "done" ELSE "io"]
  /\ UNCHANGED <<req, whattodo, seen, given, eof, code>>

mod_release_request_data(r) ==
  /\ pc[r] = "done" /\ pc' = [pc EXCEPT ![r] = "idle"] /\ req' = [req EXCEPT ![r] = Idle] /\ seen' = [seen EXCEPT ![r] = 0]
  /\ ring' = [ring EXCEPT ![r] = <<>>] /\ given' = [given EXCEPT ![r] = 0] /\ eof' = [eof EXCEPT ![r] = FALSE]
  /\ out' = [out EXCEPT ![r] = <<>>] /\ code' = [code EXCEPT ![r] = 0]
  /\ UNCHANGED whattodo

Next == \E r \in Requests : \/ mod_init_request_data(r) \/ EchoPreview(r) \/ EchoDecide(r) \/ EchoIO(r)
                            \/ echo_end_of_data_handler(r) \/ ex206_check_preview_handler(r) \/ ex206_io(r)
                            \/ mod_release_request_data(r)
Spec == Init /\ [][Next]_vars

(* ---------------------------- properties ------------------------------- *)
\* What the client ends up with: its own body after 204, the answer's after 200, and after 206 the answer's and the rest of
\* its own behind use-original-body.
Got(r) == CASE code[r] = 204 -> req[r].body
            [] code[r] = 200 -> out[r]
            [] code[r] = 206 -> out[r] \o SubSeq(req[r].body, req[r].origin + 1, Len(req[r].body))
WithScript(b, p) == IF TagEnds(p) = {} THEN b
                    ELSE LET j == CHOOSE x \in TagEnds(p) : TRUE IN SubSeq(b, 1, j) \o <<"script">> \o SubSeq(b, j + 1, Len(b))
\* A client that echo serves gets exactly the body it sent, whatever the sizes of the portions, the ring and the preview, which
\* fits into the ring; ex206 gives it the page with the script behind its first tag, once and with nothing missing, and a
\* response that states a length states the right one.
DemoExact ==
  \A r \in Requests : pc[r] = "done" =>
    /\ req[r].service = "echo" => Got(r) = req[r].body
    /\ req[r].service = "ex206" => Got(r) = IF code[r] = 206 THEN WithScript(req[r].body, Preview(r)) ELSE req[r].body
    /\ req[r].stated > 0 /\ req[r].type = "RESPMOD" => req[r].stated = Len(Got(r))

\* (refuted) The same for requests: ex206_check_preview_handler changes the length in the response's headers only ("The
\* content length increased because the script was added", srv_ex206.c).
RequestLengthTrue == \A r \in Requests : pc[r] = "done" /\ req[r].stated > 0 => req[r].stated = Len(Got(r))
\* (refuted with a preview larger than the ring) Echo holds the whole preview.
PreviewHeld == \A r \in Requests : pc[r] = "io" /\ req[r].service = "echo" => out[r] \o ring[r] = SubSeq(req[r].body, 1, given[r])
\* (refuted) Of two requests that echo looks at together one is processed and one is not: whattodo is not locked.
TakesTurns == \A r, q \in Requests : r # q /\ pc[r] = "decide" /\ pc[q] = "decide" => seen[r] # seen[q]
=============================================================================
