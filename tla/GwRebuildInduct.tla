-------------------------- MODULE GwRebuildInduct --------------------------
(* The inductive invariant of GwRebuild, what its operators and its actions  *)
(* do, and the first two parts: every variable keeps its type, and a body is *)
(* stored whole before it is scanned. GwRebuildProofs has the other parts    *)
(* and the theorems.                                                         *)
EXTENDS GwRebuild, TLAPS

USE DEF GW_UNPROCESSED, GW_REBUILT, GW_FAILED, GW_ERROR, GW_STATUS_UNDEFINED,
        Statuses, NoBody, None, Names

Original == [store |-> "store", rebuild |-> "output"]
Swapped == [store |-> "output", rebuild |-> "output"]
Page == [store |-> "page", rebuild |-> "page_output"]

\* Before exec_prog.
Early == {"new", "preview", "body", "end", "fork"}

\* The store holds the whole body, or what fits of a preview that is too large.
Whole(r) ==
  \/ size[r]["store"] = kind[r].size
  \/ Limited(r) /\ kind[r].preview > MAX_OBJECT_SIZE /\ size[r]["store"] = MAX_OBJECT_SIZE

\* How far the body is stored at each place of the worker.
Stores(r) ==
  /\ pc[r] \in {"preview", "body", "end", "fork", "wait", "judge"} =>
       header[r] = IF HasData(r) THEN kind[r].size ELSE 0
  /\ pc[r] = "body" => /\ HasData(r) /\ received[r] <= kind[r].size
                       /\ size[r]["store"] <= received[r]
                       /\ eof[r] => received[r] = kind[r].size
  /\ pc[r] \in {"fork", "wait", "judge"} => HasData(r)
  /\ pc[r] \in {"end", "fork", "wait", "judge"} /\ HasData(r) => Whole(r)
  /\ proxy[r].proc # "none" => Whole(r)

StoreInv == kind \in Loads /\ \A r \in Requests : Stores(r)

\* Which files data->body names, which were destroyed, and what is sent of them.
Files(r) ==
  /\ pc[r] \in {"new", "preview"} => body[r] = Absent
  /\ pc[r] = "end" => body[r] = IF HasData(r) THEN Original ELSE Absent
  /\ pc[r] \in {"body", "fork", "wait", "judge"} => body[r] = Original
  /\ pc[r] = "send" =>
       \/ /\ body[r] = Original /\ status[r] = GW_UNPROCESSED /\ Whole(r)
          /\ HasData(r) /\ header[r] = kind[r].size
       \/ body[r] = Swapped /\ header[r] = size[r]["output"]
       \/ body[r] = Page /\ header[r] = size[r]["page"]
  /\ pc[r] = "release" => body[r] \in {Absent, Original, Swapped, Page}
  /\ pc[r] = "done" => body[r] = Absent
  /\ body[r] = Swapped => status[r] = GW_REBUILT

Freed(r) ==
  /\ pc[r] # "done" =>
       /\ body[r] \in {Absent, Original} => \A n \in Names : freed[r][n] = 0
       /\ body[r] = Swapped =>
            freed[r]["store"] <= 1 /\ \A n \in Names \ {"store"} : freed[r][n] = 0
       /\ body[r] = Page => /\ freed[r]["store"] <= 1 /\ freed[r]["output"] <= 1
                            /\ freed[r]["page"] = 0 /\ freed[r]["page_output"] = 0
  /\ \A n \in Names : freed[r][n] <= 1 \/ (n = "output" /\ status[r] = GW_REBUILT)

FilesInv == \A r \in Requests : Files(r) /\ Freed(r)

\* What a proxy has done when it exits.
Runs(r) ==
  /\ pc[r] \in Early => /\ proxy[r] = NoProxy /\ answers[r] = <<>>
                        /\ status[r] = GW_STATUS_UNDEFINED
  /\ pc[r] = "wait" => status[r] = GW_STATUS_UNDEFINED
  /\ proxy[r].code # -1 <=> proxy[r].proc \in {"exited", "reaped"}
  /\ proxy[r].code = GW_REBUILT => proxy[r].output = "rebuilt"

ProxyInv == \A r \in Requests : Runs(r)

\* As long as no fork fails, a worker gets the status of its own proxy.
Owns(r) ==
  /\ pc[r] = "wait" => proxy[r].proc \in {"forked", "running", "exited", "copy", "copied"}
  /\ status[r] \notin {GW_STATUS_UNDEFINED, GW_ERROR} =>
       proxy[r].proc = "reaped" /\ proxy[r].code = status[r]

OwnInv == ForksSucceed => \A r \in Requests : Owns(r)

\* Every answer, not just the last one, has its true length and was earned.
Earned(r, a) ==
  /\ a.what \in {"original", "rebuilt", "page"} => a.length = a.header
  /\ a.what = "foreign" => r \in exposed
  /\ ForksSucceed /\ HasData(r) =>
       /\ a.what \in {"204", "original"} => proxy[r].code = GW_UNPROCESSED
       /\ a.what = "rebuilt" => proxy[r].code = GW_REBUILT

AnswersInv ==
  \A r \in Requests : \A i \in 1 .. Len(answers[r]) : Earned(r, answers[r][i])

\* A file of a request on the disk is one its body names, or was written by a
\* proxy that was given up.
Kept(r) ==
  \A n \in Names :
    <<r, n>> \in disk =>
      \/ n \in {body[r].store, body[r].rebuild}
      \/ n = "output" /\ proxy[r].proc \notin {"none", "reaped"}

DiskInv == ForksSucceed => \A r \in Requests : kind[r].cleanup => Kept(r)

IInv ==
  /\ TypeOK /\ StoreInv /\ FilesInv /\ ProxyInv /\ OwnInv /\ AnswersInv /\ DiskInv
  /\ ScansCounted /\ ExposedByRebuild

Pcs == {"new", "preview", "body", "end", "fork", "wait", "judge", "send", "release", "done"}
Procs == {"none", "forked", "running", "exited", "reaped", "copy", "copied"}

\* What a step of s leaves of another request r: all but the end of its proxy,
\* which a worker without one may take.
Reaps(s, r) ==
  /\ pc[s] = "wait" /\ proxy[s].proc = "none" /\ proxy[r].proc = "exited"
  /\ proxy' = [proxy EXCEPT ![r] = [proxy[r] EXCEPT !.proc = "reaped"]]

Same(r) ==
  /\ pc'[r] = pc[r] /\ kind'[r] = kind[r] /\ received'[r] = received[r] /\ eof'[r] = eof[r]
  /\ size'[r] = size[r] /\ body'[r] = body[r] /\ status'[r] = status[r]
  /\ freed'[r] = freed[r] /\ answers'[r] = answers[r] /\ header'[r] = header[r]
  /\ \A n \in Names : <<r, n>> \in disk' <=> <<r, n>> \in disk

-----------------------------------------------------------------------------
\* The smaller and the larger of two numbers.
LEMMA MinTwo == \A a, b \in Int : Min({a, b}) = IF a <= b THEN a ELSE b
<1> SUFFICES ASSUME NEW a \in Int, NEW b \in Int
             PROVE  Min({a, b}) = IF a <= b THEN a ELSE b
  OBVIOUS
<1> DEFINE m == IF a <= b THEN a ELSE b
<1>1. m \in {a, b} /\ \A y \in {a, b} : m <= y
  OBVIOUS
<1>2. \A x \in {a, b} : (\A y \in {a, b} : x <= y) => x = m
  OBVIOUS
<1> QED
  BY <1>1, <1>2 DEF Min

\* The larger of two numbers.
LEMMA MaxTwo == \A a, b \in Int : Max({a, b}) = IF a >= b THEN a ELSE b
<1> SUFFICES ASSUME NEW a \in Int, NEW b \in Int
             PROVE  Max({a, b}) = IF a >= b THEN a ELSE b
  OBVIOUS
<1> DEFINE m == IF a >= b THEN a ELSE b
<1>1. m \in {a, b} /\ \A y \in {a, b} : m >= y
  OBVIOUS
<1>2. \A x \in {a, b} : (\A y \in {a, b} : x >= y) => x = m
  OBVIOUS
<1> QED
  BY <1>1, <1>2 DEF Max

\* A step of s touches no other request.
LEMMA Frame ==
  ASSUME TypeOK, NEW s \in Requests, Handler(s) \/ Proxy(s)
  PROVE  \A r \in Requests \ {s} : Same(r)
<1> SUFFICES ASSUME NEW r \in Requests \ {s} PROVE Same(r)
  OBVIOUS
<1> USE DEF TypeOK, Same, service, outside
<1>1. CASE init_request_data(s)
  BY <1>1 DEF init_request_data, Goes
<1>2. CASE NoBodyPreview(s)
  BY <1>2 DEF NoBodyPreview, Goes, Answer, Count
<1>3. CASE check_preview_handler(s)
  BY <1>3 DEF check_preview_handler, Goes
<1>4. CASE StoreFails(s)
  BY <1>4 DEF StoreFails, Goes, Answer, Count
<1>5. CASE io(s)
  BY <1>5 DEF io, Goes
<1>6. CASE io_full(s)
  BY <1>6 DEF io_full, Goes, Answer
<1>7. CASE ClientGone(s)
  BY <1>7 DEF ClientGone, Goes
<1>8. CASE end_without_data(s)
  BY <1>8 DEF end_without_data
<1>9. CASE end_of_data_handler(s)
  BY <1>9 DEF end_of_data_handler, Goes, Count
<1>10. CASE fork(s)
  BY <1>10 DEF fork, Goes, SetProxy
<1>11. CASE fork_fails(s)
  BY <1>11 DEF fork_fails, Goes
<1>12. CASE waitpid(s)
  BY <1>12 DEF waitpid, Goes, SetProxy
<1>13. CASE waitpid_fails(s)
  BY <1>13 DEF waitpid_fails, Goes
<1>14. CASE timeout(s)
  BY <1>14 DEF timeout, Goes
<1>15. CASE Unprocessed(s)
  BY <1>15 DEF Unprocessed, Goes, Answer, Count
<1>16. CASE Rebuilt(s)
  BY <1>16 DEF Rebuilt, Goes, Destroy, Count
<1>17. CASE ErrorPage(s)
  BY <1>17 DEF ErrorPage, Goes, Count
<1>18. CASE send(s)
  BY <1>18 DEF send, Goes, Answer
<1>19. CASE release_request_data(s)
  BY <1>19 DEF release_request_data, Goes
<1>20. CASE execvp(s)
  BY <1>20 DEF execvp, SetProxy
<1>21. CASE execvp_fails(s)
  BY <1>21 DEF execvp_fails, SetProxy
<1>22. CASE CopyReturns(s)
  BY <1>22 DEF CopyReturns, SetProxy
<1>23. CASE ProxyWrites(s)
  BY <1>23 DEF ProxyWrites, SetProxy
<1>24. CASE ProxyExits(s)
  BY <1>24 DEF ProxyExits, SetProxy
<1> QED
  BY <1>1, <1>2, <1>3, <1>4, <1>5, <1>6, <1>7, <1>8, <1>9, <1>10, <1>11, <1>12, <1>13, <1>14, <1>15, <1>16, <1>17, <1>18, <1>19, <1>20, <1>21, <1>22, <1>23, <1>24 DEF Handler, Proxy

\* A step of s touches the proxy of another request only to take its end.
LEMMA ProxyFrame ==
  ASSUME TypeOK, NEW s \in Requests, Handler(s) \/ Proxy(s), NEW r \in Requests \ {s}
  PROVE  proxy'[r] = proxy[r] \/ Reaps(s, r)
<1> USE DEF TypeOK, outside
<1>1. CASE init_request_data(s)
  BY <1>1 DEF init_request_data, Goes, Reaps, Exited, Waited
<1>2. CASE NoBodyPreview(s)
  BY <1>2 DEF NoBodyPreview, Goes, Answer, Count, Reaps, Exited, Waited
<1>3. CASE check_preview_handler(s)
  BY <1>3 DEF check_preview_handler, Goes, Reaps, Exited, Waited
<1>4. CASE StoreFails(s)
  BY <1>4 DEF StoreFails, Goes, Answer, Count, Reaps, Exited, Waited
<1>5. CASE io(s)
  BY <1>5 DEF io, Goes, Reaps, Exited, Waited
<1>6. CASE io_full(s)
  BY <1>6 DEF io_full, Goes, Answer, Reaps, Exited, Waited
<1>7. CASE ClientGone(s)
  BY <1>7 DEF ClientGone, Goes, Reaps, Exited, Waited
<1>8. CASE end_without_data(s)
  BY <1>8 DEF end_without_data, Reaps, Exited, Waited
<1>9. CASE end_of_data_handler(s)
  BY <1>9 DEF end_of_data_handler, Goes, Count, Reaps, Exited, Waited
<1>10. CASE fork(s)
  BY <1>10 DEF fork, Goes, SetProxy, Reaps, Exited, Waited
<1>11. CASE fork_fails(s)
  BY <1>11 DEF fork_fails, Goes, Reaps, Exited, Waited
<1>12. CASE waitpid(s)
  BY ZenonT(60), <1>12 DEF waitpid, Goes, SetProxy, Reaps, Exited, Waited
<1>13. CASE waitpid_fails(s)
  BY <1>13 DEF waitpid_fails, Goes, Reaps, Exited, Waited
<1>14. CASE timeout(s)
  BY <1>14 DEF timeout, Goes, Reaps, Exited, Waited
<1>15. CASE Unprocessed(s)
  BY <1>15 DEF Unprocessed, Goes, Answer, Count, Reaps, Exited, Waited
<1>16. CASE Rebuilt(s)
  BY <1>16 DEF Rebuilt, Goes, Destroy, Count, Reaps, Exited, Waited
<1>17. CASE ErrorPage(s)
  BY <1>17 DEF ErrorPage, Goes, Count, Reaps, Exited, Waited
<1>18. CASE send(s)
  BY <1>18 DEF send, Goes, Answer, Reaps, Exited, Waited
<1>19. CASE release_request_data(s)
  BY <1>19 DEF release_request_data, Goes, Reaps, Exited, Waited
<1>20. CASE execvp(s)
  BY <1>20 DEF execvp, SetProxy, Reaps, Exited, Waited
<1>21. CASE execvp_fails(s)
  BY <1>21 DEF execvp_fails, SetProxy, Reaps, Exited, Waited
<1>22. CASE CopyReturns(s)
  BY <1>22 DEF CopyReturns, SetProxy, Reaps, Exited, Waited
<1>23. CASE ProxyWrites(s)
  BY <1>23 DEF ProxyWrites, SetProxy, Reaps, Exited, Waited
<1>24. CASE ProxyExits(s)
  BY <1>24 DEF ProxyExits, SetProxy, Reaps, Exited, Waited
<1> QED
  BY <1>1, <1>2, <1>3, <1>4, <1>5, <1>6, <1>7, <1>8, <1>9, <1>10, <1>11, <1>12, <1>13, <1>14, <1>15, <1>16, <1>17, <1>18, <1>19, <1>20, <1>21, <1>22, <1>23, <1>24 DEF Handler, Proxy

\* The fields of a request, of its proxy and of its body.
LEMMA Fields ==
  ASSUME TypeOK, NEW r \in Requests
  PROVE  /\ kind[r].size \in Nat \cup {NoBody} /\ kind[r].preview \in Nat \cup {-1}
         /\ kind[r].allow204 \in BOOLEAN /\ kind[r].sizelimit \in BOOLEAN
         /\ kind[r].cleanup \in BOOLEAN
         /\ proxy[r] \in Proxies
         /\ proxy[r].code \in Statuses \cup {-1, -2} /\ proxy[r].size \in Nat
         /\ proxy[r].output \in {"empty", "partial", "rebuilt"}
         /\ proxy[r].proc \in Procs
         /\ body[r].store \in Names \cup {None} /\ body[r].rebuild \in Names \cup {None}
         /\ size[r] \in [Names -> Nat] /\ freed[r] \in [Names -> 0 .. 2]
         /\ received[r] \in Nat /\ header[r] \in Nat /\ answers[r] \in Seq(Answers)
BY DEF TypeOK, Kind, Proxies, Procs

\* A write to fields of a proxy leaves a proxy, and the other fields alone.
LEMMA WriteProc ==
  ASSUME NEW p \in Proxies, NEW x \in Procs
  PROVE  /\ [p EXCEPT !.proc = x] \in Proxies
         /\ [p EXCEPT !.proc = x].proc = x /\ [p EXCEPT !.proc = x].code = p.code
         /\ [p EXCEPT !.proc = x].output = p.output /\ [p EXCEPT !.proc = x].size = p.size
BY DEF Proxies, Procs

\* The end of a proxy, with its exit code, leaves its output alone.
LEMMA WriteCode ==
  ASSUME NEW p \in Proxies, NEW x \in Procs, NEW c \in Statuses \cup {-1, -2}
  PROVE  /\ [p EXCEPT !.proc = x, !.code = c] \in Proxies
         /\ [p EXCEPT !.proc = x, !.code = c].proc = x
         /\ [p EXCEPT !.proc = x, !.code = c].code = c
         /\ [p EXCEPT !.proc = x, !.code = c].output = p.output
         /\ [p EXCEPT !.proc = x, !.code = c].size = p.size
<1> HIDE DEF Statuses
<1> QED
  BY Zenon DEF Proxies, Procs

\* A proxy that writes its output file goes on running.
LEMMA WriteOutput ==
  ASSUME NEW p \in Proxies, NEW x \in {"empty", "partial", "rebuilt"}, NEW n \in Nat
  PROVE  /\ [p EXCEPT !.output = x, !.size = n] \in Proxies
         /\ [p EXCEPT !.output = x, !.size = n].proc = p.proc
         /\ [p EXCEPT !.output = x, !.size = n].code = p.code
         /\ [p EXCEPT !.output = x, !.size = n].output = x
         /\ [p EXCEPT !.output = x, !.size = n].size = n
BY Zenon DEF Proxies, Procs

\* The effects that several handlers share keep their variables' types.
LEMMA CountType ==
  ASSUME TypeOK, NEW c \in Counters, stats' = Count(c)
  PROVE  stats' \in [Counters -> Nat]
BY DEF TypeOK, Count

\* An answer is added to those of a request.
LEMMA AnswerType ==
  ASSUME TypeOK, NEW s \in Requests, NEW length \in Nat,
         NEW what \in {"204", "original", "rebuilt", "page", "500", "none", "stale",
                    "foreign"},
         Answer(s, what, length)
  PROVE  answers' \in [Requests -> Seq(Answers)]
<1> DEFINE a == [what |-> what, length |-> length, header |-> header[s]]
<1>1. a \in Answers
  BY Fields DEF Answers
<1>2. Append(answers[s], a) \in Seq(Answers)
  BY <1>1, Fields
<1>3. answers' = [answers EXCEPT ![s] = Append(answers[s], a)]
  BY DEF Answer
<1> QED
  BY <1>2, <1>3 DEF TypeOK

\* A worker that moves on is at a place of the handlers.
LEMMA GoesType ==
  ASSUME TypeOK, NEW s \in Requests, NEW to \in Pcs, Goes(s, to)
  PROVE  pc' \in [Requests -> Pcs]
BY DEF TypeOK, Goes, Pcs

\* A proxy is replaced by a proxy.
LEMMA ProxyType ==
  ASSUME TypeOK, NEW s \in Requests, NEW p \in Proxies, SetProxy(s, p)
  PROVE  proxy' \in [Requests -> Proxies]
BY DEF TypeOK, SetProxy

\* The types that are left to show when a variable keeps its value.
LEMMA TypeParts ==
  ASSUME TypeOK, kind' = kind,
         pc' \in [Requests -> Pcs], received' \in [Requests -> Nat],
         eof' \in [Requests -> BOOLEAN], size' \in [Requests -> [Names -> Nat]],
         body' \in [Requests -> [store : Names \cup {None}, rebuild : Names \cup {None}]],
         status' \in [Requests -> Statuses \cup {GW_STATUS_UNDEFINED}],
         proxy' \in [Requests -> Proxies], disk' \subseteq Requests \X Names,
         freed' \in [Requests -> [Names -> 0 .. 2]],
         answers' \in [Requests -> Seq(Answers)], header' \in [Requests -> Nat],
         stats' \in [Counters -> Nat], exposed' \subseteq Requests, crashed' \in BOOLEAN
  PROVE  TypeOK'
BY Zenon DEF TypeOK, Pcs

\* The four values of data->body.
LEMMA BodyTypes ==
  {Absent, Original, Swapped, Page}
    \subseteq [store : Names \cup {None}, rebuild : Names \cup {None}]
BY DEF Absent, Original, Swapped, Page

\* What the preview leaves in the store.
LEMMA PreviewFacts ==
  ASSUME TypeOK, StoreInv, NEW s \in Requests
  PROVE  LET n == Max({kind[s].preview, 0})
         IN  /\ n \in Nat /\ Stored(s, n) \in Nat /\ Stored(s, n) <= n
             /\ HasData(s) => n <= kind[s].size
             /\ HasData(s) /\ n = kind[s].size =>
                  \/ Stored(s, n) = n
                  \/ /\ Limited(s) /\ kind[s].preview > MAX_OBJECT_SIZE
                     /\ Stored(s, n) = MAX_OBJECT_SIZE
<1> DEFINE n == Max({kind[s].preview, 0})
<1>1. n = IF kind[s].preview >= 0 THEN kind[s].preview ELSE 0
  BY MaxTwo, Fields
<1>2. n \in Nat
  BY <1>1, Fields
<1>6. kind[s].preview > kind[s].size => kind[s].size = NoBody
  BY ConstantsAssumption DEF StoreInv
<1>5. HasData(s) => n <= kind[s].size
  BY <1>1, <1>6, Fields DEF HasData
<1> HIDE DEF n
<1>3. Min({n, MAX_OBJECT_SIZE}) = IF n <= MAX_OBJECT_SIZE THEN n ELSE MAX_OBJECT_SIZE
  BY <1>2, MinTwo, ConstantsAssumption
<1>4. Stored(s, n) = IF Limited(s) /\ MAX_OBJECT_SIZE > 0 /\ n > MAX_OBJECT_SIZE
                     THEN MAX_OBJECT_SIZE ELSE n
  BY <1>2, <1>3, ConstantsAssumption DEF Stored
<1> QED
  BY <1>1, <1>2, <1>4, <1>5, ConstantsAssumption DEF n

\* What a call of gw_rebuild_io does to the store.
Io(s, n, m, last) ==
  /\ received' = [received EXCEPT ![s] = received[s] + n]
  /\ received[s] + n <= kind[s].size
  /\ last => received[s] + n = kind[s].size
  /\ eof' = [eof EXCEPT ![s] = eof[s] \/ last]
  /\ size' = [size EXCEPT ![s]["store"] = size[s]["store"] + m]
  /\ size[s]["store"] + m <= received[s] + n
  /\ pc' = [pc EXCEPT ![s] =
       IF (eof[s] \/ last) /\ size[s]["store"] + m = received[s] + n THEN "end" ELSE "body"]

\* What one call of the service's io function stores of the body.
LEMMA IoFacts ==
  ASSUME TypeOK, StoreInv, FilesInv, NEW s \in Requests, io(s)
  PROVE  \E n, m \in Nat, last \in BOOLEAN : Io(s, n, m, last)
<1>1. /\ HasData(s) /\ received[s] <= kind[s].size /\ size[s]["store"] <= received[s]
      /\ body[s] = Original
  BY DEF io, StoreInv, Stores, FilesInv, Files
<1>2. StoreSize(s) = size[s]["store"]
  BY <1>1 DEF StoreSize, Original
<1>3. /\ kind[s].size \in Nat /\ received[s] \in Nat /\ size[s]["store"] \in Nat
      /\ eof[s] \in BOOLEAN
  BY Zenon, <1>1, Fields DEF HasData, TypeOK
<1>4. PICK n \in 0 .. (kind[s].size - received[s]) :
        /\ received' = [received EXCEPT ![s] = @ + n]
        /\ \E last \in {FALSE, received'[s] = kind[s].size} :
             /\ eof' = [eof EXCEPT ![s] = @ \/ last]
             /\ LET m == Fits(s, n + Pending(s)) IN
                  /\ size' = [size EXCEPT ![s]["store"] = @ + m]
                  /\ Goes(s, IF eof'[s] /\ m = n + Pending(s) THEN "end" ELSE "body")
  BY Zenon DEF io
<1>5. n \in Nat /\ n <= kind[s].size - received[s] /\ received'[s] = received[s] + n
  BY <1>3, <1>4 DEF TypeOK
<1>6. PICK last \in {FALSE, received'[s] = kind[s].size} :
        /\ eof' = [eof EXCEPT ![s] = @ \/ last]
        /\ LET m == Fits(s, n + Pending(s)) IN
             /\ size' = [size EXCEPT ![s]["store"] = @ + m]
             /\ Goes(s, IF eof'[s] /\ m = n + Pending(s) THEN "end" ELSE "body")
  BY Zenon, <1>4
<1> DEFINE m == Fits(s, n + Pending(s))
<1>7. Pending(s) \in Nat /\ Pending(s) = received[s] - size[s]["store"]
  BY <1>1, <1>2, <1>3 DEF Pending
<1>8. m \in Nat /\ m <= n + Pending(s)
  <2>1. CASE ~Limited(s)
    BY <2>1, <1>5, <1>7 DEF Fits
  <2>2. CASE Limited(s)
    <3>1. MAX_OBJECT_SIZE - StoreSize(s) \in Nat
      BY <2>2, <1>2, <1>3, ConstantsAssumption DEF io, Full
    <3>2. m = Min({n + Pending(s), MAX_OBJECT_SIZE - StoreSize(s)})
      BY <2>2 DEF Fits
    <3>3. \A a, b \in Nat : Min({a, b}) \in Nat /\ Min({a, b}) <= a
      BY MinTwo
    <3> QED
      BY <1>5, <1>7, <3>1, <3>2, <3>3
  <2> QED
    BY <2>1, <2>2
<1>9. last \in BOOLEAN /\ (last => received[s] + n = kind[s].size)
  BY Zenon, <1>5, <1>6
<1>10. eof'[s] = (eof[s] \/ last)
  BY <1>6 DEF TypeOK
<1>11. m = n + Pending(s) <=> size[s]["store"] + m = received[s] + n
  BY <1>3, <1>5, <1>7, <1>8
<1> HIDE DEF m
<1>12. size' = [size EXCEPT ![s]["store"] = size[s]["store"] + m]
  BY <1>6 DEF m, TypeOK
<1>13. pc' = [pc EXCEPT ![s] = IF (eof[s] \/ last) /\ size[s]["store"] + m = received[s] + n
                                THEN "end" ELSE "body"]
  BY Zenon, <1>6, <1>10, <1>11 DEF m, Goes
<1>14. size[s]["store"] + m <= received[s] + n /\ received[s] + n <= kind[s].size
  BY <1>3, <1>5, <1>7, <1>8
<1>15. Io(s, n, m, last)
  BY Zenon, <1>4, <1>6, <1>9, <1>12, <1>13, <1>14 DEF Io, TypeOK
<1> QED
  BY Zenon, <1>5, <1>8, <1>9, <1>15

\* What the end of a request destroys.
LEMMA ReleaseFacts ==
  ASSUME TypeOK, FilesInv, NEW s \in Requests, release_request_data(s), NEW n \in Names
  PROVE  /\ freed'[s][n] \in 0 .. 2
         /\ freed'[s][n] <= 1 \/ (n = "output" /\ status[s] = GW_REBUILT)
<1>1. pc[s] = "release" /\ Files(s) /\ Freed(s)
  BY DEF release_request_data, FilesInv
<1>2. freed[s][n] \in 0 .. 2
  BY Fields
<1>3. CASE ~(kind[s].cleanup /\ body[s] # Absent)
  BY <1>1, <1>2, <1>3 DEF release_request_data, Freed
<1>4. CASE kind[s].cleanup /\ body[s] # Absent
  <2>1. freed'[s][n] = freed[s][n] + (IF n = body[s].store THEN 1 ELSE 0)
                                   + (IF n = body[s].rebuild THEN 1 ELSE 0)
    BY <1>4 DEF release_request_data, TypeOK
  <2>2. CASE body[s] = Original
    <3>1. freed[s][n] = 0
      BY <1>1, <2>2 DEF Freed
    <3> QED
      BY <2>1, <2>2, <3>1 DEF Original
  <2>3. CASE body[s] = Swapped
    <3>1. /\ n = "store" => freed[s][n] <= 1
          /\ n # "store" => freed[s][n] = 0
          /\ status[s] = GW_REBUILT
      BY <1>1, <2>3 DEF Files, Freed
    <3>2. body[s].store = "output" /\ body[s].rebuild = "output"
      BY <2>3 DEF Swapped
    <3> QED
      BY <1>2, <2>1, <3>1, <3>2
  <2>4. CASE body[s] = Page
    <3>1. /\ n \in {"store", "output"} => freed[s][n] <= 1
          /\ n \notin {"store", "output"} => freed[s][n] = 0
      BY <1>1, <2>4, Fields DEF Freed
    <3>2. body[s].store = "page" /\ body[s].rebuild = "page_output"
      BY <2>4 DEF Page
    <3> QED
      BY <1>2, <2>1, <3>1, <3>2
  <2> QED
    BY <1>1, <1>4, <2>2, <2>3, <2>4 DEF Files
<1> QED
  BY <1>3, <1>4

\* What the results of a proxy make of the body.
LEMMA RebuiltFacts ==
  ASSUME TypeOK, FilesInv, NEW s \in Requests, Rebuilt(s)
  PROVE  /\ body' = [body EXCEPT ![s] = Swapped]
         /\ freed' = [freed EXCEPT ![s] = [freed[s] EXCEPT !["store"] = 1]]
<1>1. body[s] = Original /\ \A n \in Names : freed[s][n] = 0
  BY DEF Rebuilt, FilesInv, Files, Freed
<1>2. [body[s] EXCEPT !.store = "output"] = Swapped
  BY <1>1 DEF Original, Swapped
<1>3. [n \in Names |-> freed[s][n] + (IF n \in {"store"} THEN 1 ELSE 0)]
        = [freed[s] EXCEPT !["store"] = 1]
  <2>1. PICK f \in [Names -> 0 .. 2] : f = freed[s]
    BY Fields
  <2>2. [n \in Names |-> f[n] + (IF n \in {"store"} THEN 1 ELSE 0)] = [f EXCEPT !["store"] = 1]
    BY <1>1, <2>1
  <2> QED
    BY Zenon, <2>1, <2>2
<1>4. body' = [body EXCEPT ![s] = [body[s] EXCEPT !.store = "output"]]
  BY DEF Rebuilt
<1>5. freed' = [freed EXCEPT ![s] = [n \in Names |-> freed[s][n] + (IF n \in {"store"} THEN 1 ELSE 0)]]
  BY DEF Rebuilt, Destroy
<1> QED
  BY Zenon, <1>2, <1>3, <1>4, <1>5

\* The page replaces the body: its two files are destroyed once each.
LEMMA ErrorPageFacts ==
  ASSUME TypeOK, FilesInv, NEW s \in Requests, ErrorPage(s)
  PROVE  freed' = [freed EXCEPT ![s] = [freed[s] EXCEPT !["store"] = 1, !["output"] = 1]]
<1>1. \A n \in Names : freed[s][n] = 0
  BY DEF ErrorPage, FilesInv, Files, Freed
<1>2. freed' = [freed EXCEPT ![s] = [freed[s] EXCEPT !["store"] = freed[s]["store"] + 1,
                                                     !["output"] = freed[s]["output"] + 1]]
  BY ZenonT(60), Fields DEF ErrorPage, TypeOK
<1>3. freed[s]["store"] + 1 = 1 /\ freed[s]["output"] + 1 = 1
  BY <1>1
<1> QED
  BY Zenon, <1>2, <1>3

\* Only the end of a rebuilt request in a child with DataCleanup exposes others.
LEMMA ExposedStep ==
  ASSUME TypeOK, FilesInv, NEW s \in Requests, Handler(s) \/ Proxy(s)
  PROVE  /\ exposed \subseteq exposed' /\ exposed' \subseteq Requests
         /\ exposed' # exposed => kind[s].cleanup /\ status[s] = GW_REBUILT /\ status' = status
<1>0. exposed \subseteq Requests
  BY DEF TypeOK
<1>1. CASE release_request_data(s)
  <2>1. /\ exposed' = exposed \cup
             (IF DestroyedTwice(s) THEN {q \in Requests \ {s} : pc[q] # "done"} ELSE {})
        /\ status' = status
    BY <1>1 DEF release_request_data
  <2>2. DestroyedTwice(s) => kind[s].cleanup /\ body[s].store = body[s].rebuild /\ body[s] # Absent
    BY DEF DestroyedTwice
  <2>3. body[s] \in {Absent, Original, Swapped, Page} /\ (body[s] = Swapped => status[s] = GW_REBUILT)
    BY <1>1 DEF release_request_data, FilesInv, Files
  <2>4. body[s].store = body[s].rebuild /\ body[s] # Absent => body[s] = Swapped
    BY <2>3 DEF Original, Page
  <2> QED
    BY <1>0, <2>1, <2>2, <2>3, <2>4
<1>2. CASE ~release_request_data(s)
  <2>1. exposed' = exposed
    BY Zenon, <1>2 DEF Handler, Proxy, init_request_data, NoBodyPreview, check_preview_handler,
         StoreFails, io, io_full, ClientGone, end_without_data, end_of_data_handler, fork,
         fork_fails, waitpid, waitpid_fails, timeout, Unprocessed, Rebuilt, ErrorPage, send,
         execvp, execvp_fails, CopyReturns, ProxyWrites, ProxyExits
  <2> QED
    BY <1>0, <2>1
<1> QED
  BY <1>1, <1>2

\* Every step keeps the types.
LEMMA TypeStep ==
  ASSUME TypeOK, StoreInv, FilesInv, ProxyInv, NEW s \in Requests, Handler(s) \/ Proxy(s)
  PROVE  TypeOK'
<1> USE ConstantsAssumption DEF Pcs, Procs, Counters
<1>0. exposed' \subseteq Requests
  BY ExposedStep DEF TypeOK
<1> USE <1>0
<1>1. CASE init_request_data(s)
  <2>1. pc' \in [Requests -> Pcs]
    BY <1>1, Fields, GoesType DEF init_request_data
  <2>2. header' \in [Requests -> Nat]
    <3>1. (IF HasData(s) THEN kind[s].size ELSE 0) \in Nat
      BY Fields DEF HasData
    <3> QED
      BY <1>1, <3>1 DEF init_request_data, TypeOK
  <2>3. UNCHANGED <<kind, received, eof, size, body, status, proxy, disk, freed, answers, stats, crashed>>
    BY <1>1 DEF init_request_data, service, outside
  <2> QED
    BY Zenon, <2>1, <2>2, <2>3, TypeParts DEF TypeOK, Pcs
<1>2. CASE NoBodyPreview(s)
  <2>1. pc' \in [Requests -> Pcs]
    BY <1>2, Fields, GoesType DEF NoBodyPreview
  <2>2. answers' \in [Requests -> Seq(Answers)]
    <3>1. Answer(s, "204", 0) \/ answers' = answers
      BY <1>2 DEF NoBodyPreview
    <3> QED
      BY Zenon, <3>1, AnswerType DEF TypeOK
  <2>3. stats' \in [Counters -> Nat]
    BY <1>2, Fields, CountType DEF NoBodyPreview
  <2>4. UNCHANGED <<kind, received, eof, size, body, status, proxy, disk, freed, header, crashed>>
    BY <1>2 DEF NoBodyPreview, service, outside
  <2> QED
    BY Zenon, <2>1, <2>2, <2>3, <2>4, TypeParts DEF TypeOK, Pcs
<1>3. CASE check_preview_handler(s)
  <2>1. pc' \in [Requests -> Pcs]
    BY <1>3, Fields, GoesType DEF check_preview_handler
  <2>2. body' \in [Requests -> [store : Names \cup {None}, rebuild : Names \cup {None}]]
    BY <1>3, BodyTypes DEF check_preview_handler, TypeOK, Original
  <2>3. disk' \subseteq Requests \X Names
    <3>1. disk' = disk \cup {<<s, "store">>, <<s, "output">>} /\ disk \subseteq Requests \X Names
      BY <1>3 DEF check_preview_handler, TypeOK
    <3>2. <<s, "store">> \in Requests \X Names /\ <<s, "output">> \in Requests \X Names
      OBVIOUS
    <3> QED
      BY Zenon, <3>1, <3>2
  <2>4. received' \in [Requests -> Nat]
    BY Zenon, <1>3, PreviewFacts DEF check_preview_handler, TypeOK
  <2>5. size' \in [Requests -> [Names -> Nat]]
    BY Zenon, <1>3, PreviewFacts, Fields DEF check_preview_handler, TypeOK
  <2>6. eof' \in [Requests -> BOOLEAN]
    BY Zenon, <1>3, PreviewFacts, Fields DEF check_preview_handler, TypeOK
  <2>7. UNCHANGED <<kind, status, proxy, freed, answers, header, stats, crashed>>
    BY <1>3 DEF check_preview_handler, service, outside
  <2> QED
    BY Zenon, <2>1, <2>2, <2>3, <2>4, <2>5, <2>6, <2>7, TypeParts DEF TypeOK, Pcs
<1>4. CASE StoreFails(s)
  <2>1. pc' \in [Requests -> Pcs]
    BY <1>4, Fields, GoesType DEF StoreFails
  <2>2. body' \in [Requests -> [store : Names \cup {None}, rebuild : Names \cup {None}]]
    <3>1. body' = [body EXCEPT ![s] = Original] \/ body' = body
      BY <1>4 DEF StoreFails, Original
    <3>2. Original \in [store : Names \cup {None}, rebuild : Names \cup {None}]
      BY BodyTypes
    <3>3. body \in [Requests -> [store : Names \cup {None}, rebuild : Names \cup {None}]]
      BY DEF TypeOK
    <3> QED
      BY <3>1, <3>2, <3>3
  <2>3. disk' \subseteq Requests \X Names
    <3>1. disk' = disk \cup {<<s, "store">>, <<s, "output">>} \/ disk' = disk
      BY <1>4 DEF StoreFails
    <3> QED
      BY <3>1 DEF TypeOK
  <2>4. answers' \in [Requests -> Seq(Answers)]
    <3>1. Answer(s, "500", 0) \/ answers' = answers
      BY <1>4 DEF StoreFails
    <3> QED
      BY Zenon, <3>1, AnswerType DEF TypeOK
  <2>5. stats' \in [Counters -> Nat]
    <3>1. stats' = Count("ERRORS") \/ stats' = stats
      BY <1>4 DEF StoreFails
    <3> QED
      BY Zenon, <3>1, CountType DEF TypeOK
  <2>6. UNCHANGED <<kind, received, eof, size, status, proxy, freed, header, crashed>>
    BY <1>4 DEF StoreFails, service, outside
  <2> QED
    BY Zenon, <2>1, <2>2, <2>3, <2>4, <2>5, <2>6, TypeParts DEF TypeOK, Pcs
<1>5. CASE io(s)
  <2>1. pc' \in [Requests -> Pcs]
    BY <1>5, Fields, GoesType DEF io
  <2>2. received' \in [Requests -> Nat]
    <3>1. PICK n, m \in Nat, last \in BOOLEAN : Io(s, n, m, last)
      BY <1>5, IoFacts
    <3>2. /\ received[s] + n \in Nat /\ size[s]["store"] + m \in Nat
          /\ (eof[s] \/ last) \in BOOLEAN
      BY Fields
    <3> QED
      BY <3>1, <3>2 DEF Io, TypeOK
  <2>3. eof' \in [Requests -> BOOLEAN]
    <3>1. PICK n, m \in Nat, last \in BOOLEAN : Io(s, n, m, last)
      BY <1>5, IoFacts
    <3>2. /\ received[s] + n \in Nat /\ size[s]["store"] + m \in Nat
          /\ (eof[s] \/ last) \in BOOLEAN
      BY Fields
    <3> QED
      BY <3>1, <3>2 DEF Io, TypeOK
  <2>4. size' \in [Requests -> [Names -> Nat]]
    <3>1. PICK n, m \in Nat, last \in BOOLEAN : Io(s, n, m, last)
      BY <1>5, IoFacts
    <3>2. /\ received[s] + n \in Nat /\ size[s]["store"] + m \in Nat
          /\ (eof[s] \/ last) \in BOOLEAN
      BY Fields
    <3> QED
      BY Zenon, <3>1, <3>2 DEF Io, TypeOK
  <2>5. UNCHANGED <<kind, body, status, proxy, disk, freed, answers, header, stats, crashed>>
    BY <1>5 DEF io, service, outside
  <2> QED
    BY Zenon, <2>1, <2>2, <2>3, <2>4, <2>5, TypeParts DEF TypeOK, Pcs
<1>6. CASE io_full(s)
  <2>1. pc' \in [Requests -> Pcs]
    BY <1>6, Fields, GoesType DEF io_full
  <2>2. answers' \in [Requests -> Seq(Answers)]
    BY <1>6, Fields, AnswerType DEF io_full
  <2>3. UNCHANGED <<kind, received, eof, size, body, status, proxy, disk, freed, header, stats, crashed>>
    BY <1>6 DEF io_full, service, outside
  <2> QED
    BY Zenon, <2>1, <2>2, <2>3, TypeParts DEF TypeOK, Pcs
<1>7. CASE ClientGone(s)
  <2>1. pc' \in [Requests -> Pcs]
    BY <1>7, Fields, GoesType DEF ClientGone
  <2>2. UNCHANGED <<kind, received, eof, size, body, status, proxy, disk, freed, answers, header, stats, crashed>>
    BY <1>7 DEF ClientGone, service, outside
  <2> QED
    BY Zenon, <2>1, <2>2, TypeParts DEF TypeOK, Pcs
<1>8. CASE end_without_data(s)
  <2>1. crashed' \in BOOLEAN
    BY <1>8, Fields DEF end_without_data, TypeOK
  <2>2. UNCHANGED <<kind, pc, received, eof, size, body, status, proxy, disk, freed, answers, header, stats>>
    BY <1>8 DEF end_without_data, service, outside
  <2> QED
    BY Zenon, <2>1, <2>2, TypeParts DEF TypeOK, Pcs
<1>9. CASE end_of_data_handler(s)
  <2>1. pc' \in [Requests -> Pcs]
    BY <1>9, Fields, GoesType DEF end_of_data_handler
  <2>2. stats' \in [Counters -> Nat]
    BY <1>9, Fields, CountType DEF end_of_data_handler
  <2>3. UNCHANGED <<kind, received, eof, size, body, status, proxy, disk, freed, answers, header, crashed>>
    BY <1>9 DEF end_of_data_handler, service, outside
  <2> QED
    BY Zenon, <2>1, <2>2, <2>3, TypeParts DEF TypeOK, Pcs
<1>10. CASE fork(s)
  <2>1. pc' \in [Requests -> Pcs]
    BY <1>10, Fields, GoesType DEF fork
  <2>2. proxy' \in [Requests -> Proxies]
    <3>1. NoProxy \in Proxies
      BY DEF NoProxy, Proxies
    <3> QED
      BY Zenon, <1>10, <3>1, WriteProc, ProxyType DEF fork
  <2>3. UNCHANGED <<kind, received, eof, size, body, status, disk, freed, answers, header, stats, crashed>>
    BY <1>10 DEF fork, service, outside
  <2> QED
    BY Zenon, <2>1, <2>2, <2>3, TypeParts DEF TypeOK, Pcs
<1>11. CASE fork_fails(s)
  <2>1. pc' \in [Requests -> Pcs]
    BY <1>11, Fields, GoesType DEF fork_fails
  <2>2. UNCHANGED <<kind, received, eof, size, body, status, proxy, disk, freed, answers, header, stats, crashed>>
    BY <1>11 DEF fork_fails, service, outside
  <2> QED
    BY ZenonT(60), <2>1, <2>2, TypeParts DEF TypeOK, Pcs
<1>12. CASE waitpid(s)
  <2>1. pc' \in [Requests -> Pcs]
    BY <1>12, Fields, GoesType DEF waitpid
  <2>2. proxy' \in [Requests -> Proxies]
    <3>1. PICK p \in Requests : SetProxy(p, [proxy[p] EXCEPT !.proc = "reaped"])
      BY Zenon, <1>12 DEF waitpid, Exited, Waited, Children
    <3> QED
      BY Zenon, <3>1, Fields, WriteProc, ProxyType
  <2>3. status' \in [Requests -> Statuses \cup {GW_STATUS_UNDEFINED}]
    <3>1. PICK p \in Requests : /\ proxy[p].proc = "exited"
                                /\ status' = [status EXCEPT ![s] = StatusOf(proxy[p].code)]
      BY Zenon, <1>12 DEF waitpid, Exited, Waited, Children
    <3>2. proxy[p].code \in Statuses \cup {-2}
      BY <3>1, Fields DEF ProxyInv, Runs
    <3>3. StatusOf(proxy[p].code) \in Statuses \cup {GW_STATUS_UNDEFINED}
      BY <3>2 DEF StatusOf
    <3>4. status \in [Requests -> Statuses \cup {GW_STATUS_UNDEFINED}]
      BY Zenon DEF TypeOK
    <3> QED
      BY <3>1, <3>3, <3>4
  <2>4. UNCHANGED <<kind, received, eof, size, body, disk, freed, answers, header, stats, crashed>>
    BY <1>12 DEF waitpid, service, outside
  <2> QED
    BY Zenon, <2>1, <2>2, <2>3, <2>4, TypeParts DEF TypeOK, Pcs
<1>13. CASE waitpid_fails(s)
  <2>1. pc' \in [Requests -> Pcs]
    BY <1>13, Fields, GoesType DEF waitpid_fails
  <2>2. status' \in [Requests -> Statuses \cup {GW_STATUS_UNDEFINED}]
    <3>1. status \in [Requests -> Statuses \cup {GW_STATUS_UNDEFINED}]
      BY Zenon DEF TypeOK
    <3>2. PICK v \in Statuses : status' = [status EXCEPT ![s] = v]
      BY Zenon, <1>13 DEF waitpid_fails
    <3> QED
      BY <3>1, <3>2
  <2>3. UNCHANGED <<kind, received, eof, size, body, proxy, disk, freed, answers, header, stats, crashed>>
    BY <1>13 DEF waitpid_fails, service, outside
  <2> QED
    BY Zenon, <2>1, <2>2, <2>3, TypeParts DEF TypeOK, Pcs
<1>14. CASE timeout(s)
  <2>1. pc' \in [Requests -> Pcs]
    BY <1>14, Fields, GoesType DEF timeout
  <2>2. status' \in [Requests -> Statuses \cup {GW_STATUS_UNDEFINED}]
    BY <1>14, Fields DEF timeout, TypeOK
  <2>3. UNCHANGED <<kind, received, eof, size, body, proxy, disk, freed, answers, header, stats, crashed>>
    BY <1>14 DEF timeout, service, outside
  <2> QED
    BY ZenonT(60), <2>1, <2>2, <2>3, TypeParts DEF TypeOK, Pcs
<1>15. CASE Unprocessed(s)
  <2>1. pc' \in [Requests -> Pcs]
    BY <1>15, Fields, GoesType DEF Unprocessed
  <2>2. answers' \in [Requests -> Seq(Answers)]
    <3>1. Answer(s, "204", 0) \/ answers' = answers
      BY <1>15 DEF Unprocessed
    <3> QED
      BY ZenonT(60), <3>1, AnswerType DEF TypeOK
  <2>3. stats' \in [Counters -> Nat]
    BY <1>15, Fields, CountType DEF Unprocessed
  <2>4. UNCHANGED <<kind, received, eof, size, body, status, proxy, disk, freed, header, crashed>>
    BY <1>15 DEF Unprocessed, service, outside
  <2> QED
    BY ZenonT(60), <2>1, <2>2, <2>3, <2>4, TypeParts DEF TypeOK, Pcs
<1>16. CASE Rebuilt(s)
  <2>1. pc' \in [Requests -> Pcs]
    BY <1>16, Fields, GoesType DEF Rebuilt
  <2>2. size' \in [Requests -> [Names -> Nat]]
    BY Zenon, <1>16, Fields DEF Rebuilt, TypeOK
  <2>3. disk' \subseteq Requests \X Names
    BY <1>16 DEF Rebuilt, Destroy, TypeOK
  <2>4. freed' \in [Requests -> [Names -> 0 .. 2]]
    <3>1. [freed[s] EXCEPT !["store"] = 1] \in [Names -> 0 .. 2]
      BY Fields
    <3>2. freed \in [Requests -> [Names -> 0 .. 2]]
      BY DEF TypeOK
    <3>3. freed' = [freed EXCEPT ![s] = [freed[s] EXCEPT !["store"] = 1]]
      BY <1>16, RebuiltFacts
    <3> QED
      BY <3>1, <3>2, <3>3
  <2>5. body' \in [Requests -> [store : Names \cup {None}, rebuild : Names \cup {None}]]
    <3>1. Swapped \in [store : Names \cup {None}, rebuild : Names \cup {None}]
      BY BodyTypes
    <3>2. body \in [Requests -> [store : Names \cup {None}, rebuild : Names \cup {None}]]
      BY DEF TypeOK
    <3>3. body' = [body EXCEPT ![s] = Swapped]
      BY <1>16, RebuiltFacts
    <3> QED
      BY <3>1, <3>2, <3>3
  <2>6. header' \in [Requests -> Nat]
    BY Zenon, <1>16, Fields DEF Rebuilt, TypeOK
  <2>7. stats' \in [Counters -> Nat]
    BY <1>16, Fields, CountType DEF Rebuilt
  <2>8. UNCHANGED <<kind, received, eof, status, proxy, answers, crashed>>
    BY <1>16 DEF Rebuilt, service, outside
  <2> QED
    BY Zenon, <2>1, <2>2, <2>3, <2>4, <2>5, <2>6, <2>7, <2>8, TypeParts DEF TypeOK, Pcs
<1>17. CASE ErrorPage(s)
  <2>1. pc' \in [Requests -> Pcs]
    BY <1>17, Fields, GoesType DEF ErrorPage
  <2>2. disk' \subseteq Requests \X Names
    <3>1. /\ disk' = (disk \ {<<s, "store">>, <<s, "output">>})
                        \cup {<<s, "page">>, <<s, "page_output">>}
          /\ disk \subseteq Requests \X Names
      BY <1>17 DEF ErrorPage, TypeOK
    <3>2. <<s, "page">> \in Requests \X Names /\ <<s, "page_output">> \in Requests \X Names
      OBVIOUS
    <3> QED
      BY Zenon, <3>1, <3>2
  <2>3. freed' \in [Requests -> [Names -> 0 .. 2]]
    <3>1. [freed[s] EXCEPT !["store"] = 1, !["output"] = 1] \in [Names -> 0 .. 2]
      BY Fields
    <3>2. freed \in [Requests -> [Names -> 0 .. 2]]
      BY DEF TypeOK
    <3>3. freed' = [freed EXCEPT ![s] = [freed[s] EXCEPT !["store"] = 1, !["output"] = 1]]
      BY <1>17, ErrorPageFacts
    <3> QED
      BY <3>1, <3>2, <3>3
  <2>4. size' \in [Requests -> [Names -> Nat]]
    <3>1. [size[s] EXCEPT !["page"] = PageSize] \in [Names -> Nat]
      BY Fields
    <3>2. size' = [size EXCEPT ![s] = [size[s] EXCEPT !["page"] = PageSize]]
      BY <1>17 DEF ErrorPage, TypeOK
    <3> QED
      BY <3>1, <3>2 DEF TypeOK
  <2>5. body' \in [Requests -> [store : Names \cup {None}, rebuild : Names \cup {None}]]
    BY <1>17, BodyTypes DEF ErrorPage, Page, TypeOK
  <2>6. header' \in [Requests -> Nat]
    BY <1>17, Fields DEF ErrorPage, TypeOK
  <2>7. stats' \in [Counters -> Nat]
    BY <1>17, CountType DEF ErrorPage, ErrorCounter
  <2>8. UNCHANGED <<kind, received, eof, status, proxy, answers, crashed>>
    BY <1>17 DEF ErrorPage, service, outside
  <2> QED
    BY Zenon, <2>1, <2>2, <2>3, <2>4, <2>5, <2>6, <2>7, <2>8, TypeParts DEF TypeOK, Pcs
<1>18. CASE send(s)
  <2>1. pc' \in [Requests -> Pcs]
    BY <1>18, Fields, GoesType DEF send
  <2>2. answers' \in [Requests -> Seq(Answers)]
    <3>1. PICK what \in {"stale", "original", "rebuilt", "page"} : Answer(s, what, StoreSize(s))
      BY <1>18 DEF send, Content
    <3>2. StoreSize(s) \in Nat
      <4>1. body[s] \in {Original, Swapped, Page}
        BY <1>18 DEF send, FilesInv, Files
      <4>2. body[s].store \in Names
        BY <4>1 DEF Original, Swapped, Page
      <4> QED
        BY <4>2, Fields DEF StoreSize
    <3> QED
      BY <3>1, <3>2, AnswerType
  <2>3. UNCHANGED <<kind, received, eof, size, body, status, proxy, disk, freed, header, stats, crashed>>
    BY <1>18 DEF send, service, outside
  <2> QED
    BY ZenonT(60), <2>1, <2>2, <2>3, TypeParts DEF TypeOK, Pcs
<1>19. CASE release_request_data(s)
  <2>1. pc' \in [Requests -> Pcs]
    BY Zenon, <1>19, Fields, GoesType DEF release_request_data
  <2>2. disk' \subseteq Requests \X Names
    <3>1. disk' \subseteq disk
      BY Zenon, <1>19 DEF release_request_data
    <3> QED
      BY Zenon, <3>1 DEF TypeOK
  <2>3. freed' \in [Requests -> [Names -> 0 .. 2]]
    <3>1. \A n \in Names : freed'[s][n] \in 0 .. 2
      BY <1>19, ReleaseFacts
    <3>2. \A r \in Requests \ {s} : freed'[r] = freed[r]
      BY Zenon, <1>19, Frame DEF Handler, Same
    <3>3. freed' = [r \in Requests |-> freed'[r]]
      BY <1>19 DEF release_request_data, TypeOK
    <3>4. freed'[s] = [n \in Names |-> freed'[s][n]]
      <4>1. CASE kind[s].cleanup /\ body[s] # Absent
        <5>1. freed'[s] = [n \in Names |-> freed[s][n] + (IF n = body[s].store THEN 1 ELSE 0)
                                          + (IF n = body[s].rebuild THEN 1 ELSE 0)]
          BY <1>19, <4>1 DEF release_request_data, TypeOK
        <5> QED
          BY <5>1
      <4>2. CASE ~(kind[s].cleanup /\ body[s] # Absent)
        BY <1>19, <4>2, Fields DEF release_request_data
      <4> QED
        BY <4>1, <4>2
    <3>5. \A r \in Requests : freed'[r] \in [Names -> 0 .. 2]
      BY <3>1, <3>2, <3>4, Fields
    <3> QED
      BY <3>3, <3>5
  <2>4. body' \in [Requests -> [store : Names \cup {None}, rebuild : Names \cup {None}]]
    BY <1>19, BodyTypes DEF release_request_data, TypeOK
  <2>5. UNCHANGED <<kind, received, eof, size, status, proxy, answers, header, stats, crashed>>
    BY <1>19 DEF release_request_data, service, outside
  <2> QED
    BY Zenon, <2>1, <2>2, <2>3, <2>4, <2>5, TypeParts DEF TypeOK, Pcs
<1>20. CASE execvp(s)
  <2>1. proxy' \in [Requests -> Proxies]
    BY Zenon, <1>20, Fields, WriteProc, ProxyType DEF execvp
  <2>2. UNCHANGED <<kind, pc, received, eof, size, body, status, disk, freed, answers, header, stats, crashed>>
    BY <1>20 DEF execvp, service, outside
  <2> QED
    BY Zenon, <2>1, <2>2, TypeParts DEF TypeOK, Pcs
<1>21. CASE execvp_fails(s)
  <2>1. proxy' \in [Requests -> Proxies]
    BY Zenon, <1>21, Fields, WriteProc, ProxyType DEF execvp_fails
  <2>2. UNCHANGED <<kind, pc, received, eof, size, body, status, disk, freed, answers, header, stats, crashed>>
    BY <1>21 DEF execvp_fails, service, outside
  <2> QED
    BY ZenonT(60), <2>1, <2>2, TypeParts DEF TypeOK, Pcs
<1>22. CASE CopyReturns(s)
  <2>1. proxy' \in [Requests -> Proxies]
    BY Zenon, <1>22, Fields, WriteProc, ProxyType DEF CopyReturns
  <2>2. disk' \subseteq Requests \X Names
    BY <1>22, Fields DEF CopyReturns, TypeOK
  <2>3. answers' \in [Requests -> Seq(Answers)]
    <3> DEFINE a == [what |-> "page", length |-> PageSize, header |-> PageSize]
    <3>1. a \in Answers
      BY DEF Answers
    <3>2. Append(answers[s], a) \in Seq(Answers)
      BY <3>1, Fields
    <3>3. answers' = [answers EXCEPT ![s] = Append(answers[s], a)]
      BY <1>22 DEF CopyReturns
    <3> QED
      BY <3>2, <3>3 DEF TypeOK
  <2>4. stats' \in [Counters -> Nat]
    BY <1>22, CountType DEF CopyReturns
  <2>5. UNCHANGED <<kind, pc, received, eof, size, body, status, freed, header, crashed>>
    BY <1>22 DEF CopyReturns, service, outside
  <2> QED
    BY Zenon, <2>1, <2>2, <2>3, <2>4, <2>5, TypeParts DEF TypeOK, Pcs
<1>23. CASE ProxyWrites(s)
  <2>1. proxy' \in [Requests -> Proxies]
    <3>1. PICK n \in RebuiltSizes, x \in {"empty", "partial", "rebuilt"} :
            SetProxy(s, [proxy[s] EXCEPT !.output = x, !.size = n])
      BY Zenon, <1>23 DEF ProxyWrites
    <3>2. n \in Nat
      BY <3>1
    <3> QED
      BY ZenonT(60), <3>1, <3>2, Fields, WriteOutput, ProxyType
  <2>2. disk' \subseteq Requests \X Names
    BY <1>23 DEF ProxyWrites, TypeOK
  <2>3. UNCHANGED <<kind, pc, received, eof, size, body, status, freed, answers, header, stats, crashed>>
    BY <1>23 DEF ProxyWrites, service, outside
  <2> QED
    BY Zenon, <2>1, <2>2, <2>3, TypeParts DEF TypeOK, Pcs
<1>24. CASE ProxyExits(s)
  <2>1. proxy' \in [Requests -> Proxies]
    <3>1. PICK c \in {GW_UNPROCESSED, GW_REBUILT, GW_FAILED, GW_ERROR, -2} :
            SetProxy(s, [proxy[s] EXCEPT !.proc = "exited", !.code = c])
      BY Zenon, <1>24 DEF ProxyExits
    <3>2. c \in Statuses \cup {-1, -2} /\ "exited" \in Procs /\ proxy[s] \in Proxies
      BY <3>1, Fields
    <3>3. [proxy[s] EXCEPT !.proc = "exited", !.code = c] \in Proxies
      BY ZenonT(60), <3>2, WriteCode
    <3> QED
      BY <3>1, <3>3, ProxyType
  <2>2. UNCHANGED <<kind, pc, received, eof, size, body, status, disk, freed, answers, header, stats, crashed>>
    BY <1>24 DEF ProxyExits, service, outside
  <2> QED
    BY ZenonT(60), <2>1, <2>2, TypeParts DEF TypeOK, Pcs
<1> QED
  BY <1>1, <1>2, <1>3, <1>4, <1>5, <1>6, <1>7, <1>8, <1>9, <1>10, <1>11, <1>12, <1>13, <1>14, <1>15, <1>16, <1>17, <1>18, <1>19, <1>20, <1>21, <1>22, <1>23, <1>24 DEF Handler, Proxy

\* A request that is not s keeps what depends on it alone and on having a proxy.
LEMMA OtherProxy ==
  ASSUME TypeOK, NEW s \in Requests, Handler(s) \/ Proxy(s), NEW r \in Requests \ {s}
  PROVE  /\ proxy'[r].code = proxy[r].code /\ proxy'[r].output = proxy[r].output
         /\ proxy'[r].size = proxy[r].size
         /\ \/ proxy'[r] = proxy[r] /\ proxy'[r].proc = proxy[r].proc
            \/ Reaps(s, r) /\ proxy[r].proc = "exited" /\ proxy'[r].proc = "reaped"
<1>1. CASE proxy'[r] = proxy[r]
  BY <1>1
<1>2. CASE Reaps(s, r)
  <2>1. proxy'[r] = [proxy[r] EXCEPT !.proc = "reaped"] /\ proxy[r].proc = "exited"
    BY <1>2 DEF Reaps, TypeOK
  <2>2. proxy[r] \in Proxies /\ "reaped" \in Procs
    BY Fields DEF Procs
  <2> QED
    BY <1>2, <2>1, <2>2, WriteProc
<1> QED
  BY <1>1, <1>2, ProxyFrame

\* What a step does to the proxy of its own request.
LEMMA OwnProxy ==
  ASSUME TypeOK, NEW s \in Requests, Handler(s) \/ Proxy(s)
  PROVE  \/ proxy'[s] = proxy[s]
         \/ /\ fork(s) /\ proxy'[s].proc = "forked" /\ proxy'[s].code = -1
         \/ /\ waitpid(s) /\ proxy[s].proc = "exited" /\ proxy'[s].proc = "reaped"
            /\ proxy'[s].code = proxy[s].code /\ proxy'[s].output = proxy[s].output
            /\ proxy'[s].size = proxy[s].size
         \/ /\ execvp(s) \/ execvp_fails(s) \/ CopyReturns(s)
            /\ proxy'[s].proc \in {"running", "copy", "copied"}
            /\ proxy[s].proc \in {"forked", "copy"}
            /\ proxy'[s].code = proxy[s].code /\ proxy'[s].output = proxy[s].output
         \/ /\ ProxyWrites(s) /\ proxy[s].proc = "running" /\ proxy'[s].proc = "running"
            /\ proxy'[s].code = proxy[s].code
         \/ /\ ProxyExits(s) /\ proxy[s].proc = "running" /\ proxy'[s].proc = "exited"
            /\ proxy'[s].code # -1 /\ proxy'[s].output = proxy[s].output
            /\ proxy'[s].code = GW_REBUILT => proxy[s].output = "rebuilt"
<1>0. proxy[s] \in Proxies /\ {"running", "copy", "copied", "exited", "reaped"} \subseteq Procs
  BY Zenon, Fields DEF Procs
<1>1. CASE fork(s)
  <2>1. proxy'[s] = [NoProxy EXCEPT !.proc = "forked"]
    BY <1>1 DEF fork, SetProxy, TypeOK
  <2> QED
    BY <1>1, <2>1 DEF NoProxy
<1>2. CASE waitpid(s)
  <2>1. PICK p \in Exited(s) : SetProxy(p, [proxy[p] EXCEPT !.proc = "reaped"])
    BY <1>2 DEF waitpid
  <2>2. p \in Requests /\ proxy[p].proc = "exited"
    BY <2>1 DEF Exited, Waited, Children
  <2>3. CASE p = s
    <3>1. proxy'[s] = [proxy[s] EXCEPT !.proc = "reaped"]
      BY <2>1, <2>3 DEF SetProxy, TypeOK
    <3> QED
      BY <1>0, <1>2, <2>2, <2>3, <3>1, WriteProc
  <2>4. CASE p # s
    BY <2>1, <2>2, <2>4 DEF SetProxy, TypeOK
  <2> QED
    BY Zenon, <2>3, <2>4
<1>3. CASE execvp(s) \/ execvp_fails(s) \/ CopyReturns(s)
  <2>1. PICK x \in {"running", "copy", "copied"} : proxy'[s] = [proxy[s] EXCEPT !.proc = x]
    BY ZenonT(60), <1>3 DEF execvp, execvp_fails, CopyReturns, SetProxy, TypeOK
  <2>2. proxy[s].proc \in {"forked", "copy"}
    BY <1>3 DEF execvp, execvp_fails, CopyReturns
  <2> QED
    BY <1>0, <1>3, <2>1, <2>2, WriteProc
<1>4. CASE ProxyWrites(s)
  <2>1. PICK n \in RebuiltSizes, x \in {"partial", "rebuilt"} :
          proxy'[s] = [proxy[s] EXCEPT !.output = x, !.size = n]
    BY ZenonT(60), <1>4 DEF ProxyWrites, SetProxy, TypeOK
  <2>2. n \in Nat /\ x \in {"empty", "partial", "rebuilt"}
    BY <2>1, ConstantsAssumption
  <2>3. proxy'[s].proc = proxy[s].proc /\ proxy'[s].code = proxy[s].code
    <3>0. proxy[s] \in Proxies
      BY Zenon, Fields
    <3> HIDE DEF Statuses
    <3>1. /\ [proxy[s] EXCEPT !.output = x, !.size = n].proc = proxy[s].proc
          /\ [proxy[s] EXCEPT !.output = x, !.size = n].code = proxy[s].code
      BY <2>2, <3>0 DEF Proxies
    <3> QED
      BY <2>1, <3>1
  <2> QED
    BY Zenon, <1>4, <2>3 DEF ProxyWrites
<1>5. CASE ProxyExits(s)
  <2>1. PICK c \in {GW_UNPROCESSED, GW_REBUILT, GW_FAILED, GW_ERROR, -2} :
          /\ c = GW_REBUILT => proxy[s].output = "rebuilt"
          /\ proxy'[s] = [proxy[s] EXCEPT !.proc = "exited", !.code = c]
    BY Zenon, <1>5 DEF ProxyExits, SetProxy, TypeOK
  <2>2. c \in Statuses \cup {-1, -2} /\ "exited" \in Procs /\ c # -1
    BY <1>0, <2>1
  <2>3. /\ proxy'[s].proc = "exited" /\ proxy'[s].code = c
        /\ proxy'[s].output = proxy[s].output
    <3>0. proxy[s] \in Proxies
      BY Fields
    <3> HIDE DEF Statuses
    <3>1. /\ [proxy[s] EXCEPT !.proc = "exited", !.code = c].proc = "exited"
          /\ [proxy[s] EXCEPT !.proc = "exited", !.code = c].code = c
          /\ [proxy[s] EXCEPT !.proc = "exited", !.code = c].output = proxy[s].output
      BY <2>2, <3>0 DEF Proxies
    <3> QED
      BY <2>1, <3>1
  <2> QED
    BY Zenon, <1>5, <2>1, <2>2, <2>3 DEF ProxyExits
<1>6. CASE ~(fork(s) \/ waitpid(s) \/ Proxy(s))
  BY <1>6 DEF Handler, init_request_data, NoBodyPreview, check_preview_handler, StoreFails, io,
              io_full, ClientGone, end_without_data, end_of_data_handler, fork_fails,
              waitpid_fails, timeout, Unprocessed, Rebuilt, ErrorPage, send,
              release_request_data, outside
<1> QED
  BY ZenonT(60), <1>1, <1>2, <1>3, <1>4, <1>5, <1>6 DEF Proxy

\* A request stays what it is.
LEMMA KindKept ==
  ASSUME NEW s \in Requests, Handler(s) \/ Proxy(s)
  PROVE  kind' = kind
BY Zenon DEF Handler, Proxy, init_request_data, NoBodyPreview, check_preview_handler, StoreFails, io,
       io_full, ClientGone, end_without_data, end_of_data_handler, fork, fork_fails, waitpid,
       waitpid_fails, timeout, Unprocessed, Rebuilt, ErrorPage, send, release_request_data,
       execvp, execvp_fails, CopyReturns, ProxyWrites, ProxyExits

\* A request keeps what it has stored when its file and its place are left alone.
LEMMA StoresKept ==
  ASSUME NEW r \in Requests, Stores(r), kind' = kind, pc'[r] = pc[r], header'[r] = header[r],
         received'[r] = received[r], eof'[r] = eof[r], size'[r] = size[r],
         proxy'[r].proc # "none" => proxy[r].proc # "none"
  PROVE  Stores(r)'
BY DEF Stores, Whole, HasData, Limited

\* The file of a request holds what Stores says after every step of its own.
LEMMA StoresOwn ==
  ASSUME TypeOK, StoreInv, FilesInv, ProxyInv, NEW s \in Requests, Handler(s) \/ Proxy(s)
  PROVE  Stores(s)'
<1>a. kind' = kind
  BY KindKept
<1>b. Stores(s)
  BY DEF StoreInv
<1>c. /\ pc \in [Requests -> Pcs] /\ header \in [Requests -> Nat]
      /\ size \in [Requests -> [Names -> Nat]] /\ kind[s].size \in Nat \cup {NoBody}
  BY ZenonT(60), Fields DEF TypeOK, Pcs
<1>d. proxy'[s].proc # "none" => proxy[s].proc # "none" \/ fork(s)
  BY Zenon, OwnProxy
<1>1. CASE init_request_data(s)
  BY ZenonT(60), <1>1, <1>a, <1>b, <1>c, <1>d DEF init_request_data, Goes, Stores, HasData, Whole, Limited, service, outside
<1>2. CASE NoBodyPreview(s)
  BY <1>2, <1>a, <1>b, <1>c, <1>d DEF NoBodyPreview, Goes, Answer, Count, Stores, HasData, Whole, Limited, service, outside
<1>3. CASE check_preview_handler(s)
  <2> DEFINE n == Max({kind[s].preview, 0})
  <2>1. PICK whole \in {FALSE, n = kind[s].size /\ kind[s].preview >= 0} :
          eof' = [eof EXCEPT ![s] = whole] /\ Goes(s, IF whole THEN "end" ELSE "body")
    BY Zenon, <1>3 DEF check_preview_handler
  <2>2. /\ received'[s] = n /\ size'[s]["store"] = Stored(s, n)
        /\ HasData(s) /\ pc[s] = "preview" /\ header' = header
    BY <1>3, Fields DEF check_preview_handler, TypeOK
  <2>3. /\ n \in Nat /\ Stored(s, n) \in Nat /\ Stored(s, n) <= n /\ n <= kind[s].size
        /\ n = kind[s].size => \/ Stored(s, n) = n
                               \/ /\ Limited(s) /\ kind[s].preview > MAX_OBJECT_SIZE
                                  /\ Stored(s, n) = MAX_OBJECT_SIZE
    BY Zenon, <2>2, PreviewFacts
  <2>4. eof'[s] = whole /\ pc'[s] = IF whole THEN "end" ELSE "body"
    BY <2>1 DEF Goes, TypeOK
  <2>5. whole => Whole(s)'
    BY Zenon, <1>a, <2>1, <2>2, <2>3 DEF Whole, Limited
  <2>6. proxy[s].proc = "none"
    <3>1. Runs(s)
      BY DEF ProxyInv
    <3>2. proxy[s] = NoProxy
      BY <2>2, <3>1 DEF Runs, Early
    <3>3. NoProxy.proc = "none"
      BY DEF NoProxy
    <3> QED
      BY Zenon, <3>2, <3>3
  <2> HIDE DEF n
  <2> QED
    BY <1>a, <1>b, <1>d, <2>1, <2>2, <2>3, <2>4, <2>5, <2>6, <1>3 DEF Stores, HasData, check_preview_handler
<1>4. CASE StoreFails(s)
  BY <1>4, <1>a, <1>b, <1>c, <1>d DEF StoreFails, Goes, Answer, Count, Stores, HasData, Whole, Limited, service, outside
<1>5. CASE io(s)
  <2>1. PICK n, m \in Nat, last \in BOOLEAN : Io(s, n, m, last)
    BY <1>5, IoFacts
  <2>2. /\ pc[s] = "body" /\ header' = header /\ proxy' = proxy /\ HasData(s)
        /\ received[s] <= kind[s].size /\ eof[s] => received[s] = kind[s].size
        /\ header[s] = kind[s].size /\ proxy[s].proc = "none"
    BY <1>5, <1>b DEF io, outside, Stores, ProxyInv, Runs, Early, NoProxy
  <2>3. /\ received[s] \in Nat /\ size[s]["store"] \in Nat /\ kind[s].size \in Nat
        /\ eof[s] \in BOOLEAN
    BY Zenon, <2>2, Fields DEF HasData, TypeOK
  <2>4. /\ received'[s] = received[s] + n /\ eof'[s] = (eof[s] \/ last)
        /\ size'[s]["store"] = size[s]["store"] + m
        /\ pc'[s] = IF (eof[s] \/ last) /\ size[s]["store"] + m = received[s] + n
                    THEN "end" ELSE "body"
    BY <2>1, Fields DEF Io, TypeOK
  <2>5. /\ size[s]["store"] + m <= received[s] + n /\ received[s] + n <= kind[s].size
        /\ last => received[s] + n = kind[s].size
    BY <2>1 DEF Io
  <2>6. eof[s] \/ last => received[s] + n = kind[s].size
    BY <2>2, <2>3, <2>5
  <2> QED
    BY Zenon, <1>a, <2>2, <2>3, <2>4, <2>5, <2>6 DEF Stores, Whole, HasData
<1>6. CASE io_full(s)
  BY <1>6, <1>a, <1>b, <1>c, <1>d DEF io_full, Goes, Answer, Stores, HasData, Whole, Limited, service, outside
<1>7. CASE ClientGone(s)
  BY ZenonT(60), <1>7, <1>a, <1>b, <1>c, <1>d DEF ClientGone, Goes, Stores, HasData, Whole, Limited, service, outside
<1>8. CASE end_without_data(s)
  BY <1>8, <1>a, <1>b, <1>c, <1>d DEF end_without_data, Stores, HasData, Whole, Limited, service, outside
<1>9. CASE end_of_data_handler(s)
  BY <1>9, <1>a, <1>b, <1>c, <1>d DEF end_of_data_handler, Goes, Count, Stores, HasData, Whole, Limited, service, outside
<1>10. CASE fork(s)
  BY <1>10, <1>a, <1>b, <1>c, <1>d DEF fork, Goes, SetProxy, Stores, HasData, Whole, Limited, service, outside
<1>11. CASE fork_fails(s)
  BY <1>11, <1>a, <1>b, <1>c, <1>d DEF fork_fails, Goes, Stores, HasData, Whole, Limited, service, outside
<1>12. CASE waitpid(s)
  BY <1>12, <1>a, <1>b, <1>c, <1>d DEF waitpid, Goes, SetProxy, Stores, HasData, Whole, Limited, service, outside
<1>13. CASE waitpid_fails(s)
  BY <1>13, <1>a, <1>b, <1>c, <1>d DEF waitpid_fails, Goes, Stores, HasData, Whole, Limited, service, outside
<1>14. CASE timeout(s)
  BY <1>14, <1>a, <1>b, <1>c, <1>d DEF timeout, Goes, Stores, HasData, Whole, Limited, service, outside
<1>15. CASE Unprocessed(s)
  BY <1>15, <1>a, <1>b, <1>c, <1>d DEF Unprocessed, Goes, Answer, Count, Stores, HasData, Whole, Limited, service, outside
<1>16. CASE Rebuilt(s)
  BY <1>16, <1>a, <1>b, <1>c, <1>d DEF Rebuilt, Goes, Destroy, Count, Stores, HasData, Whole, Limited, service, outside
<1>17. CASE ErrorPage(s)
  BY <1>17, <1>a, <1>b, <1>c, <1>d DEF ErrorPage, Goes, Count, Stores, HasData, Whole, Limited, service, outside
<1>18. CASE send(s)
  BY ZenonT(60), <1>18, <1>a, <1>b, <1>c, <1>d DEF send, Goes, Answer, Stores, HasData, Whole, Limited, service, outside
<1>19. CASE release_request_data(s)
  BY <1>19, <1>a, <1>b, <1>c, <1>d DEF release_request_data, Goes, Stores, HasData, Whole, Limited, service, outside
<1>20. CASE execvp(s)
  BY <1>20, <1>a, <1>b, <1>c, <1>d DEF execvp, SetProxy, Stores, HasData, Whole, Limited, service, outside
<1>21. CASE execvp_fails(s)
  BY <1>21, <1>a, <1>b, <1>c, <1>d DEF execvp_fails, SetProxy, Stores, HasData, Whole, Limited, service, outside
<1>22. CASE CopyReturns(s)
  BY <1>22, <1>a, <1>b, <1>c, <1>d DEF CopyReturns, SetProxy, Stores, HasData, Whole, Limited, service, outside
<1>23. CASE ProxyWrites(s)
  BY <1>23, <1>a, <1>b, <1>c, <1>d DEF ProxyWrites, SetProxy, Stores, HasData, Whole, Limited, service, outside
<1>24. CASE ProxyExits(s)
  BY <1>24, <1>a, <1>b, <1>c, <1>d DEF ProxyExits, SetProxy, Stores, HasData, Whole, Limited, service, outside
<1> QED
  BY <1>1, <1>2, <1>3, <1>4, <1>5, <1>6, <1>7, <1>8, <1>9, <1>10, <1>11, <1>12, <1>13, <1>14, <1>15, <1>16, <1>17, <1>18, <1>19, <1>20, <1>21, <1>22, <1>23, <1>24 DEF Handler, Proxy

\* The stores of all requests.
LEMMA StoreStep ==
  ASSUME TypeOK, StoreInv, FilesInv, ProxyInv, NEW s \in Requests, Handler(s) \/ Proxy(s)
  PROVE  StoreInv'
<1>1. ASSUME NEW r \in Requests \ {s} PROVE Stores(r)'
  <2>1. Same(r) /\ kind' = kind /\ Stores(r)
    BY Frame, KindKept DEF StoreInv
  <2>2. proxy'[r].proc # "none" => proxy[r].proc # "none"
    BY OtherProxy
  <2> QED
    BY <2>1, <2>2, StoresKept DEF Same
<1> QED
  BY <1>1, StoresOwn, KindKept DEF StoreInv

\* The four values of data->body are different.
LEMMA Distinct ==
  /\ Absent # Original /\ Absent # Swapped /\ Absent # Page
  /\ Original # Swapped /\ Original # Page /\ Swapped # Page
<1>1. /\ Absent.store = "none" /\ Original.store = "store"
      /\ Swapped.store = "output" /\ Page.store = "page"
  BY DEF Absent, Original, Swapped, Page
<1> QED
  BY <1>1

\* A request keeps its files when nothing they depend on changes.
LEMMA FilesKept ==
  ASSUME NEW r \in Requests, Files(r), Freed(r), kind' = kind, pc'[r] = pc[r],
         header'[r] = header[r], size'[r] = size[r], body'[r] = body[r],
         status'[r] = status[r], freed'[r] = freed[r]
  PROVE  Files(r)' /\ Freed(r)'
BY Zenon DEF Files, Freed, Whole, HasData, Limited
=============================================================================
