-------------------------- MODULE GwRebuildProofs --------------------------
(* Proofs about GwRebuild, for any number of workers, requests of any sizes, *)
(* any MaxObjectSize, with and without DataCleanup: what reaches a client    *)
(* was scanned, its length is true, and every scan and every file of a       *)
(* request is accounted for.                                                 *)
EXTENDS GwRebuildInduct, FiniteSetTheorems

USE DEF GW_UNPROCESSED, GW_REBUILT, GW_FAILED, GW_ERROR, GW_STATUS_UNDEFINED,
        Statuses, NoBody, None, Names

\* data->body names the files it should after every step of the request's own.
LEMMA FilesOwn ==
  ASSUME TypeOK, StoreInv, FilesInv, ProxyInv, NEW s \in Requests, Handler(s) \/ Proxy(s)
  PROVE  Files(s)' /\ Freed(s)'
<1>a. kind' = kind
  BY KindKept
<1>b. Stores(s) /\ Runs(s)
  BY DEF StoreInv, ProxyInv
<1>c. Files(s) /\ Freed(s)
  BY DEF FilesInv
<1>d. /\ pc \in [Requests -> Pcs] /\ header \in [Requests -> Nat]
      /\ size \in [Requests -> [Names -> Nat]]
      /\ body \in [Requests -> [store : Names \cup {None}, rebuild : Names \cup {None}]]
      /\ status \in [Requests -> Statuses \cup {GW_STATUS_UNDEFINED}]
      /\ freed \in [Requests -> [Names -> 0 .. 2]]
  BY DEF TypeOK, Pcs
<1>e. /\ Absent # Original /\ Absent # Swapped /\ Absent # Page
      /\ Original # Swapped /\ Original # Page /\ Swapped # Page
  BY Distinct
<1>1. CASE init_request_data(s)
  BY <1>1, <1>a, <1>b, <1>c, <1>d, <1>e DEF init_request_data, Goes, Files, Freed, Stores, Runs, Early, HasData, Whole, Limited, service, outside
<1>2. CASE NoBodyPreview(s)
  BY <1>2, <1>a, <1>b, <1>c, <1>d, <1>e DEF NoBodyPreview, Goes, Answer, Count, Files, Freed, Stores, Runs, Early, HasData, Whole, Limited, service, outside
<1>3. CASE check_preview_handler(s)
  <2>1. body'[s] = Original \/ (pc[s] = "body" /\ body' = body)
    BY <1>3, <1>d DEF check_preview_handler, Original
  <2> QED
    BY <1>3, <1>b, <1>c, <1>d, <1>e, <2>1
       DEF check_preview_handler, Goes, Files, Freed, HasData, service, outside
<1>4. CASE StoreFails(s)
  <2>1. body'[s] = Original \/ (pc[s] = "body" /\ body' = body)
    BY <1>4, <1>d DEF StoreFails, Original
  <2> QED
    BY <1>4, <1>b, <1>c, <1>d, <1>e, <2>1
       DEF StoreFails, Goes, Files, Freed, HasData, service, outside
<1>5. CASE io(s)
  BY <1>5, <1>a, <1>b, <1>c, <1>d, <1>e DEF io, Goes, Files, Freed, Stores, Runs, Early, HasData, Whole, Limited, service, outside
<1>6. CASE io_full(s)
  BY <1>6, <1>a, <1>b, <1>c, <1>d, <1>e DEF io_full, Goes, Answer, Files, Freed, Stores, Runs, Early, HasData, Whole, Limited, service, outside
<1>7. CASE ClientGone(s)
  BY <1>7, <1>a, <1>b, <1>c, <1>d, <1>e DEF ClientGone, Goes, Files, Freed, Stores, Runs, Early, HasData, Whole, Limited, service, outside
<1>8. CASE end_without_data(s)
  BY <1>8, <1>a, <1>b, <1>c, <1>d, <1>e DEF end_without_data, Files, Freed, Stores, Runs, Early, HasData, Whole, Limited, service, outside
<1>9. CASE end_of_data_handler(s)
  BY <1>9, <1>a, <1>b, <1>c, <1>d, <1>e DEF end_of_data_handler, Goes, Count, Files, Freed, Stores, Runs, Early, HasData, Whole, Limited, service, outside
<1>10. CASE fork(s)
  BY <1>10, <1>a, <1>b, <1>c, <1>d, <1>e DEF fork, Goes, SetProxy, Files, Freed, Stores, Runs, Early, HasData, Whole, Limited, service, outside
<1>11. CASE fork_fails(s)
  BY <1>11, <1>a, <1>b, <1>c, <1>d, <1>e DEF fork_fails, Goes, Files, Freed, Stores, Runs, Early, HasData, Whole, Limited, service, outside
<1>12. CASE waitpid(s)
  BY <1>12, <1>a, <1>b, <1>c, <1>d, <1>e DEF waitpid, Goes, SetProxy, Files, Freed, Stores, Runs, Early, HasData, Whole, Limited, service, outside
<1>13. CASE waitpid_fails(s)
  BY <1>13, <1>a, <1>b, <1>c, <1>d, <1>e DEF waitpid_fails, Goes, Files, Freed, Stores, Runs, Early, HasData, Whole, Limited, service, outside
<1>14. CASE timeout(s)
  BY <1>14, <1>a, <1>b, <1>c, <1>d, <1>e DEF timeout, Goes, Files, Freed, Stores, Runs, Early, HasData, Whole, Limited, service, outside
<1>15. CASE Unprocessed(s)
  BY <1>15, <1>a, <1>b, <1>c, <1>d, <1>e DEF Unprocessed, Goes, Answer, Count, Files, Freed, Stores, Runs, Early, HasData, Whole, Limited, service, outside
<1>16. CASE Rebuilt(s)
  <2>1. /\ body'[s] = Swapped /\ freed'[s] = [freed[s] EXCEPT !["store"] = 1]
    BY <1>16, <1>d, RebuiltFacts
  <2>2. /\ pc'[s] = "send" /\ header'[s] = proxy[s].size /\ status' = status
        /\ status[s] = GW_REBUILT /\ pc[s] = "judge"
    BY <1>16, <1>d DEF Rebuilt, Goes
  <2>3. size'[s]["output"] = proxy[s].size
    BY <1>16, <1>d DEF Rebuilt
  <2>4. \A n \in Names : freed[s][n] = 0
    BY <1>c, <2>2 DEF Files, Freed
  <2>5. freed'[s]["store"] = 1 /\ \A n \in Names \ {"store"} : freed'[s][n] = 0
    BY <2>1, <2>4, Fields
  <2> QED
    BY <1>e, <2>1, <2>2, <2>3, <2>5 DEF Files, Freed
<1>17. CASE ErrorPage(s)
  <2>1. /\ body'[s] = Page
        /\ freed'[s] = [freed[s] EXCEPT !["store"] = 1, !["output"] = 1]
    BY ZenonT(60), <1>17, <1>d, ErrorPageFacts DEF ErrorPage, Page
  <2>2. pc'[s] = "send" /\ header'[s] = PageSize /\ status' = status /\ pc[s] = "judge"
    BY <1>17, <1>d DEF ErrorPage, Goes
  <2>3. size'[s]["page"] = PageSize
    BY <1>17, <1>d DEF ErrorPage
  <2>4. \A n \in Names : freed[s][n] = 0
    BY <1>c, <2>2 DEF Files, Freed
  <2>5. /\ freed'[s]["store"] = 1 /\ freed'[s]["output"] = 1
        /\ freed'[s]["page"] = 0 /\ freed'[s]["page_output"] = 0
    BY <2>1, <2>4, Fields
  <2> QED
    BY <1>e, <2>1, <2>2, <2>3, <2>5 DEF Files, Freed
<1>18. CASE send(s)
  BY <1>18, <1>a, <1>b, <1>c, <1>d, <1>e DEF send, Goes, Answer, Files, Freed, Stores, Runs, Early, HasData, Whole, Limited, service, outside
<1>19. CASE release_request_data(s)
  <2>1. pc'[s] = "done" /\ body'[s] = Absent /\ status' = status
    BY <1>19, <1>d DEF release_request_data, Goes
  <2>2. \A n \in Names : freed'[s][n] <= 1 \/ (n = "output" /\ status[s] = GW_REBUILT)
    BY <1>19, ReleaseFacts
  <2> QED
    BY <1>e, <2>1, <2>2 DEF Files, Freed
<1>20. CASE execvp(s)
  BY <1>20, <1>a, <1>c, FilesKept DEF execvp, service
<1>21. CASE execvp_fails(s)
  BY <1>21, <1>a, <1>c, FilesKept DEF execvp_fails, service
<1>22. CASE CopyReturns(s)
  BY <1>22, <1>a, <1>c, FilesKept DEF CopyReturns, service
<1>23. CASE ProxyWrites(s)
  BY <1>23, <1>a, <1>c, FilesKept DEF ProxyWrites, service
<1>24. CASE ProxyExits(s)
  BY <1>24, <1>a, <1>c, FilesKept DEF ProxyExits, service
<1> QED
  BY <1>1, <1>2, <1>3, <1>4, <1>5, <1>6, <1>7, <1>8, <1>9, <1>10, <1>11, <1>12, <1>13, <1>14, <1>15, <1>16, <1>17, <1>18, <1>19, <1>20, <1>21, <1>22, <1>23, <1>24 DEF Handler, Proxy

\* The files of all requests.
LEMMA FilesStep ==
  ASSUME TypeOK, StoreInv, FilesInv, ProxyInv, NEW s \in Requests, Handler(s) \/ Proxy(s)
  PROVE  FilesInv'
<1>1. ASSUME NEW r \in Requests \ {s} PROVE Files(r)' /\ Freed(r)'
  <2>1. Same(r) /\ kind' = kind /\ Files(r) /\ Freed(r)
    BY Frame, KindKept DEF FilesInv
  <2> QED
    BY <2>1, FilesKept DEF Same
<1> QED
  BY <1>1, FilesOwn DEF FilesInv

\* A proxy's code and output agree after every step of the request's own.
LEMMA RunsOwn ==
  ASSUME TypeOK, StoreInv, FilesInv, ProxyInv, NEW s \in Requests, Handler(s) \/ Proxy(s)
  PROVE  Runs(s)'
<1>b. Runs(s)
  BY DEF ProxyInv
<1>d. /\ pc \in [Requests -> Pcs] /\ status \in [Requests -> Statuses \cup {GW_STATUS_UNDEFINED}]
      /\ answers \in [Requests -> Seq(Answers)]
  BY DEF TypeOK, Pcs
<1>e. /\ proxy'[s].code # -1 <=> proxy'[s].proc \in {"exited", "reaped"}
      /\ proxy'[s].code = GW_REBUILT => proxy'[s].output = "rebuilt"
  BY <1>b, OwnProxy, Fields DEF Runs
<1>1. CASE init_request_data(s)
  BY <1>1, <1>b, <1>d, <1>e DEF init_request_data, Goes, Runs, Early, service, outside
<1>2. CASE NoBodyPreview(s)
  BY <1>2, <1>b, <1>d, <1>e DEF NoBodyPreview, Goes, Answer, Count, Runs, Early, service, outside
<1>3. CASE check_preview_handler(s)
  BY <1>3, <1>b, <1>d, <1>e DEF check_preview_handler, Goes, Runs, Early, service, outside
<1>4. CASE StoreFails(s)
  BY <1>4, <1>b, <1>d, <1>e DEF StoreFails, Goes, Answer, Count, Runs, Early, service, outside
<1>5. CASE io(s)
  BY <1>5, <1>b, <1>d, <1>e DEF io, Goes, Runs, Early, service, outside
<1>6. CASE io_full(s)
  BY <1>6, <1>b, <1>d, <1>e DEF io_full, Goes, Answer, Runs, Early, service, outside
<1>7. CASE ClientGone(s)
  BY <1>7, <1>b, <1>d, <1>e DEF ClientGone, Goes, Runs, Early, service, outside
<1>8. CASE end_without_data(s)
  BY <1>8, <1>b, <1>d, <1>e DEF end_without_data, Runs, Early, service, outside
<1>9. CASE end_of_data_handler(s)
  BY <1>9, <1>b, <1>d, <1>e DEF end_of_data_handler, Goes, Count, Runs, Early, service, outside
<1>10. CASE fork(s)
  BY <1>10, <1>b, <1>d, <1>e DEF fork, Goes, SetProxy, Runs, Early, service, outside
<1>11. CASE fork_fails(s)
  BY <1>11, <1>b, <1>d, <1>e DEF fork_fails, Goes, Runs, Early, service, outside
<1>12. CASE waitpid(s)
  BY <1>12, <1>b, <1>d, <1>e DEF waitpid, Goes, SetProxy, Runs, Early, service, outside
<1>13. CASE waitpid_fails(s)
  BY <1>13, <1>b, <1>d, <1>e DEF waitpid_fails, Goes, Runs, Early, service, outside
<1>14. CASE timeout(s)
  BY <1>14, <1>b, <1>d, <1>e DEF timeout, Goes, Runs, Early, service, outside
<1>15. CASE Unprocessed(s)
  BY <1>15, <1>b, <1>d, <1>e DEF Unprocessed, Goes, Answer, Count, Runs, Early, service, outside
<1>16. CASE Rebuilt(s)
  BY <1>16, <1>b, <1>d, <1>e DEF Rebuilt, Goes, Destroy, Count, Runs, Early, service, outside
<1>17. CASE ErrorPage(s)
  BY <1>17, <1>b, <1>d, <1>e DEF ErrorPage, Goes, Count, Runs, Early, service, outside
<1>18. CASE send(s)
  BY <1>18, <1>b, <1>d, <1>e DEF send, Goes, Answer, Runs, Early, service, outside
<1>19. CASE release_request_data(s)
  BY <1>19, <1>b, <1>d, <1>e DEF release_request_data, Goes, Runs, Early, service, outside
<1>20. CASE execvp(s)
  BY <1>20, <1>b, <1>d, <1>e DEF execvp, Runs, Early, NoProxy, service
<1>21. CASE execvp_fails(s)
  BY <1>21, <1>b, <1>d, <1>e DEF execvp_fails, Runs, Early, NoProxy, service
<1>22. CASE CopyReturns(s)
  BY <1>22, <1>b, <1>d, <1>e DEF CopyReturns, Runs, Early, NoProxy, service
<1>23. CASE ProxyWrites(s)
  BY <1>23, <1>b, <1>d, <1>e DEF ProxyWrites, Runs, Early, NoProxy, service
<1>24. CASE ProxyExits(s)
  BY <1>24, <1>b, <1>d, <1>e DEF ProxyExits, Runs, Early, NoProxy, service
<1> QED
  BY <1>1, <1>2, <1>3, <1>4, <1>5, <1>6, <1>7, <1>8, <1>9, <1>10, <1>11, <1>12, <1>13, <1>14, <1>15, <1>16, <1>17, <1>18, <1>19, <1>20, <1>21, <1>22, <1>23, <1>24 DEF Handler, Proxy

\* The proxies of all requests.
LEMMA ProxyStep ==
  ASSUME TypeOK, StoreInv, FilesInv, ProxyInv, NEW s \in Requests, Handler(s) \/ Proxy(s)
  PROVE  ProxyInv'
<1>1. ASSUME NEW r \in Requests \ {s} PROVE Runs(r)'
  <2>1. Same(r) /\ Runs(r)
    BY Frame DEF ProxyInv
  <2>2. /\ proxy'[r].code = proxy[r].code /\ proxy'[r].output = proxy[r].output
        /\ \/ proxy'[r] = proxy[r] /\ proxy'[r].proc = proxy[r].proc
           \/ proxy[r].proc = "exited" /\ proxy'[r].proc = "reaped"
    BY OtherProxy
  <2>3. NoProxy.proc = "none"
    BY DEF NoProxy
  <2> QED
    BY <2>1, <2>2, <2>3 DEF Same, Runs
<1> QED
  BY <1>1, RunsOwn DEF ProxyInv

\* A worker has the status of its own proxy after every step of its own.
LEMMA OwnsOwn ==
  ASSUME TypeOK, ProxyInv, ForksSucceed, NEW s \in Requests, Owns(s), Handler(s) \/ Proxy(s)
  PROVE  Owns(s)'
<1>b. Runs(s)
  BY DEF ProxyInv
<1>c. Owns(s)
  OBVIOUS
<1>d. /\ pc \in [Requests -> Pcs] /\ status \in [Requests -> Statuses \cup {GW_STATUS_UNDEFINED}]
  BY ZenonT(60) DEF TypeOK, Pcs
<1>f. "fork" \notin kind[s].fails
  BY DEF ForksSucceed
<1>1. CASE init_request_data(s)
  BY <1>1, <1>b, <1>c, <1>d DEF init_request_data, Goes, Owns, Runs, service, outside
<1>2. CASE NoBodyPreview(s)
  BY <1>2, <1>b, <1>c, <1>d DEF NoBodyPreview, Goes, Answer, Count, Owns, Runs, service, outside
<1>3. CASE check_preview_handler(s)
  BY <1>3, <1>b, <1>c, <1>d DEF check_preview_handler, Goes, Owns, Runs, service, outside
<1>4. CASE StoreFails(s)
  BY <1>4, <1>b, <1>c, <1>d DEF StoreFails, Goes, Answer, Count, Owns, Runs, service, outside
<1>5. CASE io(s)
  BY <1>5, <1>b, <1>c, <1>d DEF io, Goes, Owns, Runs, service, outside
<1>6. CASE io_full(s)
  BY <1>6, <1>b, <1>c, <1>d DEF io_full, Goes, Answer, Owns, Runs, service, outside
<1>7. CASE ClientGone(s)
  BY <1>7, <1>b, <1>c, <1>d DEF ClientGone, Goes, Owns, Runs, service, outside
<1>8. CASE end_without_data(s)
  BY <1>8, <1>b, <1>c, <1>d DEF end_without_data, Owns, Runs, service, outside
<1>9. CASE end_of_data_handler(s)
  BY <1>9, <1>b, <1>c, <1>d DEF end_of_data_handler, Goes, Count, Owns, Runs, service, outside
<1>10. CASE fork(s)
  <2>1. proxy'[s].proc = "forked"
    BY <1>10, <1>d DEF fork, SetProxy, NoProxy, TypeOK
  <2>2. status'[s] = GW_STATUS_UNDEFINED
    BY <1>10, <1>b DEF fork, Runs, Early, service
  <2> QED
    BY <2>1, <2>2 DEF Owns
<1>11. CASE fork_fails(s)
  BY <1>11, <1>f DEF fork_fails
<1>12. CASE waitpid(s)
  <2>1. PICK p \in Exited(s) :
          /\ SetProxy(p, [proxy[p] EXCEPT !.proc = "reaped"])
          /\ status' = [status EXCEPT ![s] = StatusOf(proxy[p].code)]
    BY Zenon, <1>12 DEF waitpid
  <2>2. p = s /\ proxy[s].proc = "exited"
    BY <1>12, <1>c, <2>1 DEF waitpid, Exited, Waited, Owns
  <2>3. proxy'[s] = [proxy[s] EXCEPT !.proc = "reaped"]
    BY <2>1, <2>2 DEF SetProxy, TypeOK
  <2>4. proxy'[s].proc = "reaped" /\ proxy'[s].code = proxy[s].code
    <3>1. proxy[s] \in Proxies /\ "reaped" \in Procs
      BY Fields DEF Procs
    <3> QED
      BY <2>3, <3>1, WriteProc
  <2>5. pc'[s] = "judge" /\ status'[s] = StatusOf(proxy[s].code)
    BY <1>12, <1>d, <2>1, <2>2 DEF waitpid, Goes
  <2> QED
    BY <2>4, <2>5 DEF Owns, StatusOf
<1>13. CASE waitpid_fails(s)
  BY <1>13, <1>c DEF waitpid_fails, Owns, Waited, Children
<1>14. CASE timeout(s)
  BY <1>14, <1>b, <1>c, <1>d DEF timeout, Goes, Owns, Runs, service, outside
<1>15. CASE Unprocessed(s)
  BY <1>15, <1>b, <1>c, <1>d DEF Unprocessed, Goes, Answer, Count, Owns, Runs, service, outside
<1>16. CASE Rebuilt(s)
  BY <1>16, <1>b, <1>c, <1>d DEF Rebuilt, Goes, Destroy, Count, Owns, Runs, service, outside
<1>17. CASE ErrorPage(s)
  BY <1>17, <1>b, <1>c, <1>d DEF ErrorPage, Goes, Count, Owns, Runs, service, outside
<1>18. CASE send(s)
  BY <1>18, <1>b, <1>c, <1>d DEF send, Goes, Answer, Owns, Runs, service, outside
<1>19. CASE release_request_data(s)
  BY <1>19, <1>b, <1>c, <1>d DEF release_request_data, Goes, Owns, Runs, service, outside
<1>20. CASE execvp(s)
  <2>1. pc' = pc /\ status' = status
    BY <1>20 DEF execvp, service
  <2>2. /\ proxy[s].proc \notin {"none", "reaped"}
        /\ proxy'[s].proc \in {"forked", "running", "copy", "copied", "exited"}
    BY <1>20, OwnProxy, Fields DEF execvp, Procs
  <2> QED
    BY <1>c, <2>1, <2>2 DEF Owns
<1>21. CASE execvp_fails(s)
  <2>1. pc' = pc /\ status' = status
    BY <1>21 DEF execvp_fails, service
  <2>2. /\ proxy[s].proc \notin {"none", "reaped"}
        /\ proxy'[s].proc \in {"forked", "running", "copy", "copied", "exited"}
    BY <1>21, OwnProxy, Fields DEF execvp_fails, Procs
  <2> QED
    BY <1>c, <2>1, <2>2 DEF Owns
<1>22. CASE CopyReturns(s)
  <2>1. pc' = pc /\ status' = status
    BY <1>22 DEF CopyReturns, service
  <2>2. /\ proxy[s].proc \notin {"none", "reaped"}
        /\ proxy'[s].proc \in {"forked", "running", "copy", "copied", "exited"}
    BY Zenon, <1>22, OwnProxy, Fields DEF CopyReturns, Procs
  <2> QED
    BY <1>c, <2>1, <2>2 DEF Owns
<1>23. CASE ProxyWrites(s)
  <2>1. pc' = pc /\ status' = status
    BY <1>23 DEF ProxyWrites, service
  <2>2. /\ proxy[s].proc \notin {"none", "reaped"}
        /\ proxy'[s].proc \in {"forked", "running", "copy", "copied", "exited"}
    BY Zenon, <1>23, OwnProxy, Fields DEF ProxyWrites, Procs
  <2> QED
    BY <1>c, <2>1, <2>2 DEF Owns
<1>24. CASE ProxyExits(s)
  <2>1. pc' = pc /\ status' = status
    BY <1>24 DEF ProxyExits, service
  <2>2. /\ proxy[s].proc \notin {"none", "reaped"}
        /\ proxy'[s].proc \in {"forked", "running", "copy", "copied", "exited"}
    BY Zenon, <1>24, OwnProxy, Fields DEF ProxyExits, Procs
  <2> QED
    BY <1>c, <2>1, <2>2 DEF Owns
<1> QED
  BY <1>1, <1>2, <1>3, <1>4, <1>5, <1>6, <1>7, <1>8, <1>9, <1>10, <1>11, <1>12, <1>13, <1>14, <1>15, <1>16, <1>17, <1>18, <1>19, <1>20, <1>21, <1>22, <1>23, <1>24 DEF Handler, Proxy

\* With no fork failing no step takes the end of another request's proxy.
LEMMA NoReaps ==
  ASSUME TypeOK, NEW s \in Requests, Owns(s), Handler(s) \/ Proxy(s), NEW r \in Requests \ {s}
  PROVE  proxy'[r] = proxy[r]
BY ProxyFrame DEF Reaps, Owns

\* Every step keeps it so that, as long as no fork fails, a worker gets the exit
\* status of its own proxy from waitpid.
LEMMA OwnStep ==
  ASSUME TypeOK, StoreInv, FilesInv, ProxyInv, OwnInv, NEW s \in Requests, Handler(s) \/ Proxy(s)
  PROVE  OwnInv'
<1> SUFFICES ASSUME ForksSucceed' PROVE \A r \in Requests : Owns(r)'
  BY DEF OwnInv
<1>0. kind' = kind
  BY KindKept
<1>1. ForksSucceed /\ \A r \in Requests : Owns(r)
  BY <1>0 DEF ForksSucceed, OwnInv
<1>2. ASSUME NEW r \in Requests \ {s} PROVE Owns(r)'
  <2>1. Same(r) /\ proxy'[r] = proxy[r] /\ Owns(r)
    BY <1>1, Frame, NoReaps
  <2> QED
    BY <2>1 DEF Same, Owns
<1> QED
  BY <1>1, <1>2, OwnsOwn

\* What Append makes of the answers of a request.
LEMMA Appended ==
  ASSUME TypeOK, NEW s \in Requests, NEW a \in Answers,
         answers' = [answers EXCEPT ![s] = Append(answers[s], a)]
  PROVE  /\ answers'[s] # <<>> /\ Len(answers'[s]) = Len(answers[s]) + 1
         /\ answers'[s][Len(answers'[s])] = a
         /\ \A i \in 1 .. Len(answers[s]) : answers'[s][i] = answers[s][i]
         /\ answers'[s][1] = IF answers[s] = <<>> THEN a ELSE answers[s][1]
<1>1. answers[s] \in Seq(Answers) /\ answers'[s] = Append(answers[s], a)
  BY Fields DEF TypeOK
<1>2. /\ Len(answers'[s]) = Len(answers[s]) + 1 /\ Len(answers[s]) \in Nat
      /\ \A i \in 1 .. Len(answers[s]) : answers'[s][i] = answers[s][i]
      /\ answers'[s][Len(answers[s]) + 1] = a
  BY <1>1
<1>3. answers[s] = <<>> <=> Len(answers[s]) = 0
  BY <1>1
<1>4. answers'[s] # <<>>
  BY <1>1, <1>2
<1> QED
  BY <1>2, <1>3, <1>4

\* The answer a handler builds.
Fact(s, what, length) == [what |-> what, length |-> length, header |-> header[s]]

\* A step of s adds at most one answer, and that one is true and earned.
LEMMA NewAnswer ==
  ASSUME TypeOK, StoreInv, FilesInv, ProxyInv, OwnInv, NEW s \in Requests,
         Handler(s) \/ Proxy(s)
  PROVE  \/ answers' = answers
         \/ \E a \in Answers : /\ answers' = [answers EXCEPT ![s] = Append(answers[s], a)]
                               /\ Earned(s, a)
<1>b. Stores(s) /\ Files(s)
  BY DEF StoreInv, FilesInv
<1>c. ForksSucceed => Owns(s)
  BY DEF OwnInv
<1>d. ASSUME NEW length \in Nat,
             NEW what \in {"204", "original", "rebuilt", "page", "500", "none", "stale"},
             Answer(s, what, length), Earned(s, Fact(s, what, length))
      PROVE  \E a \in Answers : /\ answers' = [answers EXCEPT ![s] = Append(answers[s], a)]
                                /\ Earned(s, a)
  <2>1. Fact(s, what, length) \in Answers
    BY Fields DEF Answers, Fact
  <2> QED
    BY Zenon, <1>d, <2>1 DEF Answer, Fact
<1>e. ASSUME NEW what \in {"500", "none", "stale"}, NEW length \in Nat
      PROVE  Earned(s, Fact(s, what, length))
  BY DEF Earned, Fact
<1>1. CASE NoBodyPreview(s)
  <2>1. Earned(s, Fact(s, "204", 0))
    BY <1>1 DEF Earned, Fact, NoBodyPreview
  <2>2. answers' = answers \/ Answer(s, "204", 0)
    BY <1>1 DEF NoBodyPreview
  <2> QED
    BY <1>d, <2>1, <2>2
<1>2. CASE StoreFails(s) \/ io_full(s)
  <2>1. answers' = answers \/ Answer(s, "500", 0) \/ Answer(s, "none", 0)
    BY <1>2 DEF StoreFails, io_full
  <2> QED
    BY <1>d, <1>e, <2>1
<1>3. CASE Unprocessed(s)
  <2>1. ForksSucceed => proxy[s].code = GW_UNPROCESSED
    BY <1>3, <1>c DEF Unprocessed, Owns
  <2>2. Earned(s, Fact(s, "204", 0))
    BY <2>1 DEF Earned, Fact
  <2>3. answers' = answers \/ Answer(s, "204", 0)
    BY <1>3 DEF Unprocessed
  <2> QED
    BY <1>d, <2>2, <2>3
<1>4. CASE send(s)
  <2>1. body[s] \in {Original, Swapped, Page} /\ StoreSize(s) \in Nat
    <3>1. body[s] \in {Original, Swapped, Page}
      BY <1>4, <1>b DEF send, Files
    <3>2. body[s].store \in Names
      BY <3>1 DEF Original, Swapped, Page
    <3> QED
      BY <3>1, <3>2, Fields DEF StoreSize
  <2>2. ~Full(s)
    BY <1>4 DEF send
  <2>3. CASE ~Full(s) /\ body[s] = Original
    <3>1. /\ StoreSize(s) = size[s]["store"] /\ Content(s) = "original"
      BY <2>3 DEF StoreSize, Content, Original
    <3>2. status[s] = GW_UNPROCESSED /\ Whole(s) /\ header[s] = kind[s].size
      BY <1>4, <1>b, <2>3, Distinct DEF send, Files
    <3>3. size[s]["store"] = header[s]
      BY <2>3, <3>1, <3>2, ConstantsAssumption DEF Whole, Full
    <3>4. ForksSucceed => proxy[s].code = GW_UNPROCESSED
      BY <1>c, <3>2 DEF Owns
    <3>5. Earned(s, Fact(s, "original", StoreSize(s)))
      BY <3>1, <3>3, <3>4 DEF Earned, Fact
    <3>6. Answer(s, "original", StoreSize(s))
      BY <1>4, <2>3, <3>1 DEF send
    <3> QED
      BY <1>d, <2>1, <3>5, <3>6
  <2>4. CASE ~Full(s) /\ body[s] = Swapped
    <3>1. /\ StoreSize(s) = size[s]["output"] /\ Content(s) = "rebuilt"
      BY <2>4 DEF StoreSize, Content, Swapped
    <3>2. status[s] = GW_REBUILT /\ header[s] = size[s]["output"]
      BY <1>4, <1>b, <2>4, Distinct DEF send, Files
    <3>3. ForksSucceed => proxy[s].code = GW_REBUILT
      BY <1>c, <3>2 DEF Owns
    <3>4. Earned(s, Fact(s, "rebuilt", StoreSize(s)))
      BY <3>1, <3>2, <3>3 DEF Earned, Fact
    <3>5. Answer(s, "rebuilt", StoreSize(s))
      BY <1>4, <2>4, <3>1 DEF send
    <3> QED
      BY <1>d, <2>1, <3>4, <3>5
  <2>5. CASE ~Full(s) /\ body[s] = Page
    <3>1. /\ StoreSize(s) = size[s]["page"] /\ Content(s) = "page"
      BY <2>5 DEF StoreSize, Content, Page
    <3>2. header[s] = size[s]["page"]
      BY <1>4, <1>b, <2>5, Distinct DEF send, Files
    <3>3. Earned(s, Fact(s, "page", StoreSize(s)))
      BY <3>1, <3>2 DEF Earned, Fact
    <3>4. Answer(s, "page", StoreSize(s))
      BY <1>4, <2>5, <3>1 DEF send
    <3> QED
      BY <1>d, <2>1, <3>3, <3>4
  <2> QED
    BY <2>1, <2>2, <2>3, <2>4, <2>5
<1>5. CASE CopyReturns(s)
  <2> DEFINE a == [what |-> "page", length |-> PageSize, header |-> PageSize]
  <2>1. a \in Answers /\ Earned(s, a)
    BY ConstantsAssumption DEF Answers, Earned
  <2>2. answers' = [answers EXCEPT ![s] = Append(answers[s], a)]
    BY <1>5 DEF CopyReturns
  <2> QED
    BY Zenon, <2>1, <2>2
<1>6. CASE ~(NoBodyPreview(s) \/ StoreFails(s) \/ io_full(s) \/ Unprocessed(s) \/ send(s)
             \/ CopyReturns(s))
  BY Zenon, <1>6 DEF Handler, Proxy, init_request_data, check_preview_handler, io, ClientGone,
              end_without_data, end_of_data_handler, fork, fork_fails, waitpid, waitpid_fails,
              timeout, Rebuilt, ErrorPage, release_request_data, execvp, execvp_fails,
              ProxyWrites, ProxyExits
<1> QED
  BY <1>1, <1>2, <1>3, <1>4, <1>5, <1>6

\* An answer stays earned: a code, once there, is the proxy's last.
LEMMA EarnedKept ==
  ASSUME TypeOK, FilesInv, ProxyInv, NEW s \in Requests, Handler(s) \/ Proxy(s),
         NEW r \in Requests,
         NEW a \in Answers, Earned(r, a), ~(r = s /\ fork(s))
  PROVE  Earned(r, a)'
<1>1. kind' = kind /\ (ForksSucceed' <=> ForksSucceed)
  BY KindKept DEF ForksSucceed
<1>2. proxy[r].code # -1 => proxy'[r].code = proxy[r].code
  <2>1. proxy[r].code # -1 <=> proxy[r].proc \in {"exited", "reaped"}
    BY DEF ProxyInv, Runs
  <2>2. CASE r # s
    BY <2>2, OtherProxy
  <2>3. CASE r = s
    BY <2>1, <2>3, OwnProxy
  <2> QED
    BY <2>2, <2>3
<1>3. exposed \subseteq exposed'
  BY ExposedStep
<1> QED
  BY <1>1, <1>2, <1>3 DEF Earned, HasData

\* Every step keeps the answers: of true length, and earned by the proxy.
LEMMA AnswersStep ==
  ASSUME TypeOK, StoreInv, FilesInv, ProxyInv, OwnInv, AnswersInv, NEW s \in Requests,
         Handler(s) \/ Proxy(s)
  PROVE  AnswersInv'
<1> SUFFICES ASSUME NEW r \in Requests, NEW i \in 1 .. Len(answers'[r]), NEW b,
                    b = answers'[r][i]
             PROVE  Earned(r, b)'
  <2>1. \A r \in Requests : \A i \in 1 .. Len(answers'[r]) : Earned(r, answers[r][i])'
    <3> SUFFICES ASSUME NEW r \in Requests, NEW i \in 1 .. Len(answers'[r])
                 PROVE  Earned(r, answers[r][i])'
      OBVIOUS
    <3>1. PICK b : b = answers'[r][i]
      OBVIOUS
    <3>2. Earned(r, b)'
      BY <3>1
    <3> QED
      BY <3>1, <3>2 DEF Earned
  <2> QED
    BY <2>1 DEF AnswersInv
<1>1. /\ \A j \in 1 .. Len(answers[r]) : Earned(r, answers[r][j]) /\ answers[r][j] \in Answers
      /\ Len(answers[r]) \in Nat
  BY Fields DEF AnswersInv
<1>2. r = s /\ fork(s) => Len(answers[r]) = 0 /\ answers' = answers
  BY DEF fork, ProxyInv, Runs, Early
<1>3. ASSUME i \in 1 .. Len(answers[r]), answers'[r][i] = answers[r][i] PROVE Earned(r, b)'
  <2>1. b \in Answers /\ Earned(r, b) /\ ~(r = s /\ fork(s))
    BY <1>1, <1>2, <1>3
  <2> QED
    BY <2>1, EarnedKept
<1>4. CASE answers'[r] = answers[r]
  BY <1>3, <1>4
<1>5. CASE answers'[r] # answers[r]
  <2>1. r = s /\ ~fork(s)
    BY Zenon, <1>2, <1>5, Frame DEF Same
  <2>2. PICK a \in Answers : /\ answers' = [answers EXCEPT ![s] = Append(answers[s], a)]
                             /\ Earned(s, a)
    BY <1>5, NewAnswer
  <2>3. /\ Len(answers'[s]) = Len(answers[s]) + 1 /\ answers'[s][Len(answers'[s])] = a
        /\ \A j \in 1 .. Len(answers[s]) : answers'[s][j] = answers[s][j]
    BY Zenon, <2>2, Appended
  <2>4. CASE i = Len(answers'[s])
    <3>1. b = a
      BY <2>1, <2>3, <2>4
    <3>2. Earned(r, a)'
      BY <2>1, <2>2, EarnedKept
    <3> QED
      BY <3>1, <3>2
  <2>5. CASE i # Len(answers'[s])
    <3>1. i \in 1 .. Len(answers[s]) /\ answers'[s][i] = answers[s][i]
      BY <1>1, <2>1, <2>3, <2>5
    <3> QED
      BY <1>3, <2>1, <3>1
  <2> QED
    BY <2>4, <2>5
<1> QED
  BY <1>4, <1>5

\* A file on the disk is accounted for after every step of the request's own.
LEMMA KeptOwn ==
  ASSUME TypeOK, FilesInv, ProxyInv, NEW s \in Requests, kind[s].cleanup, Kept(s),
         Handler(s) \/ Proxy(s)
  PROVE  Kept(s)'
<1>a. Kept(s)
  OBVIOUS
<1>b. Files(s)
  BY DEF FilesInv
<1>c. Runs(s)
  BY DEF ProxyInv
<1>d. body \in [Requests -> [store : Names \cup {None}, rebuild : Names \cup {None}]]
  BY DEF TypeOK
<1>1. CASE init_request_data(s)
  BY Zenon, <1>1, <1>a DEF init_request_data, Kept, service, outside
<1>2. CASE NoBodyPreview(s)
  BY <1>2, <1>a DEF NoBodyPreview, Kept, service, outside
<1>3. CASE check_preview_handler(s)
  <2>1. \/ body'[s] = Original /\ disk' = disk \cup {<<s, "store">>, <<s, "output">>}
        \/ body' = body /\ disk' = disk
    BY <1>3, <1>d DEF check_preview_handler, Original
  <2>2. proxy' = proxy /\ (pc[s] = "preview" => body[s] = Absent)
    BY <1>3, <1>b DEF check_preview_handler, Files
  <2>3. CASE body'[s] = Original /\ disk' = disk \cup {<<s, "store">>, <<s, "output">>}
    <3>1. \/ proxy[s].proc = "none" /\ body[s] = Absent
          \/ pc[s] = "body" /\ body[s] = Original
      BY <1>3, <1>b, <1>c, <2>2 DEF check_preview_handler, Files, Runs, Early, NoProxy
    <3> QED
      BY <1>a, <2>2, <2>3, <3>1 DEF Kept, Original, Absent
  <2>4. CASE body' = body /\ disk' = disk
    BY <1>a, <2>2, <2>4 DEF Kept
  <2> QED
    BY <2>1, <2>3, <2>4
<1>4. CASE StoreFails(s)
  <2>1. \/ body'[s] = Original /\ disk' = disk \cup {<<s, "store">>, <<s, "output">>}
        \/ body' = body /\ disk' = disk
    BY <1>4, <1>d DEF StoreFails, Original
  <2>2. proxy' = proxy /\ (pc[s] = "preview" => body[s] = Absent)
    BY <1>4, <1>b DEF StoreFails, Files
  <2>3. CASE body'[s] = Original /\ disk' = disk \cup {<<s, "store">>, <<s, "output">>}
    <3>1. \/ proxy[s].proc = "none" /\ body[s] = Absent
          \/ pc[s] = "body" /\ body[s] = Original
      BY <1>4, <1>b, <1>c, <2>2 DEF StoreFails, Files, Runs, Early, NoProxy
    <3> QED
      BY <1>a, <2>2, <2>3, <3>1 DEF Kept, Original, Absent
  <2>4. CASE body' = body /\ disk' = disk
    BY <1>a, <2>2, <2>4 DEF Kept
  <2> QED
    BY <2>1, <2>3, <2>4
<1>5. CASE io(s)
  BY <1>5, <1>a DEF io, Kept, service, outside
<1>6. CASE io_full(s)
  BY <1>6, <1>a DEF io_full, Kept, service, outside
<1>7. CASE ClientGone(s)
  BY <1>7, <1>a DEF ClientGone, Kept, service, outside
<1>8. CASE end_without_data(s)
  BY <1>8, <1>a DEF end_without_data, Kept, service, outside
<1>9. CASE end_of_data_handler(s)
  BY <1>9, <1>a DEF end_of_data_handler, Kept, service, outside
<1>10. CASE fork(s)
  <2>1. disk' = disk /\ body' = body /\ proxy'[s].proc = "forked"
    BY <1>10, <1>d DEF fork, service, SetProxy, NoProxy, TypeOK
  <2> QED
    BY <1>a, <2>1 DEF Kept
<1>11. CASE fork_fails(s)
  BY <1>11, <1>a DEF fork_fails, Kept, service, outside
<1>12. CASE waitpid(s)
  <2>1. disk' = disk /\ body' = body /\ body[s] = Original
    BY <1>12, <1>b DEF waitpid, Files
  <2> QED
    BY <1>a, <2>1, OwnProxy DEF Kept, Original
<1>13. CASE waitpid_fails(s)
  BY ZenonT(60), <1>13, <1>a DEF waitpid_fails, Kept, service, outside
<1>14. CASE timeout(s)
  BY Zenon, <1>14, <1>a DEF timeout, Kept, service, outside
<1>15. CASE Unprocessed(s)
  BY <1>15, <1>a DEF Unprocessed, Kept, service, outside
<1>16. CASE Rebuilt(s)
  <2>1. /\ body'[s] = Swapped /\ proxy' = proxy /\ body[s] = Original
        /\ \A n \in Names : <<s, n>> \in disk' => <<s, n>> \in disk /\ n # "store"
    BY Zenon, <1>16, <1>b, <1>d, RebuiltFacts DEF Rebuilt, Destroy, Files
  <2> QED
    BY <1>a, <2>1 DEF Kept, Swapped, Original
<1>17. CASE ErrorPage(s)
  <2>1. /\ body'[s] = Page /\ proxy' = proxy /\ body[s] = Original
        /\ \A n \in Names : <<s, n>> \in disk' =>
             \/ <<s, n>> \in disk /\ n \notin {"store", "output"}
             \/ n \in {"page", "page_output"}
    BY <1>17, <1>b, <1>d DEF ErrorPage, Page, Files
  <2> QED
    BY <1>a, <2>1 DEF Kept, Page, Original
<1>18. CASE send(s)
  BY <1>18, <1>a DEF send, Kept, service, outside
<1>19. CASE release_request_data(s)
  <2>1. body'[s] = Absent /\ proxy' = proxy
    BY <1>19, <1>d DEF release_request_data
  <2>2. \A n \in Names : <<s, n>> \in disk' =>
          <<s, n>> \in disk /\ n \notin {body[s].store, body[s].rebuild}
    <3>1. CASE body[s] = Absent
      BY <1>19, <3>1 DEF release_request_data, Absent
    <3>2. CASE body[s] # Absent
      BY <1>19, <3>2 DEF release_request_data
    <3> QED
      BY <3>1, <3>2
  <2> QED
    BY <1>a, <2>1, <2>2 DEF Kept
<1>20. CASE execvp(s)
  <2>1. /\ body' = body
        /\ \A n \in Names : <<s, n>> \in disk' => <<s, n>> \in disk \/ n = "output"
    BY <1>20 DEF execvp, service
  <2>2. proxy'[s].proc \notin {"none", "reaped"}
    BY <1>20, OwnProxy, Fields DEF execvp, Procs
  <2> QED
    BY <1>a, <2>1, <2>2 DEF Kept
<1>21. CASE execvp_fails(s)
  <2>1. /\ body' = body
        /\ \A n \in Names : <<s, n>> \in disk' => <<s, n>> \in disk \/ n = "output"
    BY <1>21 DEF execvp_fails, service
  <2>2. proxy'[s].proc \notin {"none", "reaped"}
    BY <1>21, OwnProxy, Fields DEF execvp_fails, Procs
  <2> QED
    BY <1>a, <2>1, <2>2 DEF Kept
<1>22. CASE CopyReturns(s)
  <2>1. /\ body' = body
        /\ \A n \in Names : <<s, n>> \in disk' => <<s, n>> \in disk \/ n = "output"
    BY <1>22 DEF CopyReturns, service
  <2>2. proxy'[s].proc \notin {"none", "reaped"}
    BY Zenon, <1>22, OwnProxy, Fields DEF CopyReturns, Procs
  <2> QED
    BY <1>a, <2>1, <2>2 DEF Kept
<1>23. CASE ProxyWrites(s)
  <2>1. /\ body' = body
        /\ \A n \in Names : <<s, n>> \in disk' => <<s, n>> \in disk \/ n = "output"
    BY <1>23 DEF ProxyWrites, service
  <2>2. proxy'[s].proc \notin {"none", "reaped"}
    BY Zenon, <1>23, OwnProxy, Fields DEF ProxyWrites, Procs
  <2> QED
    BY <1>a, <2>1, <2>2 DEF Kept
<1>24. CASE ProxyExits(s)
  <2>1. /\ body' = body
        /\ \A n \in Names : <<s, n>> \in disk' => <<s, n>> \in disk \/ n = "output"
    BY <1>24 DEF ProxyExits, service
  <2>2. proxy'[s].proc \notin {"none", "reaped"}
    BY Zenon, <1>24, OwnProxy, Fields DEF ProxyExits, Procs
  <2> QED
    BY <1>a, <2>1, <2>2 DEF Kept
<1> QED
  BY <1>1, <1>2, <1>3, <1>4, <1>5, <1>6, <1>7, <1>8, <1>9, <1>10, <1>11, <1>12, <1>13, <1>14, <1>15, <1>16, <1>17, <1>18, <1>19, <1>20, <1>21, <1>22, <1>23, <1>24 DEF Handler, Proxy

\* Every step keeps the files on the disk those that a body names, with
\* DataCleanup and as long as no fork fails.
LEMMA DiskStep ==
  ASSUME TypeOK, StoreInv, FilesInv, ProxyInv, OwnInv, DiskInv, NEW s \in Requests,
         Handler(s) \/ Proxy(s)
  PROVE  DiskInv'
<1>0. kind' = kind
  BY KindKept
<1> SUFFICES ASSUME ForksSucceed'
             PROVE  \A r \in Requests : kind[r].cleanup => Kept(r)'
  BY <1>0 DEF DiskInv
<1>1. ForksSucceed /\ \A r \in Requests : (kind[r].cleanup => Kept(r)) /\ Owns(r)
  BY <1>0 DEF ForksSucceed, OwnInv, DiskInv
<1>2. ASSUME NEW r \in Requests \ {s}, kind[r].cleanup PROVE Kept(r)'
  <2>0. Kept(r)
    BY <1>1, <1>2
  <2>1. Same(r) /\ proxy'[r] = proxy[r] /\ Kept(r)
    BY <1>1, <2>0, Frame, NoReaps
  <2> QED
    BY <2>1 DEF Same, Kept
<1> QED
  BY <1>1, <1>2, KeptOwn

-----------------------------------------------------------------------------
\* The sets that ScansCounted counts: requests refused in the preview, requests with
\* a copy of the child that answered, and requests whose scan has not been judged.
Refused == {r \in Requests : answers[r] # <<>> /\ answers[r][1].what = "500"}
Copies == {r \in Requests : proxy[r].proc = "copied"}
Unjudged == {r \in Requests : pc[r] \in {"fork", "wait", "judge"}}

Results == stats["FAILURES"] + stats["ERRORS"] + stats["SUCCESSES"] + stats["NOT_PROCESSED"]

Balance ==
  stats["SCAN_REQS"] + Cardinality(Refused) + Cardinality(Copies)
    = Results + Cardinality(Unjudged)

\* The requests that were refused unscanned and those not judged yet and the copies are finitely many.
LEMMA SetsFinite ==
  /\ IsFiniteSet(Refused) /\ IsFiniteSet(Copies) /\ IsFiniteSet(Unjudged)
  /\ Cardinality(Refused) \in Nat /\ Cardinality(Copies) \in Nat
  /\ Cardinality(Unjudged) \in Nat
<1>1. Refused \subseteq Requests /\ Copies \subseteq Requests /\ Unjudged \subseteq Requests
  BY DEF Refused, Copies, Unjudged
<1>2. IsFiniteSet(Refused) /\ IsFiniteSet(Copies) /\ IsFiniteSet(Unjudged)
  BY <1>1, FS_Subset, ConstantsAssumption
<1> QED
  BY <1>2, FS_CardinalityType

\* The numbers a step may change together.
LEMMA ScanStarts ==
  ASSUME TypeOK, ScansCounted, NEW s \in Requests, s \notin Unjudged,
         Refused' = Refused, Copies' = Copies, Unjudged' = Unjudged \cup {s},
         stats' = Count("SCAN_REQS")
  PROVE  ScansCounted'
<1>1. Cardinality(Unjudged') = Cardinality(Unjudged) + 1
  BY Zenon, SetsFinite, FS_AddElement
<1>2. stats \in [Counters -> Nat] /\ Balance
  BY DEF TypeOK, ScansCounted, Balance, Refused, Copies, Unjudged, Results
<1>3. stats'["SCAN_REQS"] = stats["SCAN_REQS"] + 1 /\ Results' = Results
  BY <1>2 DEF Count, Results, Counters
<1>4. stats["SCAN_REQS"] \in Nat /\ Results \in Nat
  BY <1>2 DEF Results, Counters
<1>5. stats'["SCAN_REQS"] + Cardinality(Refused') + Cardinality(Copies')
        = Results' + Cardinality(Unjudged')
  BY <1>1, <1>2, <1>3, <1>4, SetsFinite DEF Balance
<1> QED
  BY <1>5 DEF ScansCounted, Refused, Copies, Unjudged, Results

\* A scan that is judged is counted under one result.
LEMMA ScanJudged ==
  ASSUME TypeOK, ScansCounted, NEW s \in Requests, s \in Unjudged,
         Refused' = Refused, Copies' = Copies, Unjudged' = Unjudged \ {s},
         NEW c \in {"FAILURES", "ERRORS", "SUCCESSES", "NOT_PROCESSED"}, stats' = Count(c)
  PROVE  ScansCounted'
<1>1. Cardinality(Unjudged') = Cardinality(Unjudged) - 1
  BY Zenon, SetsFinite, FS_RemoveElement
<1>2. stats \in [Counters -> Nat] /\ Balance
  BY DEF TypeOK, ScansCounted, Balance, Refused, Copies, Unjudged, Results
<1>3. stats'["SCAN_REQS"] = stats["SCAN_REQS"] /\ Results' = Results + 1
  BY <1>2 DEF Count, Results, Counters
<1>4. stats["SCAN_REQS"] \in Nat /\ Results \in Nat
  BY <1>2 DEF Results, Counters
<1>5. stats'["SCAN_REQS"] + Cardinality(Refused') + Cardinality(Copies')
        = Results' + Cardinality(Unjudged')
  BY <1>1, <1>2, <1>3, <1>4, SetsFinite DEF Balance
<1> QED
  BY <1>5 DEF ScansCounted, Refused, Copies, Unjudged, Results

\* A body that is refused before its scan is counted as an error.
LEMMA ScanRefused ==
  ASSUME TypeOK, ScansCounted, NEW s \in Requests, s \notin Refused,
         Refused' = Refused \cup {s}, Copies' = Copies, Unjudged' = Unjudged,
         stats' = Count("ERRORS")
  PROVE  ScansCounted'
<1>1. Cardinality(Refused') = Cardinality(Refused) + 1
  BY Zenon, SetsFinite, FS_AddElement
<1>2. stats \in [Counters -> Nat] /\ Balance
  BY DEF TypeOK, ScansCounted, Balance, Refused, Copies, Unjudged, Results
<1>3. stats'["SCAN_REQS"] = stats["SCAN_REQS"] /\ Results' = Results + 1
  BY <1>2 DEF Count, Results, Counters
<1>4. stats["SCAN_REQS"] \in Nat /\ Results \in Nat
  BY <1>2 DEF Results, Counters
<1>5. stats'["SCAN_REQS"] + Cardinality(Refused') + Cardinality(Copies')
        = Results' + Cardinality(Unjudged')
  BY <1>1, <1>2, <1>3, <1>4, SetsFinite DEF Balance
<1> QED
  BY <1>5 DEF ScansCounted, Refused, Copies, Unjudged, Results

\* A copy of the child that returns from exec_prog counts an error of its own.
LEMMA ScanCopied ==
  ASSUME TypeOK, ScansCounted, NEW s \in Requests, s \notin Copies,
         Refused' = Refused, Copies' = Copies \cup {s}, Unjudged' = Unjudged,
         stats' = Count("ERRORS")
  PROVE  ScansCounted'
<1>1. Cardinality(Copies') = Cardinality(Copies) + 1
  BY Zenon, SetsFinite, FS_AddElement
<1>2. stats \in [Counters -> Nat] /\ Balance
  BY DEF TypeOK, ScansCounted, Balance, Refused, Copies, Unjudged, Results
<1>3. stats'["SCAN_REQS"] = stats["SCAN_REQS"] /\ Results' = Results + 1
  BY <1>2 DEF Count, Results, Counters
<1>4. stats["SCAN_REQS"] \in Nat /\ Results \in Nat
  BY <1>2 DEF Results, Counters
<1>5. stats'["SCAN_REQS"] + Cardinality(Refused') + Cardinality(Copies')
        = Results' + Cardinality(Unjudged')
  BY <1>1, <1>2, <1>3, <1>4, SetsFinite DEF Balance
<1> QED
  BY <1>5 DEF ScansCounted, Refused, Copies, Unjudged, Results

\* A step that begins no scan and judges none keeps the balance of the counters.
LEMMA ScanKept ==
  ASSUME TypeOK, ScansCounted, Refused' = Refused, Copies' = Copies, Unjudged' = Unjudged,
         stats' = stats \/ stats' = Count("UNPROCESSABLE")
  PROVE  ScansCounted'
<1>1. stats \in [Counters -> Nat] /\ Balance
  BY DEF TypeOK, ScansCounted, Balance, Refused, Copies, Unjudged, Results
<1>2. stats'["SCAN_REQS"] = stats["SCAN_REQS"] /\ Results' = Results
  BY <1>1 DEF Count, Results, Counters
<1>3. stats'["SCAN_REQS"] + Cardinality(Refused') + Cardinality(Copies')
        = Results' + Cardinality(Unjudged')
  BY <1>1, <1>2 DEF Balance
<1> QED
  BY <1>3 DEF ScansCounted, Refused, Copies, Unjudged, Results

\* A step changes the sets by its own request only.
LEMMA SetsFrame ==
  ASSUME TypeOK, NEW s \in Requests, Handler(s) \/ Proxy(s)
  PROVE  /\ s \in Refused' /\ s \notin Refused => Refused' = Refused \cup {s}
         /\ (s \in Refused' <=> s \in Refused) => Refused' = Refused
         /\ s \in Copies' /\ s \notin Copies => Copies' = Copies \cup {s}
         /\ (s \in Copies' <=> s \in Copies) => Copies' = Copies
         /\ s \in Unjudged' /\ s \notin Unjudged => Unjudged' = Unjudged \cup {s}
         /\ s \notin Unjudged' /\ s \in Unjudged => Unjudged' = Unjudged \ {s}
         /\ (s \in Unjudged' <=> s \in Unjudged) => Unjudged' = Unjudged
<1>1. \A r \in Requests \ {s} : (r \in Refused' <=> r \in Refused) /\ (r \in Unjudged' <=> r \in Unjudged)
  BY Zenon, Frame DEF Same, Refused, Unjudged
<1>2. \A r \in Requests \ {s} : r \in Copies' <=> r \in Copies
  BY OtherProxy DEF Copies
<1>3. Refused \subseteq Requests /\ Refused' \subseteq Requests
      /\ Copies \subseteq Requests /\ Copies' \subseteq Requests
      /\ Unjudged \subseteq Requests /\ Unjudged' \subseteq Requests
  BY DEF Refused, Copies, Unjudged
<1> QED
  BY <1>1, <1>2, <1>3

\* Only a copy that returns becomes one that has returned.
LEMMA CopiesOwn ==
  ASSUME TypeOK, ProxyInv, NEW s \in Requests, Handler(s) \/ Proxy(s)
  PROVE  IF CopyReturns(s) THEN s \in Copies' /\ s \notin Copies ELSE Copies' = Copies
<1>0. proxy[s] \in Proxies /\ {"running", "copy", "copied"} \subseteq Procs
  BY Fields DEF Procs
<1>1. CASE CopyReturns(s)
  <2>1. proxy'[s] = [proxy[s] EXCEPT !.proc = "copied"] /\ proxy[s].proc = "copy"
    BY <1>1 DEF CopyReturns, SetProxy, TypeOK
  <2>2. proxy'[s].proc = "copied"
    BY <1>0, <2>1, WriteProc
  <2> QED
    BY <1>1, <2>1, <2>2 DEF Copies
<1>2. CASE ~CopyReturns(s) /\ (execvp(s) \/ execvp_fails(s))
  <2>1. PICK x \in {"running", "copy"} :
          proxy' = [proxy EXCEPT ![s] = [proxy[s] EXCEPT !.proc = x]]
          /\ proxy[s].proc = "forked"
    BY Zenon, <1>2 DEF execvp, execvp_fails, SetProxy
  <2>2. proxy'[s].proc = x
    <3>1. proxy'[s] = [proxy[s] EXCEPT !.proc = x]
      BY <2>1 DEF TypeOK
    <3> QED
      BY <1>0, <3>1, WriteProc
  <2>3. s \notin Copies' /\ s \notin Copies
    BY <2>1, <2>2 DEF Copies
  <2> QED
    BY <1>2, <2>3, SetsFrame
<1>3. CASE ~(CopyReturns(s) \/ execvp(s) \/ execvp_fails(s))
  <2>1. proxy'[s].proc = "copied" <=> proxy[s].proc = "copied"
    <3>1. fork(s) => proxy[s].proc # "copied"
      BY DEF fork, ProxyInv, Runs, Early, NoProxy
    <3> QED
      BY <1>3, <3>1, OwnProxy
  <2>2. s \in Copies' <=> s \in Copies
    BY <2>1 DEF Copies
  <2> QED
    BY <1>3, <2>2, SetsFrame
<1> QED
  BY <1>1, <1>2, <1>3

\* A request is refused only in the preview, with its first answer.
LEMMA RefusedOwn ==
  ASSUME TypeOK, FilesInv, NEW s \in Requests, Handler(s) \/ Proxy(s),
         ~(StoreFails(s) /\ pc[s] = "preview")
  PROVE  Refused' = Refused
<1>1. ASSUME NEW what \in {"204", "original", "rebuilt", "page", "none", "stale"}, NEW n, NEW h,
             [what |-> what, length |-> n, header |-> h] \in Answers,
             answers' = [answers EXCEPT ![s] = Append(answers[s],
                           [what |-> what, length |-> n, header |-> h])]
      PROVE  s \in Refused' <=> s \in Refused
  <2>1. /\ answers'[s] # <<>>
        /\ answers'[s][1] = IF answers[s] = <<>> THEN [what |-> what, length |-> n, header |-> h]
                            ELSE answers[s][1]
    BY Zenon, <1>1, Appended
  <2> QED
    BY <2>1 DEF Refused
<1>2. ASSUME NEW what \in {"204", "original", "rebuilt", "page", "none", "stale"}, NEW n \in Nat,
             Answer(s, what, n)
      PROVE  s \in Refused' <=> s \in Refused
  <2>1. [what |-> what, length |-> n, header |-> header[s]] \in Answers
    BY Fields DEF Answers
  <2>2. PICK h : h = header[s]
    OBVIOUS
  <2> QED
    BY Zenon, <1>1, <1>2, <2>1, <2>2 DEF Answer
<1>3. CASE CopyReturns(s)
  <2>1. [what |-> "page", length |-> PageSize, header |-> PageSize] \in Answers
    BY ConstantsAssumption DEF Answers
  <2> QED
    BY ZenonT(60), <1>1, <1>3, <2>1, SetsFrame DEF CopyReturns
<1>4. CASE \E what \in {"204", "original", "rebuilt", "page", "none", "stale"}, n \in Nat :
             Answer(s, what, n)
  BY <1>2, <1>4, SetsFrame
<1>5. CASE answers' = answers
  BY <1>5, SetsFrame DEF Refused
<1>6. CASE NoBodyPreview(s)
  BY Zenon, <1>4, <1>5, <1>6 DEF NoBodyPreview
<1>7. CASE io_full(s)
  BY <1>4, <1>7 DEF io_full
<1>8. CASE Unprocessed(s)
  BY <1>4, <1>5, <1>8 DEF Unprocessed
<1>9. CASE send(s)
  <2>1. PICK what \in {"original", "rebuilt", "page", "stale"} : Answer(s, what, StoreSize(s))
    BY <1>9 DEF send, Content
  <2>2. StoreSize(s) \in Nat
    <3>1. body[s] \in {Original, Swapped, Page}
      BY Zenon, <1>9 DEF send, FilesInv, Files
    <3>2. body[s].store \in Names
      BY <3>1 DEF Original, Swapped, Page
    <3> QED
      BY <3>2, Fields DEF StoreSize
  <2> QED
    BY <1>4, <2>1, <2>2
<1>10. CASE ~(NoBodyPreview(s) \/ io_full(s) \/ Unprocessed(s) \/ send(s) \/ CopyReturns(s))
  BY ZenonT(60), <1>5, <1>10 DEF Handler, Proxy, init_request_data, check_preview_handler, StoreFails, io,
              ClientGone, end_without_data, end_of_data_handler, fork, fork_fails, waitpid,
              waitpid_fails, timeout, Rebuilt, ErrorPage, release_request_data, execvp,
              execvp_fails, ProxyWrites, ProxyExits
<1> QED
  BY <1>3, <1>6, <1>7, <1>8, <1>9, <1>10

\* Every step keeps the balance of the counters of the statistics.
LEMMA ScansStep ==
  ASSUME TypeOK, StoreInv, FilesInv, ProxyInv, ScansCounted, NEW s \in Requests,
         Handler(s) \/ Proxy(s)
  PROVE  ScansCounted'
<1>0. pc \in [Requests -> Pcs]
  BY DEF TypeOK, Pcs
<1>1. CASE StoreFails(s) /\ pc[s] = "preview"
  <2>1. Answer(s, "500", 0) /\ stats' = Count("ERRORS") /\ pc'[s] = "release"
    BY <1>0, <1>1 DEF StoreFails, Goes
  <2>2. answers[s] = <<>>
    BY <1>1 DEF ProxyInv, Runs, Early
  <2>3. PICK a : a = [what |-> "500", length |-> 0, header |-> header[s]]
    BY Zenon
  <2>4. a \in Answers
    BY <2>3, Fields DEF Answers
  <2>5. answers'[s] # <<>> /\ answers'[s][1] = a
    <3>1. answers' = [answers EXCEPT ![s] = Append(answers[s], a)]
      BY <2>1, <2>3 DEF Answer
    <3>2. /\ answers'[s] # <<>>
          /\ answers'[s][1] = IF answers[s] = <<>> THEN a ELSE answers[s][1]
      BY ZenonT(60), <2>4, <3>1, Appended
    <3> QED
      BY <2>2, <3>2
  <2>6. s \in Refused' /\ s \notin Refused
    BY <2>2, <2>3, <2>5 DEF Refused
  <2>7. s \notin Unjudged' /\ s \notin Unjudged
    BY <1>1, <2>1 DEF Unjudged
  <2>8. Copies' = Copies
    BY <1>1 DEF StoreFails, Copies
  <2> QED
    BY <2>1, <2>6, <2>7, <2>8, SetsFrame, ScanRefused
<1>2. CASE end_of_data_handler(s)
  <2>1. s \in Unjudged' /\ s \notin Unjudged
    BY <1>0, <1>2 DEF end_of_data_handler, Goes, Unjudged
  <2>2. Refused' = Refused /\ stats' = Count("SCAN_REQS")
    BY <1>2, SetsFrame DEF end_of_data_handler, Refused
  <2>3. Copies' = Copies
    BY <1>2 DEF end_of_data_handler, Copies, outside
  <2> QED
    BY <2>1, <2>2, <2>3, SetsFrame, ScanStarts
<1>3. CASE Unprocessed(s) \/ Rebuilt(s) \/ ErrorPage(s)
  <2>1. s \in Unjudged /\ s \notin Unjudged'
    BY <1>0, <1>3 DEF Unprocessed, Rebuilt, ErrorPage, Goes, Unjudged
  <2>2. PICK c \in {"FAILURES", "ERRORS", "SUCCESSES", "NOT_PROCESSED"} : stats' = Count(c)
    BY <1>3 DEF Unprocessed, Rebuilt, ErrorPage, ErrorCounter
  <2>3. Refused' = Refused
    <3>1. ~(StoreFails(s) /\ pc[s] = "preview")
      BY <1>3 DEF Unprocessed, Rebuilt, ErrorPage
    <3> QED
      BY <3>1, RefusedOwn
  <2>4. Copies' = Copies
    BY <1>3 DEF Unprocessed, Rebuilt, ErrorPage, Copies, outside
  <2> QED
    BY <2>1, <2>2, <2>3, <2>4, SetsFrame, ScanJudged
<1>4. CASE CopyReturns(s)
  <2>1. stats' = Count("ERRORS") /\ pc' = pc
    BY <1>4 DEF CopyReturns
  <2>2. ~(StoreFails(s) /\ pc[s] = "preview")
    BY <1>4 DEF CopyReturns, ProxyInv, Runs, Early, NoProxy
  <2>3. Refused' = Refused
    BY <2>2, RefusedOwn
  <2>4. Unjudged' = Unjudged
    BY <2>1 DEF Unjudged
  <2>5. Copies' = Copies \cup {s} /\ s \notin Copies
    BY <1>4, CopiesOwn, SetsFrame
  <2> QED
    BY <2>1, <2>3, <2>4, <2>5, ScanCopied
<1>5. CASE ~(\/ StoreFails(s) /\ pc[s] = "preview"
             \/ end_of_data_handler(s) \/ CopyReturns(s)
             \/ Unprocessed(s) \/ Rebuilt(s) \/ ErrorPage(s))
  <2>1. Refused' = Refused
    BY <1>5, RefusedOwn
  <2>2. stats' = stats \/ stats' = Count("UNPROCESSABLE")
    BY ZenonT(60), <1>5 DEF Handler, Proxy, init_request_data, NoBodyPreview, check_preview_handler,
                StoreFails, io, io_full, ClientGone, end_without_data, fork, fork_fails, waitpid,
                waitpid_fails, timeout, send, release_request_data, execvp, execvp_fails,
                ProxyWrites, ProxyExits
  <2>3. s \in Unjudged' <=> s \in Unjudged
    BY ZenonT(60), <1>0, <1>5 DEF Unjudged, Goes, Handler, Proxy, init_request_data, NoBodyPreview,
                check_preview_handler,
                StoreFails, io, io_full, ClientGone, end_without_data, fork, fork_fails, waitpid,
                waitpid_fails, timeout, send, release_request_data, execvp, execvp_fails,
                ProxyWrites, ProxyExits
  <2>4. Copies' = Copies
    BY <1>5, CopiesOwn
  <2> QED
    BY <2>1, <2>2, <2>3, <2>4, SetsFrame, ScanKept
<1> QED
  BY <1>1, <1>2, <1>3, <1>4, <1>5

-----------------------------------------------------------------------------
\* The inductive invariant holds in every initial state.
LEMMA InvInit == Init => IInv
<1> SUFFICES ASSUME Init PROVE IInv
  OBVIOUS
<1>0. kind \in Loads /\ kind \in [Requests -> Kind]
  BY ConstantsAssumption DEF Init
<1>1. /\ NoProxy \in Proxies /\ NoProxy.proc = "none" /\ NoProxy.code = -1
      /\ NoProxy.output = "empty"
  BY DEF NoProxy, Proxies
<1>2. <<>> \in Seq(Answers)
  OBVIOUS
<1>3. \A r \in Requests : /\ pc[r] = IF kind[r] = Idle THEN "done" ELSE "new"
                          /\ received[r] = 0 /\ eof[r] = FALSE /\ body[r] = Absent
                          /\ status[r] = GW_STATUS_UNDEFINED /\ proxy[r] = NoProxy
                          /\ answers[r] = <<>> /\ header[r] = 0
                          /\ \A n \in Names : size[r][n] = 0 /\ freed[r][n] = 0
  BY DEF Init
<1>4. TypeOK
  <2>1. proxy \in [Requests -> Proxies]
    BY <1>1 DEF Init
  <2>2. answers \in [Requests -> Seq(Answers)]
    BY <1>2 DEF Init
  <2>3. body \in [Requests -> [store : Names \cup {None}, rebuild : Names \cup {None}]]
    BY BodyTypes DEF Init
  <2>4. /\ pc \in [Requests -> Pcs] /\ disk \subseteq Requests \X Names
        /\ header \in [Requests -> Nat] /\ received \in [Requests -> Nat]
        /\ eof \in [Requests -> BOOLEAN] /\ exposed \subseteq Requests /\ crashed \in BOOLEAN
        /\ status \in [Requests -> Statuses \cup {GW_STATUS_UNDEFINED}]
    BY ZenonT(60) DEF Init, Pcs
  <2>5. /\ size \in [Requests -> [Names -> Nat]] /\ freed \in [Requests -> [Names -> 0 .. 2]]
        /\ stats \in [Counters -> Nat]
    BY DEF Init
  <2> QED
    BY <1>0, <2>1, <2>2, <2>3, <2>4, <2>5 DEF TypeOK, Pcs
<1>5. StoreInv
  BY <1>0, <1>1, <1>3 DEF StoreInv, Stores
<1>6. FilesInv
  BY <1>3, Distinct DEF FilesInv, Files, Freed
<1>7. ProxyInv
  BY <1>1, <1>3 DEF ProxyInv, Runs, Early
<1>8. OwnInv
  BY <1>3 DEF OwnInv, Owns
<1>9. AnswersInv
  BY <1>3 DEF AnswersInv
<1>10. DiskInv
  BY DEF DiskInv, Kept, Init
<1>11. ScansCounted
  <2>1. Refused = {} /\ Copies = {} /\ Unjudged = {}
    BY <1>1, <1>3 DEF Refused, Copies, Unjudged
  <2>2. Cardinality(Refused) = 0 /\ Cardinality(Copies) = 0 /\ Cardinality(Unjudged) = 0
    BY <2>1, FS_EmptySet
  <2>3. stats["SCAN_REQS"] = 0 /\ Results = 0
    BY DEF Init, Counters, Results
  <2>4. stats["SCAN_REQS"] + Cardinality(Refused) + Cardinality(Copies)
          = Results + Cardinality(Unjudged)
    BY <2>2, <2>3
  <2> QED
    BY <2>4 DEF ScansCounted, Refused, Copies, Unjudged, Results
<1>12. ExposedByRebuild
  BY DEF Init, ExposedByRebuild
<1> QED
  BY <1>4, <1>5, <1>6, <1>7, <1>8, <1>9, <1>10, <1>11, <1>12 DEF IInv

\* Once a rebuilt request has exposed others its status stays.
LEMMA HarmStep ==
  ASSUME TypeOK, FilesInv, ProxyInv, ExposedByRebuild, NEW s \in Requests,
         Handler(s) \/ Proxy(s)
  PROVE  ExposedByRebuild'
<1>0. kind' = kind
  BY KindKept
<1>1. CASE exposed' # exposed
  BY <1>0, <1>1, ExposedStep DEF ExposedByRebuild
<1>2. CASE exposed' = exposed
  <2> SUFFICES ASSUME NEW r \in Requests, kind[r].cleanup, status[r] = GW_REBUILT
               PROVE  status'[r] = GW_REBUILT
    BY <1>0, <1>2 DEF ExposedByRebuild
  <2>1. pc[r] # "wait"
    BY DEF ProxyInv, Runs
  <2>2. CASE r # s
    BY <2>2, Frame DEF Same
  <2>3. CASE r = s
    <3>1. status' = status
      BY Zenon, <2>1, <2>3 DEF Handler, Proxy, init_request_data, NoBodyPreview,
           check_preview_handler, StoreFails, io, io_full, ClientGone, end_without_data,
           end_of_data_handler, fork, fork_fails, waitpid, waitpid_fails, timeout, Unprocessed,
           Rebuilt, ErrorPage, send, release_request_data, execvp, execvp_fails, CopyReturns,
           ProxyWrites, ProxyExits, service
    <3> QED
      BY <3>1
  <2> QED
    BY <2>2, <2>3
<1> QED
  BY <1>1, <1>2

\* Steps of s that leave all but its place and its answers alone: stale chunks, a
\* client that closes, and what happens to an exposed request.
Quiet(s) == send_stale(s) \/ Environment(s)

\* What such a step does.
LEMMA QuietFacts ==
  ASSUME TypeOK, FilesInv, NEW s \in Requests, Quiet(s)
  PROVE  /\ UNCHANGED <<kind, received, eof, size, body, status, header, proxy, disk, freed,
                        stats, exposed>>
         /\ crashed' \in BOOLEAN
         /\ \/ pc' = pc
            \/ pc[s] \in {"body", "send"} /\ pc' = [pc EXCEPT ![s] = "release"]
         /\ \/ answers' = answers
            \/ /\ pc[s] = "send"
               /\ \E a \in Answers :
                    /\ answers' = [answers EXCEPT ![s] = Append(answers[s], a)]
                    /\ a.what = "stale" \/ (a.what = "foreign" /\ s \in exposed)
<1>0. ASSUME pc[s] = "send" PROVE StoreSize(s) \in Nat
  <2>1. body[s] \in {Original, Swapped, Page}
    BY <1>0 DEF FilesInv, Files
  <2>2. body[s].store \in Names
    BY <2>1 DEF Original, Swapped, Page
  <2> QED
    BY <2>2, Fields DEF StoreSize
<1>1. ASSUME NEW what \in {"stale", "foreign"}, pc[s] = "send", Answer(s, what, StoreSize(s)),
             what = "foreign" => s \in exposed
      PROVE  \E a \in Answers :
               /\ answers' = [answers EXCEPT ![s] = Append(answers[s], a)]
               /\ a.what = "stale" \/ (a.what = "foreign" /\ s \in exposed)
  <2>1. PICK a : a = [what |-> what, length |-> StoreSize(s), header |-> header[s]]
    BY Zenon
  <2>2. a \in Answers /\ a.what = what
    BY <1>0, <1>1, <2>1, Fields DEF Answers
  <2>3. answers' = [answers EXCEPT ![s] = Append(answers[s], a)]
    BY <1>1, <2>1 DEF Answer
  <2> QED
    BY <1>1, <2>2, <2>3
<1>2. CASE send_stale(s)
  BY <1>1, <1>2 DEF send_stale, service, outside, TypeOK
<1>3. CASE ClientCloses(s)
  BY <1>3 DEF ClientCloses, Goes, service, outside, TypeOK
<1>4. CASE Crossed(s)
  BY <1>1, <1>4 DEF Crossed, Goes, service, outside, TypeOK
<1>5. CASE Corrupted(s)
  BY <1>5 DEF Corrupted, service, outside
<1> QED
  BY <1>2, <1>3, <1>4, <1>5 DEF Quiet, Environment

\* Such a step keeps the inductive invariant.
LEMMA QuietStep ==
  ASSUME IInv, NEW s \in Requests, Quiet(s)
  PROVE  IInv'
<1>0. /\ TypeOK /\ StoreInv /\ FilesInv /\ ProxyInv /\ OwnInv /\ AnswersInv /\ DiskInv
      /\ ScansCounted /\ ExposedByRebuild
  BY DEF IInv
<1>1. /\ kind' = kind /\ received' = received /\ eof' = eof /\ size' = size
      /\ body' = body /\ status' = status /\ header' = header /\ proxy' = proxy
      /\ disk' = disk /\ freed' = freed /\ stats' = stats /\ exposed' = exposed
      /\ crashed' \in BOOLEAN
  BY <1>0, QuietFacts
<1>2. \/ pc' = pc
      \/ pc[s] \in {"body", "send"} /\ pc' = [pc EXCEPT ![s] = "release"]
  BY <1>0, QuietFacts
<1>3. \/ answers' = answers
      \/ /\ pc[s] = "send"
         /\ \E a \in Answers :
              /\ answers' = [answers EXCEPT ![s] = Append(answers[s], a)]
              /\ a.what = "stale" \/ (a.what = "foreign" /\ s \in exposed)
  BY <1>0, QuietFacts
<1>4. pc \in [Requests -> Pcs] /\ answers \in [Requests -> Seq(Answers)]
  BY <1>0 DEF TypeOK, Pcs
<1>5. /\ pc' \in [Requests -> Pcs]
      /\ \A r \in Requests : pc'[r] = pc[r] \/ (pc[r] \in {"body", "send"} /\ pc'[r] = "release")
  BY <1>2, <1>4 DEF Pcs
<1>6. answers' \in [Requests -> Seq(Answers)]
  <2>1. CASE answers' = answers
    BY <1>4, <2>1
  <2>2. CASE answers' # answers
    <3>1. PICK a \in Answers : answers' = [answers EXCEPT ![s] = Append(answers[s], a)]
      BY <1>3, <2>2
    <3>2. Append(answers[s], a) \in Seq(Answers)
      BY <1>4
    <3> QED
      BY <1>4, <3>1, <3>2
  <2> QED
    BY <2>1, <2>2
<1>7. TypeOK'
  BY ZenonT(60), <1>0, <1>1, <1>5, <1>6, TypeParts DEF TypeOK, Pcs
<1>8. StoreInv'
  BY <1>0, <1>1, <1>5 DEF StoreInv, Stores, Whole, HasData, Limited
<1>9. FilesInv'
  <2> SUFFICES ASSUME NEW r \in Requests PROVE Files(r)' /\ Freed(r)'
    BY DEF FilesInv
  <2>1. Files(r) /\ Freed(r)
    BY <1>0 DEF FilesInv
  <2>2. CASE pc'[r] = pc[r]
    BY <1>1, <2>1, <2>2, FilesKept
  <2>3. CASE pc[r] \in {"body", "send"} /\ pc'[r] = "release"
    BY <1>1, <2>1, <2>3, Distinct DEF Files, Freed
  <2> QED
    BY <1>5, <2>2, <2>3
<1>10. ProxyInv'
  <2> SUFFICES ASSUME NEW r \in Requests PROVE Runs(r)'
    BY DEF ProxyInv
  <2>1. Runs(r)
    BY <1>0 DEF ProxyInv
  <2>2. answers'[r] = answers[r] \/ (r = s /\ pc[r] = "send")
    BY <1>3, <1>4
  <2>3. pc'[r] \in Early => pc'[r] = pc[r]
    BY <1>5 DEF Early
  <2> QED
    BY <1>1, <1>5, <2>1, <2>2, <2>3 DEF Runs, Early
<1>11. OwnInv'
  BY <1>0, <1>1, <1>5 DEF OwnInv, Owns, ForksSucceed
<1>12. DiskInv'
  BY <1>0, <1>1 DEF DiskInv, Kept, ForksSucceed
<1>13. ExposedByRebuild'
  BY <1>0, <1>1 DEF ExposedByRebuild
<1>14. AnswersInv'
  <2>1. ASSUME NEW r \in Requests, NEW a PROVE Earned(r, a)' <=> Earned(r, a)
    BY <1>1 DEF Earned, ForksSucceed, HasData
  <2>2. CASE answers' = answers
    BY <1>0, <2>1, <2>2 DEF AnswersInv
  <2>3. CASE answers' # answers
    <3>1. PICK a \in Answers : /\ answers' = [answers EXCEPT ![s] = Append(answers[s], a)]
                               /\ a.what = "stale" \/ (a.what = "foreign" /\ s \in exposed)
      BY <1>3, <2>3
    <3>2. Earned(s, a)
      BY <3>1 DEF Earned
    <3>3. /\ Len(answers'[s]) = Len(answers[s]) + 1 /\ answers'[s][Len(answers'[s])] = a
          /\ \A j \in 1 .. Len(answers[s]) : answers'[s][j] = answers[s][j]
      BY ZenonT(60), <1>0, <3>1, Appended
    <3>4. \A r \in Requests \ {s} : answers'[r] = answers[r]
      BY <1>4, <3>1
    <3>5. ASSUME NEW r \in Requests, NEW i \in 1 .. Len(answers'[r])
          PROVE  Earned(r, answers'[r][i])
      <4>1. CASE r # s
        BY <1>0, <3>4, <3>5, <4>1 DEF AnswersInv
      <4>2. CASE r = s /\ i = Len(answers'[s])
        BY <3>2, <3>3, <4>2
      <4>3. CASE r = s /\ i # Len(answers'[s])
        <5>1. i \in 1 .. Len(answers[s])
          BY <1>4, <3>3, <3>5, <4>3
        <5> QED
          BY <1>0, <3>3, <4>3, <5>1 DEF AnswersInv
      <4> QED
        BY <4>1, <4>2, <4>3
    <3>6. \A r \in Requests : \A i \in 1 .. Len(answers'[r]) : Earned(r, answers[r][i])'
      <4> SUFFICES ASSUME NEW r \in Requests, NEW i \in 1 .. Len(answers'[r])
                   PROVE  Earned(r, answers[r][i])'
        OBVIOUS
      <4>1. Earned(r, answers'[r][i])
        BY <3>5
      <4> QED
        BY <1>1, <4>1 DEF Earned, ForksSucceed, HasData
    <3> QED
      BY <3>6 DEF AnswersInv
  <2> QED
    BY <2>2, <2>3
<1>15. ScansCounted'
  <2>1. \A r \in Requests : r \in Refused' <=> r \in Refused
    <3> SUFFICES ASSUME NEW r \in Requests PROVE r \in Refused' <=> r \in Refused
      OBVIOUS
    <3>1. CASE answers'[r] = answers[r]
      BY <3>1 DEF Refused
    <3>2. CASE answers'[r] # answers[r]
      <4>1. r = s
        BY <1>3, <1>4, <3>2
      <4>2. PICK a \in Answers : /\ answers' = [answers EXCEPT ![s] = Append(answers[s], a)]
                                 /\ a.what \in {"stale", "foreign"}
        BY <1>3, <3>2
      <4>3. /\ answers'[s] # <<>>
            /\ answers'[s][1] = IF answers[s] = <<>> THEN a ELSE answers[s][1]
        BY ZenonT(60), <1>0, <4>2, Appended
      <4> QED
        BY <4>1, <4>2, <4>3 DEF Refused
    <3> QED
      BY <3>1, <3>2
  <2>2. Refused' = Refused
    BY <2>1 DEF Refused
  <2>3. Copies' = Copies
    BY <1>1 DEF Copies
  <2>4. Unjudged' = Unjudged
    BY <1>5 DEF Unjudged
  <2> QED
    BY <1>0, <1>1, <2>2, <2>3, <2>4, ScanKept
<1> QED
  BY <1>7, <1>8, <1>9, <1>10, <1>11, <1>12, <1>13, <1>14, <1>15 DEF IInv

\* Every step keeps it.
LEMMA InvStep == IInv /\ [Next]_vars => IInv'
<1> SUFFICES ASSUME IInv, [Next]_vars PROVE IInv'
  OBVIOUS
<1>1. ASSUME NEW s \in Requests, Handler(s) \/ Proxy(s) PROVE IInv'
  <2>1. /\ TypeOK /\ StoreInv /\ FilesInv /\ ProxyInv /\ OwnInv /\ AnswersInv /\ DiskInv
        /\ ScansCounted /\ ExposedByRebuild
    BY DEF IInv
  <2>2. TypeOK'
    BY <1>1, <2>1, TypeStep
  <2>3. StoreInv' /\ FilesInv' /\ ProxyInv'
    BY <1>1, <2>1, StoreStep, FilesStep, ProxyStep
  <2>4. OwnInv' /\ AnswersInv' /\ DiskInv'
    BY <1>1, <2>1, OwnStep, AnswersStep, DiskStep
  <2>5. ScansCounted' /\ ExposedByRebuild'
    BY <1>1, <2>1, ScansStep, HarmStep
  <2> QED
    BY <2>2, <2>3, <2>4, <2>5 DEF IInv
<1>2. CASE UNCHANGED vars
  <2>1. /\ pc' = pc /\ kind' = kind /\ received' = received /\ eof' = eof /\ size' = size
        /\ body' = body /\ status' = status /\ header' = header /\ proxy' = proxy
        /\ disk' = disk /\ freed' = freed /\ answers' = answers /\ stats' = stats
        /\ exposed' = exposed /\ crashed' = crashed
    BY <1>2 DEF vars, service, outside
  <2>2. TypeOK'
    BY <2>1 DEF IInv, TypeOK
  <2>3. StoreInv' /\ FilesInv'
    BY ZenonT(60), <2>1 DEF IInv, StoreInv, Stores, Whole, FilesInv, Files, Freed, HasData, Limited
  <2>4. ProxyInv' /\ OwnInv'
    BY <2>1 DEF IInv, ProxyInv, Runs, OwnInv, Owns, ForksSucceed
  <2>5. AnswersInv' /\ DiskInv'
    BY <2>1 DEF IInv, AnswersInv, Earned, DiskInv, Kept, ForksSucceed, HasData
  <2>6. ScansCounted' /\ ExposedByRebuild'
    BY <2>1 DEF IInv, ScansCounted, ExposedByRebuild
  <2> QED
    BY <2>2, <2>3, <2>4, <2>5, <2>6 DEF IInv
<1>3. ASSUME NEW s \in Requests, Quiet(s) PROVE IInv'
  BY <1>3, QuietStep
<1> QED
  BY <1>1, <1>2, <1>3 DEF Next, Worker, Quiet

\* The inductive invariant holds in every state of the service.
LEMMA InvAlways == Spec => []IInv
BY InvInit, InvStep, PTL DEF Spec

(* Nothing reaches a client unscanned, and what is scanned is the whole body, *)
(* in every state of the service: for any number of workers that fork, wait   *)
(* and answer at the same time, whichever proxy dies or hangs. Requests that  *)
(* run on after a rebuilt one was released are excepted, and only a child     *)
(* with DataCleanup has any.                                                  *)
THEOREM ScannedAlways == Spec => []ScannedWhole
<1>1. IInv => ScannedWhole
  <2> SUFFICES ASSUME IInv PROVE ScannedWhole
    OBVIOUS
  <2>1. TypeOK /\ StoreInv /\ ProxyInv /\ AnswersInv /\ ExposedByRebuild
    BY DEF IInv
  <2>2. WholeBodyScanned
    BY <2>1 DEF WholeBodyScanned, StoreInv, Stores, Whole, PreviewCut
  <2>3. ASSUME ForksSucceed, NEW r \in Requests \ exposed, HasData(r), answers[r] # <<>>
        PROVE  /\ Last(r).what \in {"204", "original"} => proxy[r].code = GW_UNPROCESSED
               /\ Last(r).what = "rebuilt" => proxy[r].code = GW_REBUILT
                                           /\ proxy[r].output = "rebuilt"
               /\ Last(r).what # "foreign"
    <3>1. Len(answers[r]) \in 1 .. Len(answers[r])
      BY <2>1, <2>3, Fields
    <3>2. Earned(r, Last(r))
      BY <2>1, <3>1 DEF AnswersInv, Last
    <3> QED
      BY <2>1, <2>3, <3>2 DEF Earned, ProxyInv, Runs
  <2>4. NothingUnscanned
    BY <2>3 DEF NothingUnscanned
  <2> QED
    BY <2>1, <2>2, <2>4 DEF ScannedWhole
<1> QED
  BY <1>1, InvAlways, PTL

(* The Content-Length of the original, of a rebuilt file and of the error     *)
(* page is the number of bytes that are sent.                                 *)
THEOREM LengthAlways == Spec => []LengthTrue
<1>1. IInv => LengthTrue
  <2> SUFFICES ASSUME IInv, NEW r \in Requests \ exposed, answers[r] # <<>>,
                      Last(r).what \in {"original", "rebuilt", "page"}
               PROVE  Last(r).length = Last(r).header
    BY DEF LengthTrue
  <2>1. TypeOK /\ AnswersInv
    BY DEF IInv
  <2>2. Len(answers[r]) \in 1 .. Len(answers[r])
    BY <2>1, Fields
  <2> QED
    BY <2>1, <2>2 DEF AnswersInv, Last, Earned
<1> QED
  BY <1>1, InvAlways, PTL

(* What a request used is settled: every counted scan has its place in one    *)
(* result counter, with one error more for every copy of the child that a     *)
(* failed execvp left and every preview that could not be stored; no file of  *)
(* a finished request is left, and no object of a file is given back more     *)
(* often than the code's one known double free.                               *)
THEOREM SettledAlways == Spec => []Settled
<1>1. IInv => Settled
  <2> SUFFICES ASSUME IInv PROVE Settled
    OBVIOUS
  <2>1. TypeOK /\ ScansCounted /\ FilesInv /\ DiskInv
    BY DEF IInv
  <2>2. ASSUME ForksSucceed, NEW r \in Requests, kind[r].cleanup, pc[r] = "done",
               proxy[r].proc \in {"none", "reaped"}, NEW n \in Names
        PROVE  <<r, n>> \notin disk
    <3>1. Kept(r) /\ body[r] = Absent
      BY <2>1, <2>2 DEF DiskInv, FilesInv, Files
    <3> QED
      BY <2>2, <3>1 DEF Kept, Absent
  <2>3. \A r \in Requests, n \in Names :
          freed[r][n] <= 1 \/ (n = "output" /\ status[r] = GW_REBUILT)
    BY <2>1 DEF FilesInv, Freed
  <2>4. FilesGone
    BY Zenon, <2>2, <2>3 DEF FilesGone
  <2> QED
    BY <2>1, <2>4 DEF Settled
<1> QED
  BY <1>1, InvAlways, PTL
=============================================================================
