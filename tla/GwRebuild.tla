------------------------------ MODULE GwRebuild ------------------------------
(* The gw_rebuild service in one c-icap child. Every request is handled by a *)
(* worker thread of its own: its body goes into a temporary file, the child  *)
(* forks cloud-proxy-app on the file and waits for its exit code, and the    *)
(* original, the rebuilt file or an error page is sent back. The threads     *)
(* share the process: waitpid, the statistics and the object pools. The      *)
(* proxies keep the contract of ProxyContract. Sizes are small numbers that  *)
(* stand for bytes.                                                          *)
EXTENDS Integers, Sequences, FiniteSets, FiniteSetsExt

CONSTANTS
  Requests,           \* the requests the child handles at a time
  Loads,              \* what they may be: functions from Requests to Kind or Idle
  MAX_OBJECT_SIZE,    \* gw_rebuild.MaxObjectSize
  RebuiltSizes,       \* sizes a rebuilt file may have
  PageSize            \* the size of the error page

\* A request: the size of its body (NoBody without one), how much of it comes as
\* a preview (-1: no preview), "Allow: 204", the service argument sizelimit, and
\* which of fork and execvp may fail; cleanup is gw_rebuild.DataCleanup of its child.
NoBody == -1

Kind == [size : Nat \cup {NoBody}, preview : Nat \cup {-1}, allow204 : BOOLEAN,
         sizelimit : BOOLEAN, fails : SUBSET {"fork", "execvp"}, cleanup : BOOLEAN]

\* A worker that has no request.
Idle == [size |-> NoBody, preview |-> -1, allow204 |-> TRUE, sizelimit |-> FALSE,
         fails |-> {}, cleanup |-> TRUE]

ASSUME ConstantsAssumption ==
  /\ IsFiniteSet(Requests)
  /\ Loads \subseteq [Requests -> Kind]
  /\ \A load \in Loads, r \in Requests :
       load[r].preview > load[r].size => load[r].preview = 0 /\ load[r].size = NoBody
  /\ MAX_OBJECT_SIZE \in Nat /\ PageSize \in Nat /\ RebuiltSizes \subseteq Nat

GW_UNPROCESSED == 0
GW_REBUILT == 1
GW_FAILED == 2
GW_ERROR == 9
GW_STATUS_UNDEFINED == 99

\* What WEXITSTATUS can make of a status word: an outcome, or anything else.
Statuses == {GW_UNPROCESSED, GW_REBUILT, GW_FAILED, GW_ERROR, 127}

\* The temporary files of a request: the two of gw_body_data_new at its start
\* and the two that are made when the body is replaced by an error page.
Names == {"store", "output", "page", "page_output"}
None == "none"

VARIABLES
  pc,         \* where the worker of a request is
  kind,       \* the request
  received,   \* bytes of the body that have come in
  eof,        \* the end of the body has come in
  size,       \* endpos of the files, per request and name
  body,       \* data->body: the names of its store and rebuild files
  status,     \* data->gw_status
  proxy,      \* the process forked for the request: [proc, code, output, size]
  disk,       \* temporary files that exist
  freed,      \* how often the object of a file has been destroyed
  answers,    \* what the client was sent: [what, length, header]
  header,     \* the Content-Length of the encapsulated response
  stats,      \* the service's statistics
  exposed,    \* requests that ran on after an object was destroyed twice
  crashed     \* the child process has died

service == <<size, body, status, header>>
outside == <<proxy, disk>>
vars == <<pc, kind, received, eof, service, outside, freed, answers, stats,
          exposed, crashed>>

Proxies ==
  [proc : {"none", "forked", "running", "exited", "reaped", "copy", "copied"},
   code : Statuses \cup {-1, -2}, output : {"empty", "partial", "rebuilt"},
   size : Nat]

Answers == [what : {"204", "original", "rebuilt", "page", "500", "none",
                   "stale", "foreign"}, length : Nat, header : Nat]

Counters == {"SCAN_REQS", "FAILURES", "ERRORS", "SUCCESSES", "NOT_PROCESSED",
             "UNPROCESSABLE"}

TypeOK ==
  /\ pc \in [Requests -> {"new", "preview", "body", "end", "fork", "wait",
                          "judge", "send", "release", "done"}]
  /\ kind \in [Requests -> Kind]
  /\ received \in [Requests -> Nat] /\ eof \in [Requests -> BOOLEAN]
  /\ size \in [Requests -> [Names -> Nat]]
  /\ body \in [Requests -> [store : Names \cup {None}, rebuild : Names \cup {None}]]
  /\ status \in [Requests -> Statuses \cup {GW_STATUS_UNDEFINED}]
  /\ proxy \in [Requests -> Proxies]
  /\ disk \subseteq Requests \X Names
  /\ freed \in [Requests -> [Names -> 0 .. 2]]
  /\ answers \in [Requests -> Seq(Answers)]
  /\ header \in [Requests -> Nat]
  /\ stats \in [Counters -> Nat]
  /\ exposed \subseteq Requests /\ crashed \in BOOLEAN

Absent == [store |-> None, rebuild |-> None]
NoProxy == [proc |-> "none", code |-> -1, output |-> "empty", size |-> 0]

Init ==
  /\ kind \in Loads
  /\ pc = [r \in Requests |-> IF kind[r] = Idle THEN "done" ELSE "new"]
  /\ received = [r \in Requests |-> 0] /\ eof = [r \in Requests |-> FALSE]
  /\ size = [r \in Requests |-> [n \in Names |-> 0]]
  /\ body = [r \in Requests |-> Absent]
  /\ status = [r \in Requests |-> GW_STATUS_UNDEFINED]
  /\ proxy = [r \in Requests |-> NoProxy]
  /\ disk = {}
  /\ freed = [r \in Requests |-> [n \in Names |-> 0]]
  /\ answers = [r \in Requests |-> <<>>]
  /\ header = [r \in Requests |-> 0]
  /\ stats = [c \in Counters |-> 0]
  /\ exposed = {} /\ crashed = FALSE

-----------------------------------------------------------------------------
HasData(r) == kind[r].size # NoBody
Limited(r) == kind[r].sizelimit
StoreSize(r) == size[r][body[r].store]

\* gw_body_data_size(&data->body) >= data->max_object_size.
Full(r) == Limited(r) /\ StoreSize(r) >= MAX_OBJECT_SIZE

\* ci_simple_file_write on the locked store takes what fits.
Fits(r, n) == IF Limited(r) THEN Min({n, MAX_OBJECT_SIZE - StoreSize(r)}) ELSE n

Count(c) == [stats EXCEPT ![c] = @ + 1]
Goes(r, to) == pc' = [pc EXCEPT ![r] = to]

Answer(r, what, length) ==
  answers' = [answers EXCEPT ![r] =
    Append(@, [what |-> what, length |-> length, header |-> header[r]])]

\* do_request creates the service's data for a request with a body.
init_request_data(r) ==
  /\ pc[r] = "new" /\ Goes(r, "preview")
  /\ header' = [header EXCEPT ![r] = IF HasData(r) THEN kind[r].size ELSE 0]
  /\ UNCHANGED <<kind, received, eof, size, body, status, outside, freed,
                 answers, stats, exposed, crashed>>

\* Without a body the preview handler allows 204. A client that takes none gets
\* the headers back, after the end-of-data handler.
NoBodyPreview(r) ==
  /\ pc[r] = "preview" /\ ~HasData(r)
  /\ stats' = Count("UNPROCESSABLE")
  /\ IF kind[r].preview >= 0 \/ kind[r].allow204
     THEN Goes(r, "release") /\ Answer(r, "204", 0)
     ELSE Goes(r, "end") /\ UNCHANGED answers
  /\ UNCHANGED <<kind, received, eof, service, outside, freed, exposed, crashed>>

\* ci_simple_file_new: a MaxObjectSize of 0 is no limit for the file. Nobody looks
\* at how much of the preview the file has taken.
Stored(r, n) ==
  IF Limited(r) /\ MAX_OBJECT_SIZE > 0 THEN Min({n, MAX_OBJECT_SIZE}) ELSE n

\* The store and rebuild files are made and the preview is stored; eof says that
\* the whole body was in it.
check_preview_handler(r) ==
  /\ pc[r] = "preview" /\ HasData(r)
  /\ body' = [body EXCEPT ![r] = [store |-> "store", rebuild |-> "output"]]
  /\ disk' = disk \cup {<<r, "store">>, <<r, "output">>}
  /\ LET n == Max({kind[r].preview, 0}) IN
       /\ received' = [received EXCEPT ![r] = n]
       /\ size' = [size EXCEPT ![r]["store"] = Stored(r, n)]
       /\ \E whole \in {FALSE, n = kind[r].size /\ kind[r].preview >= 0} :
            /\ eof' = [eof EXCEPT ![r] = whole]
            /\ Goes(r, IF whole THEN "end" ELSE "body")
  /\ UNCHANGED <<kind, status, header, proxy, freed, answers, stats, exposed, crashed>>

\* A write to the store fails; in the preview it is answered with a 500.
StoreFails(r) ==
  /\ HasData(r)
  /\ \/ /\ pc[r] = "preview" /\ kind[r].preview > 0
        /\ body' = [body EXCEPT ![r] = [store |-> "store", rebuild |-> "output"]]
        /\ disk' = disk \cup {<<r, "store">>, <<r, "output">>}
        /\ stats' = Count("ERRORS")
        /\ Answer(r, "500", 0)
     \/ /\ pc[r] = "body" /\ received[r] < kind[r].size
        /\ UNCHANGED <<body, disk, stats, answers>>
  /\ Goes(r, "release")
  /\ UNCHANGED <<kind, received, eof, size, status, header, proxy, freed,
                 exposed, crashed>>

Pending(r) == received[r] - StoreSize(r)

io_drops(r) ==
  /\ pc[r] = "body" /\ ~Full(r)
  /\ \E n \in 0 .. (kind[r].size - received[r]) :
       /\ received' = [received EXCEPT ![r] = @ + n]
       /\ eof' = [eof EXCEPT ![r] = received'[r] = kind[r].size]
       /\ size' = [size EXCEPT ![r]["store"] = @ + Fits(r, n)]
       /\ Goes(r, IF eof'[r] THEN "end" ELSE "body")
  /\ UNCHANGED <<kind, body, status, header, outside, freed, answers, stats,
                 exposed, crashed>>

\* gw_rebuild_io out of get_send_body: what could not be stored is offered again
\* before more is read. The end may come with the last bytes or on its own.
io(r) ==
  /\ pc[r] = "body" /\ ~Full(r)
  /\ \E n \in 0 .. (kind[r].size - received[r]) :
       /\ Pending(r) > 0 => n = 0
       /\ received' = [received EXCEPT ![r] = @ + n]
       /\ \E last \in {FALSE, received'[r] = kind[r].size} :
            /\ n + Pending(r) > 0 \/ last
            /\ eof' = [eof EXCEPT ![r] = @ \/ last]
            /\ LET m == Fits(r, n + Pending(r)) IN
                 /\ size' = [size EXCEPT ![r]["store"] = @ + m]
                 /\ Goes(r, IF eof'[r] /\ m = n + Pending(r) THEN "end" ELSE "body")
  /\ UNCHANGED <<kind, body, status, header, outside, freed, answers, stats,
                 exposed, crashed>>

\* Another call of gw_rebuild_io when the store is full: get_send_body fails and
\* the connection is closed without an answer.
io_full(r) ==
  /\ pc[r] = "body" /\ Full(r) /\ Goes(r, "release")
  /\ Answer(r, "none", 0)
  /\ UNCHANGED <<kind, received, eof, service, outside, freed, stats, exposed, crashed>>

\* The client goes away while its body is read.
ClientGone(r) ==
  /\ pc[r] = "body" /\ ~eof[r] /\ Goes(r, "release")
  /\ UNCHANGED <<kind, received, eof, service, outside, freed, answers, stats,
                 exposed, crashed>>

\* The handler of a request without data writes through the null pointer.
end_without_data(r) ==
  /\ pc[r] = "end" /\ ~HasData(r)
  /\ crashed' = TRUE
  /\ UNCHANGED <<pc, kind, received, eof, service, outside, freed, answers,
                 stats, exposed>>

end_of_data_handler(r) ==
  /\ pc[r] = "end" /\ HasData(r) /\ Goes(r, "fork")
  /\ stats' = Count("SCAN_REQS")
  /\ UNCHANGED <<kind, received, eof, service, outside, freed, answers, exposed, crashed>>

-----------------------------------------------------------------------------
\* exec_prog.

SetProxy(r, p) == proxy' = [proxy EXCEPT ![r] = p]

fork(r) ==
  /\ pc[r] = "fork" /\ Goes(r, "wait")
  /\ SetProxy(r, [NoProxy EXCEPT !.proc = "forked"])
  /\ UNCHANGED <<kind, received, eof, service, disk, freed, answers, stats,
                 exposed, crashed>>

\* The result -1 of fork is not tested: the loop will wait for pid -1.
fork_fails(r) ==
  /\ "fork" \in kind[r].fails /\ pc[r] = "fork" /\ Goes(r, "wait")
  /\ UNCHANGED <<kind, received, eof, service, outside, freed, answers, stats,
                 exposed, crashed>>

execvp(r) ==
  /\ proxy[r].proc = "forked"
  /\ SetProxy(r, [proxy[r] EXCEPT !.proc = "running"])
  /\ UNCHANGED <<pc, kind, received, eof, service, disk, freed, answers, stats,
                 exposed, crashed>>

\* When execvp fails the forked copy of the child returns from exec_prog as well.
execvp_fails(r) ==
  /\ "execvp" \in kind[r].fails /\ proxy[r].proc = "forked"
  /\ SetProxy(r, [proxy[r] EXCEPT !.proc = "copy"])
  /\ UNCHANGED <<pc, kind, received, eof, service, disk, freed, answers, stats,
                 exposed, crashed>>

\* The copy goes on with GW_ERROR, which it counts in the statistics that it shares
\* with the child; it removes the files and sends the error page over the
\* connection that it shares as well.
CopyReturns(r) ==
  /\ proxy[r].proc = "copy"
  /\ SetProxy(r, [proxy[r] EXCEPT !.proc = "copied"])
  /\ disk' = disk \ {<<r, "store">>, <<r, "output">>}
  /\ answers' = [answers EXCEPT ![r] =
       Append(@, [what |-> "page", length |-> PageSize, header |-> PageSize])]
  /\ stats' = Count("ERRORS")
  /\ UNCHANGED <<pc, kind, received, eof, service, freed, exposed, crashed>>

\* The program writes the output file, which it creates when it is not there.
ProxyWrites(r) ==
  /\ proxy[r].proc = "running"
  /\ \E s \in RebuiltSizes :
       \/ proxy[r].output = "empty"
          /\ SetProxy(r, [proxy[r] EXCEPT !.output = "partial", !.size = s])
       \/ proxy[r].output # "rebuilt"
          /\ SetProxy(r, [proxy[r] EXCEPT !.output = "rebuilt", !.size = s])
  /\ disk' = disk \cup {<<r, "output">>}
  /\ UNCHANGED <<pc, kind, received, eof, service, freed, answers, stats, exposed, crashed>>

\* It exits with a code of its contract or is killed (-2).
ProxyExits(r) ==
  /\ proxy[r].proc = "running"
  /\ \E c \in {GW_UNPROCESSED, GW_REBUILT, GW_FAILED, GW_ERROR, -2} :
       /\ c = GW_REBUILT => proxy[r].output = "rebuilt"
       /\ c \in {GW_UNPROCESSED, GW_FAILED} => proxy[r].output = "empty"
       /\ SetProxy(r, [proxy[r] EXCEPT !.proc = "exited", !.code = c])
  /\ UNCHANGED <<pc, kind, received, eof, service, disk, freed, answers, stats,
                 exposed, crashed>>

Children == {r \in Requests : proxy[r].proc \in {"forked", "running", "exited",
                                                 "copy", "copied"}}

\* The processes waitpid can report to the worker of r: its own, or any child of
\* the process when fork has failed.
Waited(r) == IF proxy[r].proc = "none" THEN Children ELSE {r} \cap Children

Exited(r) == {p \in Waited(r) : proxy[p].proc = "exited"}

\* The exit status of a program that was killed is turned into GW_ERROR.
StatusOf(code) == IF code = -2 THEN GW_ERROR ELSE code

waitpid_other(r) ==
  /\ pc[r] = "wait"
  /\ \E p \in Requests :
       /\ proxy[p].proc = "exited"
       /\ SetProxy(p, [proxy[p] EXCEPT !.proc = "reaped"])
       /\ status' = [status EXCEPT ![r] = StatusOf(proxy[p].code)]
  /\ Goes(r, "judge")
  /\ UNCHANGED <<kind, received, eof, size, body, header, disk, freed, answers,
                 stats, exposed, crashed>>

waitpid(r) ==
  /\ pc[r] = "wait"
  /\ \E p \in Exited(r) :
       /\ SetProxy(p, [proxy[p] EXCEPT !.proc = "reaped"])
       /\ status' = [status EXCEPT ![r] = StatusOf(proxy[p].code)]
  /\ Goes(r, "judge")
  /\ UNCHANGED <<kind, received, eof, size, body, header, disk, freed, answers,
                 stats, exposed, crashed>>

\* waitpid fails when there is no such child; status was never written.
waitpid_fails(r) ==
  /\ pc[r] = "wait" /\ Waited(r) = {}
  /\ \E s \in Statuses : status' = [status EXCEPT ![r] = s]
  /\ Goes(r, "judge")
  /\ UNCHANGED <<kind, received, eof, size, body, header, outside, freed,
                 answers, stats, exposed, crashed>>

timeout_never(r) == FALSE /\ r \in Requests /\ UNCHANGED vars

\* The loop has slept a thousand times.
timeout(r) ==
  /\ pc[r] = "wait" /\ Waited(r) # {} /\ Exited(r) = {}
  /\ status' = [status EXCEPT ![r] = GW_ERROR]
  /\ Goes(r, "judge")
  /\ UNCHANGED <<kind, received, eof, size, body, header, outside, freed,
                 answers, stats, exposed, crashed>>

-----------------------------------------------------------------------------
\* rebuild_request_body and the end of gw_rebuild_end_of_data_handler.

\* ci_simple_file_destroy: the file is removed and its object freed.
Destroy(r, names) ==
  /\ disk' = disk \ {<<r, n>> : n \in names}
  /\ freed' = [freed EXCEPT ![r] = [n \in Names |-> @[n] + (IF n \in names THEN 1 ELSE 0)]]

Unprocessed_uncounted(r) ==
  /\ pc[r] = "judge" /\ status[r] = GW_UNPROCESSED
  /\ IF kind[r].allow204 THEN Answer(r, "204", 0) /\ Goes(r, "release")
                         ELSE UNCHANGED answers /\ Goes(r, "send")
  /\ UNCHANGED <<kind, received, eof, service, outside, freed, stats, exposed, crashed>>

Unprocessed(r) ==
  /\ pc[r] = "judge" /\ status[r] = GW_UNPROCESSED
  /\ stats' = Count("NOT_PROCESSED")
  /\ IF kind[r].allow204 THEN Answer(r, "204", 0) /\ Goes(r, "release")
                         ELSE UNCHANGED answers /\ Goes(r, "send")
  /\ UNCHANGED <<kind, received, eof, service, outside, freed, exposed, crashed>>

Rebuilt_stale_length(r) ==
  /\ pc[r] = "judge" /\ status[r] = GW_REBUILT /\ proxy[r].size > 0
  /\ size' = [size EXCEPT ![r]["output"] = proxy[r].size]
  /\ Destroy(r, {"store"})
  /\ body' = [body EXCEPT ![r].store = "output"]
  /\ stats' = Count("SUCCESSES")
  /\ Goes(r, "send")
  /\ UNCHANGED <<kind, received, eof, status, header, proxy, answers, exposed, crashed>>

\* refresh_externally_updated_file takes the size of the output, which becomes
\* the store, and the Content-Length.
Rebuilt(r) ==
  /\ pc[r] = "judge" /\ status[r] = GW_REBUILT /\ proxy[r].size > 0
  /\ size' = [size EXCEPT ![r]["output"] = proxy[r].size]
  /\ Destroy(r, {"store"})
  /\ body' = [body EXCEPT ![r].store = "output"]
  /\ header' = [header EXCEPT ![r] = proxy[r].size]
  /\ stats' = Count("SUCCESSES")
  /\ Goes(r, "send")
  /\ UNCHANGED <<kind, received, eof, status, proxy, answers, exposed, crashed>>

ErrorCounter(s) == IF s = GW_FAILED THEN "FAILURES" ELSE "ERRORS"

\* exec_prog gave no outcome to go on with, or the rebuilt file has no bytes or, of
\* an exposed request, no size.
NoResult(r) ==
  /\ status[r] # GW_UNPROCESSED
  /\ status[r] = GW_REBUILT => proxy[r].size = 0 \/ r \in exposed

ErrorPage_leaves_files(r) ==
  /\ pc[r] = "judge" /\ NoResult(r)
  /\ disk' = disk \cup {<<r, "page">>, <<r, "page_output">>}
  /\ size' = [size EXCEPT ![r]["page"] = PageSize]
  /\ body' = [body EXCEPT ![r] = [store |-> "page", rebuild |-> "page_output"]]
  /\ header' = [header EXCEPT ![r] = PageSize]
  /\ stats' = Count(ErrorCounter(status[r]))
  /\ Goes(r, "send")
  /\ UNCHANGED <<kind, received, eof, status, proxy, freed, answers, exposed, crashed>>

\* The body is destroyed and a new one holds the error page.
ErrorPage(r) ==
  /\ pc[r] = "judge" /\ NoResult(r)
  /\ disk' = (disk \ {<<r, "store">>, <<r, "output">>})
                \cup {<<r, "page">>, <<r, "page_output">>}
  /\ freed' = [freed EXCEPT ![r]["store"] = @ + 1, ![r]["output"] = @ + 1]
  /\ size' = [size EXCEPT ![r]["page"] = PageSize]
  /\ body' = [body EXCEPT ![r] = [store |-> "page", rebuild |-> "page_output"]]
  /\ header' = [header EXCEPT ![r] = PageSize]
  /\ stats' = Count(ErrorCounter(status[r]))
  /\ Goes(r, "send")
  /\ UNCHANGED <<kind, received, eof, status, proxy, answers, exposed, crashed>>

Content(r) ==
  IF body[r].store = "store" THEN "original"
  ELSE IF body[r].store = "output" THEN "rebuilt"
  ELSE "page"

\* send_remaining_response reads the store through gw_rebuild_io, with eof.
send(r) ==
  /\ pc[r] = "send" /\ ~Full(r) /\ Goes(r, "release")
  /\ Answer(r, Content(r), StoreSize(r))
  /\ UNCHANGED <<kind, received, eof, service, outside, freed, stats, exposed, crashed>>

Last(r) == answers[r][Len(answers[r])]
SentStale(r) == answers[r] # <<>> /\ Last(r).what = "stale"

\* On a full store that call fails and leaves the length at MAX_CHUNK_SIZE. Nobody
\* looks at the failure: the old contents of the buffer are sent as a chunk, again
\* and again. The chunks after the first change nothing here.
send_stale(r) ==
  /\ pc[r] = "send" /\ Full(r) /\ ~SentStale(r)
  /\ Answer(r, "stale", StoreSize(r))
  /\ UNCHANGED <<pc, kind, received, eof, service, outside, freed, stats, exposed,
                 crashed>>

\* Only the client ends this, when it closes the connection or takes no more.
ClientCloses(r) ==
  /\ pc[r] = "send" /\ Full(r) /\ SentStale(r) /\ Goes(r, "release")
  /\ UNCHANGED <<kind, received, eof, service, outside, freed, answers, stats,
                 exposed, crashed>>

-----------------------------------------------------------------------------
\* gw_rebuild_release_request_data and what it does to other requests.

\* Store and rebuild are one object, the output of a rebuild. It is destroyed twice:
\* the number of its descriptor is closed again and the object is twice in its pool.
DestroyedTwice(r) ==
  kind[r].cleanup /\ body[r] # Absent /\ body[r].store = body[r].rebuild

\* With DataCleanup the store is destroyed, and then the rebuild file.
release_request_data(r) ==
  /\ pc[r] = "release" /\ Goes(r, "done")
  /\ IF kind[r].cleanup /\ body[r] # Absent
     THEN /\ disk' = disk \ {<<r, body[r].store>>, <<r, body[r].rebuild>>}
          /\ freed' = [freed EXCEPT ![r] = [n \in Names |->
               @[n] + (IF n = body[r].store THEN 1 ELSE 0)
                    + (IF n = body[r].rebuild THEN 1 ELSE 0)]]
     ELSE UNCHANGED <<disk, freed>>
  /\ exposed' = exposed \cup
       (IF DestroyedTwice(r) THEN {q \in Requests \ {r} : pc[q] # "done"} ELSE {})
  /\ body' = [body EXCEPT ![r] = Absent]
  /\ UNCHANGED <<kind, received, eof, size, status, header, proxy, answers, stats,
                 crashed>>

\* A request that runs on in the same child may have got the descriptor's number for
\* its file or its connection, or the object for one or both of its files: its
\* reads and writes fail, or it sends what another request stored.
Crossed(r) ==
  /\ r \in exposed /\ pc[r] \in {"body", "send"} /\ Goes(r, "release")
  /\ \/ UNCHANGED answers
     \/ pc[r] = "send" /\ Answer(r, "foreign", StoreSize(r))
  /\ UNCHANGED <<kind, received, eof, service, outside, freed, stats, exposed, crashed>>

\* Or the child dies of it: an assertion on a shared object fails, or memory that
\* was given back to malloc is used.
Corrupted(r) ==
  /\ r \in exposed /\ pc[r] # "done"
  /\ crashed' = TRUE
  /\ UNCHANGED <<pc, kind, received, eof, service, outside, freed, answers, stats,
                 exposed>>

Handler(r) ==
  \/ init_request_data(r) \/ NoBodyPreview(r) \/ check_preview_handler(r)
  \/ StoreFails(r) \/ io(r) \/ io_full(r) \/ ClientGone(r)
  \/ end_without_data(r) \/ end_of_data_handler(r)
  \/ fork(r) \/ fork_fails(r) \/ waitpid(r) \/ waitpid_fails(r) \/ timeout(r)
  \/ Unprocessed(r) \/ Rebuilt(r) \/ ErrorPage(r)
  \/ send(r) \/ release_request_data(r)

Worker(r) == Handler(r) \/ send_stale(r)

Proxy(r) ==
  \/ execvp(r) \/ execvp_fails(r) \/ CopyReturns(r) \/ ProxyWrites(r)
  \/ ProxyExits(r)

Environment(r) == ClientCloses(r) \/ Crossed(r) \/ Corrupted(r)

Next == ~crashed /\ \E r \in Requests : Worker(r) \/ Proxy(r) \/ Environment(r)

Spec == Init /\ [][Next]_vars

\* Workers are scheduled; clients and proxies owe nothing except that the body of
\* a client that stays arrives (the server's own timeout ends a silent one).
FairSpec == Spec /\ \A r \in Requests : WF_vars(~crashed /\ Worker(r))

-----------------------------------------------------------------------------
ForksSucceed == \A r \in Requests : "fork" \notin kind[r].fails

(* Nothing reaches the client unscanned: the original body, or a 204 that     *)
(* stands for it, only when the proxy forked for this request has exited with *)
(* GW_UNPROCESSED, and a rebuilt body only when it has exited with            *)
(* GW_REBUILT. A timeout, a killed proxy, a failing execvp and every other    *)
(* code end in the error page. When fork fails this is lost, see OwnOutcome.  *)
(* With DataCleanup it is said of the requests of a child only until one of   *)
(* them is released after a rebuild, see OwnContent.                          *)
NothingUnscanned ==
  ForksSucceed => \A r \in Requests \ exposed : HasData(r) /\ answers[r] # <<>> =>
    /\ Last(r).what \in {"204", "original"} => proxy[r].code = GW_UNPROCESSED
    /\ Last(r).what = "rebuilt" => proxy[r].code = GW_REBUILT
                                /\ proxy[r].output = "rebuilt"
    /\ Last(r).what # "foreign"

\* The preview alone is larger than MaxObjectSize.
PreviewCut(r) == Limited(r) /\ kind[r].preview > MAX_OBJECT_SIZE

(* The file a proxy is started on holds the whole body of its request: no     *)
(* bytes that ci_simple_file_write could not take are dropped, and a body     *)
(* above MaxObjectSize is not passed on cut off, except one that came whole   *)
(* in a preview above MaxObjectSize (LargerRefused). Exposed requests are     *)
(* excepted, as above.                                                        *)
WholeBodyScanned ==
  \A r \in Requests \ exposed : proxy[r].proc # "none" =>
    size[r]["store"] = kind[r].size \/ PreviewCut(r)

(* Only a request that was rebuilt in a child with DataCleanup does harm to   *)
(* others: without DataCleanup no request is ever exposed.                    *)
ExposedByRebuild ==
  exposed # {} => \E r \in Requests : kind[r].cleanup /\ status[r] = GW_REBUILT

(* A client gets only what a proxy has seen the whole of: the above.          *)
ScannedWhole == NothingUnscanned /\ WholeBodyScanned /\ ExposedByRebuild

(* The Content-Length sent is the number of bytes sent, for the original, a   *)
(* rebuilt file of another size and the error page, of a request that is not  *)
(* exposed.                                                                   *)
LengthTrue ==
  \A r \in Requests \ exposed :
    answers[r] # <<>> /\ Last(r).what \in {"original", "rebuilt", "page"} =>
      Last(r).length = Last(r).header

(* Every scan that was counted in SCAN_REQS and has its status is counted in  *)
(* exactly one of the result counters. What else these counters hold is known *)
(* exactly: an error for each preview that could not be stored, and one more  *)
(* for each copy of the child that returned from a failed execvp.             *)
ScansCounted ==
  stats["SCAN_REQS"]
    + Cardinality({r \in Requests : answers[r] # <<>> /\ answers[r][1].what = "500"})
    + Cardinality({r \in Requests : proxy[r].proc = "copied"})
  = stats["FAILURES"] + stats["ERRORS"] + stats["SUCCESSES"] + stats["NOT_PROCESSED"]
    + Cardinality({r \in Requests : pc[r] \in {"fork", "wait", "judge"}})

(* With DataCleanup no temporary file outlives its request, whatever path the *)
(* request took, unless exec_prog gave up a proxy that was still running, a   *)
(* failed fork let it take the end of another request's proxy, or the request *)
(* is exposed. An object of a file goes back to its pool once, but for the    *)
(* output of a rebuild, which store and rebuild both point to (FreedOnce).    *)
FilesGone ==
  ForksSucceed =>
    \A r \in Requests \ exposed : kind[r].cleanup =>
      /\ pc[r] = "done" /\ proxy[r].proc \in {"none", "reaped"} =>
           \A n \in Names : <<r, n>> \notin disk
      /\ \A n \in Names : freed[r][n] <= 1 \/ (n = "output" /\ status[r] = GW_REBUILT)

(* What a request used is settled: its scan is counted, its files are gone    *)
(* and their objects given back; on the way there every variable has its      *)
(* type.                                                                      *)
Settled == TypeOK /\ ScansCounted /\ FilesGone

(* Every request ends, also when its proxy hangs, exits in an unknown way or  *)
(* was never started, unless the child dies before or its store is full when  *)
(* it is to be sent: then the worker sends stale chunks for as long as the    *)
(* client takes them (ErrorStopsSending). The child dies only of a request    *)
(* without a body, from a client that sends no preview and takes no 204       *)
(* (HeadersCopied), or of an object that was destroyed twice (OwnContent).    *)
RequestEnds ==
  /\ \A r \in Requests :
       pc[r] = "preview" ~> pc[r] = "done" \/ crashed \/ (SentStale(r) /\ Full(r))
  /\ [](crashed => \/ exposed # {}
                   \/ \E r \in Requests : /\ ~HasData(r) /\ kind[r].preview < 0
                                          /\ ~kind[r].allow204)

-----------------------------------------------------------------------------
\* Statements of the repository the code does not keep: TLC refutes each of them.
\* MCGwRebuild names the loads.

(* exec_prog: "Return value: exit status from executed application            *)
(* (gw_proxy_api_return), or GW_ERROR" (gw_rebuild.c:580). When fork fails    *)
(* and no other proxy runs, waitpid fails too and the value is whatever the   *)
(* uninitialised status holds; when one runs it may be that one's status.     *)
OwnOutcome ==
  \A r \in Requests : status[r] \in {GW_STATUS_UNDEFINED, GW_ERROR, proxy[r].code}

(* The same comment promises one return: after a failed execvp two processes  *)
(* return from exec_prog, and both answer the request.                        *)
AnsweredOnce == \A r \in Requests : Len(answers[r]) <= 1

(* The object of a file is given back to its pool once; a second time is what *)
(* ci_object_pool_free calls "a bug!!!!". After a rebuild store and rebuild   *)
(* are the same object, and gw_body_data_destroy destroys both.               *)
FreedOnce == \A r \in Requests, n \in Names : freed[r][n] <= 1

(* What the second time does to the others: "CI_OK - to continue to rebuilt   *)
(* content" (gw_rebuild.c:406) speaks of the request's own content.           *)
OwnContent ==
  \A r \in Requests : answers[r] # <<>> => Last(r).what # "foreign"

(* MaxObjectSize is "The maximum size of files which will be scanned": a      *)
(* client that sends a body of that size is not refused.                      *)
MaximumScanned ==
  \A r \in Requests :
    HasData(r) /\ kind[r].size <= MAX_OBJECT_SIZE /\ answers[r] # <<>> =>
      Last(r).what # "none"

(* The same line: a larger body is not scanned. A body that comes whole in a  *)
(* preview above MaxObjectSize is stored as far as it fits and the proxy runs *)
(* on that part: check_preview_handler looks at CI_ERROR alone.               *)
LargerRefused ==
  \A r \in Requests :
    Limited(r) /\ kind[r].size > MAX_OBJECT_SIZE => proxy[r].proc = "none"

(* "CI_EOF of CI_ERROR, stop sending": when gw_rebuild_io fails, the sending  *)
(* of the response stops (request.c:1139).                                    *)
ErrorStopsSending ==
  \A r \in Requests : answers[r] # <<>> => Last(r).what # "stale"

(* "Just copy http headers to icap response" (request.c:1457): a request      *)
(* without a body, from a client that takes no 204, is answered.              *)
HeadersCopied == ~crashed
=============================================================================
