------------------------------- MODULE Stretch -------------------------------
(***************************************************************************)
(* c-icap-stretch.c: threads that send requests to a server, the counters  *)
(* they share, the end that main declares when enough were sent, and the   *)
(* handler of SIGINT, which runs on whichever thread the signal finds and  *)
(* joins the others.  A counter is read and written in two steps, under    *)
(* the mutex.  What a request meets is the server's choice.  Files are     *)
(* sent without URLs.                                                      *)
(***************************************************************************)
EXTENDS Integers, Sequences, FiniteSets
LOCAL INSTANCE FiniteSetsExt

CONSTANTS Modes,                 \* of "files" and "req" (DoReqmod)
          threadsnum, FILES_NUMBER, MAX_REQUESTS,
          Outcomes,              \* of "ok", "soft" (nothing was sent) and "failed"
          Interrupts,            \* may SIGINT come?
          MaxSent                \* bound on the requests

VARIABLES Mode, pc, main,              \* of the threads, of main
          held,                  \* [filemtx, statsmtx] -> the thread that has it, 0 for none
          file_indx, stats,      \* shared: the next file; requests, failed, soft, bytes
          mine,                  \* of a thread: what it read, its file, its request's outcome, keepalive
          _THE_END, handler,     \* who runs sigint_handler: -1 nobody, 0 main, else a thread
          sent, used             \* the outcomes of each thread's requests; how often each file was taken
vars == <<Mode, pc, main, held, file_indx, stats, mine, _THE_END, handler, sent, used>>

Threads == 1..threadsnum
NoStats == [requests |-> 0, failed |-> 0, soft |-> 0, bytes |-> 0]
Init ==
  /\ Mode \in Modes /\ pc = [t \in Threads |-> "none"] /\ main = "create" /\ held = [m \in {"filemtx", "statsmtx"} |-> 0]
  /\ file_indx = 0 /\ stats = NoStats
  /\ mine = [t \in Threads |-> [stats |-> NoStats, indx |-> 0, outcome |-> "", keepalive |-> FALSE]]
  /\ _THE_END = FALSE /\ handler = -1 /\ sent = [t \in Threads |-> <<>>] /\ used = [f \in 0..FILES_NUMBER |-> 0]

Runs(t) == main # "exited" /\ handler # t
At(t, p, q) == Runs(t) /\ pc[t] = p /\ pc' = [pc EXCEPT ![t] = q]
First == IF Mode = "files" THEN "lock-file" ELSE "filter"

(* -------------------------- a thread's work ---------------------------- *)
\* a server that cannot be reached ends the program; threadjobreqmod looks for the end first
Connect(t) ==
  /\ At(t, "connect", IF Mode = "req" /\ _THE_END THEN "done" ELSE First)
  /\ UNCHANGED <<main, held, file_indx, stats, mine, _THE_END, handler, sent, used>>
ConnectFails(t) ==
  /\ Runs(t) /\ pc[t] = "connect" /\ "failed" \in Outcomes /\ main' = "exited"
  /\ UNCHANGED <<pc, held, file_indx, stats, mine, _THE_END, handler, sent, used>>
Lock(t, m) == held[m] = 0 /\ held' = [held EXCEPT ![m] = t]
Unlock(m) == held' = [held EXCEPT ![m] = 0]
\* a thread gets a file, and the next one the next
LockFile(t) == /\ At(t, "lock-file", "read-file") /\ Lock(t, "filemtx")
               /\ UNCHANGED <<main, file_indx, stats, mine, _THE_END, handler, sent, used>>
ReadFile(t) == /\ At(t, "read-file", "next-file") /\ mine' = [mine EXCEPT ![t].indx = file_indx]
               /\ UNCHANGED <<main, held, file_indx, stats, _THE_END, handler, sent, used>>
NextIndx_late(i) == IF i = FILES_NUMBER THEN 0 ELSE i + 1
NextIndx(i) == IF i = FILES_NUMBER - 1 THEN 0 ELSE i + 1
NextFile(t) ==
  /\ At(t, "next-file", "filter") /\ file_indx' = NextIndx(mine[t].indx) /\ Unlock("filemtx")
  /\ used' = [used EXCEPT ![mine[t].indx] = @ + 1]
  /\ UNCHANGED <<main, stats, mine, _THE_END, handler, sent>>
\* one request; its bytes are counted when it was answered
Requests == FoldSet(LAMBDA t, n : n + Len(sent[t]), 0, Threads)
Filter(t, o) ==
  /\ Requests < MaxSent /\ At(t, "filter", IF o = "ok" THEN "lock-bytes" ELSE "lock-stats")
  /\ \E k \in BOOLEAN : mine' = [mine EXCEPT ![t].outcome = o, ![t].keepalive = k /\ o = "ok"]
  /\ sent' = [sent EXCEPT ![t] = Append(@, o)]
  /\ UNCHANGED <<main, held, file_indx, stats, _THE_END, handler, used>>
do_req(t) == Mode = "req" /\ \E o \in Outcomes : Filter(t, o)
\* a file that cannot be opened is a soft failure too
do_file(t) == Mode = "files" /\ \E o \in Outcomes \cup {"soft"} : Filter(t, o)
\* the counters a request changes: reqmod counts all its requests, the other job those that were answered
Counted(s, o) ==
  [s EXCEPT !.requests = IF o = "ok" \/ Mode = "req" THEN @ + 1 ELSE @, !.soft = IF o = "soft" THEN @ + 1 ELSE @,
            !.failed = IF o = "failed" THEN @ + 1 ELSE @]
LockStats(t) == /\ \/ At(t, "lock-bytes", "read-bytes") \/ At(t, "lock-stats", "read-stats")
                /\ Lock(t, "statsmtx")
                /\ UNCHANGED <<main, file_indx, stats, mine, _THE_END, handler, sent, used>>
ReadStats(t) == /\ \/ At(t, "read-bytes", "add-bytes") \/ At(t, "read-stats", "add-stats")
                /\ mine' = [mine EXCEPT ![t].stats = stats]
                /\ UNCHANGED <<main, held, file_indx, stats, _THE_END, handler, sent, used>>
AddBytes(t) == /\ At(t, "add-bytes", "lock-stats") /\ stats' = [mine[t].stats EXCEPT !.bytes = @ + 1] /\ Unlock("statsmtx")
               /\ UNCHANGED <<main, file_indx, mine, _THE_END, handler, sent, used>>
AddStats(t) == /\ At(t, "add-stats", IF mine[t].outcome = "ok" THEN "sent" ELSE "closing")
               /\ stats' = Counted(mine[t].stats, mine[t].outcome) /\ Unlock("statsmtx")
               /\ UNCHANGED <<main, file_indx, mine, _THE_END, handler, sent, used>>
\* the end is looked for; else the connection is kept, or closed by the server or at random
Sent(t) ==
  /\ \/ _THE_END /\ At(t, "sent", "done")
     \/ ~_THE_END /\ mine[t].keepalive /\ At(t, "sent", First)
     \/ ~_THE_END /\ At(t, "sent", "closing")
  /\ UNCHANGED <<main, held, file_indx, stats, mine, _THE_END, handler, sent, used>>
Closing(t) ==
  /\ At(t, "closing", IF _THE_END THEN "done" ELSE "connect")
  /\ UNCHANGED <<main, held, file_indx, stats, mine, _THE_END, handler, sent, used>>
Work(t) == UNCHANGED Mode /\ (\/ Connect(t) \/ ConnectFails(t) \/ LockFile(t) \/ ReadFile(t) \/ NextFile(t) \/ do_req(t) \/ do_file(t) \/ LockStats(t)
            \/ ReadStats(t) \/ AddBytes(t) \/ AddStats(t) \/ Sent(t) \/ Closing(t))

(* ------------------------- main and the handler ------------------------ *)
Ended == \A t \in Threads : pc[t] \in {"none", "done"} \/ handler = t
Create ==
  /\ main = "create" /\ handler # 0
  /\ \E t \in Threads :
       /\ pc[t] = "none" /\ \A u \in 1..t - 1 : pc[u] # "none"
       /\ pc' = [pc EXCEPT ![t] = "connect"] /\ main' = IF t = threadsnum THEN "wait" ELSE main
  /\ UNCHANGED <<held, file_indx, stats, mine, _THE_END, handler, sent, used>>
MaxReached ==
  /\ main = "wait" /\ handler # 0 /\ MAX_REQUESTS # 0 /\ stats.requests >= MAX_REQUESTS
  /\ _THE_END' = TRUE /\ main' = "join"
  /\ UNCHANGED <<pc, held, file_indx, stats, mine, handler, sent, used>>
Join ==
  /\ main = "join" /\ handler # 0 /\ \A t \in Threads : pc[t] = "done" /\ handler # t
  /\ main' = "exited"
  /\ UNCHANGED <<pc, held, file_indx, stats, mine, _THE_END, handler, sent, used>>
\* SIGINT is ignored from then on
sigint_handler ==
  /\ Interrupts /\ handler = -1 /\ main # "exited"
  /\ \E t \in {0} \cup {u \in Threads : pc[u] \notin {"none", "done"}} : handler' = t
  /\ _THE_END' = TRUE
  /\ UNCHANGED <<pc, main, held, file_indx, stats, mine, sent, used>>
\* a thread that joins itself is told so at once
HandlerExits ==
  /\ handler # -1 /\ main # "exited" /\ Ended /\ main' = "exited"
  /\ UNCHANGED <<pc, held, file_indx, stats, mine, _THE_END, handler, sent, used>>

Next == (\E t \in Threads : Work(t)) \/ (UNCHANGED Mode /\ (Create \/ MaxReached \/ Join \/ sigint_handler \/ HandlerExits))
Spec == Init /\ [][Next]_vars
FairSpec == Spec /\ WF_vars(Next) /\ \A t \in Threads : WF_vars(Work(t))

(* ---------------------------- properties ------------------------------- *)
Number(o, at) == FoldSet(LAMBDA t, n : n + Cardinality({i \in DOMAIN sent[t] : sent[t][i] = o}), 0, {t \in Threads : pc[t] \notin at})
                 + FoldSet(LAMBDA t, n : n + Cardinality({i \in 1..Len(sent[t]) - 1 : sent[t][i] = o}), 0, {t \in Threads : pc[t] \in at})
Uncounted == {"lock-bytes", "read-bytes", "add-bytes", "lock-stats", "read-stats", "add-stats"}

\* Every request of every thread is in the statistics once, and no other: the counters of threadjobreqmod, threadjobsendfiles,
\* do_req and do_file agree with what was sent, apart from the last request of a thread that is still counting it; and the
\* files were taken in turn, none more than once more than another (file_indx), and none that is not there.
StretchCounts ==
  /\ stats.requests = Number("ok", Uncounted) + (IF Mode = "req" THEN Number("soft", Uncounted) + Number("failed", Uncounted) ELSE 0)
  /\ stats.soft = Number("soft", Uncounted) /\ stats.failed = Number("failed", Uncounted)
  /\ stats.bytes = Number("ok", {"lock-bytes", "read-bytes", "add-bytes"})
  /\ used[FILES_NUMBER] = 0 /\ \A f, g \in 0..FILES_NUMBER - 1 : used[f] <= used[g] + 1

\* (refuted with Interrupts) The handler does not wait for a thread that waits for a mutex held by the thread the handler
\* runs on ("What if a child is blocked??????", c-icap-stretch.c:123).
HandlerNotBlocking ==
  handler > 0 => ~\E t \in Threads : \/ pc[t] = "lock-file" /\ held["filemtx"] = handler
                                     \/ pc[t] \in {"lock-bytes", "lock-stats"} /\ held["statsmtx"] = handler
\* (refuted) The program ends when MAX_REQUESTS requests were sent: requests of files that failed are not among them.
MaxEnds == (Requests >= MAX_REQUESTS) ~> main = "exited"
=============================================================================
