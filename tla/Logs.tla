-------------------------------- MODULE Logs ---------------------------------
(***************************************************************************)
(* The logs of log.c: the formats and access logs that the configuration   *)
(* names, the file logger that worker threads write to, and the relog      *)
(* command, which opens the files anew while they are written (commands.c  *)
(* and mpmt_server.c run it in the monitor and in every child).  A file    *)
(* that was renamed keeps its handle: handle n of a file is the n-th file  *)
(* of that name, 0 is NULL.                                                *)
(***************************************************************************)
EXTENDS Naturals, Sequences, FiniteSets
LOCAL INSTANCE SequencesExt

CONSTANTS Threads, Lines, MaxRequests, MaxFails, MaxRotations, SERVER_LOG

VARIABLES conf,       \* lines still to be read
          formats,    \* LOGFORMATS
          logs,       \* ACCESS_LOG_FILES, then the server log
          gen,        \* file -> how many files of that name there were
          readers,    \* log -> threads with its read lock
          writer,     \* log the relog command has the write lock of, 0 if none
          call, relog, fails, 
          requests,   \* the access lines and server messages asked for
          lines,      \* <<file, request>> -> how often it was written
          bad         \* a write to a handle that is closed or NULL
vars == <<conf, formats, logs, gen, readers, writer, call, relog, fails, requests, lines, bad>>

DEFAULT_LOG_FORMAT == "default"
Files == {Lines[i].file : i \in {i \in DOMAIN Lines : Lines[i].d = "AccessLog"}} \cup {SERVER_LOG}
Reqs == 1..MaxRequests
Idle == [pc |-> "idle", at |-> 0, req |-> 0]
ServerAt == Len(logs)

Init == /\ conf = Lines /\ formats = <<>> /\ logs = <<>>
        /\ gen = [f \in Files |-> 1] /\ readers = <<>> /\ writer = 0
        /\ call = [t \in Threads |-> Idle] /\ relog = [pc |-> "none", at |-> 0]
        /\ fails = 0 /\ requests = <<>> /\ lines = [k \in Files \X Reqs |-> 0] /\ bad = FALSE

(* --------------------------- the configuration ------------------------- *)
\* logformat_add appends; the first format of a name is the one logformat_fmt finds
logformat_fmt(name) ==
  LET I == {i \in DOMAIN formats : formats[i].name = name}
  IN IF I = {} THEN DEFAULT_LOG_FORMAT ELSE formats[CHOOSE i \in I : \A j \in I : i <= j].fmt
\* file_log_addlogfile: the loop that looks for the file stops before the last one of the list
AlreadyDefined(file) == \E i \in 1..Len(logs) - 1 : logs[i].file = file
ReadLine ==
  /\ conf # <<>> /\ conf' = Tail(conf)
  /\ LET l == Head(conf) IN
     \/ l.d = "LogFormat" /\ formats' = Append(formats, [name |-> l.name, fmt |-> l.fmt]) /\ UNCHANGED logs
     \/ /\ l.d = "AccessLog" /\ UNCHANGED formats
        /\ logs' = IF AlreadyDefined(l.file) THEN logs
                   ELSE Append(logs, [file |-> l.file, log_fmt |-> logformat_fmt(l.fmt), allow |-> l.allow, handle |-> 0])
  /\ UNCHANGED <<gen, readers, writer, call, relog, fails, requests, lines, bad>>
\* logfile_open may fail
Handles(lf) == {gen[lf.file]} \cup (IF fails < MaxFails THEN {0} ELSE {})
Fail(h) == fails' = IF h = 0 THEN fails + 1 ELSE fails
\* When a file does not open the server does not start (aserver.c: "Can not init loggers").
file_log_open ==
  /\ conf = <<>> /\ relog.pc = "none"
  /\ LET all == Append(logs, [file |-> SERVER_LOG, log_fmt |-> DEFAULT_LOG_FORMAT, allow |-> Reqs, handle |-> 0])
     IN /\ logs' = [i \in DOMAIN all |-> [all[i] EXCEPT !.handle = gen[all[i].file]]]
        /\ readers' = [i \in DOMAIN all |-> {}]
  /\ relog' = [pc |-> "idle", at |-> 0]
  /\ UNCHANGED <<conf, formats, gen, writer, call, fails, requests, lines, bad>>

(* ------------------------------ the workers ---------------------------- *)
\* log_access of a request, for each access log; log_server of a message, for the server log
Goto(t, pc) == call' = [call EXCEPT ![t].pc = pc]
Same == UNCHANGED <<conf, formats, logs, gen, writer, relog, fails>>
Begin(t) ==
  /\ relog.pc \notin {"none", "off"} /\ call[t].pc = "idle" /\ Len(requests) < MaxRequests
  /\ LET r == Len(requests) + 1 IN
     \/ requests' = Append(requests, "access") /\ call' = [call EXCEPT ![t] = [pc |-> "match", at |-> 1, req |-> r]]
     \/ /\ requests' = Append(requests, "server") /\ logs[ServerAt].handle # 0
        /\ call' = [call EXCEPT ![t] = [pc |-> "rdlock", at |-> ServerAt, req |-> r]]
  /\ Same /\ UNCHANGED <<readers, lines, bad>>
Match(t) ==
  /\ call[t].pc = "match"
  /\ call' = [call EXCEPT ![t] = IF @.at = ServerAt THEN Idle
                                 ELSE IF @.req \in logs[@.at].allow THEN [@ EXCEPT !.pc = "rdlock"] ELSE [@ EXCEPT !.at = @ + 1]]
  /\ Same /\ UNCHANGED <<readers, lines, bad, requests>>
RdLock(t) ==
  /\ call[t].pc = "rdlock" /\ writer # call[t].at /\ Goto(t, "write")
  /\ readers' = [readers EXCEPT ![call[t].at] = @ \cup {t}]
  /\ Same /\ UNCHANGED <<lines, bad, requests>>
\* an access log is looked at again under the lock, the server log is not
Write(t) ==
  LET lf == logs[call[t].at] IN
  /\ call[t].pc = "write" /\ Goto(t, "unlock")
  /\ lines' = IF lf.handle # 0 THEN [lines EXCEPT ![<<lf.file, call[t].req>>] = @ + 1] ELSE lines
  /\ bad' = (bad \/ (lf.handle = 0 /\ call[t].at = ServerAt) \/ (relog.pc = "closed" /\ relog.at = call[t].at))
  /\ Same /\ UNCHANGED <<readers, requests>>
Unlock(t) ==
  /\ call[t].pc = "unlock"
  /\ readers' = [readers EXCEPT ![call[t].at] = @ \ {t}]
  /\ call' = [call EXCEPT ![t] = IF @.at = ServerAt THEN Idle ELSE [@ EXCEPT !.pc = "match", !.at = @ + 1]]
  /\ Same /\ UNCHANGED <<lines, bad, requests>>

(* ------------------------------- relog --------------------------------- *)
Relog(v) == relog' = v /\ UNCHANGED <<conf, formats, gen, readers, call, requests, lines, bad>>
RelogBegin == relog.pc = "idle" /\ gen # [f \in Files |-> 1] /\ Relog([pc |-> "lock", at |-> 1]) /\ UNCHANGED <<logs, writer, fails>>
wrlock_any == TRUE
wrlock == readers[relog.at] = {}
RelogLock == relog.pc = "lock" /\ wrlock /\ writer' = relog.at /\ Relog([relog EXCEPT !.pc = "close"]) /\ UNCHANGED <<logs, fails>>
RelogClose == relog.pc = "close" /\ Relog([relog EXCEPT !.pc = "closed"]) /\ UNCHANGED <<logs, writer, fails>>
RelogOpen ==
  /\ relog.pc = "closed"
  /\ \E h \in Handles(logs[relog.at]) : logs' = [logs EXCEPT ![relog.at].handle = h] /\ Fail(h)
  /\ writer' = 0
  /\ Relog(IF relog.at = ServerAt THEN [pc |-> "idle", at |-> 0] ELSE [pc |-> "lock", at |-> relog.at + 1])
\* system_shutdown and reconfigure release the loggers (module.c), after the threads have ended
file_log_close ==
  /\ relog.pc = "idle" /\ call = [t \in Threads |-> Idle] /\ Relog([pc |-> "off", at |-> 0])
  /\ logs' = [logs EXCEPT ![ServerAt].handle = 0] /\ UNCHANGED <<writer, fails>>
\* logrotate renames a file
Rotate == /\ relog.pc = "idle"
          /\ \E f \in Files : gen[f] <= MaxRotations /\ gen' = [gen EXCEPT ![f] = @ + 1]
          /\ UNCHANGED <<conf, formats, logs, readers, writer, call, relog, fails, requests, lines, bad>>

Next == \/ ReadLine \/ file_log_open \/ file_log_close \/ RelogBegin \/ RelogLock \/ RelogClose \/ RelogOpen \/ Rotate
        \/ \E t \in Threads : Begin(t) \/ Match(t) \/ RdLock(t) \/ Write(t) \/ Unlock(t)
Spec == Init /\ [][Next]_vars

(* ------------------------------ properties ----------------------------- *)
Ended(r) == \A t \in Threads : call[t].req # r
\* No thread writes to a file that relog has closed, and every access log that wants a request has its line: relog
\* loses none as long as it can open the files again.  When it cannot, a log misses lines until the next relog.
LogsWhole ==
  /\ bad => fails > 0
  /\ writer # 0 => readers[writer] = {}
  /\ fails = 0 => \A r \in DOMAIN requests : Ended(r) =>
       \A i \in DOMAIN logs : (requests[r] = "server" <=> i = ServerAt) =>
         (r \in logs[i].allow <=> lines[<<logs[i].file, r>>] > 0)
\* "Access log file %s already defined!": a file is in the list once, and a request in it once.  (Refuted: the last file
\* of the list is not compared.)
DefinedOnce == \A i, j \in DOMAIN logs : logs[i].file = logs[j].file => i = j
\* A server message is never written to NULL.  (Refuted: server_log is looked at before the lock is taken, and relog may
\* fail to open it in between.)
ServerLogThere == ~bad
=============================================================================
