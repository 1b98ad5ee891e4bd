------------------------------ MODULE Commands -------------------------------
(***************************************************************************)
(* Commands (commands.c, mpmt_server.c).  What is written to the control   *)
(* pipe is read by the monitor, run there, and written to the pipe of      *)
(* every child; a child reads its pipe once a second.  Nothing separates   *)
(* two commands in a pipe, so a read takes all that is there as one line.  *)
(* Commands can be run when a child starts or stops, and threads of a      *)
(* child can schedule them for later.                                      *)
(***************************************************************************)
EXTENDS Naturals, Sequences, FiniteSets
LOCAL INSTANCE SequencesExt

CONSTANTS Commands,    \* name -> type, a set of "monitor", "childs", "start", "stop", "ondemand"
          Order,       \* the names in the order they are registered
          Lines,       \* what a user writes: names of commands, or of none
          Children, Threads, MaxLines, MaxScheduled, MaxTime

VARIABLES list,        \* COMMANDS_LIST
          ctl,         \* the control pipe
          ran,         \* process -> commands it has run
          life,        \* child -> "none", "up", "down"
          pipe,        \* child -> lines in its pipe
          sent, merged,\* child -> lines written to its pipe; whether it ever read two at once
          queue,       \* COMMANDS_QUEUE of the child that schedules
          sched,       \* thread -> what it is about to schedule
          iter,        \* the child's loop over the queue: items still to be visited, and the time
          pushed, now, written
vars == <<list, ctl, ran, life, pipe, sent, merged, queue, sched, iter, pushed, now, written>>
rest == <<queue, sched, iter, pushed, now>>

Monitor == "monitor"
None == [name |-> "", when |-> 0]
\* the newest of a name is found: ci_list_push puts it first
find_command(line) == LET I == {i \in DOMAIN list : list[i].name = line}
                      IN IF I = {} THEN {} ELSE {list[CHOOSE i \in I : \A j \in I : i <= j]}
\* the names of the commands of a type, in the order of the list
execute_child_commands(f) == LET cs == SelectSeq(list, LAMBDA x : f \in x.type) IN [i \in DOMAIN cs |-> cs[i].name]
Type(line) == UNION {c.type : c \in find_command(line)}

Init == /\ list = <<>> /\ ctl = <<>> /\ ran = [p \in Children \cup {Monitor} |-> <<>>]
        /\ life = [c \in Children |-> "none"] /\ pipe = [c \in Children |-> <<>>]
        /\ sent = [c \in Children |-> <<>>] /\ merged = [c \in Children |-> FALSE]
        /\ queue = <<>> /\ sched = [t \in Threads |-> None] /\ iter = [on |-> FALSE, left |-> <<>>, tm |-> 0]
        /\ pushed = <<>> /\ now = 0 /\ written = 0
register_command ==
  /\ Len(list) < Len(Order)
  /\ LET n == Order[Len(list) + 1] IN list' = <<[name |-> n, type |-> Commands[n]]>> \o list
  /\ UNCHANGED <<ctl, ran, life, pipe, sent, merged, written>> /\ UNCHANGED rest

(* ------------------------------ the monitor ---------------------------- *)
UserWrites == /\ written < MaxLines /\ written' = written + 1 /\ Len(list) = Len(Order)
              /\ \E l \in Lines : ctl' = Append(ctl, l)
              /\ UNCHANGED <<list, ran, life, pipe, sent, merged>> /\ UNCHANGED rest
start_child(c) ==
  /\ life[c] = "none" /\ Len(list) = Len(Order) /\ life' = [life EXCEPT ![c] = "up"]
  /\ ran' = [ran EXCEPT ![c] = execute_child_commands("start")]
  /\ UNCHANGED <<list, ctl, pipe, sent, merged, written>> /\ UNCHANGED rest
\* what one read takes; two lines make a name that no command has
Read(p) == IF Len(p) = 1 THEN p[1] ELSE ""
Up == {c \in Children : life[c] = "up"}
handle_monitor_process_commands ==
  /\ ctl # <<>> /\ ctl' = <<>>
  /\ LET l == Read(ctl) IN
       /\ ran' = IF "monitor" \in Type(l) THEN [ran EXCEPT ![Monitor] = Append(@, l)] ELSE ran
       /\ LET To == IF "childs" \in Type(l) THEN Up ELSE {}
          IN /\ pipe' = [c \in Children |-> IF c \in To THEN Append(pipe[c], l) ELSE pipe[c]]
             /\ sent' = [c \in Children |-> IF c \in To THEN Append(sent[c], l) ELSE sent[c]]
  /\ UNCHANGED <<list, life, merged, written>> /\ UNCHANGED rest

(* -------------------------------- a child ------------------------------ *)
handle_child_process_commands(c) ==
  /\ life[c] = "up" /\ pipe[c] # <<>> /\ pipe' = [pipe EXCEPT ![c] = <<>>]
  /\ LET l == Read(pipe[c]) IN ran' = IF "childs" \in Type(l) THEN [ran EXCEPT ![c] = Append(@, l)] ELSE ran
  /\ merged' = [merged EXCEPT ![c] = @ \/ Len(pipe[c]) > 1]
  /\ UNCHANGED <<list, ctl, life, sent, written>> /\ UNCHANGED rest
commands_execute_stop_child(c) ==
  /\ life[c] = "up" /\ ~iter.on /\ life' = [life EXCEPT ![c] = "down"]
  /\ ran' = [ran EXCEPT ![c] = @ \o execute_child_commands("stop")]
  /\ pipe' = [pipe EXCEPT ![c] = <<>>]
  /\ UNCHANGED <<list, ctl, sent, merged, written>> /\ UNCHANGED rest

(* --------------------- commands scheduled in a child ------------------- *)
\* The child that schedules is the first of Children; the others are left out of it.
Scheduler == CHOOSE c \in Children : TRUE
main == <<list, ctl, life, pipe, sent, merged, written>>
\* ci_command_schedule_on looks for the same entry without the lock ...
ScheduleSearch(t) ==
  /\ life[Scheduler] = "up" /\ sched[t] = None /\ Len(pushed) < MaxScheduled
  /\ \E n \in {n \in DOMAIN Commands : "ondemand" \in Commands[n]}, w \in now..now + 1 :
       /\ [name |-> n, when |-> w] \notin Range(queue)
       /\ sched' = [sched EXCEPT ![t] = [name |-> n, when |-> w]]
  /\ UNCHANGED <<ran, queue, iter, pushed, now>> /\ UNCHANGED main
\* ... and adds it, first in the queue, under the lock
SchedulePush(t) ==
  /\ sched[t] # None /\ sched' = [sched EXCEPT ![t] = None]
  /\ queue' = <<sched[t]>> \o queue /\ pushed' = Append(pushed, sched[t])
  /\ UNCHANGED <<ran, iter, now>> /\ UNCHANGED main
commands_exec_scheduled ==
  /\ life[Scheduler] = "up" /\ ~iter.on /\ iter' = [on |-> TRUE, left |-> queue, tm |-> now]
  /\ UNCHANGED <<ran, queue, sched, pushed, now>> /\ UNCHANGED main
\* cb_check_queue: runs what is due and takes an equal item out of the queue
Without(q, x) == LET i == CHOOSE i \in DOMAIN q : q[i] = x /\ \A j \in 1..i - 1 : q[j] # x IN SubSeq(q, 1, i - 1) \o SubSeq(q, i + 1, Len(q))
cb_check_queue_kept(x) == IF x.when < iter.tm THEN ran' = [ran EXCEPT ![Scheduler] = Append(@, x.name)] /\ queue' = queue ELSE UNCHANGED <<ran, queue>>
cb_check_queue(x) ==
  IF x.when < iter.tm THEN ran' = [ran EXCEPT ![Scheduler] = Append(@, x.name)] /\ queue' = Without(queue, x)
  ELSE UNCHANGED <<ran, queue>>
ExecNext == /\ iter.on /\ iter.left # <<>> /\ iter' = [iter EXCEPT !.left = Tail(@)] /\ cb_check_queue(Head(iter.left))
            /\ UNCHANGED <<sched, pushed, now>> /\ UNCHANGED main
ExecEnd == /\ iter.on /\ iter.left = <<>> /\ iter' = [on |-> FALSE, left |-> <<>>, tm |-> 0]
           /\ UNCHANGED <<ran, queue, sched, pushed, now>> /\ UNCHANGED main
Tick == now < MaxTime /\ now' = now + 1 /\ UNCHANGED <<ran, queue, sched, iter, pushed>> /\ UNCHANGED main

Next == \/ register_command \/ UserWrites \/ handle_monitor_process_commands
        \/ \E c \in Children : start_child(c) \/ handle_child_process_commands(c) \/ commands_execute_stop_child(c)
        \/ \E t \in Threads : ScheduleSearch(t) \/ SchedulePush(t)
        \/ commands_exec_scheduled \/ ExecNext \/ ExecEnd \/ Tick
Spec == Init /\ [][Next]_vars

(* ------------------------------ properties ----------------------------- *)
Count(s, x) == Len(SelectSeq(s, LAMBDA y : y = x))
RanAs(c, f) == SelectSeq(ran[c], LAMBDA n : f \in Commands[n])
\* A child runs the commands that the monitor sent to it, in that order and each once, unless it found two in its pipe
\* at one read; it never runs any other.  A scheduled command is run once for each time it was put in the queue, and
\* leaves the queue when it is run.
CommandsOnce ==
  /\ \A c \in Children : life[c] = "up" /\ ~merged[c] => RanAs(c, "childs") \o pipe[c] = sent[c]
  /\ \A c \in Children : \A n \in Range(RanAs(c, "childs")) : Count(ran[c], n) <= Count(sent[c], n)
  /\ \A n \in DOMAIN Commands : "ondemand" \in Commands[n] =>
       Len(SelectSeq(pushed, LAMBDA x : x.name = n)) = Count(ran[Scheduler], n) + Len(SelectSeq(queue, LAMBDA x : x.name = n))
\* Every command that was sent to a child that is up is run by it or still in its pipe.  (Refuted: two that are read
\* at once are taken for one that is unknown.)
AllReach == \A c \in Children : life[c] = "up" => RanAs(c, "childs") \o pipe[c] = sent[c]
\* "command %s already scheduled for execution on %ld, ignore": no entry is in the queue twice.  (Refuted: the queue is
\* searched before the lock is taken.)
ScheduledOnce == \A i, j \in DOMAIN queue : queue[i] = queue[j] => i = j
=============================================================================
