-------------------------------- MODULE Stats --------------------------------
(***************************************************************************)
(* The statistics of the server (stats.c), kept in one block per child in  *)
(* the memory the processes share, added to a history when a child is      *)
(* removed (remove_child of proc_threads_queues.c), and summed up by the   *)
(* info service (info.c).  A child registers itself in a free slot and     *)
(* then attaches its block; both are steps of it, and so is every store    *)
(* into the block: the mutex of the block is the child's own, and nothing  *)
(* keeps the info service from reading, or a signal from killing the       *)
(* child, between two of them.                                             *)
(***************************************************************************)
EXTENDS Integers, Sequences, FiniteSets
LOCAL INSTANCE FiniteSetsExt

CONSTANTS Pids, Size,
  Labels,         \* the entries that modules and services register, in their order: repeated labels are one entry
  KB,             \* bytes of a kilobyte: 1024 in the code
  Counts, MaxCounts    \* what a call counts; bound: the sum of it all

VARIABLES slot,       \* slot -> [pid, to_be_killed, counters64, kbs]
          history, child, info,
          counted,    \* what the children have counted, and the bytes
          amiss,      \* a child died between the two steps of its start, or of a carry
          disturbed   \* a child came or went while the slots were read
vars == <<slot, history, child, info, counted, amiss, disturbed>>

Slots == 1..Size
(* ----------------------------- the entries ----------------------------- *)
\* stat_entry_by_name and stat_entry_add over the labels: the identifier of an entry is its index
stat_entry_add(list, label) == IF \E i \in DOMAIN list : list[i] = label THEN list ELSE Append(list, label)
Entries == LET Reg[n \in 0..Len(Labels)] == IF n = 0 THEN <<>> ELSE stat_entry_add(Reg[n - 1], Labels[n]) IN Reg[Len(Labels)]
IDs == DOMAIN Entries
Zero == [c |-> [i \in IDs |-> 0], kb |-> 0, bytes |-> 0]
\* ci_stat_uint64_inc, and the three stores of ci_stat_kbs_inc: what fills a kilobyte is carried
uint64_inc(b, id, n) == [b EXCEPT !.c[id] = @ + n]
kbs_add(b, n) == [b EXCEPT !.bytes = @ + n]
kbs_carry_late(b) == [b EXCEPT !.kb = @ + ((b.bytes % KB) \div KB)]
kbs_carry(b) == [b EXCEPT !.kb = @ + (b.bytes \div KB)]
kbs_wrap(b) == [b EXCEPT !.bytes = @ % KB]
ci_stat_memblock_merge(d, s) ==
  LET e == [d EXCEPT !.c = [i \in IDs |-> d.c[i] + s.c[i]], !.kb = d.kb + s.kb]
  IN kbs_wrap(kbs_carry(kbs_add(e, s.bytes)))
Bytes(b) == b.kb * KB + b.bytes

Init == /\ slot = [i \in Slots |-> [pid |-> 0, to_be_killed |-> FALSE, block |-> Zero]]     \* create_childs_queue
        /\ history = Zero /\ child = [p \in Pids |-> "none"]
        /\ info = [pc |-> "idle", at |-> 1, read |-> 0, carry |-> FALSE, sum |-> Zero, from |-> Zero]
        /\ counted = Zero /\ amiss = FALSE /\ disturbed = FALSE

(* ------------------------------ a child -------------------------------- *)
Mine(p) == CHOOSE i \in Slots : slot[i].pid = p
register_child(p) ==
  /\ child[p] = "none" /\ child' = [child EXCEPT ![p] = "registered"] /\ disturbed' = (info.pc # "idle")
  /\ \E i \in Slots : /\ slot[i].pid = 0 /\ \A j \in 1..i-1 : slot[j].pid # 0
                      /\ slot' = [slot EXCEPT ![i].pid = p, ![i].to_be_killed = FALSE]
  /\ UNCHANGED <<history, info, counted, amiss>>
\* ci_stat_attach_mem: ci_stat_area_construct ends in ci_stat_area_reset
ci_stat_attach_mem(p) ==
  /\ child[p] = "registered" /\ child' = [child EXCEPT ![p] = "attached"]
  /\ slot' = [slot EXCEPT ![Mine(p)].block = Zero] /\ disturbed' = (info.pc # "idle")
  /\ UNCHANGED <<history, info, counted, amiss>>
InCounts == counted.bytes + MapThenSumSet(LAMBDA i : counted.c[i], IDs) < MaxCounts
\* the threads of a child count under the mutex of its block, one at a time
Count(p) ==
  /\ child[p] = "attached" /\ InCounts
  /\ \E id \in IDs, n \in Counts :
       slot' = [slot EXCEPT ![Mine(p)].block = uint64_inc(@, id, n)] /\ counted' = uint64_inc(counted, id, n)
  /\ UNCHANGED <<history, child, info, amiss, disturbed>>
KbsAdd(p) ==
  /\ child[p] = "attached" /\ InCounts
  /\ \E n \in Counts :
       slot' = [slot EXCEPT ![Mine(p)].block = kbs_add(@, n)] /\ counted' = kbs_add(counted, n)
  /\ child' = [child EXCEPT ![p] = "carry"] /\ UNCHANGED <<history, info, amiss, disturbed>>
KbsCarry(p) ==
  /\ child[p] = "carry" /\ child' = [child EXCEPT ![p] = "wrap"]
  /\ slot' = [slot EXCEPT ![Mine(p)].block = kbs_carry(@)]
  /\ info' = [info EXCEPT !.carry = @ \/ (info.pc = "slots" /\ slot[Mine(p)].block.bytes >= KB)]
  /\ UNCHANGED <<history, counted, amiss, disturbed>>
KbsWrap(p) ==
  /\ child[p] = "wrap" /\ child' = [child EXCEPT ![p] = "attached"]
  /\ slot' = [slot EXCEPT ![Mine(p)].block = kbs_wrap(@)]
  /\ UNCHANGED <<history, info, counted, amiss, disturbed>>
\* between the two stores of a carry
Midway(p) == child[p] = "wrap" /\ slot[Mine(p)].block.bytes >= KB
Up == {"attached", "carry", "wrap"}
Marked(p) ==
  /\ child[p] \in Up /\ ~slot[Mine(p)].to_be_killed
  /\ slot' = [slot EXCEPT ![Mine(p)].to_be_killed = TRUE] /\ disturbed' = (info.pc # "idle")
  /\ UNCHANGED <<history, child, info, counted, amiss>>
Dies(p) ==
  LET halfway == child[p] = "registered" \/ Midway(p) IN
    /\ child[p] \in {"registered"} \cup Up /\ (halfway => ~amiss)     \* bound: one such death
    /\ child' = [child EXCEPT ![p] = "dead"] /\ amiss' = (amiss \/ halfway)
    /\ UNCHANGED <<slot, history, info, counted, disturbed>>
\* the monitor, when waitpid(2) tells it
remove_child(p) ==
  /\ child[p] = "dead" /\ child' = [child EXCEPT ![p] = "none"]
  /\ LET i == Mine(p) IN
       slot' = [slot EXCEPT ![i].pid = 0] /\ history' = ci_stat_memblock_merge(history, slot[i].block)
  /\ disturbed' = (info.pc # "idle") /\ UNCHANGED <<info, counted, amiss>>

(* --------------------------- the info service -------------------------- *)
\* info_init_request_data, then fill_queue_statistics: no lock is held
InfoBegin == /\ info.pc = "idle" /\ disturbed' = FALSE
             /\ info' = [pc |-> "slots", at |-> 1, read |-> 0, carry |-> \E p \in Pids : Midway(p), sum |-> Zero, from |-> counted]
             /\ UNCHANGED <<slot, history, child, counted, amiss>>
InfoSlot ==
  /\ info.pc = "slots" /\ info.at <= Size /\ info.read = 0
  /\ info' = IF slot[info.at].pid # 0 /\ ~slot[info.at].to_be_killed THEN [info EXCEPT !.read = 1]
             ELSE [info EXCEPT !.at = @ + 1]
  /\ UNCHANGED <<slot, history, child, counted, amiss, disturbed>>
\* ci_stat_memblock_merge of a child's block: its counters one by one, the kilobytes, the bytes
InfoRead ==
  LET b == slot[info.at].block  f == info.read IN
    /\ info.pc = "slots" /\ f > 0
    /\ info' = IF f <= Len(Entries) THEN [info EXCEPT !.read = f + 1, !.sum.c[f] = @ + b.c[f]]
               ELSE IF f = Len(Entries) + 1 THEN [info EXCEPT !.read = f + 1, !.sum.kb = @ + b.kb]
               ELSE [info EXCEPT !.at = @ + 1, !.read = 0, !.sum = kbs_wrap(kbs_carry(kbs_add(@, b.bytes)))]
    /\ UNCHANGED <<slot, history, child, counted, amiss, disturbed>>
\* The history is written only when a child goes, which disturbs the reader anyway.
InfoHistory ==
  /\ info.pc = "slots" /\ info.at > Size
  /\ info' = [info EXCEPT !.pc = "built", !.sum = ci_stat_memblock_merge(@, history)]
  /\ UNCHANGED <<slot, history, child, counted, amiss, disturbed>>
InfoEnd == /\ info.pc = "built" /\ info' = [pc |-> "idle", at |-> 1, read |-> 0, carry |-> FALSE, sum |-> Zero, from |-> Zero]
           /\ disturbed' = FALSE /\ UNCHANGED <<slot, history, child, counted, amiss>>

Next == \/ \E p \in Pids : \/ register_child(p) \/ ci_stat_attach_mem(p) \/ Count(p) \/ KbsAdd(p) \/ KbsCarry(p)
                           \/ KbsWrap(p) \/ Marked(p) \/ Dies(p) \/ remove_child(p)
        \/ InfoBegin \/ InfoSlot \/ InfoRead \/ InfoHistory \/ InfoEnd
Spec == Init /\ [][Next]_vars

(* ------------------------------ properties ----------------------------- *)
Live == {i \in Slots : slot[i].pid # 0 /\ child[slot[i].pid] # "registered"}
\* The block of a slot, with the carry that its child is about to finish.
Settled(i) == IF child[slot[i].pid] = "wrap" THEN kbs_wrap(slot[i].block) ELSE slot[i].block
Total(F(_)) == F(history) + MapThenSumSet(LAMBDA i : F(Settled(i)), Live)
\* Nothing that a child counted is lost or counted twice, however the children come, die and are removed: the history
\* and the blocks of the children add up to what was counted, with the bytes carried into kilobytes.  The exceptions are
\* a child that dies before it attached its block, whose slot still has the counts of the child before it, and one that
\* dies between the two stores of a carry, whose kilobyte is counted twice.
StatsExact ==
  ~amiss => /\ \A i \in IDs : Total(LAMBDA b : b.c[i]) = counted.c[i]
            /\ Total(Bytes) = counted.bytes
\* The counters the info service reports were true while it ran, if no child came or went while it read, although it
\* takes no lock; what children that are to be killed have counted is missing from it.  So were the
\* bytes, unless a child carried a kilobyte meanwhile, so that its bytes may be read on one side of the carry and its
\* kilobytes on the other: then they are off by whole kilobytes.
InfoTrue ==
  info.pc = "built" /\ ~disturbed /\ ~amiss /\ (\A i \in Slots : ~slot[i].to_be_killed) /\ (\A p \in Pids : child[p] # "registered")
    => /\ \A i \in IDs : info.from.c[i] <= info.sum.c[i] /\ info.sum.c[i] <= counted.c[i]
       /\ \E n \in info.from.bytes .. counted.bytes :
            Bytes(info.sum) = n \/ (info.carry /\ (Bytes(info.sum) - n) % KB = 0)
\* The bytes were true whatever was carried.  (Refuted: a child's kilobytes are read after a carry, its bytes before.)
InfoBytesTrue == info.pc = "built" /\ ~disturbed /\ ~amiss => Bytes(info.sum) <= counted.bytes
\* The same with children that come and go.  (Refuted: one that is removed while the slots are read is counted twice.)
InfoAtMost == info.pc = "built" /\ ~amiss => \A i \in IDs : info.sum.c[i] <= counted.c[i]
=============================================================================
