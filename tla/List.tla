------------------------------- MODULE List --------------------------------
(* ci_list_t (array.c): a singly linked list with pointers to its first and   *)
(* its last node, a list of removed nodes that are used again, and a cursor   *)
(* that lets the function called by ci_list_iterate remove nodes. Objects are *)
(* numbers, compared by value.                                                *)
EXTENDS Integers, Sequences, FiniteSets
LOCAL INSTANCE SequencesExt

CONSTANTS
  Nodes,       \* addresses of nodes, 1 .. n
  Objects,     \* what is stored: numbers
  Calls,       \* the operations this user of lists calls
  FnCalls      \* those the iterated function calls

VARIABLES
  list,        \* items, last, trash, cursor
  next,        \* next field of each node
  item,        \* object of each node
  iter,        \* whether ci_list_iterate is running
  visited,     \* nodes ci_list_iterate gave to its function, oldest first
  contents     \* the objects that a sequence with the same calls would hold

vars == <<list, next, item, iter, visited, contents>>

NULL == 0

\* The nodes from n on, in order.
Chain(n) ==
  LET c[k \in 0 .. Cardinality(Nodes)] ==
        IF k = 0 THEN n ELSE IF c[k - 1] = NULL THEN NULL ELSE next[c[k - 1]]
  IN SelectSeq([k \in 1 .. Cardinality(Nodes) |-> c[k - 1]], LAMBDA x : x # NULL)

Items == [i \in DOMAIN Chain(list.items) |-> item[Chain(list.items)[i]]]
Live == ToSet(Chain(list.items))
Trash == ToSet(Chain(list.trash))
Unused == Nodes \ (Live \cup Trash \cup {list.last})

Init ==
  /\ list = [items |-> NULL, last |-> NULL, trash |-> NULL, cursor |-> NULL]
  /\ next = [n \in Nodes |-> NULL] /\ item = [n \in Nodes |-> NULL]
  /\ iter = FALSE /\ visited = <<>> /\ contents = <<>>

Calling(op) == op \in (IF iter THEN FnCalls ELSE Calls)

\* list_alloc_item: the node removed last, or new memory.
alloc_item(l) ==
  IF l.trash # NULL THEN [l |-> [l EXCEPT !.trash = next[l.trash]], it |-> l.trash]
  ELSE [l |-> l, it |-> CHOOSE n \in Unused : \A k \in Unused : n <= k]

ci_list_push(obj) ==
  LET a == alloc_item(list) IN
    /\ Calling("push") /\ (list.trash # NULL \/ Unused # {})
    /\ next' = [next EXCEPT ![a.it] = list.items]
    /\ list' = IF list.items # NULL THEN [a.l EXCEPT !.items = a.it]
               ELSE [a.l EXCEPT !.items = a.it, !.last = a.it]
    /\ item' = [item EXCEPT ![a.it] = obj]
    /\ contents' = <<obj>> \o contents
    /\ UNCHANGED <<iter, visited>>

ci_list_push_back(obj) ==
  LET a == alloc_item(list) IN
    /\ Calling("push_back") /\ (list.trash # NULL \/ Unused # {})
    /\ IF list.last # NULL
       THEN /\ next' = [next EXCEPT ![a.it] = NULL, ![list.last] = a.it]
            /\ list' = [a.l EXCEPT !.last = a.it]
       ELSE /\ next' = [next EXCEPT ![a.it] = NULL]
            /\ list' = [a.l EXCEPT !.items = a.it, !.last = a.it]
    /\ item' = [item EXCEPT ![a.it] = obj]
    /\ contents' = Append(contents, obj)
    /\ UNCHANGED <<iter, visited>>

ToTrash(l, it) == [l EXCEPT !.trash = it]

ci_list_pop ==
  LET it == list.items IN
    /\ Calling("pop") /\ it # NULL
    /\ list' = ToTrash(
         IF list.last = it
         THEN [list EXCEPT !.last = NULL, !.items = NULL, !.cursor = NULL]
         ELSE [list EXCEPT !.items = next[it],
                           !.cursor = IF @ = it THEN next[it] ELSE @], it)
    /\ next' = [next EXCEPT ![it] = list.trash]
    /\ contents' = Tail(contents)
    /\ UNCHANGED <<item, iter, visited>>

ci_list_pop_back ==
  LET it == list.last
      tmp == CHOOSE n \in Live : next[n] = it
  IN /\ Calling("pop_back") /\ list.items # NULL
     /\ IF list.last = list.items
        THEN /\ list' = ToTrash([list EXCEPT !.last = NULL, !.items = NULL,
                                             !.cursor = NULL], it)
             /\ next' = [next EXCEPT ![it] = list.trash]
        ELSE /\ list' = ToTrash([list EXCEPT !.cursor = IF @ = it THEN NULL ELSE @,
                                             !.last = tmp], it)
             /\ next' = [next EXCEPT ![tmp] = NULL, ![it] = list.trash]
     /\ contents' = Front(contents)
     /\ UNCHANGED <<item, iter, visited>>

\* The node that holds obj first, and what comes before it.
Found(obj) == SelectInSeq(Items, LAMBDA x : x = obj)

\* A bug: the cursor stays on the removed node.
ci_list_remove_under_cursor(obj) ==
  LET i == Found(obj)
      it == Chain(list.items)[i]
      prev == Chain(list.items)[i - 1]
  IN /\ Calling("remove") /\ i # 0
     /\ next' = IF i > 1 THEN [next EXCEPT ![prev] = next[it], ![it] = list.trash]
                ELSE [next EXCEPT ![it] = list.trash]
     /\ list' = ToTrash([list EXCEPT !.items = IF i > 1 THEN @ ELSE next[it]], it)
     /\ contents' = RemoveAt(contents, i)
     /\ UNCHANGED <<item, iter, visited>>

\* ci_list_remove: `last` keeps its value, also when the node it points to goes.
ci_list_remove(obj) ==
  LET i == Found(obj)
      it == Chain(list.items)[i]
      prev == Chain(list.items)[i - 1]
  IN /\ Calling("remove") /\ i # 0
     /\ next' = IF i > 1 THEN [next EXCEPT ![prev] = next[it], ![it] = list.trash]
                ELSE [next EXCEPT ![it] = list.trash]
     /\ list' = ToTrash([list EXCEPT !.items = IF i > 1 THEN @ ELSE next[it],
                                     !.cursor = IF @ = it THEN next[it] ELSE @], it)
     /\ contents' = RemoveAt(contents, i)
     /\ UNCHANGED <<item, iter, visited>>

\* Insertion of each node behind the sorted ones that are not larger.
ci_list_sort ==
  LET insert(s, n) ==
        LET k == Cardinality({j \in DOMAIN s : item[s[j]] <= item[n]})
        IN SubSeq(s, 1, k) \o <<n>> \o SubSeq(s, k + 1, Len(s))
      sorted == FoldLeft(insert, <<>>, Chain(list.items))
  IN /\ Calling("sort") /\ Len(sorted) > 1
     /\ next' = [n \in Nodes |->
                   IF n \notin Live THEN next[n]
                   ELSE LET k == SelectInSeq(sorted, LAMBDA x : x = n)
                        IN IF k = Len(sorted) THEN NULL ELSE sorted[k + 1]]
     /\ list' = [list EXCEPT !.items = sorted[1], !.last = Last(sorted)]
     /\ contents' = SortSeq(contents, <)
     /\ UNCHANGED <<item, iter, visited>>

(* ci_list_iterate: the cursor moves on before the function gets the node; a  *)
(* function that returns non-zero ends it.                                    *)
IterateBegin ==
  /\ Calling("iterate") /\ ~iter
  /\ iter' = TRUE /\ visited' = <<>>
  /\ list' = [list EXCEPT !.cursor = list.items]
  /\ UNCHANGED <<next, item, contents>>

IterateStep ==
  /\ iter /\ list.cursor # NULL
  /\ list' = [list EXCEPT !.cursor = next[list.cursor]]
  /\ visited' = Append(visited, list.cursor)
  /\ UNCHANGED <<next, item, iter, contents>>

IterateEnd ==
  /\ iter /\ (list.cursor = NULL \/ visited # <<>>)
  /\ iter' = FALSE /\ visited' = <<>>
  /\ UNCHANGED <<list, next, item, contents>>

Next ==
  \/ \E obj \in Objects : ci_list_push(obj) \/ ci_list_push_back(obj)
                          \/ ci_list_remove(obj)
  \/ ci_list_pop \/ ci_list_pop_back \/ ci_list_sort
  \/ IterateBegin \/ IterateStep \/ IterateEnd

Spec == Init /\ [][Next]_vars

-----------------------------------------------------------------------------
(* A list holds what the calls put there, in their order, no node is both in  *)
(* the list and removed, and an iteration gives every node at most once to    *)
(* its function and, when the cursor reaches the end, has given it every node *)
(* that is still in the list, whatever the function removes on the way.       *)
ListIsSequence ==
  /\ Items = contents
  /\ Live \cap Trash = {}
  /\ iter => /\ \A i, j \in DOMAIN visited :
                  i # j /\ visited[i] = visited[j] => visited[i] \notin Live
             /\ list.cursor = NULL => Live \subseteq ToSet(visited)
             /\ list.cursor # NULL => list.cursor \in Live

=============================================================================
