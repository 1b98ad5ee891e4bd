----------------------------- MODULE PackArray -----------------------------
(* The pack allocator (mem.c) and what array.c keeps in one: ci_array_t       *)
(* (names and values), ci_ptr_array_t (names, pointers as values) and         *)
(* ci_vector_t. One block of memory: the index grows from its start, names    *)
(* and values from its end. Addresses are offsets from the start of the       *)
(* memory the allocator hands out; sizes are the program's.                   *)
EXTENDS Integers, Sequences, FiniteSets

CONSTANTS
  Kind,        \* "array", "ptr_array" or "vector"
  Size,        \* size of the memory block
  Values,      \* data that is added: a value is its size
  MaxOps       \* bound: calls

VARIABLES
  pk,          \* the allocator: curpos, endpos, end
  items,       \* address of the first index entry, NULL before the first add
  last,        \* vector: the entry after the last item
  front,       \* index entries by address: <<name, value>>, of a vector value only
  rear,        \* names and values by address
  count,
  added,       \* what was added and not popped, oldest first
  torn,        \* an add failed after it had taken its index entry
  ops

vars == <<pk, items, last, front, rear, count, added, torn, ops>>

NULL == -1
UNSET == -2
ALIGN(n) == ((n + 7) \div 8) * 8
ALIGNED_OFFSET(n) == IF n = ALIGN(n) THEN n ELSE ALIGN(n - 8)
required_size == ALIGN(36) + ALIGN(56)    \* pack_allocator_t, ci_mem_allocator_t
struct_size == IF Kind = "vector" THEN 48 ELSE 40
entry_size == IF Kind = "vector" THEN 8 ELSE 16
name_size == 5                            \* strlen(name) + 1

init_pack_allocator ==
  [curpos |-> 0, endpos |-> ALIGNED_OFFSET(Size - required_size),
   end |-> ALIGNED_OFFSET(Size - required_size)]

\* Each returns the allocator after the call and the address, or NULL.
alloc_unaligned(p, n) ==
  IF n > p.endpos - p.curpos THEN [p |-> p, at |-> NULL]
  ELSE [p |-> [p EXCEPT !.curpos = @ + n], at |-> p.curpos]

alloc_from_rear(p, n) ==
  IF ALIGN(n) > p.endpos - p.curpos THEN [p |-> p, at |-> NULL]
  ELSE [p |-> [p EXCEPT !.endpos = @ - ALIGN(n)], at |-> p.endpos - ALIGN(n)]

set_pos(p, start, endpos) == [p EXCEPT !.curpos = start, !.endpos = endpos]

\* ci_vector_create and ci_array_new: the struct comes first, then the entry
\* that ends a vector.
Init ==
  LET p == alloc_unaligned(init_pack_allocator, ALIGN(struct_size)).p
      entry == alloc_unaligned(p, entry_size)
  IN /\ IF Kind = "vector"
        THEN /\ pk = entry.p /\ items = entry.at
             /\ front = [a \in {entry.at} |-> <<NULL, NULL>>]
        ELSE pk = p /\ items = NULL /\ front = <<>>
     /\ last = items
     /\ rear = <<>> /\ count = 0 /\ added = <<>> /\ torn = FALSE /\ ops = 0

Set(f, a, v) == [x \in DOMAIN f \cup {a} |-> IF x = a THEN v ELSE f[x]]
Entry(i) == items + (i - 1) * entry_size

(* ci_array_add, ci_ptr_array_add: the entry, then the name, then the value.  *)
(* When one of them does not fit, what the call took is not given back.       *)
ArrayAdd(v) ==
  LET e == alloc_unaligned(pk, entry_size)
      n == alloc_from_rear(e.p, name_size)
      d == IF Kind = "ptr_array" THEN [p |-> n.p, at |-> v]
           ELSE alloc_from_rear(n.p, v)
      ok == n.at # NULL /\ d.at # NULL
      names == Set(rear, n.at, name_size)
  IN /\ Kind # "vector"
     /\ IF e.at = NULL THEN UNCHANGED <<pk, items, front, rear, count, added, torn>>
        ELSE /\ pk' = d.p
             /\ torn' = (torn \/ ~ok)
             /\ items' = IF ok /\ items = NULL THEN e.at ELSE items
             /\ front' = IF ok THEN Set(front, e.at, <<n.at, d.at>>) ELSE front
             /\ rear' = IF ~ok THEN rear
                        ELSE IF Kind = "ptr_array" THEN names ELSE Set(names, d.at, v)
             /\ count' = IF ok THEN count + 1 ELSE count
             /\ added' = IF ok THEN Append(added, v) ELSE added
     /\ UNCHANGED last

\* ci_vector_add: the entry that will end the vector, then the item.
VectorAdd(v) ==
  LET e == alloc_unaligned(pk, entry_size)
      d == alloc_from_rear(e.p, v)
      ok == e.at # NULL /\ d.at # NULL
  IN /\ Kind = "vector"
     /\ pk' = d.p
     /\ torn' = (torn \/ (~ok /\ e.at # NULL))
     /\ front' = IF ok THEN Set(Set(front, last, <<NULL, d.at>>), e.at, <<NULL, NULL>>) ELSE front
     /\ last' = IF ok THEN e.at ELSE last
     /\ rear' = IF ok THEN Set(rear, d.at, v) ELSE rear
     /\ count' = IF ok THEN count + 1 ELSE count
     /\ added' = IF ok THEN Append(added, v) ELSE added
     /\ UNCHANGED items

Min2(a, b) == IF a < b THEN a ELSE b

\* A bug: the end is taken from the name alone.
EndBefore_name(i) ==
  CASE i = 0 -> pk.end
    [] Kind = "vector" -> pk.end
    [] OTHER -> front[Entry(i)][1]

(* Popping gives back the entry, and of ci_array_t and ci_vector_t also what  *)
(* the removed item had at the end of the block.                              *)
EndBefore(i) ==
  CASE i = 0 -> pk.end
    [] Kind = "vector" -> front[Entry(i)][2]
    [] OTHER -> Min2(front[Entry(i)][1], front[Entry(i)][2])

Pop ==
  LET n == count - 1 IN
    /\ count > 0 /\ ~torn
    /\ pk' = set_pos(pk, IF Kind = "vector" THEN last ELSE Entry(count),
                     IF Kind = "ptr_array" THEN pk.endpos ELSE EndBefore(n))
    /\ count' = n /\ added' = SubSeq(added, 1, n)
    /\ IF Kind = "vector"
       THEN last' = Entry(n + 1) /\ front' = Set(front, Entry(n + 1), <<NULL, NULL>>)
       ELSE UNCHANGED <<last, front>>
    /\ UNCHANGED <<items, rear, torn>>

Next ==
  /\ ops < MaxOps /\ ops' = ops + 1
  /\ (\E v \in Values : ArrayAdd(v) \/ VectorAdd(v)) \/ Pop

Spec == Init /\ [][Next]_vars

-----------------------------------------------------------------------------
Cell(i) ==
  IF Entry(i) \in DOMAIN front THEN front[Entry(i)] ELSE <<UNSET, UNSET>>
Stored(i) ==
  LET v == Cell(i)[2] IN IF Kind = "ptr_array" \/ v < 0 THEN v ELSE rear[v]

(* The memory of the items: pairs of first address and end.                   *)
Regions ==
  {<<Entry(i), Entry(i + 1)>> : i \in 1 .. count}
  \cup {<<a, a + ALIGN(rear[a])>> :
          a \in UNION {{Cell(i)[k] : k \in 1 .. IF Kind = "ptr_array" THEN 1 ELSE 2}
                         : i \in 1 .. count} \ {NULL}}

(* An array or a vector holds what was added and not popped, in order; a      *)
(* vector ends with NULL; and no two names, values or index entries share     *)
(* memory, after any adds and pops, until an add fails for want of space      *)
(* after it took its index entry.                                             *)
PackedItemsKept ==
  ~torn =>
    /\ count = Len(added) /\ \A i \in 1 .. count : Stored(i) = added[i]
    /\ Kind = "vector" => Cell(count + 1)[2] = NULL /\ last = Entry(count + 1)
    /\ \A r \in Regions : /\ r[1] < r[2] /\ r[2] <= pk.end
                          /\ r[2] <= pk.curpos \/ r[1] >= pk.endpos
    /\ \A r, s \in Regions : r = s \/ r[2] <= s[1] \/ s[2] <= r[1]

(* ci_vector_iterate and ci_array_search only meet entries that were set.     *)
(* False after an add that failed for want of space and a smaller one that    *)
(* did not: see the README.                                                   *)
EntriesSet == \A i \in 1 .. count : Cell(i)[2] # UNSET

=============================================================================
