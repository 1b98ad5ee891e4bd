------------------------------ MODULE MCLibrary ------------------------------
(* The parts of the library under the server, for TLC: allocators, arrays,    *)
(* lists, headers, bodies, caches, lookup tables, templates, log files, locks *)
(* and statistics. They do not call each other here: a behaviour is one of    *)
(* them, `which` says which, and its variables are the first of v1 .. v14, so *)
(* that the state spaces add up instead of multiplying.                       *)
(*                                                                            *)
(* Bounds. Sizes of blocks lie on both sides of the limits of the pools (64,  *)
(* 32768); an array of 260 bytes takes six calls; a list has up to four       *)
(* nodes and is changed while it is iterated over; header lists outgrow their *)
(* buffer and their table of pointers; the caches are smaller than what is    *)
(* stored, entries expire, a process may be killed; a directory table may     *)
(* lose its server once; two threads share templates and log files that       *)
(* expire, are rotated or cannot be opened; two children register, count, die *)
(* and are merged into the history while the totals are read.                 *)
EXTENDS Integers, Sequences, FiniteSets, TLC

VARIABLES which, v1, v2, v3, v4, v5, v6, v7, v8, v9, v10, v11, v12, v13, v14
vars == <<which, v1, v2, v3, v4, v5, v6, v7, v8, v9, v10, v11, v12, v13, v14>>

\* The variables from a number on, and that they are not used.
from14 == <<v14>>
Not14 == v14 = 0
from13 == <<v13, from14>>
Not13 == v13 = 0 /\ Not14
from12 == <<v12, from13>>
Not12 == v12 = 0 /\ Not13
from11 == <<v11, from12>>
Not11 == v11 = 0 /\ Not12
from10 == <<v10, from11>>
Not10 == v10 = 0 /\ Not11
from9 == <<v9, from10>>
Not9 == v9 = 0 /\ Not10
from8 == <<v8, from9>>
Not8 == v8 = 0 /\ Not9
from7 == <<v7, from8>>
Not7 == v7 = 0 /\ Not8
from6 == <<v6, from7>>
Not6 == v6 = 0 /\ Not7
from5 == <<v5, from6>>
Not5 == v5 = 0 /\ Not6

SomeLines == {<<"g">>, <<"a", ":", "x">>, <<"b", ":", "y", "z", "w">>, <<"a", ":">>}

\* Lines of a table file: a comment; a key without values and again with one; blanks before the values and an
\* empty value between and at the end; a pattern for any key and one that is not valid.
row(key, fields) == [key |-> key, fields |-> fields]
text(t) == [blank |-> FALSE, text |-> t]
blank(t) == [blank |-> TRUE, text |-> t]
TableLines ==
  {row("#", <<>>), row("a", <<>>), row("a", <<text("x")>>), row("b", <<blank("y"), blank(""), text("z")>>),
   row("c", <<text("x"), text("")>>), row("*", <<text("w")>>), row("[", <<>>)}
TableHash == [k \in {"a", "b", "c", "*", "["} |-> IF k \in {"a", "b"} THEN 1 ELSE 2]
Fits(pattern, key) == pattern = "*" \/ pattern = key
Valid(pattern) == pattern # "["

\* A format, two files that some requests are logged to, and one of them once more.
access_log(file, fmt, allow) == [d |-> "AccessLog", file |-> file, fmt |-> fmt, allow |-> allow]
LogLines ==
  <<[d |-> "LogFormat", name |-> "f", fmt |-> "x"], access_log("a", "f", {1, 2}), access_log("b", "none", {2}),
    access_log("a", "f", {1, 2})>>

-----------------------------------------------------------------------------
Buffers == INSTANCE Mem WITH Asks <- {64, 65, 40000}, ObjSizes <- {}, Chunks <- {128, 40000},
    Pieces <- {10, 96}, MaxBlocks <- 3, MaxPieces <- 4, mem <- v1, object_pools <- v2, serial <- v3,
    pieces <- v4
ObjectPools == INSTANCE Mem WITH Asks <- {}, ObjSizes <- {40, 56}, Chunks <- {}, Pieces <- {10, 96},
    MaxBlocks <- 3, MaxPieces <- 4, mem <- v1, object_pools <- v2, serial <- v3, pieces <- v4
Array == INSTANCE PackArray WITH Kind <- "array", Size <- 260, Values <- {3, 8, 20, 40}, MaxOps <- 6, pk <- v1,
    items <- v2, last <- v3, front <- v4, rear <- v5, count <- v6, added <- v7, torn <- v8, ops <- v9
PtrArray == INSTANCE PackArray WITH Kind <- "ptr_array", Size <- 260, Values <- {3, 8, 20, 40}, MaxOps <- 6,
    pk <- v1, items <- v2, last <- v3, front <- v4, rear <- v5, count <- v6, added <- v7, torn <- v8, ops <- v9
Vector == INSTANCE PackArray WITH Kind <- "vector", Size <- 260, Values <- {3, 8, 20, 40}, MaxOps <- 6,
    pk <- v1, items <- v2, last <- v3, front <- v4, rear <- v5, count <- v6, added <- v7, torn <- v8, ops <- v9
Stack == INSTANCE List WITH Nodes <- 1 .. 4, Objects <- {1, 2}, Calls <- {"push", "remove", "iterate"},
    FnCalls <- {"remove"}, list <- v1, next <- v2, item <- v3, iter <- v4, visited <- v5, contents <- v6
Deque == INSTANCE List WITH Nodes <- 1 .. 4, Objects <- {1, 2},
    Calls <- {"push", "push_back", "pop", "pop_back", "sort", "iterate"}, FnCalls <- {"pop", "pop_back"},
    list <- v1, next <- v2, item <- v3, iter <- v4, visited <- v5, contents <- v6
Heads == INSTANCE Headers WITH Lines <- SomeLines, Names <- {"a", "b"}, HEADSBUFSIZE <- 12,
    HEADERSTARTSIZE <- 2, MaxLines <- 4, MaxEdits <- 4, h <- v1, lines <- v2, cut <- v3, edits <- v4
Cached == INSTANCE CachedFile WITH CI_BODY_MAX_MEM <- 4, NewSizes <- {-1, 0, 2}, MaxCall <- 3, Total <- 6,
    buf <- v1, bufsize <- v2, file <- v3, fd <- v4, endpos <- v5, readpos <- v6, eof <- v7, uselock <- v8,
    unlocked <- v9, accepted <- v10, delivered <- v11, result <- v12, damaged <- v13
Local == INSTANCE LocalCache WITH Threads <- {"t", "u"}, Keys <- {"a", "b"}, Vals <- {"x", "y"},
    Hash <- [k \in {"a", "b"} |-> 1], HashSize <- 1, cache_items <- 2, ttl <- 1, MaxTime <- 5, now <- v1,
    entry <- v2, queue <- v3, hash_table <- v4, call <- v5, latest <- v6
Shared == INSTANCE SharedCache WITH Procs <- {"p", "q"}, Threads <- {1, 2, 3}, Proc <- <<"p", "p", "q">>,
    Keys <- {"a", "b"}, Hash <- [k \in {"a", "b"} |-> 0], Entries <- 2, PageSize <- 2, ttl <- 1, MaxTime <- 2,
    MaxCalls <- 3, MaxFaults <- 1, now <- v1, slot <- v2, scheme <- v3, lock <- v4, pc <- v5, cache_users <- v6,
    attached <- v7, destroyed <- v8, calls <- v9, kills <- v10, fails <- v11, latest <- v12, torn <- v13,
    crowded <- v14
Files == INSTANCE Tables WITH FileLines <- TableLines, Keys <- {"a", "b", "c"}, Hash <- TableHash,
    Matches <- Fits, Compiles <- Valid, MaxLines <- 3, file <- v1, types <- v2, table <- v3, state <- v4,
    heap <- v5
Directory == INSTANCE LdapTable WITH Threads <- {"t", "u"}, Tables <- {"a"}, Keys <- {"k"}, Vals <- {"x"},
    Pool <- [t \in {"a"} |-> "p"], Conns <- {"c1", "c2", "c3"}, MaxFailures <- 2, MaxSearches <- 3,
    MaxDowns <- 1, ttl <- 0, MaxTime <- 1, pools <- v1, directory <- v2, up <- v3, broken <- v4, cache <- v5,
    now <- v6, call <- v7, searches <- v8, downs <- v9, truth <- v10
Texts == INSTANCE Templates WITH Threads <- {"t", "u"}, Names <- {"p", "q"}, Accepted <- {<<"el">>},
    DEF_LANG <- "en", TEMPLATE_CACHE_SIZE <- 1, TEMPLATE_RELOAD_TIME <- 1, MaxTime <- 2, MaxCalls <- 3,
    now <- v1, files <- v2, templates <- v3, private <- v4, call <- v5, calls <- v6
LogFiles == INSTANCE Logs WITH Threads <- {"t", "u"}, Lines <- LogLines, MaxRequests <- 2, MaxFails <- 1,
    MaxRotations <- 1, SERVER_LOG <- "server", conf <- v1, formats <- v2, logs <- v3, gen <- v4, readers <- v5,
    writer <- v6, call <- v7, relog <- v8, fails <- v9, requests <- v10, lines <- v11, bad <- v12
ProcLocks == INSTANCE Locks WITH Procs <- {"p", "q"}, Threads <- {1, 2}, FileThreads <- {1},
    Mutexes <- {"a", "b", "c"}, MaxDeaths <- 1, scheme <- v1, sem <- v2, undo <- v3, flock <- v4, pc <- v5,
    died_in <- v6, mutexes <- v7, last <- v8, locked <- v9, live <- v10, missed <- v11
Counters == INSTANCE Stats WITH Pids <- {1, 2}, Size <- 2, Labels <- <<"req", "req">>, KB <- 4, Counts <- {3},
    MaxCounts <- 6, slot <- v1, history <- v2, child <- v3, info <- v4, counted <- v5, amiss <- v6,
    disturbed <- v7

Init ==
  \/ which = "buffers" /\ Buffers!Init /\ Not5
  \/ which = "objects" /\ ObjectPools!Init /\ Not5
  \/ which = "array" /\ Array!Init /\ Not10
  \/ which = "ptr_array" /\ PtrArray!Init /\ Not10
  \/ which = "vector" /\ Vector!Init /\ Not10
  \/ which = "stack" /\ Stack!Init /\ Not7
  \/ which = "deque" /\ Deque!Init /\ Not7
  \/ which = "headers" /\ Heads!Init /\ Not5
  \/ which = "cached file" /\ Cached!Init /\ Not14
  \/ which = "local cache" /\ Local!Init /\ Not7
  \/ which = "shared cache" /\ Shared!Init
  \/ which = "tables" /\ Files!Init /\ Not6
  \/ which = "directory" /\ Directory!Init /\ Not11
  \/ which = "templates" /\ Texts!Init /\ Not7
  \/ which = "logs" /\ LogFiles!Init /\ Not13
  \/ which = "locks" /\ ProcLocks!Init /\ Not12
  \/ which = "stats" /\ Counters!Init /\ Not8

Next ==
  \/ which = "buffers" /\ Buffers!Next /\ UNCHANGED <<which, from5>>
  \/ which = "objects" /\ ObjectPools!Next /\ UNCHANGED <<which, from5>>
  \/ which = "array" /\ Array!Next /\ UNCHANGED <<which, from10>>
  \/ which = "ptr_array" /\ PtrArray!Next /\ UNCHANGED <<which, from10>>
  \/ which = "vector" /\ Vector!Next /\ UNCHANGED <<which, from10>>
  \/ which = "stack" /\ Stack!Next /\ UNCHANGED <<which, from7>>
  \/ which = "deque" /\ Deque!Next /\ UNCHANGED <<which, from7>>
  \/ which = "headers" /\ Heads!Next /\ UNCHANGED <<which, from5>>
  \/ which = "cached file" /\ Cached!Next /\ UNCHANGED <<which, from14>>
  \/ which = "local cache" /\ Local!Next /\ UNCHANGED <<which, from7>>
  \/ which = "shared cache" /\ Shared!Next /\ UNCHANGED which
  \/ which = "tables" /\ Files!Next /\ UNCHANGED <<which, from6>>
  \/ which = "directory" /\ Directory!Next /\ UNCHANGED <<which, from11>>
  \/ which = "templates" /\ Texts!Next /\ UNCHANGED <<which, from7>>
  \/ which = "logs" /\ LogFiles!Next /\ UNCHANGED <<which, from13>>
  \/ which = "locks" /\ ProcLocks!Next /\ UNCHANGED <<which, from12>>
  \/ which = "stats" /\ Counters!Next /\ UNCHANGED <<which, from8>>

Spec == Init /\ [][Next]_vars

-----------------------------------------------------------------------------
(* Memory that was given out belongs to its owner alone until it is given     *)
(* back: buffers, objects of the pools and pieces of the serial allocator do  *)
(* not overlap and are as large as was asked for (mem.c), and arrays and      *)
(* vectors packed into one block from both ends keep every item that was      *)
(* added until an add fails for want of space (array.c).                      *)
MemoryKept ==
  /\ which = "buffers" => Buffers!MemSound
  /\ which = "objects" => ObjectPools!MemSound
  /\ which = "array" => Array!PackedItemsKept
  /\ which = "ptr_array" => PtrArray!PackedItemsKept
  /\ which = "vector" => Vector!PackedItemsKept

(* Containers hold what was put into them: a list is the sequence its calls   *)
(* describe and an iteration meets every item once, also when the function it *)
(* calls removes items (ci_list_iterate); headers keep their lines and their  *)
(* pointers when the buffer moves, a line is removed or the list is packed    *)
(* and unpacked; a body that moves from memory to a file is read as it was    *)
(* written (ci_cached_file_read).                                             *)
ContainersKept ==
  /\ which = "stack" => Stack!ListIsSequence
  /\ which = "deque" => Deque!ListIsSequence
  /\ which = "headers" => Heads!HeadersKept
  /\ which = "cached file" => Cached!CachedExact

(* A cache answers with the value stored last for the key, never after it has *)
(* expired, and its chains hold every entry once (cache.c); so does the       *)
(* shared cache between processes of which one may be killed, except for a    *)
(* slot it was killed writing, and its memory stays while a process has it    *)
(* attached (shared_cache.c).                                                 *)
CachesTrue ==
  /\ which = "local cache" => Local!CacheExact /\ Local!ChainsWhole
  /\ which = "shared cache" => Shared!SharedHitTrue /\ Shared!MemoryWhileUsed

(* A lookup finds a key if and only if the file has a row for it and answers  *)
(* with such a row, and what a table allocated is released with it            *)
(* (lookup_file_table.c, hash.c); a connection to a directory server is used  *)
(* by one thread at a time, and pools and their counters agree through        *)
(* failures and retries (ldap_module.c).                                      *)
TablesTrue ==
  /\ which = "tables" => Files!TablesAnswer
  /\ which = "directory" => Directory!PoolsSound

(* What a thread uses is not taken from under it: a template is neither freed *)
(* nor replaced while a thread formats it (txtTemplate.c), and relog closes   *)
(* no log file that a thread writes to and loses no line as long as it can    *)
(* open the files again (log.c).                                              *)
HeldWhileUsed ==
  /\ which = "templates" => Texts!TemplatesHeld
  /\ which = "logs" => LogFiles!LogsWhole

(* A mutex between processes excludes, and is free again when its holder has  *)
(* died, unless it is a POSIX semaphore; a new child finds every thread mutex *)
(* unlocked but for those del_mutex has lost (proc_mutex.c, threads.c).       *)
LocksSound == which = "locks" => ProcLocks!LocksSound

(* Nothing that a child counted is lost or counted twice when it dies and its *)
(* block is merged into the history, and the info service reports totals      *)
(* between those before and after it read them, unless a child came or went   *)
(* meanwhile (stats.c, info.c).                                               *)
StatsSound == which = "stats" => Counters!StatsExact /\ Counters!InfoTrue
=============================================================================
