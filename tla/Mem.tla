-------------------------------- MODULE Mem --------------------------------
(* The memory of the library (mem.c): the pools of buffers that ci_buffer_*   *)
(* choose by size, the pools of objects, and the serial allocator that takes  *)
(* its chunks from the buffers. A pool's mutex makes each of its calls one    *)
(* step; a reallocation takes two of them on blocks only its caller knows.    *)
(* malloc does not fail. Sizes are the program's, with 8-byte alignment.      *)
EXTENDS Integers, Sequences, FiniteSets, TLC
LOCAL INSTANCE SequencesExt

CONSTANTS
  Asks,        \* sizes callers ask ci_buffer_alloc and ci_buffer_realloc for
  ObjSizes,    \* sizes of registered objects
  Chunks,      \* sizes ci_create_serial_allocator is called with
  Pieces,      \* sizes asked of the serial allocator
  MaxBlocks,   \* bound: blocks malloc gives out
  MaxPieces    \* bound: pieces of one serial allocator between resets

VARIABLES
  mem,         \* blk: blocks by address; pool: the buffer pools by item size
  object_pools,\* the registered pools of objects, NULL where unregistered
  serial,      \* chunks of the serial allocator, in list order
  pieces       \* what the serial allocator gave out since its last reset

vars == <<mem, object_pools, serial, pieces>>

ALIGN(n) == ((n + 7) \div 8) * 8
SERIAL == 32       \* sizeof(serial_allocator_t)
ALLOCATOR == 56    \* sizeof(ci_mem_allocator_t)

short_buffer(type) ==
  CASE type = 0 -> 64 [] type = 1 -> 128 [] type \in 2 .. 3 -> 256
    [] type \in 4 .. 7 -> 512 [] type \in 8 .. 15 -> 1024

\* The item size of the pool for a block of n bytes, 0 when none is that large.
pool_of(n) ==
  LET type == (n - 1) \div 64 IN
    IF type < 16 THEN short_buffer(type)
    ELSE IF type < 512 THEN 32 * short_buffer(type \div 32) ELSE 0

BufferSizes == {short_buffer(t) : t \in 0 .. 15} \cup {32 * short_buffer(t) : t \in 0 .. 15}

ci_buffers_init == [p \in BufferSizes |-> [free |-> <<>>, allocated |-> 0]]

-----------------------------------------------------------------------------
(* A pool hands out the block freed last, or a new one of its item size. The  *)
(* items of `allocated` carry no block: only their number matters.            *)
Used(b, sig, id) == [b EXCEPT !.at = "user", !.sig = sig, !.ID = id]
Unused(b, where) == [b EXCEPT !.at = where, !.sig = "none", !.ID = 0]

\* malloc: an address that is free, or the next one.
malloc(blk, cap) ==
  LET gone == {i \in DOMAIN blk : blk[i].at = "gone"}
      new == [cap |-> cap, ID |-> 0, sig |-> "none", at |-> "user"]
      i == CHOOSE k \in gone : \A j \in gone : k <= j
  IN IF gone = {} THEN [blk |-> Append(blk, new), b |-> Len(blk) + 1]
     ELSE [blk |-> [blk EXCEPT ![i] = new], b |-> i]

free(blk, b) == [blk EXCEPT ![b] = [Unused(@, "gone") EXCEPT !.cap = 0]]

pool_allocator_alloc(blk, pool, cap) ==
  IF pool.free # <<>>
  THEN [blk |-> blk, b |-> Head(pool.free),
        pool |-> [free |-> Tail(pool.free), allocated |-> pool.allocated + 1]]
  ELSE malloc(blk, cap) @@ [pool |-> [pool EXCEPT !.allocated = @ + 1]]

pool_allocator_free(blk, pool, b) ==
  IF pool.allocated = 0
  THEN [blk |-> free(blk, b), pool |-> pool]
  ELSE [blk |-> [blk EXCEPT ![b] = Unused(@, "pool")],
        pool |-> [free |-> <<b>> \o pool.free, allocated |-> pool.allocated - 1]]

pool_allocator_reset(blk, pool) ==
  [i \in DOMAIN blk |->
     IF \E k \in DOMAIN pool.free : pool.free[k] = i
     THEN free(blk, i)[i] ELSE blk[i]]

ci_buffer_alloc(m, n) ==
  IF pool_of(n) = 0
  THEN LET a == malloc(m.blk, n) IN
         [m |-> [m EXCEPT !.blk = [a.blk EXCEPT ![a.b] = Used(@, "buffer", n)]],
          b |-> a.b]
  ELSE LET a == pool_allocator_alloc(m.blk, m.pool[pool_of(n)], pool_of(n)) IN
         [m |-> [blk |-> [a.blk EXCEPT ![a.b] = Used(@, "buffer", n)],
                 pool |-> [m.pool EXCEPT ![pool_of(n)] = a.pool]],
          b |-> a.b]

ci_buffer_blocksize(m, b) ==
  IF m.blk[b].sig # "buffer" THEN 0
  ELSE IF pool_of(m.blk[b].ID) # 0 THEN pool_of(m.blk[b].ID) ELSE m.blk[b].ID

\* A bug: the block goes back to the pool of the next size.
ci_buffer_free_next(m, b) ==
  LET p == pool_of(m.blk[b].ID + 64)
      f == pool_allocator_free(m.blk, m.pool[p], b)
  IN [blk |-> f.blk, pool |-> [m.pool EXCEPT ![p] = f.pool]]

ci_buffer_free(m, b) ==
  LET p == pool_of(m.blk[b].ID) IN
    IF m.blk[b].sig # "buffer" THEN m
    ELSE IF p = 0 THEN [m EXCEPT !.blk = free(@, b)]
    ELSE LET f == pool_allocator_free(m.blk, m.pool[p], b) IN
           [blk |-> f.blk, pool |-> [m.pool EXCEPT ![p] = f.pool]]

(* A buffer that is too small is replaced by a larger one, with as many bytes *)
(* copied as were asked for last; otherwise it only notes its new size, also  *)
(* when that belongs to another pool.                                         *)
ci_buffer_realloc(m, b, n) ==
  IF n > ci_buffer_blocksize(m, b)
  THEN LET a == ci_buffer_alloc(m, n) IN [m |-> ci_buffer_free(a.m, b), b |-> a.b]
  ELSE [m |-> [m EXCEPT !.blk[b].ID = n], b |-> b]

-----------------------------------------------------------------------------
(* The serial allocator: chunks in a list, each filled from its start. A      *)
(* chunk is [b: its buffer, size: endpos - memchunk, cur: curpos - memchunk]. *)
serial_allocator_build(m, n) ==
  LET a == ci_buffer_alloc(m, ALIGN(n)) IN
    [m |-> a.m, chunk |-> [b |-> a.b, cur |-> 0,
                           size |-> ci_buffer_blocksize(a.m, a.b) - SERIAL]]

Room(chunk) == chunk.size - chunk.cur

\* The first chunk with room, or one more chunk of the first one's size.
serial_allocation(m, sa, n) ==
  LET size == ALIGN(n)
      fit == {i \in DOMAIN sa : Room(sa[i]) >= size}
      i == CHOOSE k \in fit : \A j \in fit : k <= j
      new == serial_allocator_build(m, sa[1].size)
  IN IF size > sa[1].size THEN [m |-> m, sa |-> sa, piece |-> <<>>]
     ELSE IF fit # {}
     THEN [m |-> m, sa |-> [sa EXCEPT ![i].cur = @ + size],
           piece |-> <<sa[i].b, sa[i].cur, sa[i].cur + n>>]
     ELSE [m |-> new.m, sa |-> Append(sa, [new.chunk EXCEPT !.cur = size]),
           piece |-> <<new.chunk.b, 0, n>>]


-----------------------------------------------------------------------------
Init ==
  /\ mem = [blk |-> <<>>, pool |-> ci_buffers_init]
  /\ object_pools = <<>> /\ serial = <<>> /\ pieces = {}

Held(sig) == {b \in DOMAIN mem.blk : mem.blk[b].at = "user" /\ mem.blk[b].sig = sig}
Chunk_blocks == {serial[i].b : i \in DOMAIN serial}
Buffers == Held("buffer") \ Chunk_blocks
Within ==
  /\ Len(mem'.blk) <= MaxBlocks
  /\ \A p \in BufferSizes : mem'.pool[p].allocated <= MaxBlocks

BufferAlloc ==
  /\ \E n \in Asks : mem' = ci_buffer_alloc(mem, n).m
  /\ Within
  /\ UNCHANGED <<object_pools, serial, pieces>>

BufferRealloc ==
  /\ \E b \in Buffers, n \in Asks : mem' = ci_buffer_realloc(mem, b, n).m
  /\ Within
  /\ UNCHANGED <<object_pools, serial, pieces>>

BufferFree ==
  /\ \E b \in Buffers : mem' = ci_buffer_free(mem, b)
  /\ UNCHANGED <<object_pools, serial, pieces>>

(* Objects: a pool per registered type, in the first empty slot. Their number *)
(* object_pools_used also grows when a slot is used again; the slot it then   *)
(* counts was never set, and may read as empty or not. An object belongs to   *)
(* the pool that its block's ID names. A type is unregistered when its users  *)
(* are gone (release_body_system).                                            *)
NewPool(size) == [size |-> size, free |-> <<>>, allocated |-> 0]
Unset == {<<>>, NewPool(0)}

ci_object_pool_register ==
  LET empty == {i \in DOMAIN object_pools : object_pools[i] = <<>>}
      first == CHOOSE i \in empty : \A j \in empty : i <= j
  IN /\ Len(object_pools) < MaxBlocks
     /\ \E size \in ObjSizes, u \in Unset :
          object_pools' =
            IF empty = {} THEN Append(object_pools, NewPool(size))
            ELSE Append([object_pools EXCEPT ![first] = NewPool(size)], u)
     /\ UNCHANGED <<mem, serial, pieces>>

ci_object_pool_unregister ==
  /\ \E id \in DOMAIN object_pools :
       /\ object_pools[id] \notin Unset
       /\ \A b \in Held("object") : mem.blk[b].ID # id
       /\ mem' = [mem EXCEPT !.blk = pool_allocator_reset(@, object_pools[id])]
       /\ object_pools' = [object_pools EXCEPT ![id] = <<>>]
  /\ UNCHANGED <<serial, pieces>>

Items(p) == [free |-> p.free, allocated |-> p.allocated]

ci_object_pool_alloc ==
  /\ \E id \in DOMAIN object_pools :
       /\ object_pools[id] \notin Unset
       /\ LET p == object_pools[id]
              a == pool_allocator_alloc(mem.blk, Items(p), p.size)
          IN /\ mem' = [mem EXCEPT !.blk = [a.blk EXCEPT ![a.b] = Used(@, "object", id)]]
             /\ object_pools' = [object_pools EXCEPT ![id] = a.pool @@ [size |-> p.size]]
  /\ Within /\ UNCHANGED <<serial, pieces>>

ci_object_pool_free ==
  /\ \E b \in Held("object") :
       LET id == mem.blk[b].ID
           f == pool_allocator_free(mem.blk, Items(object_pools[id]), b)
       IN /\ mem' = [mem EXCEPT !.blk = f.blk]
          /\ object_pools' = [object_pools EXCEPT
                                ![id] = f.pool @@ [size |-> object_pools[id].size]]
  /\ UNCHANGED <<serial, pieces>>

(* ci_create_serial_allocator: the first piece is the ci_mem_allocator_t.     *)
SerialCreate ==
  /\ serial = <<>>
  /\ \E n \in Chunks :
       LET new == serial_allocator_build(mem, n)
           a == serial_allocation(new.m, <<new.chunk>>, ALLOCATOR)
       IN /\ ALIGN(n) >= SERIAL + ALLOCATOR
          /\ mem' = a.m /\ serial' = a.sa /\ pieces' = {a.piece}
  /\ Within /\ UNCHANGED object_pools

SerialAlloc ==
  /\ serial # <<>> /\ Cardinality(pieces) < MaxPieces
  /\ \E n \in Pieces :
       LET a == serial_allocation(mem, serial, n) IN
         /\ a.piece # <<>>
         /\ mem' = a.m /\ serial' = a.sa /\ pieces' = pieces \cup {a.piece}
  /\ Within /\ UNCHANGED object_pools

FreeChunks(m, sa) == FoldLeft(LAMBDA x, c : ci_buffer_free(x, c.b), m, sa)

serial_allocator_reset ==
  /\ serial # <<>>
  /\ mem' = FreeChunks(mem, Tail(serial))
  /\ serial' = <<[serial[1] EXCEPT !.cur = ALIGN(ALLOCATOR)]>>
  /\ pieces' = {p \in pieces : p[1] = serial[1].b /\ p[2] = 0}
  /\ UNCHANGED object_pools

serial_allocator_destroy ==
  /\ serial # <<>>
  /\ mem' = FreeChunks(mem, serial)
  /\ serial' = <<>> /\ pieces' = {} /\ UNCHANGED object_pools

Next ==
  \/ BufferAlloc \/ BufferRealloc \/ BufferFree
  \/ ci_object_pool_register \/ ci_object_pool_unregister
  \/ ci_object_pool_alloc \/ ci_object_pool_free
  \/ SerialCreate \/ SerialAlloc \/ serial_allocator_reset \/ serial_allocator_destroy

Spec == Init /\ [][Next]_vars

-----------------------------------------------------------------------------
(* Every block is as large as its holder may use it: as the pool it lies in   *)
(* promises to the next one who asks, and as ci_buffer_blocksize states for a *)
(* held buffer, after any mixture of reallocations that move a block to a     *)
(* smaller pool and frees there.                                              *)
BlocksFit ==
  /\ \A b \in Held("buffer") : mem.blk[b].cap >= ci_buffer_blocksize(mem, b)
  /\ \A b \in Held("object") : mem.blk[b].cap >= object_pools[mem.blk[b].ID].size
  /\ \A p \in BufferSizes, i \in 1 .. MaxBlocks :
       i <= Len(mem.pool[p].free) => mem.blk[mem.pool[p].free[i]].cap >= p

\* Where the free lists hold block b.
InPools(b) ==
  {<<p, i>> \in BufferSizes \X (1 .. MaxBlocks) :
     i <= Len(mem.pool[p].free) /\ mem.pool[p].free[i] = b}
  \cup {<<k, i>> \in (DOMAIN object_pools) \X (1 .. MaxBlocks) :
     object_pools[k] # <<>> /\ i <= Len(object_pools[k].free)
     /\ object_pools[k].free[i] = b}

(* A block has one owner: it lies once in one free list, or someone holds it, *)
(* or it went back to the system.                                             *)
OneOwner ==
  \A b \in DOMAIN mem.blk :
    Cardinality(InPools(b)) = IF mem.blk[b].at = "pool" THEN 1 ELSE 0

(* What the serial allocator gave out since its last reset lies inside its    *)
(* chunks, which it owns, and no two pieces share a byte.                     *)
PiecesApart ==
  /\ \A p \in pieces :
       \E i \in DOMAIN serial : /\ p[1] = serial[i].b
                                /\ p[3] <= serial[i].cur /\ serial[i].cur <= serial[i].size
  /\ \A p, q \in pieces : p[1] = q[1] => p = q \/ p[3] <= q[2] \/ q[3] <= p[2]
  /\ \A c \in Chunk_blocks : mem.blk[c].at = "user"

(* The allocators' correctness: blocks fit, have one owner, and pieces of a   *)
(* serial allocator are apart.                                                *)
MemSound == BlocksFit /\ OneOwner /\ PiecesApart

=============================================================================
