-------------------------------- MODULE Pools --------------------------------
(* The allocators of memory/: fixed pools (pool.c, packet_buffer.c), the slab
   that grows by chunks (slab.c), and the arena (arena.c).  Callers free only
   what they hold, once, as the API demands.                                  *)
EXTENDS Naturals, Integers, Sequences, SequencesExt, FiniteSets, FiniteSetsExt

CONSTANTS
  Capacity,     \* objects of a pool
  ChunkCount,   \* objects of a chunk
  MaxChunks,    \* bound: chunks of a slab
  BlockSize,    \* bytes of an arena block
  Requests,     \* sizes and alignments asked of the arena
  MaxBlocks     \* bound: blocks of the arena

VARIABLES
  pool,    \* free_list, in_use, and the objects held by callers
  packets, \* free_list, free_count, held
  slab,    \* free_list, in_use, total_alloc, held
  blocks,  \* of the arena, newest first: capacity and used
  total_used, total_allocated,
  held     \* arena memory handed out since the last reset


UpTo(n) == [i \in 1..n |-> i]

-----------------------------------------------------------------------------
(* Pools and slab.                                                            *)

\* The free list is built from the last object to the first.
nxp_pool_create(n) == [free_list |-> UpTo(n), in_use |-> 0, held |-> {}]
nxp_packet_pool_create(n) == [free_list |-> UpTo(n), free_count |-> n, held |-> {}]

\* A chunk of fresh objects in front of the free list.
slab_grow(s) ==
  [s EXCEPT !.free_list = [i \in 1..ChunkCount |-> s.total_alloc + i] \o @, !.total_alloc = @ + ChunkCount]

nxp_slab_create == slab_grow([free_list |-> <<>>, in_use |-> 0, total_alloc |-> 0, held |-> {}])

PoolsInit ==
  pool = nxp_pool_create(Capacity) /\ packets = nxp_packet_pool_create(Capacity) /\ slab = nxp_slab_create

\* Mutant: the object stays on the list.
keeps_head(list) == list
Unlinked(list) == Tail(list)

nxp_pool_alloc ==
  /\ pool.free_list # <<>>
  /\ pool' = [free_list |-> Unlinked(pool.free_list), in_use |-> pool.in_use + 1,
              held |-> pool.held \cup {Head(pool.free_list)}]
  /\ UNCHANGED <<packets, slab>>

nxp_pool_free(o) ==
  /\ o \in pool.held
  /\ pool' = [free_list |-> <<o>> \o pool.free_list, in_use |-> pool.in_use - 1, held |-> pool.held \ {o}]
  /\ UNCHANGED <<packets, slab>>

nxp_packet_pool_get ==
  /\ packets.free_list # <<>>
  /\ packets' = [free_list |-> Unlinked(packets.free_list), free_count |-> packets.free_count - 1,
                 held |-> packets.held \cup {Head(packets.free_list)}]
  /\ UNCHANGED <<pool, slab>>

nxp_packet_pool_put(o) ==
  /\ o \in packets.held
  /\ packets' = [free_list |-> <<o>> \o packets.free_list, free_count |-> packets.free_count + 1,
                 held |-> packets.held \ {o}]
  /\ UNCHANGED <<pool, slab>>

\* Growing may fail for want of memory: nothing changes then.
nxp_slab_alloc ==
  LET s == IF slab.free_list = <<>> THEN slab_grow(slab) ELSE slab
  IN  /\ s.total_alloc <= MaxChunks * ChunkCount
      /\ slab' = [s EXCEPT !.free_list = Unlinked(@), !.in_use = @ + 1, !.held = @ \cup {Head(s.free_list)}]
      /\ UNCHANGED <<pool, packets>>

nxp_slab_free(o) ==
  /\ o \in slab.held
  /\ slab' = [slab EXCEPT !.free_list = <<o>> \o @, !.in_use = @ - 1, !.held = @ \ {o}]
  /\ UNCHANGED <<pool, packets>>

-----------------------------------------------------------------------------
(* The arena.  Its current block is always the newest one.  Offsets count from
   the start of the data of a block.                                          *)

Block(n, used) == [capacity |-> n, used |-> used]
ArenaInit == blocks = <<Block(BlockSize, 0)>> /\ total_used = 0 /\ total_allocated = BlockSize /\ held = {}

align_up(value, align) == ((value + align - 1) \div align) * align

\* Memory of block b, counted from the oldest, at an offset.
Region(b, off, size, align) == [block |-> b, off |-> off, size |-> size, align |-> align]

\* total_used is raised by what line 78 computes: nothing, since used was set
\* just before.
AllocInCurrent(size, align) ==
  LET off == align_up(blocks[1].used, align)
      used == off + size
  IN  /\ used <= blocks[1].capacity
      /\ blocks' = [blocks EXCEPT ![1].used = used]
      /\ total_used' = total_used + (off - used + size)
      /\ held' = held \cup {Region(Len(blocks), off, size, align)}
      /\ UNCHANGED total_allocated

AllocInNew(size, align) ==
  /\ align_up(blocks[1].used, align) + size > blocks[1].capacity
  /\ Len(blocks) < MaxBlocks
  /\ LET new_cap == IF size > BlockSize THEN size ELSE BlockSize
     IN  /\ blocks' = <<Block(new_cap, size)>> \o blocks
         /\ total_allocated' = total_allocated + new_cap
  /\ total_used' = total_used + size
  /\ held' = held \cup {Region(Len(blocks) + 1, 0, size, align)}

nxp_arena_alloc(size, align) == AllocInCurrent(size, align) \/ AllocInNew(size, align)

\* Everything handed out is given up by the callers.
nxp_arena_reset ==
  /\ blocks' = [i \in DOMAIN blocks |-> [blocks[i] EXCEPT !.used = 0]]
  /\ total_used' = 0 /\ held' = {}
  /\ UNCHANGED total_allocated

-----------------------------------------------------------------------------
PoolsNext ==
  \/ nxp_pool_alloc \/ nxp_packet_pool_get \/ nxp_slab_alloc
  \/ \E o \in 1..(Capacity + MaxChunks * ChunkCount) :
       nxp_pool_free(o) \/ nxp_packet_pool_put(o) \/ nxp_slab_free(o)

ArenaNext == nxp_arena_reset \/ \E r \in Requests : nxp_arena_alloc(r[1], r[2])

\* A free list and the objects held make up all objects, each of them once.
Partition(list, in_use, objects) ==
  /\ Len(list) + Cardinality(in_use) = Cardinality(objects)
  /\ ToSet(list) \cup in_use = objects

\* In whatever order objects are freed, no object is handed out twice at a
\* time and none is lost, in the pools and across the chunks of a slab, and the
\* counters say how many are held.
HandedOutOnce ==
  /\ Partition(pool.free_list, pool.held, 1..Capacity) /\ pool.in_use = Cardinality(pool.held)
  /\ Partition(packets.free_list, packets.held, 1..Capacity)
  /\ packets.free_count = Capacity - Cardinality(packets.held)
  /\ Partition(slab.free_list, slab.held, 1..slab.total_alloc) /\ slab.in_use = Cardinality(slab.held)

\* Regions the arena has handed out since the last reset lie inside their
\* block, at offsets of their alignment, and no two of them overlap.
ArenaDisjoint ==
  /\ \A r \in held : /\ r.off % r.align = 0
                     /\ r.off + r.size <= blocks[Len(blocks) + 1 - r.block].capacity
  /\ \A r, s \in held : (r # s /\ r.block = s.block) => (r.off + r.size <= s.off \/ s.off + s.size <= r.off)
=============================================================================
