----------------------------- MODULE Containers ------------------------------
(* The containers of util/ and the allocators of memory/, each on its own.    *)
EXTENDS HashMap, TLC

CONSTANTS Requested, Wrap, MaxLen,
  HeapKeys, HeapValues, FirstCapacity, MaxHeap,
  Capacity, ChunkCount, MaxChunks, BlockSize, MaxBlocks

VARIABLES part,
  rb_data, write_pos, read_pos, wr, rd, rb_wrong,
  heap, heap_capacity,
  pool, packets, slab, blocks, total_used, total_allocated, held

\* Keys have no order: hash ranges over all functions.
KeySymmetry == Permutations(Keys)

\* Sizes and alignments: within a block, to its end, longer than a block.
Requests == {<<1, 1>>, <<2, 2>>, <<3, 4>>, <<BlockSize + 1, 1>>}

R == INSTANCE RingBuffer
Q == INSTANCE PriorityQueue
P == INSTANCE Pools

ContInit ==
  /\ part \in {"ring", "hash", "heap", "pools", "arena"}
  /\ R!RingInit /\ Q!HeapInit /\ P!PoolsInit /\ P!ArenaInit
  /\ HashInit /\ (part # "hash" => hash = [k \in Keys |-> 0])

ring_vars == <<rb_data, write_pos, read_pos, wr, rd, rb_wrong>>
heap_vars == <<heap, heap_capacity>>
pool_vars == <<pool, packets, slab>>
arena_vars == <<blocks, total_used, total_allocated, held>>

ContNext ==
  /\ UNCHANGED part
  /\ \/ part = "ring" /\ R!RingNext /\ UNCHANGED <<hm_vars, heap_vars, pool_vars, arena_vars>>
     \/ part = "hash" /\ HashNext /\ UNCHANGED <<ring_vars, heap_vars, pool_vars, arena_vars>>
     \/ part = "heap" /\ Q!HeapNext /\ UNCHANGED <<ring_vars, hm_vars, pool_vars, arena_vars>>
     \/ part = "pools" /\ P!PoolsNext /\ UNCHANGED <<ring_vars, hm_vars, heap_vars, arena_vars>>
     \/ part = "arena" /\ P!ArenaNext /\ UNCHANGED <<ring_vars, hm_vars, heap_vars, pool_vars>>

ContSpec == ContInit /\ [][ContNext]_<<part, ring_vars, hm_vars, heap_vars, pool_vars, arena_vars>>

-----------------------------------------------------------------------------
\* RingBuffer: the consumer reads what the producer wrote, in order, and the
\* counts stay in range across the wrap of size_t (nxp_ring_buf_write, _read).
RingIsFifo == R!RingIsFifo /\ R!RingCounts
\* Pools: memory that is handed out belongs to one holder; no object of a pool
\* or slab is lost, and regions of the arena do not overlap.
MemoryIsDisjoint == P!HandedOutOnce /\ P!ArenaDisjoint

\* PriorityQueue: nxp_pq_pop returns an entry with the least key and takes out
\* that entry only, after any pushes and pops.
PopsLeast == [][Q!LeastLeaves]_heap_vars

\* HashMap: for every hash function, puts, removals and resizes leave exactly
\* the keys and values a function from keys to values would hold; what
\* nxp_hash_map_get finds is that function.
M == INSTANCE AbstractMap WITH m <- [k \in Keys |-> nxp_hash_map_get(k)]
HashMapIsMap == M!MapSpec
=============================================================================
