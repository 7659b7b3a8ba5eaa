---------------------------- MODULE PriorityQueue ----------------------------
(* The binary heap of util/priority_queue.c.                                  *)
EXTENDS Naturals, Sequences, SequencesExt, BagsExt

CONSTANTS HeapKeys, HeapValues, FirstCapacity,
  MaxHeap     \* bound: entries

VARIABLES heap, heap_capacity


HeapInit == heap = <<>> /\ heap_capacity = FirstCapacity

Swapped(h, i, j) == [h EXCEPT ![i] = h[j], ![j] = h[i]]

\* Indices start at 1 here, at 0 in the code.
RECURSIVE sift_up(_, _)
sift_up(h, i) ==
  IF i = 1 THEN h
  ELSE IF h[i \div 2].key <= h[i].key THEN h
  ELSE sift_up(Swapped(h, i, i \div 2), i \div 2)

\* Mutant: the right child is not looked at.
left_only(h, i) == IF 2 * i <= Len(h) /\ h[2 * i].key < h[i].key THEN 2 * i ELSE i

\* The smallest of an entry and its children.
SmallestChild(h, i) ==
  LET s == IF 2 * i > Len(h) THEN i ELSE IF h[2 * i].key < h[i].key THEN 2 * i ELSE i
  IN  IF 2 * i + 1 > Len(h) THEN s ELSE IF h[2 * i + 1].key < h[s].key THEN 2 * i + 1 ELSE s

RECURSIVE sift_down(_, _)
sift_down(h, i) ==
  LET s == SmallestChild(h, i) IN IF s = i THEN h ELSE sift_down(Swapped(h, i, s), s)

\* The array doubles when it is full; that may fail.
nxp_pq_push(k, v) ==
  /\ Len(heap) < MaxHeap
  /\ \/ /\ heap_capacity' = IF Len(heap) >= heap_capacity THEN 2 * heap_capacity ELSE heap_capacity
        /\ heap' = sift_up(Append(heap, [key |-> k, value |-> v]), Len(heap) + 1)
     \/ Len(heap) >= heap_capacity /\ UNCHANGED <<heap, heap_capacity>>

\* The entry popped is heap[1]; the last one takes its place.
nxp_pq_pop ==
  /\ heap # <<>>
  /\ heap' = IF Len(heap) = 1 THEN <<>> ELSE sift_down([Front(heap) EXCEPT ![1] = Last(heap)], 1)
  /\ UNCHANGED heap_capacity

HeapNext == nxp_pq_pop \/ \E k \in HeapKeys, v \in HeapValues : nxp_pq_push(k, v)

-----------------------------------------------------------------------------
\* A step that takes an entry out takes out one with the least key, and it only.
LeastLeaves ==
  Len(heap') < Len(heap) =>
    /\ \A i \in DOMAIN heap : heap[1].key <= heap[i].key
    /\ BagAdd(ToBag(heap'), heap[1]) = ToBag(heap)
=============================================================================
