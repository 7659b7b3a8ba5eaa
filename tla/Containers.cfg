SPECIFICATION ContSpec
CONSTANTS
  Keys = {k1, k2, k3, k4}
  Values = {u, v}
  None = None
  Hashes = {0, 3, 7}
  MinCapacity = 4
  Requested = 3
  Wrap = 16
  MaxLen = 5
  HeapKeys = {1, 2, 3}
  HeapValues = {u, v}
  FirstCapacity = 2
  MaxHeap = 5
  Capacity = 3
  ChunkCount = 2
  MaxChunks = 2
  BlockSize = 8
  MaxBlocks = 2
SYMMETRY KeySymmetry
INVARIANTS
  RingIsFifo
  MemoryIsDisjoint
PROPERTIES
  PopsLeast
  HashMapIsMap
CHECK_DEADLOCK FALSE
