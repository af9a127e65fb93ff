CONSTANTS
  Components = {"array", "buckets", "hashtable", "ring", "heap", "arena", "strings"}
  ArrayNames = {n1, n2}
  ArrayItems = {x}
  Capacities = {2}
  ArrayBlocks = {1, 2}
  Buffer = 0
  BufferLen = 1
  NoBlock = NoBlock
  NoContents = Freed
  Items = {x, y}
  Zero = Zero
  Junk = Junk
  RingSize = 4
  BucketSizes = {2}
  ReserveSizes = {1, 3}
  Chunks <- SomeChunks
  MinBuffer = 1
  BucketBlocks = {1, 2, 3}
  itemA = x
  itemB = y
  keyA = k1
  keyB = k2
  keyC = k3
  keyD = k4
  Keys = {k1, k2, k3, k4}
  Values = {x, Zero}
  ZeroKey = NoKey
  Default = Zero
  Hash <- Hashes
  MinCapacity = 2
  Expected = {0, 1, 3}
  MaxCapacity = 8
  MaxBits = 5
  HeapSize = 23
  HeapHeader = 2
  MinSplit = 1
  HeapSizes = {1, 3, 6}
  PageSize = 4
  PageHeader = 1
  ArenaSizes = {1, 2, 4}
  Alignments = {1, 2}
  PageBases = {1, 2}
  NoBase = 0
  MaxScopes = 2
  Names = {n1, n2, n3}
  StringBlocks = {b1, b2, b3, b4}
  Literals = {noText, textA, textB}
  NoText = noText
  Null = Null
SPECIFICATION AllSpec
INVARIANTS BlocksAccountedFor HashtableSearchEnds HeapBlocksTile StringBlocksHaveOwners
PROPERTIES ContainersImplementAbstract ArenaBlocksIntact
SYMMETRY Symmetry
CHECK_DEADLOCK FALSE
