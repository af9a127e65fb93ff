CONSTANTS
  Components = {"semaphore", "preshing", "benaphore", "recursive", "ring", "table", "file"}
  t1 = t1
  t2 = t2
  t3 = t3
  t4 = t4
  a = a
  b = b
  h1 = h1
  h2 = h2
  j1 = j1
  j2 = j2
  NoThread = NoThread
  Threads = {t1, t2, t3}
  MaxDepth = 3
  Amounts = {1, 2}
  SemaphoreMax = 3
  PreshingMax = 2
  BenaphoreThreads <- Threads4
  RingThreads <- Threads2
  RingItems = {a}
  RingCapacity = 2
  RangeLens = {1}
  Handles <- Handles2
  Jobs = {j1, j2}
  TableCapacity = 3
  Callers <- Threads2
  Bytes = {a, b}
  ChunkLists <- SomeChunks
  Unwritten = Unwritten
  NoItem = NoItem
  NoSlot = NoSlot
  NoHandle = NoHandle
  NoJob = NoJob
  Garbage = Garbage
  NoFile = NoFile
  Null = Null
SPECIFICATION AllFairSpec
INVARIANTS SemaphoreNoLostWakeup PreshingSleepersAccountedFor BenaphoreOneBaton RecursiveOneBaton
PROPERTIES SemaphoresImplementPermits BenaphoresImplementLocks WaitersWake RingSlotsInOrder
  TableStartsRight FilesAreWhole
CHECK_DEADLOCK FALSE
