CONSTANTS
  Threads = {t1, t2}
  Pages = {p1, p2, p3}
  Items = {a, b}
  NoThread = NoThread
  NoPage = NoPage
  NoItem = NoItem
  Zero = Zero
  PageCapacity = 2
  MaxItems = 3
SPECIFICATION QueueSpec
INVARIANTS TypeOK PagesAccountedFor QueueShape MemoryBounded
PROPERTIES FifoInPlace
SYMMETRY Symmetry
