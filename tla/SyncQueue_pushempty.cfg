CONSTANTS
  Threads = {t1, t2}
  Pages = {p1, p2, p3}
  Items = {a}
  NoThread = NoThread
  NoPage = NoPage
  NoItem = NoItem
  Zero = Zero
  PageCapacity = 2
  MaxItems = 2
SPECIFICATION Spec
INVARIANT PopsWholeItems
