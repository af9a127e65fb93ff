CONSTANTS
  Zero = Zero
  Unwritten = Unwritten
  Producers = {p1, p2}
  Lens = {1}
  TextCapacity = 8
  EntryCapacity = 2
  MaxLogs = 2
  MaxBacklog = 2
SPECIFICATION Spec
INVARIANT TakesWholeEntries
CHECK_DEADLOCK FALSE
