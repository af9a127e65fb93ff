CONSTANTS
  Zero = Zero
  Unwritten = Unwritten
  Producers = {p1, p2}
  Lens = {2}
  TextCapacity = 8
  EntryCapacity = 2
  MaxLogs = 2
  MaxBacklog = 2
SPECIFICATION FairSpec
INVARIANTS PrintedAsLogged PermitsMatchEntries
PROPERTIES ShutdownReturns LoggedIsPrinted
CHECK_DEADLOCK FALSE
