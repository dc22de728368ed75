SPECIFICATION FairSpec
CONSTANTS
  p1 = p1 p2 = p2 p3 = p3 d1 = d1 d2 = d2 d3 = d3 b1 = b1
  NoPid = NoPid NoEntry = NoEntry
  Procs = {p1, p2}
  Entries = {d1, d2, b1}
  OwnerOf <- OwnerBell
  TypeOf <- TypeBell
  MaxEntries = 2
  MaxReadRetries = 2
  Removable = {d1, d2, b1}
  Sweepers = {p2}
  Queriers = {}
  Crashers = {p1}
  CrashMidMutation = FALSE
  ReuseInWindow = FALSE
INVARIANTS HighWaterCovers RingHitsOnlyDoorbells
PROPERTY OrphansReclaimed
CHECK_DEADLOCK FALSE
