SPECIFICATION Spec
CONSTANTS
  p1 = p1 p2 = p2 p3 = p3 d1 = d1 d2 = d2 d3 = d3 b1 = b1
  NoPid = NoPid NoEntry = NoEntry
  Procs = {p1, p2}
  Entries = {d1, d2}
  OwnerOf <- Owner2
  TypeOf <- Type2
  MaxEntries = 1
  MaxReadRetries = 2
  Removable = {d1, d2}
  Sweepers = {}
  Queriers = {}
  Crashers = {}
  CrashMidMutation = FALSE
  ReuseInWindow = TRUE
INVARIANT LiveEntryIntact
CHECK_DEADLOCK FALSE
