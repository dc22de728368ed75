SPECIFICATION Spec
CONSTANTS
  p1 = p1 p2 = p2 p3 = p3 d1 = d1 d2 = d2 d3 = d3 b1 = b1
  NoPid = NoPid NoEntry = NoEntry
  Procs = {p1, p2, p3}
  Entries = {d1, d2, d3}
  OwnerOf <- Owner3
  TypeOf <- Type3
  MaxEntries = 1
  MaxReadRetries = 2
  Removable = {d1}
  Sweepers = {p2, p3}
  Queriers = {p3}
  Crashers = {p1}
  CrashMidMutation = FALSE
  ReuseInWindow = FALSE
INVARIANTS NoTornSnapshot LiveEntryIntact CacheCoversGeneration
PROPERTY SweepsOnlyTheDead
CHECK_DEADLOCK FALSE
