SPECIFICATION Spec
CONSTANTS
  t1 = t1 t2 = t2 NoThread = NoThread
  Threads = {t1}
  MaxMessages = 5
  Sizes = {1, 3}
  Slack = 2
  MinCells = 4
  SeqMod = 1024
  SockCap = 1
  MayFail = TRUE
  CrowdedCache = TRUE
INVARIANTS RecentRecordsIntact
PROPERTY ImplementsChannel
CHECK_DEADLOCK FALSE
