SPECIFICATION FairSpec
CONSTANTS
  w1 = w1 w2 = w2 s1 = s1 s2 = s2 g1 = g1 NoEntity = NoEntity
  WaitSets = {w1, w2}
  MayWait <- MayWait2
  Timed = {w2}
  Noisy = {s1}
  Socks = {s1, s2}
  Gcs = {g1}
  Fds = {1, 2}
  SockCap = 1
  Depth = 1
  MaxEvents = 2
  Unwatchable = {s2}
  Forked = {s1}
  ConcurrentTake = FALSE
INVARIANTS DispatchesOnlyWaited ArmedIsWatched TriggerNeverLost NothingHeldBack NoIdleReturn
PROPERTY ReadyWaitReturns
CHECK_DEADLOCK FALSE
