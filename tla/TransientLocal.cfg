SPECIFICATION FairSpec
CONSTANTS
  Subs = {s1}
  MaxSamples = 4
  KindOf <- Mixed
  Unlatchable = {2, 3, 4}
  Slots = 3
  QueueDepth = 2
  SockCap = 4
  MaxPullRetries = 2
  SeqMod = 1024
  Destroyable = {s1}
  PubMayStop = TRUE
INVARIANTS InOrderNoDuplicates NoTornSample WatermarkCoversPulledRange LateJoinerHistory
PROPERTY LiveDelivery
CHECK_DEADLOCK FALSE
