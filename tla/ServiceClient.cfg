SPECIFICATION Spec
CONSTANTS
  c1 = c1 c2 = c2 NoService = NoService
  Clients = {c1, c2}
  Services <- OneServer
  MaxRequests = 1
  Depth = 1
  SockCap = 2
  Destroyable = {c1, 1}
  MayFail = TRUE
INVARIANTS RequestRouted OwnResponsesOnce
CHECK_DEADLOCK FALSE
