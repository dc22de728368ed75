SPECIFICATION Spec
CONSTANTS
  t1 = t1 t2 = t2 w1 = w1
  Takers = {t1}
  Waiters = {w1}
  Traffic <- Traffic3
  MaxSets = 2
  Depth = 1
  MaxTake = 2
INVARIANTS NoPrefixDelivered LostOnlyByRule NothingStranded ListenerKeepsUp
CHECK_DEADLOCK FALSE
