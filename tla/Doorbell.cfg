SPECIFICATION BellFairSpec
CONSTANTS
  l1 = l1 l2 = l2 x1 = x1 m1 = m1 m2 = m2
  Threads = {l1, x1}
  Listeners = {l1, x1}
  Timed = {x1}
  Mutators = {m1, m2}
  MaxMutations = 2
  BellCap = 1
  MayBeFull = TRUE
  MutatorsCrash = TRUE
INVARIANTS NoLostWakeup
PROPERTY GraphChangeNoticed
CHECK_DEADLOCK FALSE
