SPECIFICATION Spec
CONSTANTS
  Pids = {p1, p2}
  MaxProcs = 3
  MaxNames = 3
  CtrMod = 2
  TimeMod = 2
SYMMETRY Sym
INVARIANTS LiveFilesStay CleanExit SweepComplete
CHECK_DEADLOCK FALSE
