SPECIFICATION OpenFairSpec
CONSTANTS
  p1 = p1 p2 = p2 p3 = p3
  Openers = {p1, p2, p3}
  MaxFiles = 7
  Found = {"none", "otherSize", "otherVersion"}
  Crashers = {p1}
INVARIANTS NeverMapsShort OneRegistry NoEntryWiped
PROPERTY EverybodyRegisters
CHECK_DEADLOCK FALSE
