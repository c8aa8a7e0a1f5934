CONSTANTS
  WordBits = 3
  Words = 4
  KMax = 9
  Boot = b
  Procs = {b, p1, p2}
  TableSize = 2
  UMax = 3
  DirPages = 2
  Sizes = {1}
  DmaSizes = {1, 2}
SPECIFICATION Spec
INVARIANT LinearAssert
CHECK_DEADLOCK FALSE
