CONSTANTS
  MaxKids = 1
  Wnd = 2
  Seg = 1
  InCap = 6
  OutCap = 2
  Lens = {1, 2}
  ClientBytes = 3
  ServerBytes = 1
  Lossy = FALSE
SPECIFICATION Spec
INVARIANT ConnectAssert
CHECK_DEADLOCK FALSE
