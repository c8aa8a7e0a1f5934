CONSTANTS
  MaxKids = 1
  Wnd = 2
  Seg = 1
  InCap = 6
  OutCap = 2
  Lens = {1, 3}
  ClientBytes = 3
  ServerBytes = 0
  Lossy = FALSE
SPECIFICATION Spec
PROPERTIES Delivered CloseEnds
CHECK_DEADLOCK FALSE
