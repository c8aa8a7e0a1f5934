SPECIFICATION UserSpec
CONSTANTS
  MaxKids = 2
  Wnd = 2
  Seg = 1
  InCap = 1
  OutCap = 1
  Lens = {1, 3}
  ClientBytes = 3
  ServerBytes = 1
  Lossy = TRUE
  Boot = p1
  Procs = {p1, p2}
  MaxSlot = 2
  CloseLimit = 2
  Pipes = {1}
  UhHeader = 1
  UhNew = 6
  UhPage = 2
  UhWord = 64
  UhLimit = 18
  UhSizes = {1, 7}
  UhArrays <- Arrays
  UhLive = 2
INVARIANTS StreamExact NoDangling RefsExact PeerSafe ShellReads UserHeapSound FormatsFaithful
CONSTRAINT Load
CHECK_DEADLOCK FALSE
