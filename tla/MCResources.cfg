SPECIFICATION ResSpec
CONSTANTS
  WordBits = 3
  Words = 4
  KMax = 8
  Boot = b
  Procs = {b, p1, p2}
  TableSize = 2
  UMax = 3
  DirPages = 2
  Sizes = {1}
  DmaSizes = {1, 2}
  ILines <- Lines
  IMax = 6
  ISends = 3
  IKeys = 2
  FtFiles = {"f"}
  FtDir = "d"
  FtEntries <- Entries
  FtPerReply = 2
  FtRequests = 4
  LPids = {"1", "2", "3", "4"}
  LReader = "2"
  LEntry = 2
  LLens = {2, 3, 5}
  LStart <- Queue0
INVARIANTS MemoryExact  TransfersFaithful ListingFaithful
SYMMETRY Symmetry
CHECK_DEADLOCK FALSE
