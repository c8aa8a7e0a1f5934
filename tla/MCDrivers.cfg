SPECIFICATION DriversSpec
CONSTANTS AhSector = 2
          AhPrdt = 3
          AhSectors = 4
          AhSlotField = 2
          AhRequests = 2
          AhFails = 1
          AuBuffers = 3
          AuSize = 2
          AuTotal = 12
          AuVolumes <- Volumes
          KeyCap = 5
          MouseCap = 5
          KeyCells = 3
          MouseCells = 2
          KeyBound = 2
          MouseBound = 3
          Screen = 2
          CkCallers = {p1, p2}
          CkTimes <- Times
          CkCalls = 3
          RnMax = 4
          RnKeys = 12
          RnPool = 4
          RnSizes = {1, 3}
          H = 1
          NewAlloc = 4
          PageSize = 2
          Base = 2
          MaxBrk = 16
          Sizes = {2, 3}
          Inodes = {2, 3, 4}
          Root = 2
          NumBlocks = 10
          PerGroup = 6
          Direct = 1
          Cap = 2
          EntriesPerBlock = 3
          Names = {"a", "b"}
          Paths <- SmallPaths
          MaxOps = 6
INVARIANTS  AudioSound   NoBlockTwice HeapSound 
PROPERTIES Returns
CHECK_DEADLOCK FALSE
