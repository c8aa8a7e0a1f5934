SPECIFICATION NetworkSpec
CONSTANTS RingCells = 8
          Wrap = 16
          DataCells = {1, 2, 3}
          MaxPackets = 5
          Senders = {1, 2}
          NetHosts = {g, h}
          Gateway = g
          Remotes = {r}
          Self = self
          Dests = {r, self}
          NumTx = 2
          ArpSize = 2
          MaxSends = 2
          MaxOnWire = 3
          Progs = {1, 2}
          DnsNames = {"x", "y"}
          RecordLists <- Answers
          UdpCap = 7
          ReadLen = 2
          MaxAsks = 2
          FifoStart = 3
          Lens = {1, 2, 4}
          MaxSent = 8
          MaxCap = 9
          BlockNums = {1, 2, 3}
          Parts = {1}
          Values = {0, 1}
          NumSlots = 2
          MaxTime = 2
          SScripts <- Scripts
          SPipeCap = 2
          SGen = 3
          PWalks <- Walks
          PPaths <- Opens
          PDirs <- Dirs
          PEntries = 4
          PDevices = {"x"}
INVARIANTS ReceiveExact  DatagramsExact  
PROPERTIES SendCompletes CacheRefines 
CHECK_DEADLOCK FALSE
