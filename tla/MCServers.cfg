SPECIFICATION ServersSpec
CONSTANTS WordBits = 2
          HClients = {1, 2}
          HKinds <- Kinds
          HBlock = 2
          HWindow = 3
          HRequests = 2
          TClients = {1, 2}
          TRecords <- Records
INVARIANTS RequestsSound TunnelEntriesLive
  
CHECK_DEADLOCK FALSE
