SPECIFICATION KernelSpec
CONSTANTS
  MaxPid = 3
  Fds = {f1}
  Sigs = {"term"}
  BufferSize = 4
  Byte = {0, 1}
  MaxLen = 3
INVARIANTS RefInv NoDangling QueueInv
PROPERTIES RefinesFIFO
CONSTRAINT Handlers
