CONSTANTS
  MaxPid = 4
  Fds = {}
  Sigs = {}
SPECIFICATION Spec
PROPERTIES NoStarvation
CHECK_DEADLOCK FALSE
