CONSTANTS
  MaxPid = 2
  Fds = {f1}
  Sigs = {"term", "other"}
SPECIFICATION Spec
INVARIANT FreedOnce
