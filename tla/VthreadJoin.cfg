SPECIFICATION Spec
CONSTANTS
  Threads = {t1, t2, t3}
  Initial = {t1}
  None = None
  Blocks = {b}
  Tasks = {}
  Module = Module
  Outer <- MCOuter
  Events = {}
  MaxFork = 1
  Features = {"disable_detached"}
SYMMETRY ThreadSymmetry
CHECK_DEADLOCK FALSE
INVARIANTS JoinWaits
