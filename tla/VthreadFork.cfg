SPECIFICATION Spec
CONSTANTS
  Threads = {t1, t2, t3, t4}
  Initial = {t1}
  None = None
  Blocks = {b}
  Tasks = {k}
  Module = Module
  Outer <- MCOuter
  Events = {e}
  MaxFork = 2
  Features = {}
CONSTRAINT Small
SYMMETRY ThreadSymmetry
CHECK_DEADLOCK FALSE
INVARIANTS ThreadsSound NoLostWakeup JoinWaits NoLeak
