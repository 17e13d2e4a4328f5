SPECIFICATION Spec
CONSTANTS
  Components = {"context", "handles", "dynamic", "queues", "symbols_narrow", "symbols_wide", "link_lists", "link_guess", "link_passes", "link_delay"}
  Unused = Unused
  X = X
  None = None
  q1 = q1  q2 = q2  j1 = j1  j2 = j2
INVARIANTS ContextsOwned ObjectsExact
PROPERTIES SymbolsAreMaps NetsPartition
CHECK_DEADLOCK FALSE
