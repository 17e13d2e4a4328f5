SPECIFICATION Spec
CONSTANTS
  Components = {"cb_value", "cb_remove", "cb_oneshot", "event_walk", "event_wake", "event_clock", "force", "assign", "array_ports", "array_nets", "array_calls", "array_reap", "func_settle", "func_auto"}
  Unused = Unused
  None = None
  NoAddr = NoAddr
  Ids = {o1, o2, o3}
INVARIANTS ChangesTold NothingDangles FunctionsSettled
PROPERTIES TriggersSeen ForcesAsAsked WordsCurrent
SYMMETRY Symmetry
CHECK_DEADLOCK FALSE
