SPECIFICATION Spec
CONSTANTS
  Components = {"queue_order", "queue_names", "queue_stats", "channel_tables", "channel_lines", "monitor", "dump", "declare", "link_chain", "link_gates"}
  Unused = Unused
  X = X
  None = None
  q1 = q1  q2 = q2  j1 = j1  j2 = j2
INVARIANT AllLinked
PROPERTIES QueuesAsPromised LinesWritten DumpAsSeen
CHECK_DEADLOCK FALSE
