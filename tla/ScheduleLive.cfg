SPECIFICATION FairSpec
CONSTANTS
  Cells = {c1, c2}
  Null = Null
  MaxEvents = 2
  MaxDelay = 1
  MaxControls = 1
  MaxSignals = 1
INVARIANTS TermNotLost
PROPERTIES Terminates
