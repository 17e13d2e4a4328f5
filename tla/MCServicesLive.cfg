SPECIFICATION FairSpec
CONSTANTS
  Components = {"work", "link_live"}
  Unused = Unused
  X = X
  None = None
  q1 = q1  q2 = q2  j1 = j1  j2 = j2
PROPERTIES WorkIsMailbox WorkGoesOn
CHECK_DEADLOCK FALSE
