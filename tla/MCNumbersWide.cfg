SPECIFICATION Spec
CONSTANTS
  Components = {"divide_wide"}
  Unused = Unused
  X = X
  None = None
  LongBits = 4
  MaxOperand = 4
  MaxShift = 3
  MaxValue = 70
INVARIANT WideQuotients
CHECK_DEADLOCK FALSE
