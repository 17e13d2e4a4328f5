SPECIFICATION Spec
CONSTANTS
  Components = {"gate_three"}
  Unused = Unused
  NoValue = NoValue
  NoPort = NoPort
  Bit0 = Bit0
  Bit1 = Bit1
  BitX = BitX
  BitZ = BitZ
INVARIANT AllInputsUsed
CHECK_DEADLOCK FALSE
