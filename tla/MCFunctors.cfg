SPECIFICATION Spec
CONSTANTS
  Components = {"gates", "gate_three", "mux", "gate_loop", "gate_xor", "flop", "latch", "mos", "part_release", "part_partial", "udp_seq", "udp_comb", "resolv_tree", "resolv_part", "island_switch", "island_force", "island_part", "delay_vec", "delay_strength", "delay_real", "modpath"}
  Unused = Unused
  NoValue = NoValue
  NoPort = NoPort
  Bit0 = Bit0
  Bit1 = Bit1
  BitX = BitX
  BitZ = BitZ
INVARIANTS OutputsFollow PartsCarried PrimitivesAsTabled DriversResolved IslandsSettled DelaysEnd PathsChosen
PROPERTY DelaysInertial
CHECK_DEADLOCK FALSE
