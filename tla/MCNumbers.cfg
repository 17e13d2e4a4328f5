SPECIFICATION Spec
CONSTANTS
  Components = {"arith_word", "arith_wide", "arith_product", "arith_divide", "arith_power", "arith_int", "compare_bits", "compare_words", "compare_shift", "compare_case", "divide_word", "divide_wide", "fold_long", "fold_edge", "fold_wide", "fold_bits", "fold_order", "fold_partial", "unsized_signed", "unsized_unsigned"}
  Unused = Unused
  X = X
  None = None
  LongBits = 4
  MaxOperand = 4
  MaxShift = 3
  MaxValue = 70
INVARIANTS NetValues ProcessValues Quotients Lossless
PROPERTY FoldKeepsMeaning
CHECK_DEADLOCK FALSE
