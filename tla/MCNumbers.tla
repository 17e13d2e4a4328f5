----------------------------- MODULE MCNumbers -----------------------------
(***************************************************************************)
(* Instances of the arithmetic: the operators of nets and of processes of  *)
(* vvp, the long division, the constants the compiler computes.  They do   *)
(* not share state, so one of them runs at a time.                         *)
(***************************************************************************)
EXTENDS Verinum

CONSTANTS
  Components,   \* the components to run
  Unused,       \* value of the variables of the others
  X,            \* a vector with x or z bits
  None,         \* no value yet
  MaxOperand,   \* bits of an operand without a width
  MaxShift,     \* amount of a shift of one
  MaxValue      \* greatest magnitude computed

VARIABLES
  part,         \* the component that runs
  \* Arith
  arith_op, signs, arith_op_a, arith_op_b, arith_out, arith_val,
  \* Compare
  compare_op, compare_op_a, compare_op_b, compare_out, flags, compare_val,
  \* Divide
  divide_op, wid, divide_a, divide_b, ap, bp, negate_flag, result, cur, cur_res, fixes,
  pc, divide_out,
  \* ConstFold
  constFold_op, constFold_left, constFold_right, constFold_kind, inner, expr,
  \* Unsized
  num, value

arithVars == <<arith_op, signs, arith_op_a, arith_op_b, arith_out, arith_val>>
compareVars == <<compare_op, compare_op_a, compare_op_b, compare_out, flags, compare_val>>
divideVars == <<divide_op, wid, divide_a, divide_b, ap, bp, negate_flag, result, cur,
    cur_res, fixes, pc, divide_out>>
constFoldVars == <<constFold_op, constFold_left, constFold_right, constFold_kind, inner,
    expr>>
unsizedVars == <<num, value>>
vars == <<part, arithVars, compareVars, divideVars, constFoldVars, unsizedVars>>

(* Is the left, is the right operand signed? *)
Both == {<<TRUE, TRUE>>, <<FALSE, FALSE>>}
UnsignedOnly == {<<FALSE, FALSE>>}
SignedOnly == {<<TRUE, TRUE>>}

(* With words of two bits: divisors of one word, and those with the top    *)
(* bit of their array set.                                                 *)
OneWord(o, w, v) ==
  IF v = X \/ w <= 2 THEN TRUE
  ELSE \/ v < 4
       \/ o = "div/s" /\ v > 2 ^ w - 4
       \/ o = "div" /\ v >= 2 ^ (2 * ((w + 1) \div 2) - 1)
Whichever(o, w, v) == TRUE

AllOps ==
  {"+", "/", "==", "!=", "===", "!==", "==?", "!=?", "<<", ">>", ">>>", "&", "|", "^", "~^",
   "&&", "||", "0?:", "1?:", "x?:", "~", "-u", "abs", "min", "!", "&r", "~&r", "|r", "~|r",
   "^r", "~^r"}

----------------------------------------------------------------------------
(* The instances. *)

ArithWord == INSTANCE Arith WITH Ops <- {"+", "-", "*", "/", "%", "neg", "abs"},
    Signs <- Both, Width <- 4, CPU_WORD_BITS <- 4, IntBits <- 2, op <- arith_op,
    op_a <- arith_op_a, op_b <- arith_op_b, out <- arith_out, val <- arith_val
ArithWide == INSTANCE Arith WITH Ops <- {"+", "-", "%", "neg", "abs"},
    Signs <- SignedOnly, Width <- 5, CPU_WORD_BITS <- 2, IntBits <- 1, op <- arith_op,
    op_a <- arith_op_a, op_b <- arith_op_b, out <- arith_out, val <- arith_val
ArithProduct == INSTANCE Arith WITH Ops <- {"*"}, Signs <- UnsignedOnly, Width <- 5,
    CPU_WORD_BITS <- 2, IntBits <- 1, op <- arith_op, op_a <- arith_op_a,
    op_b <- arith_op_b, out <- arith_out, val <- arith_val
ArithDivide == INSTANCE Arith WITH Ops <- {"/"}, Signs <- SignedOnly, Width <- 5,
    CPU_WORD_BITS <- 2, IntBits <- 1, op <- arith_op, op_a <- arith_op_a,
    op_b <- arith_op_b, out <- arith_out, val <- arith_val
ArithPower == INSTANCE Arith WITH Ops <- {"**"}, Signs <- UnsignedOnly, Width <- 3,
    CPU_WORD_BITS <- 2, IntBits <- 1, op <- arith_op, op_a <- arith_op_a,
    op_b <- arith_op_b, out <- arith_out, val <- arith_val
ArithInt == INSTANCE Arith WITH Ops <- {"**"}, Signs <- Both, Width <- 2,
    CPU_WORD_BITS <- 4, IntBits <- 2, op <- arith_op, op_a <- arith_op_a,
    op_b <- arith_op_b, out <- arith_out, val <- arith_val

CompareBits == INSTANCE Compare WITH
    Ops <- {"==", "!=", "===", "!==", "==?", "!=?", ">", ">=", ">s", ">=s", "case"},
    Bit4 <- {"0", "1", "x", "z"}, Width <- 2, Shift <- 1, CPU_WORD_BITS <- 2,
    op <- compare_op, op_a <- compare_op_a, op_b <- compare_op_b, out <- compare_out,
    val <- compare_val
CompareWords == INSTANCE Compare WITH Ops <- {">", ">=", ">s", ">=s"},
    Bit4 <- {"0", "1", "x"}, Width <- 3, Shift <- 1, CPU_WORD_BITS <- 2,
    op <- compare_op, op_a <- compare_op_a, op_b <- compare_op_b, out <- compare_out,
    val <- compare_val
CompareShift == INSTANCE Compare WITH Ops <- {"<<", ">>", ">>>"},
    Bit4 <- {"0", "1", "x"}, Width <- 3, Shift <- 3, CPU_WORD_BITS <- 2,
    op <- compare_op, op_a <- compare_op_a, op_b <- compare_op_b, out <- compare_out,
    val <- compare_val
CompareCase == INSTANCE Compare WITH Ops <- {"case", "casex", "casez"},
    Bit4 <- {"0", "1", "x", "z"}, Width <- 2, Shift <- 1, CPU_WORD_BITS <- 2,
    op <- compare_op, op_a <- compare_op_a, op_b <- compare_op_b, out <- compare_out,
    val <- compare_val

DivideWord == INSTANCE Divide WITH CPU_WORD_BITS <- 2, Widths <- 1 .. 6,
    Asked <- OneWord, op <- divide_op, a <- divide_a, b <- divide_b, out <- divide_out
DivideWide == INSTANCE Divide WITH CPU_WORD_BITS <- 2, Widths <- {4},
    Asked <- Whichever, op <- divide_op, a <- divide_a, b <- divide_b, out <- divide_out

FoldLong == INSTANCE ConstFold WITH
    Ops <- {"+", "-", "*", "/", "%", "**", "-u", "abs", "min", "max"},
    Kinds <- {"const"}, Bit4 <- {"0", "1"}, Width <- 4, Shift <- 3, LongBits <- 5,
    op <- constFold_op, left <- constFold_left, right <- constFold_right,
    kind <- constFold_kind
FoldEdge == INSTANCE ConstFold WITH Ops <- {"/", "%"}, Kinds <- {"const"},
    Bit4 <- {"0", "1"}, Width <- 4, Shift <- 3, LongBits <- 4, op <- constFold_op,
    left <- constFold_left, right <- constFold_right, kind <- constFold_kind
FoldWide == INSTANCE ConstFold WITH Ops <- {"+", "-", "*", "/", "%", "**", "-u", "abs"},
    Kinds <- {"const"}, Bit4 <- {"0", "1"}, Width <- 4, Shift <- 3, LongBits <- 2,
    op <- constFold_op, left <- constFold_left, right <- constFold_right,
    kind <- constFold_kind
FoldBits == INSTANCE ConstFold WITH Ops <- AllOps, Kinds <- {"const"},
    Bit4 <- {"0", "1", "x", "z"}, Width <- 2, Shift <- 2, LongBits <- 4,
    op <- constFold_op, left <- constFold_left, right <- constFold_right,
    kind <- constFold_kind
FoldOrder == INSTANCE ConstFold WITH Ops <- {"<", "<=", ">", ">="},
    Kinds <- {"const", "bit", "logic"}, Bit4 <- {"0", "1", "x"}, Width <- 2, Shift <- 1,
    LongBits <- 4, op <- constFold_op, left <- constFold_left, right <- constFold_right,
    kind <- constFold_kind
FoldPartial == INSTANCE ConstFold WITH Ops <- {"+", "-"}, Kinds <- {"const", "logic"},
    Bit4 <- {"0", "1", "x"}, Width <- 2, Shift <- 1, LongBits <- 4, op <- constFold_op,
    left <- constFold_left, right <- constFold_right, kind <- constFold_kind

(* A constant without a width, computed step by step by the operators of   *)
(* verinum.cc.  `value' is the integer the same steps give, which no code  *)
(* keeps.  Unsigned numbers do not go below zero.                          *)
HasSign == part = "unsized_signed"
Operand(s) == UNION {{verinum(b, n, FALSE, s) : b \in [0 .. n - 1 -> {"0", "1"}]} : n \in 1 .. MaxOperand}
ValueOf(v) == IF is_negative(v) THEN Sum(v) - 2 ^ v.len ELSE Sum(v)

UnsizedFirst == num \in Operand(HasSign) /\ value = ValueOf(num)

Becomes(v, x) ==
  /\ x \in (IF HasSign THEN -MaxValue ELSE 0) .. MaxValue
  /\ num' = v
  /\ value' = x

UnsizedSteps ==
  \/ \E o \in Operand(HasSign) : Becomes(Plus(num, o), value + ValueOf(o))
  \/ \E o \in Operand(HasSign) : Becomes(Minus(num, o), value - ValueOf(o))
  \/ \E o \in Operand(HasSign) : Becomes(Minus(o, num), ValueOf(o) - value)
  \/ \E o \in Operand(HasSign) : Becomes(Times(num, o), value * ValueOf(o))
  \/ Becomes(Times(num, num), value * value)
  \/ Becomes(Negate(num), -value)
  \/ Becomes(trim_vnum(num), value)
  \/ \E n \in 1 .. MaxOperand : Becomes(pad_to_width(num, n), value)
  \/ \E n \in 1 .. MaxShift : Becomes(ShiftLeft(num, n), value * 2 ^ n)
  \/ \E n \in 1 .. MaxShift : Becomes(ShiftRight(num, n), value \div 2 ^ n)

ASSUME ConstantsOK ==
  /\ ArithWord!ArithAssumption
  /\ ArithWide!ArithAssumption
  /\ ArithProduct!ArithAssumption
  /\ ArithDivide!ArithAssumption
  /\ ArithPower!ArithAssumption
  /\ ArithInt!ArithAssumption
  /\ CompareBits!CompareAssumption
  /\ CompareWords!CompareAssumption
  /\ CompareShift!CompareAssumption
  /\ CompareCase!CompareAssumption
  /\ FoldLong!FoldAssumption
  /\ FoldEdge!FoldAssumption
  /\ FoldWide!FoldAssumption
  /\ FoldBits!FoldAssumption
  /\ FoldOrder!FoldAssumption
  /\ FoldPartial!FoldAssumption

----------------------------------------------------------------------------
(* One component runs, the variables of the others stay idle. *)

ArithInit ==
  CASE part = "arith_word" -> ArithWord!Init
    [] part = "arith_wide" -> ArithWide!Init
    [] part = "arith_product" -> ArithProduct!Init
    [] part = "arith_divide" -> ArithDivide!Init
    [] part = "arith_power" -> ArithPower!Init
    [] part = "arith_int" -> ArithInt!Init
    [] OTHER -> /\ arith_op = Unused /\ signs = Unused /\ arith_op_a = Unused
                /\ arith_op_b = Unused /\ arith_out = Unused /\ arith_val = Unused

CompareInit ==
  CASE part = "compare_bits" -> CompareBits!Init
    [] part = "compare_words" -> CompareWords!Init
    [] part = "compare_shift" -> CompareShift!Init
    [] part = "compare_case" -> CompareCase!Init
    [] OTHER -> /\ compare_op = Unused /\ compare_op_a = Unused /\ compare_op_b = Unused
                /\ compare_out = Unused /\ flags = Unused /\ compare_val = Unused

DivideInit ==
  CASE part = "divide_word" -> DivideWord!Init
    [] part = "divide_wide" -> DivideWide!Init
    [] OTHER -> /\ divide_op = Unused /\ wid = Unused /\ divide_a = Unused
                /\ divide_b = Unused /\ ap = Unused /\ bp = Unused /\ negate_flag = Unused
                /\ result = Unused /\ cur = Unused /\ cur_res = Unused /\ fixes = Unused
                /\ pc = Unused /\ divide_out = Unused

ConstFoldInit ==
  CASE part = "fold_long" -> FoldLong!Init
    [] part = "fold_edge" -> FoldEdge!Init
    [] part = "fold_wide" -> FoldWide!Init
    [] part = "fold_bits" -> FoldBits!Init
    [] part = "fold_order" -> FoldOrder!Init
    [] part = "fold_partial" -> FoldPartial!Init
    [] OTHER -> /\ constFold_op = Unused /\ constFold_left = Unused
                /\ constFold_right = Unused /\ constFold_kind = Unused /\ inner = Unused
                /\ expr = Unused

UnsizedInit ==
  CASE part = "unsized_signed" -> UnsizedFirst
    [] part = "unsized_unsigned" -> UnsizedFirst
    [] OTHER -> /\ num = Unused /\ value = Unused

Init ==
  /\ part \in Components
  /\ ArithInit
  /\ CompareInit
  /\ DivideInit
  /\ ConstFoldInit
  /\ UnsizedInit

ArithNext ==
  /\ \/ part = "arith_word" /\ ArithWord!Next
     \/ part = "arith_wide" /\ ArithWide!Next
     \/ part = "arith_product" /\ ArithProduct!Next
     \/ part = "arith_divide" /\ ArithDivide!Next
     \/ part = "arith_power" /\ ArithPower!Next
     \/ part = "arith_int" /\ ArithInt!Next
  /\ UNCHANGED <<part, compareVars, divideVars, constFoldVars, unsizedVars>>

CompareNext ==
  /\ \/ part = "compare_bits" /\ CompareBits!Next
     \/ part = "compare_words" /\ CompareWords!Next
     \/ part = "compare_shift" /\ CompareShift!Next
     \/ part = "compare_case" /\ CompareCase!Next
  /\ UNCHANGED <<part, arithVars, divideVars, constFoldVars, unsizedVars>>

DivideNext ==
  /\ \/ part = "divide_word" /\ DivideWord!Next
     \/ part = "divide_wide" /\ DivideWide!Next
  /\ UNCHANGED <<part, arithVars, compareVars, constFoldVars, unsizedVars>>

ConstFoldNext ==
  /\ \/ part = "fold_long" /\ FoldLong!Next
     \/ part = "fold_edge" /\ FoldEdge!Next
     \/ part = "fold_wide" /\ FoldWide!Next
     \/ part = "fold_bits" /\ FoldBits!Next
     \/ part = "fold_order" /\ FoldOrder!Next
     \/ part = "fold_partial" /\ FoldPartial!Next
  /\ UNCHANGED <<part, arithVars, compareVars, divideVars, unsizedVars>>

UnsizedNext ==
  /\ \/ part = "unsized_signed" /\ UnsizedSteps
     \/ part = "unsized_unsigned" /\ UnsizedSteps
  /\ UNCHANGED <<part, arithVars, compareVars, divideVars, constFoldVars>>

Next ==
  \/ ArithNext
  \/ CompareNext
  \/ DivideNext
  \/ ConstFoldNext
  \/ UnsizedNext

Spec == Init /\ [][Next]_vars

----------------------------------------------------------------------------
(* Properties. *)

(* A net has the value that IEEE 1364 gives its expression, whatever the   *)
(* width of the operands is against that of a machine word                 *)
(* (vvp/arith.cc, vvp/vvp_net.cc).                                         *)
NetValues ==
  /\ part = "arith_word" => ArithWord!NetValue
  /\ part = "arith_wide" => ArithWide!NetValue
  /\ part = "arith_product" => ArithProduct!NetValue
  /\ part = "arith_divide" => ArithDivide!NetValue
  /\ part = "arith_int" => ArithInt!NetValue
  /\ part = "compare_bits" => CompareBits!NetValue
  /\ part = "compare_words" => CompareWords!NetValue
  /\ part = "compare_shift" => CompareShift!NetValue

(* A process has the same value for the same expression, whichever opcodes *)
(* the code generator chooses for it (vvp/vthread.cc, tgt-vvp).            *)
ProcessValues ==
  /\ part = "arith_word" => ArithWord!ProcessValue
  /\ part = "arith_wide" => ArithWide!ProcessValue
  /\ part = "arith_product" => ArithProduct!ProcessValue
  /\ part = "arith_power" => ArithPower!ProcessValue
  /\ part = "arith_int" => ArithInt!ProcessValue
  /\ part = "compare_bits" => CompareBits!ProcessValue
  /\ part = "compare_words" => CompareWords!ProcessValue
  /\ part = "compare_shift" => CompareShift!ProcessValue
  /\ part = "compare_case" => CompareCase!ProcessValue

(* The division of vectors of several words, a digit and its corrections   *)
(* at a time, keeps `input-a = bp * result + ap' at every digit, has a     *)
(* digit left to take from while it corrects, and ends with the quotient   *)
(* (divide_words of vthread.cc).                                           *)
Quotients ==
  part = "divide_word" => DivideWord!Quotient /\ DivideWord!Balanced /\ DivideWord!Descends

(* The same of divisors of any width: "We should find that: input-a = bp * *)
(* result + ap" (vthread.cc).                                              *)
WideQuotients == part = "divide_wide" => DivideWide!Quotient /\ DivideWide!Balanced

(* Evaluation by the compiler never changes the value or the shape of an   *)
(* expression, for any value of the operands that are not constant         *)
(* (eval_tree.cc, verinum.cc).                                             *)
FoldKeepsMeaning ==
  [][/\ part = "fold_long" => FoldLong!Meaning' = FoldLong!Meaning /\ FoldLong!ResultShape'
     /\ part = "fold_edge" => FoldEdge!Meaning' = FoldEdge!Meaning
     /\ part = "fold_wide" => FoldWide!Meaning' = FoldWide!Meaning /\ FoldWide!ResultShape'
     /\ part = "fold_bits" => FoldBits!Meaning' = FoldBits!Meaning /\ FoldBits!ResultShape'
     /\ part = "fold_order" => FoldOrder!Meaning' = FoldOrder!Meaning
     /\ part = "fold_partial" => FoldPartial!Meaning' = FoldPartial!Meaning]_vars

(* "If either operand is unsized, the result is expanded as needed to      *)
(* prevent overflow" (verinum.cc): after any steps the number still has    *)
(* the value, compares by it, and trim_vnum leaves it as few bits as it    *)
(* needs: no sign bit follows another, no two zeros lead.                  *)
Lossless ==
  part \in {"unsized_signed", "unsized_unsigned"} =>
    LET t == trim_vnum(num)
    IN  /\ ValueOf(num) = value /\ ValueOf(t) = value
        /\ \A o \in Operand(HasSign) : /\ Less(num, o) <=> value < ValueOf(o)
                                       /\ Leeq(o, num) <=> ValueOf(o) <= value
                                       /\ Equal(num, o) <=> value = ValueOf(o)
        /\ t.len > 1 => IF HasSign THEN t.bits[t.len - 1] # t.bits[t.len - 2]
                                   ELSE "1" \in {t.bits[t.len - 1], t.bits[t.len - 2]}
============================================================================
