----------------------------- MODULE ConstFold -----------------------------
(***************************************************************************)
(* Evaluation of expressions by the compiler, ivl/eval_tree.cc: one whose  *)
(* operands are constants becomes a constant, and some others are          *)
(* rewritten or decided.  The operands have been brought to the width and  *)
(* sign of the expression before, except the exponent of a power and the   *)
(* amount of a shift.                                                      *)
(*                                                                         *)
(* An operand has a value and a kind.  That of a "const" is known to the   *)
(* compiler; that of a "bit" or a "logic" expression is the one it will    *)
(* have when the program runs, and the evaluation must not look at it.     *)
(***************************************************************************)
EXTENDS Verinum

CONSTANTS Ops,        \* operators of the run
          Kinds,      \* kinds of operands
          Bit4,       \* bit values of constants
          Width,      \* of operands
          Shift,      \* of exponents and amounts
          None        \* no result

Arithmetic == {"+", "-", "*", "/", "%"}
Equalities == {"==", "!=", "===", "!==", "==?", "!=?"}
Orders == {"<", "<=", ">", ">="}
Shifts == {"<<", ">>", ">>>"}
BitOps == {"&", "|", "^", "~^"}
Logic == {"&&", "||"}
Selections == {"min", "max", "0?:", "1?:", "x?:"}     \* ?: with the condition it has
Unary == {"-u", "~", "abs"}
Reductions == {"!", "&r", "~&r", "|r", "~|r", "^r", "~^r"}

FoldAssumption ==
    /\ Ops \subseteq Arithmetic \cup {"**"} \cup Equalities \cup Orders \cup Shifts \cup BitOps
                         \cup Logic \cup Selections \cup Unary \cup Reductions
    /\ Kinds \subseteq {"const", "bit", "logic"}
    /\ Bit4 \subseteq V
    /\ Width \in Nat \ {0} /\ Shift \in Nat \ {0} /\ LongBits \in Nat \ {0}

VARIABLES op,
          left, right,     \* values of the operands
          kind,            \* their kinds, a pair
          inner,           \* the left operand is (left + inner) or (left - inner), or None
          expr             \* the constant that has replaced the expression, or None

vars == <<op, left, right, kind, inner, expr>>

Num(n, sign, bits) == {verinum(b, n, TRUE, sign) : b \in [0 .. n - 1 -> bits]}

BitsOf(k) == IF k = "bit" THEN Bit4 \cap {"0", "1"} ELSE Bit4

RightWidth(o) == IF o \in Shifts \cup {"**"} THEN Shift ELSE Width

Init ==
    /\ op \in Ops
    /\ kind \in Kinds \X Kinds
    /\ \E s \in BOOLEAN :
          /\ left \in Num(Width, s, BitsOf(kind[1]))
          /\ \E t \in IF op \in Shifts \cup {"**"} THEN BOOLEAN ELSE {s} :
                right \in Num(RightWidth(op), t, BitsOf(kind[2]))
          /\ \/ inner = None
             \/ /\ op \in {"+", "-"} /\ kind = <<"logic", "const">>
                /\ \E io \in {"+", "-"}, c \in Num(Width, s, Bit4) : inner = <<io, c>>
    /\ expr = None

Bool(p) == IF p THEN "1" ELSE "0"
Scalar(b) == verinum(Fill(b, 1), 1, TRUE, FALSE)
Vector(f(_)) == verinum([i \in 0 .. Width - 1 |-> f(i)], Width, TRUE, left.has_sign)

----------------------------------------------------------------------------
(* Bits *)
Or(a, b) == CASE "1" \in {a, b} -> "1" [] {a, b} = {"0"} -> "0" [] OTHER -> "x"
And(a, b) == CASE "0" \in {a, b} -> "0" [] {a, b} = {"1"} -> "1" [] OTHER -> "x"
Xor(a, b) == IF {a, b} \subseteq {"0", "1"} THEN Bool(a # b) ELSE "x"

(* Loops over the bits of an operand *)
Over(Step(_, _), first, v) == FoldLeft(LAMBDA s, i : Step(s, v.bits[i]), first, Count(v.len))

Pairwise(Step(_, _, _), first) ==
    FoldLeft(LAMBDA s, i : Step(s, left.bits[i], right.bits[i]), first, Count(Width))

const_logical(v) == Over(LAMBDA s, b : IF "1" \in {s, b} THEN "1" ELSE IF b = "0" THEN s ELSE "x", "0", v)

----------------------------------------------------------------------------
(* Comparisons *)
eval_eqeq_(ne_flag) ==
    Pairwise(LAMBDA s, l, r :
                 IF s = Bool(ne_flag) THEN s
                 ELSE IF {l, r} \cap {"x", "z"} # {} THEN "x"
                 ELSE IF l # r THEN Bool(ne_flag) ELSE s,
             Bool(~ne_flag))

eval_eqeqeq_(ne_flag) == Bool((\A i \in 0 .. Width - 1 : left.bits[i] = right.bits[i]) # ne_flag)

eval_weqeq_(ne_flag) ==
    Pairwise(LAMBDA s, l, r :
                 IF s = Bool(ne_flag) \/ r \in {"x", "z"} THEN s
                 ELSE IF l \in {"x", "z"} THEN "x"
                 ELSE IF l # r THEN Bool(ne_flag) ELSE s,
             Bool(~ne_flag))

(* A constant above every value of a two state expression decides. *)
must_be_leeq_(k, v, rv, eq_flag) ==
    LET signed == v.has_sign /\ rv.has_sign
        lv == verinum([i \in 0 .. v.len - 1 |-> Bool(~(signed /\ i = v.len - 1))], v.len, TRUE, signed)
    IN  k = "bit" /\ (Less(lv, rv) \/ (eq_flag /\ Equal(lv, rv)))

(* x below y, or equal *)
Below(kx, x, ky, y, eq_flag) ==
    IF ky # "const" THEN None
    ELSE IF ~is_defined(y) THEN Scalar("x")
    ELSE IF must_be_leeq_(kx, x, y, eq_flag) THEN Scalar("1")
    ELSE IF kx # "const" THEN None
    ELSE IF ~is_defined(x) THEN Scalar("x")
    ELSE Scalar(Bool(IF eq_flag THEN Leeq(x, y) ELSE Less(x, y)))

eval_less_ == Below(kind[1], left, kind[2], right, FALSE)
eval_leeq_ == Below(kind[1], left, kind[2], right, TRUE)
eval_gt_ == Below(kind[2], right, kind[1], left, FALSE)
eval_gteq_ == Below(kind[2], right, kind[1], left, TRUE)

NetEBComp ==
    CASE op = "<" -> eval_less_
      [] op = "<=" -> eval_leeq_
      [] op = ">" -> eval_gt_
      [] op = ">=" -> eval_gteq_
      [] kind # <<"const", "const">> -> None
      [] op \in {"==", "!="} -> Scalar(eval_eqeq_(op = "!="))
      [] op \in {"===", "!=="} -> Scalar(eval_eqeqeq_(op = "!=="))
      [] op \in {"==?", "!=?"} -> Scalar(eval_weqeq_(op = "!=?"))

----------------------------------------------------------------------------
(* Operators of two constants *)
NetEBAdd == cast_to_width(IF op = "+" THEN Plus(left, right) ELSE Minus(left, right), Width)
NetEBMult == cast_to_width(Times(left, right), Width)
NetEBDiv == cast_to_width(IF op = "/" THEN Divide(left, right) ELSE Modulus(left, right), Width)
NetEBPow == cast_to_width(pow(left, right), Width)

NetEBShift ==
    LET shift == Sum(right)
        v == CASE ~is_defined(right) -> verinum(Fill("x", Width), Width, TRUE, FALSE)
               [] op = "<<" -> ShiftLeft(left, shift)
               [] op = ">>" -> ShiftRight([left EXCEPT !.has_sign = FALSE], shift)
               [] op = ">>>" -> ShiftRight(left, shift)
    IN  [cast_to_width(v, Width) EXCEPT !.has_sign = left.has_sign]

NetEBBits ==
    Vector(LAMBDA i : CASE op = "&" -> And(left.bits[i], right.bits[i])
                        [] op = "|" -> Or(left.bits[i], right.bits[i])
                        [] op = "^" -> Xor(left.bits[i], right.bits[i])
                        [] op = "~^" -> Not(Xor(left.bits[i], right.bits[i])))

NetEBLogic ==
    LET l == const_logical(left)
        r == const_logical(right)
    IN  Scalar(IF op = "&&" THEN And(l, r) ELSE Or(l, r))

NetEBMinMax ==
    IF ~Defined(left, right) THEN Vector(LAMBDA i : "x")
    ELSE IF op = "min" THEN IF Less(left, right) THEN left ELSE right
    ELSE IF Less(right, left) THEN left ELSE right

blended_arguments_(t, f) ==
    Vector(LAMBDA i : IF t.bits[i] = f.bits[i] /\ t.bits[i] \in {"0", "1"} THEN t.bits[i] ELSE "x")

(* A constant condition chooses an operand, constant or not; an unknown one
   blends two constants. *)
NetETernary ==
    CASE op = "0?:" -> IF kind[2] = "const" THEN right ELSE None
      [] op = "1?:" -> IF kind[1] = "const" THEN left ELSE None
      [] op = "x?:" -> IF kind = <<"const", "const">> THEN blended_arguments_(left, right) ELSE None

NetEUnary ==
    CASE op = "-u" -> Negate(left)
      [] op = "~" -> Vector(LAMBDA i : Not(left.bits[i]))
      [] op = "abs" -> IF ~is_defined(left) THEN Vector(LAMBDA i : "x")
                       ELSE IF is_negative(left) THEN Negate(left) ELSE left

NetEUReduce ==
    LET xored == IF is_defined(left) THEN Over(Xor, "0", left) ELSE "x"
    IN  Scalar(CASE op = "!" -> Not(const_logical(left))
                 [] op = "&r" -> Over(And, "1", left)
                 [] op = "~&r" -> Not(Over(And, "1", left))
                 [] op = "|r" -> Over(Or, "0", left)
                 [] op = "~|r" -> Not(Over(Or, "0", left))
                 [] op = "^r" -> xored
                 [] op = "~^r" -> Not(xored))

----------------------------------------------------------------------------
(* eval_tree: the expression becomes a constant where the operands allow it. *)
Result ==
    CASE inner # None -> None
      [] op \in Equalities \cup Orders -> NetEBComp
      [] op \in {"0?:", "1?:", "x?:"} -> NetETernary
      [] kind[1] # "const" -> None
      [] op \in Unary -> NetEUnary
      [] op \in Reductions -> NetEUReduce
      [] kind[2] # "const" -> None
      [] op \in {"+", "-"} -> NetEBAdd
      [] op = "*" -> NetEBMult
      [] op \in {"/", "%"} -> NetEBDiv
      [] op = "**" -> NetEBPow
      [] op \in Shifts -> NetEBShift
      [] op \in BitOps -> NetEBBits
      [] op \in Logic -> NetEBLogic
      [] op \in {"min", "max"} -> NetEBMinMax

Eval ==
    /\ expr = None
    /\ \E v \in {Result} \ {None} : expr' = v
    /\ UNCHANGED <<op, left, right, kind, inner>>

(* (a + 2) - 1 becomes a + 1, or rather a - (1 - 2). *)
Combine(c) == cast_to_width(IF op = inner[1] THEN Plus(c, inner[2]) ELSE Minus(c, inner[2]), Width)

Partial ==
    /\ expr = None /\ inner # None
    /\ right' = Combine(right)
    /\ inner' = None
    /\ UNCHANGED <<op, left, kind, expr>>

Next == Eval \/ Partial

Spec == Init /\ [][Next]_vars

----------------------------------------------------------------------------
(* Properties *)

(* What IEEE 1364 gives for the operator and the values of the operands. *)
Value(v) == IF v.has_sign /\ v.bits[v.len - 1] = "1" THEN Sum(v) - 2 ^ v.len ELSE Sum(v)

AllX(n) == [i \in 0 .. n - 1 |-> "x"]

Known(n, x) == [i \in 0 .. n - 1 |-> IF (x \div 2 ^ i) % 2 = 1 THEN "1" ELSE "0"]

Number(o, l, r) ==
    LET x == Value(l)
        y == Value(r)
    IN  CASE ~(Defined(l, r)) \/ (o \in {"/", "%"} /\ y = 0) -> AllX(Width)
          [] OTHER -> Known(Width, CASE o = "+" -> x + y
                                     [] o = "-" -> x - y
                                     [] o = "*" -> x * y
                                     [] o = "/" -> Quot(x, y)
                                     [] o = "%" -> x - y * Quot(x, y))

Power(l, r) ==
    LET x == Value(l)
        y == Value(r)
    IN  CASE ~Defined(l, r) \/ (y < 0 /\ x = 0) -> AllX(Width)
          [] y >= 0 -> Known(Width, FoldLeft(LAMBDA s, i : (s * x) % 2 ^ Width, 1, Count(y)))
          [] x = 1 \/ (x = -1 /\ y % 2 = 0) -> Known(Width, 1)
          [] x = -1 -> Known(Width, -1)
          [] OTHER -> Known(Width, 0)

Matches(at) ==
    IF \E i \in at : {left.bits[i], right.bits[i]} = {"0", "1"} THEN "0"
    ELSE IF \E i \in at : {left.bits[i], right.bits[i]} \cap {"x", "z"} # {} THEN "x" ELSE "1"

Truth(v) ==
    IF \E i \in DOMAIN v.bits : v.bits[i] = "1" THEN "1"
    ELSE IF \A i \in DOMAIN v.bits : v.bits[i] = "0" THEN "0" ELSE "x"

Ones(v) == Cardinality({i \in DOMAIN v.bits : v.bits[i] = "1"})
Some(v, b) == \E i \in DOMAIN v.bits : v.bits[i] = b
Ternary(yes, no) == IF yes THEN "1" ELSE IF no THEN "0" ELSE "x"

Comparison ==
    LET d == Value(left) - Value(right)
        all == 0 .. Width - 1
        known == {i \in all : right.bits[i] \in {"0", "1"}}
    IN  CASE op = "==" -> Matches(all)
          [] op = "!=" -> Not(Matches(all))
          [] op = "===" -> Bool(left.bits = right.bits)
          [] op = "!==" -> Bool(left.bits # right.bits)
          [] op = "==?" -> Matches(known)
          [] op = "!=?" -> Not(Matches(known))
          [] ~Defined(left, right) -> "x"
          [] op = "<" -> Bool(d < 0)
          [] op = "<=" -> Bool(d <= 0)
          [] op = ">" -> Bool(d > 0)
          [] op = ">=" -> Bool(d >= 0)

Reduced ==
    CASE op = "!" -> Not(Truth(left))
      [] op = "&r" -> Ternary(Ones(left) = Width, Some(left, "0"))
      [] op = "~&r" -> Ternary(Some(left, "0"), Ones(left) = Width)
      [] op = "|r" -> Truth(left)
      [] op = "~|r" -> Not(Truth(left))
      [] op = "^r" -> IF is_defined(left) THEN Bool(Ones(left) % 2 = 1) ELSE "x"
      [] op = "~^r" -> IF is_defined(left) THEN Bool(Ones(left) % 2 = 0) ELSE "x"

Moved ==
    LET by == IF op = "<<" THEN -Sum(right) ELSE Sum(right)
        pad == IF op = ">>>" /\ left.has_sign THEN left.bits[Width - 1] ELSE "0"
    IN  IF ~is_defined(right) THEN AllX(Width)
        ELSE [i \in 0 .. Width - 1 |-> IF i + by \in 0 .. Width - 1 THEN left.bits[i + by] ELSE pad]

BitByBit ==
    [i \in 0 .. Width - 1 |->
        LET l == left.bits[i]
            r == right.bits[i]
            one == {l, r} = {"1"}
            both == {l, r} \subseteq {"0", "1"}
        IN  CASE op = "&" -> Ternary(one, "0" \in {l, r})
              [] op = "|" -> Ternary("1" \in {l, r}, {l, r} = {"0"})
              [] op = "^" -> Ternary({l, r} = {"0", "1"}, both)
              [] op = "~^" -> Ternary(both /\ l = r, both)
              [] op = "~" -> Ternary(l = "0", l = "1")
              [] op = "x?:" -> IF l = r /\ both THEN l ELSE "x"]

Wanted ==
    CASE op \in Equalities \cup Orders -> [i \in {0} |-> Comparison]
      [] op \in Reductions -> [i \in {0} |-> Reduced]
      [] op = "&&" -> [i \in {0} |-> Ternary(Truth(left) = "1" /\ Truth(right) = "1",
                                             "0" \in {Truth(left), Truth(right)})]
      [] op = "||" -> [i \in {0} |-> Ternary("1" \in {Truth(left), Truth(right)},
                                             {Truth(left), Truth(right)} = {"0"})]
      [] op \in Shifts -> Moved
      [] op \in BitOps \cup {"~", "x?:"} -> BitByBit
      [] op = "0?:" -> right.bits
      [] op = "1?:" -> left.bits
      [] op = "**" -> Power(left, right)
      [] op \in {"-u", "abs"} ->
             IF ~is_defined(left) THEN AllX(Width)
             ELSE Known(Width, IF op = "-u" THEN -Value(left) ELSE Abs(Value(left)))
      [] op \in {"min", "max"} ->
             IF ~Defined(left, right) THEN AllX(Width)
             ELSE Known(Width, IF op = "min" THEN Min({Value(left), Value(right)})
                               ELSE Max({Value(left), Value(right)}))
      [] op \in Arithmetic ->
             IF inner = None THEN Number(op, left, right)
             ELSE Number(op, verinum(Number(inner[1], left, inner[2]), Width, TRUE, left.has_sign), right)

(* The value the expression has when the program runs, which evaluation never
   changes, for any value of the operands that are not constant. *)
Meaning == IF expr # None THEN expr.bits ELSE Wanted

(* A constant that has replaced an expression has its width and its sign. *)
ResultShape ==
    expr # None =>
        /\ expr.has_len
        /\ expr.len = Cardinality(DOMAIN Wanted)
        /\ expr.has_sign = (expr.len = Width /\ left.has_sign)
============================================================================
