------------------------------ MODULE Compare ------------------------------
(***************************************************************************)
(* Comparisons and shifts, done twice: by the functors of vvp/arith.cc     *)
(* when the expression is in a net, and by opcodes of vvp/vthread.cc, in   *)
(* the order that tgt-vvp writes them, when it is in a process.  A vector  *)
(* is a function from its bit numbers to the four bit values; a machine    *)
(* word has CPU_WORD_BITS of them.                                         *)
(***************************************************************************)
EXTENDS Words, FiniteSets

CONSTANTS Ops,       \* operators of the run
          Bit4,      \* bit values of the operands: some of "0", "1", "x", "z"
          Width,     \* of the left operand, and of the right one of a comparison
          Shift,     \* width of the amount to shift by
          None       \* no value yet

Equalities == {"==", "!=", "===", "!==", "==?", "!=?"}
Orders == {">", ">=", ">s", ">=s"}      \* s: both operands are signed
Cases == {"case", "casex", "casez"}
Shifts == {"<<", ">>", ">>>"}           \* >>> with a signed left operand

CompareAssumption ==
    /\ Ops \subseteq Equalities \cup Orders \cup Cases \cup Shifts
    /\ Bit4 \subseteq {"0", "1", "x", "z"}
    /\ Width \in Nat \ {0} /\ Shift \in Nat \ {0}

VARIABLES op,
          op_a, op_b,    \* the operands, as the nets have them
          out,           \* what the functor has sent, None before
          flags,         \* flags 4 .. 6 of the thread: eq, lt, eeq
          val            \* what the process has made of the operands, None before

vars == <<op, op_a, op_b, out, flags, val>>

Vec(n) == [0 .. n - 1 -> Bit4]
Fill(n, b) == [i \in 0 .. n - 1 |-> b]
RightWidth == IF op \in Shifts THEN Shift ELSE Width

bit4_is_xz(b) == b \in {"x", "z"}
has_xz(v) == \E i \in DOMAIN v : bit4_is_xz(v[i])
Inv(b) == CASE b = "0" -> "1" [] b = "1" -> "0" [] OTHER -> "x"
Or(a, b) == CASE "1" \in {a, b} -> "1" [] {a, b} = {"0"} -> "0" [] OTHER -> "x"
Bool(p) == IF p THEN "1" ELSE "0"

(* A functor is made with operands of z bits. *)
Init ==
    /\ op \in Ops
    /\ op_a = Fill(Width, "z") /\ op_b = Fill(RightWidth, "z")
    /\ out = None
    /\ flags = [f \in 4 .. 6 |-> "x"]
    /\ val = None

----------------------------------------------------------------------------
(* Functors *)

(* The loops over the bits: Step gives the result after one more bit, and
   leaves a final one alone. *)
Scan(Step(_, _, _), first, a, b) ==
    FoldLeft(LAMBDA r, i : Step(r, a[i], b[i]), first, Upward(Width))

EqStep(r, a, b) ==
    IF r = "0" THEN r ELSE IF bit4_is_xz(a) \/ bit4_is_xz(b) THEN "x"
    ELSE IF a # b THEN "0" ELSE r

NeStep(r, a, b) ==
    IF r = "1" THEN r ELSE IF bit4_is_xz(a) \/ bit4_is_xz(b) THEN "x"
    ELSE IF a # b THEN "1" ELSE r

EeqStep(r, a, b) == IF a # b THEN "0" ELSE r
NeeStep(r, a, b) == IF a # b THEN "1" ELSE r
EqxStep(r, a, b) == IF ~bit4_is_xz(b) /\ a # b THEN "0" ELSE r
EqzStep(r, a, b) == IF b # "z" /\ a # b THEN "0" ELSE r

WeqStep_Last(r, a, b) ==
    IF bit4_is_xz(b) THEN r ELSE IF bit4_is_xz(a) THEN "x" ELSE IF a # b THEN "0" ELSE r

WeqStep(r, a, b) == IF r = "0" THEN r ELSE WeqStep_Last(r, a, b)

WneStep(r, a, b) ==
    IF r = "1" \/ bit4_is_xz(b) THEN r ELSE IF bit4_is_xz(a) THEN "x"
    ELSE IF a # b THEN "1" ELSE r

(* The first bit from the top at which two vectors differ decides. *)
compare_gtge(lef, rig, out_if_equal) ==
    LET differ == {i \in 0 .. Width - 1 : lef[i] # rig[i]}
    IN  IF has_xz(lef) \/ has_xz(rig) THEN "x"
        ELSE IF differ = {} THEN out_if_equal
        ELSE lef[CHOOSE i \in differ : \A j \in differ : j <= i]

compare_gtge_signed(a, b, out_if_equal) ==
    LET a_sign == a[Width - 1]
        b_sign == b[Width - 1]
    IN  IF bit4_is_xz(a_sign) \/ bit4_is_xz(b_sign) THEN "x"
        ELSE IF a_sign = b_sign THEN compare_gtge(a, b, out_if_equal)
        ELSE IF has_xz(a) \/ has_xz(b) THEN "x"
        ELSE Bool(a_sign = "0")

(* The amount of a shift: more than a word holds is an overflow. *)
Value(v) == FoldLeft(LAMBDA s, i : IF v[i] = "1" THEN s + 2 ^ i ELSE s, 0, Upward(RightWidth))

Overflow(v) == \E i \in DOMAIN v : i >= CPU_WORD_BITS /\ v[i] = "1"

Amount(v) ==
    LET shift == Value(v) % Base IN IF Overflow(v) \/ shift > Width THEN Width ELSE shift

vvp_shiftl(a, b) ==
    IF has_xz(b) THEN Fill(Width, "x")
    ELSE [i \in 0 .. Width - 1 |-> IF i < Amount(b) THEN "0" ELSE a[i - Amount(b)]]

vvp_shiftr(a, b, pad) ==
    IF has_xz(b) THEN Fill(Width, "x")
    ELSE [i \in 0 .. Width - 1 |->
              IF i + Amount(b) < Width THEN a[i + Amount(b)] ELSE pad]

Send(a, b) ==
    CASE op = "==" -> Scan(EqStep, "1", a, b)
      [] op = "!=" -> Scan(NeStep, "0", a, b)
      [] op \in {"===", "case"} -> Scan(EeqStep, "1", a, b)
      [] op = "!==" -> Scan(NeeStep, "0", a, b)
      [] op = "==?" -> Scan(WeqStep, "1", a, b)
      [] op = "!=?" -> Scan(WneStep, "0", a, b)
      [] op = "casex" -> Scan(EqxStep, "1", a, b)
      [] op = "casez" -> Scan(EqzStep, "1", a, b)
      [] op = ">" -> compare_gtge(a, b, "0")
      [] op = ">=" -> compare_gtge(a, b, "1")
      [] op = ">s" -> compare_gtge_signed(a, b, "0")
      [] op = ">=s" -> compare_gtge_signed(a, b, "1")
      [] op = "<<" -> vvp_shiftl(a, b)
      [] op = ">>" -> vvp_shiftr(a, b, "0")
      [] op = ">>>" -> vvp_shiftr(a, b, a[Width - 1])

(* A new value of one operand. *)
Recv ==
    /\ \/ op_a' \in Vec(Width) /\ UNCHANGED op_b
       \/ op_b' \in Vec(RightWidth) /\ UNCHANGED op_a
    /\ out' = Send(op_a', op_b')
    /\ val' = None
    /\ UNCHANGED <<op, flags>>

----------------------------------------------------------------------------
(* Opcodes.  Each gives the flags it leaves. *)

(* The scan of do_CMPE and of_CMPU_the_hard_way *)
HardEq(l, r) ==
    FoldLeft(LAMBDA s, i :
                 IF s.eq = "0" THEN s
                 ELSE [eq |-> IF {l[i], r[i]} = {"0", "1"} THEN "0"
                              ELSE IF bit4_is_xz(l[i]) \/ bit4_is_xz(r[i]) THEN "x" ELSE s.eq,
                       eeq |-> IF l[i] # r[i] THEN "0" ELSE s.eeq],
             [eq |-> "1", eeq |-> "1"], Upward(Width))

eeq(l, r) == Bool(l = r)

do_CMPE(l, r) ==
    LET s == IF has_xz(l) \/ has_xz(r) THEN HardEq(l, r) ELSE [eq |-> eeq(l, r), eeq |-> eeq(l, r)]
    IN  [flags EXCEPT ![4] = s.eq, ![6] = s.eeq]

of_CMPNE(l, r) ==
    [do_CMPE(l, r) EXCEPT ![4] = Inv(@), ![6] = Inv(@)]

do_CMPWE(l, r) ==
    LET step(s, i) ==
            IF s = "0" \/ bit4_is_xz(r[i]) THEN s
            ELSE IF {l[i], r[i]} = {"0", "1"} THEN "0"
            ELSE IF bit4_is_xz(l[i]) THEN "x" ELSE s
    IN  [flags EXCEPT ![4] = IF has_xz(l) \/ has_xz(r)
                             THEN FoldLeft(step, "1", Upward(Width)) ELSE eeq(l, r)]

of_CMPX(l, r) ==
    [flags EXCEPT ![4] = Bool(\A i \in DOMAIN l :
                                  l[i] = r[i] \/ bit4_is_xz(l[i]) \/ bit4_is_xz(r[i]))]

of_CMPZ(l, r) ==
    [flags EXCEPT ![4] = Bool(\A i \in DOMAIN l : l[i] = r[i] \/ "z" \in {l[i], r[i]})]

Three(eq, lt, same) == [f \in 4 .. 6 |-> CASE f = 4 -> eq [] f = 5 -> lt [] f = 6 -> same]

(* Words from the least significant one up: the last difference decides. *)
subarray(v) == Array(Value(v), WordsOf(Width))

LtWords(l, r) ==
    FoldLeft(LAMBDA s, i : IF l[i] = r[i] THEN s
                           ELSE [eq |-> "0", lt |-> Bool(l[i] < r[i])],
             [eq |-> "1", lt |-> "0"], Upward(WordsOf(Width)))

do_CMPU(l, r) ==
    IF has_xz(l) \/ has_xz(r) THEN Three(HardEq(l, r).eq, "x", HardEq(l, r).eeq)
    ELSE LET s == LtWords(subarray(l), subarray(r)) IN Three(s.eq, s.lt, s.eq)

do_CMPS(l, r) ==
    LET differ == {i \in 0 .. Width - 2 : l[i] # r[i]}
        top == CHOOSE i \in differ : \A j \in differ : j <= i
    IN  IF has_xz(l) \/ has_xz(r) THEN Three("x", "x", eeq(l, r))
        ELSE IF l[Width - 1] # r[Width - 1] THEN Three("0", l[Width - 1], "0")
        ELSE IF differ # {} THEN Three("0", Bool(l[top] = "0"), "0")
        ELSE Three("1", "0", "1")

(* %ix/vec4: the index register and, in flag 4, 1 for a vector with x or z
   bits and x for one that does not fit; words above the first are only
   looked at. *)
vec4_to_index(v) ==
    IF has_xz(v) THEN [ix |-> 0, f |-> "1"]
    ELSE [ix |-> Value(v) % Base,
          f |-> IF Overflow(v) THEN "x" ELSE "0"]

of_SHIFTL(v, n) ==
    CASE n.f = "1" -> Fill(Width, "x")
      [] n.f = "x" \/ n.ix >= Width -> Fill(Width, "0")
      [] OTHER -> [i \in 0 .. Width - 1 |-> IF i < n.ix THEN "0" ELSE v[i - n.ix]]

of_SHIFTR(v, n, pad) ==
    CASE n.f = "1" -> Fill(Width, "x")
      [] n.f = "x" \/ n.ix > Width -> Fill(Width, pad)
      [] OTHER -> [i \in 0 .. Width - 1 |-> IF i + n.ix < Width THEN v[i + n.ix] ELSE pad]

----------------------------------------------------------------------------
(* Code.  An operand that is a constant may be an immediate one, two numbers
   of which the second marks the x and z bits. *)
make_immediate(v) ==
    LET number(S) == FoldLeft(LAMBDA s, i : IF v[i] \in S THEN s + 2 ^ i ELSE s, 0,
                              Upward(Width))
    IN  <<number({"1", "x"}), number({"x", "z"})>>

get_immediate_rval(vala, valb) ==
    [i \in 0 .. Width - 1 |->
        LET ba == 2 * ((valb \div 2 ^ i) % 2) + ((vala \div 2 ^ i) % 2)
        IN  CASE ba = 0 -> "0" [] ba = 1 -> "1" [] ba = 2 -> "z" [] ba = 3 -> "x"]

Operand(v, immediate) ==
    IF immediate THEN LET im == make_immediate(v) IN get_immediate_rval(im[1], im[2]) ELSE v

(* == and its like: the operands in order, flag 4 or 6 afterwards. *)
draw_binary_vec4_compare ==
    /\ flags' = CASE op \in {"==", "==="} -> do_CMPE(op_a, op_b)
                  [] op \in {"!=", "!=="} -> of_CMPNE(op_a, op_b)
                  [] op = "==?" -> do_CMPWE(op_a, op_b)
                  [] op = "!=?" -> [do_CMPWE(op_a, op_b) EXCEPT ![4] = Inv(@)]
    /\ val' = IF op \in {"===", "!=="} THEN flags'[6] ELSE flags'[4]

(* The same in a condition, with a constant in either place; a constant left
   operand changes places with the right one. *)
draw_condition_binary_compare(left, right) ==
    LET l == IF left THEN op_b ELSE op_a
        r == IF left THEN op_a ELSE op_b
        imm == left \/ right
    IN  /\ op \in {"==", "!=", "===", "!=="}
        /\ flags' = IF op \in {"==", "==="} THEN do_CMPE(l, Operand(r, imm))
                    ELSE of_CMPNE(l, Operand(r, imm))
        /\ val' = IF op \in {"===", "!=="} THEN flags'[6] ELSE flags'[4]

(* > and >= are < and <= with the operands in the other order; <= is eq or lt. *)
draw_binary_vec4_le(immediate) ==
    LET r == Operand(op_a, immediate)
    IN  /\ flags' = IF op \in {">s", ">=s"} THEN do_CMPS(op_b, r) ELSE do_CMPU(op_b, r)
        /\ val' = IF op \in {">", ">s"} THEN flags'[5] ELSE Or(flags'[4], flags'[5])

show_stmt_case ==
    /\ flags' = CASE op = "case" -> do_CMPU(op_a, op_b)
                  [] op = "casex" -> of_CMPX(op_a, op_b)
                  [] op = "casez" -> of_CMPZ(op_a, op_b)
    /\ val' = IF op = "case" THEN flags'[6] ELSE flags'[4]

draw_binary_vec4_lrs ==
    LET n == vec4_to_index(op_b)
    IN  /\ flags' = [flags EXCEPT ![4] = n.f]
        /\ val' = CASE op = "<<" -> of_SHIFTL(op_a, n)
                    [] op = ">>" -> of_SHIFTR(op_a, n, "0")
                    [] op = ">>>" -> of_SHIFTR(op_a, n, op_a[Width - 1])

Eval ==
    /\ val = None
    /\ \/ op \in Equalities /\ draw_binary_vec4_compare
       \/ \E left, right \in BOOLEAN : draw_condition_binary_compare(left, right)
       \/ op \in Orders /\ \E imm \in BOOLEAN : draw_binary_vec4_le(imm)
       \/ op \in Cases /\ show_stmt_case
       \/ op \in Shifts /\ draw_binary_vec4_lrs
    /\ UNCHANGED <<op, op_a, op_b, out>>

Next == Recv \/ Eval

Spec == Init /\ [][Next]_vars

----------------------------------------------------------------------------
(* Properties *)

(* What IEEE 1364 gives for an operator. *)
Number4(v, signed) ==
    LET n == Cardinality(DOMAIN v)
        u == FoldLeft(LAMBDA s, i : s + (IF v[i] = "1" THEN 2 ^ i ELSE 0), 0, Upward(n))
    IN  IF signed THEN Signed(u, n) ELSE u

Equal(a, b, at) ==
    IF \E i \in at : {a[i], b[i]} = {"0", "1"} THEN "0"
    ELSE IF \E i \in at : {a[i], b[i]} \cap {"x", "z"} # {} THEN "x" ELSE "1"

Wild(v) == {i \in DOMAIN v : v[i] \in {"0", "1"}}

Greater(a, b, signed, equal) ==
    IF has_xz(a) \/ has_xz(b) THEN "x"
    ELSE LET d == Number4(a, signed) - Number4(b, signed)
         IN  IF d > 0 \/ (d = 0 /\ equal) THEN "1" ELSE "0"

Moved(a, b, way, pad) ==
    IF has_xz(b) THEN Fill(Width, "x")
    ELSE [i \in DOMAIN a |-> LET j == i + way * Number4(b, FALSE)
                             IN  IF j \in DOMAIN a THEN a[j] ELSE pad]

Wanted ==
    CASE op = "==" -> Equal(op_a, op_b, DOMAIN op_a)
      [] op = "!=" -> Inv(Equal(op_a, op_b, DOMAIN op_a))
      [] op \in {"===", "case"} -> IF op_a = op_b THEN "1" ELSE "0"
      [] op = "!==" -> IF op_a = op_b THEN "0" ELSE "1"
      [] op = "==?" -> Equal(op_a, op_b, Wild(op_b))
      [] op = "!=?" -> Inv(Equal(op_a, op_b, Wild(op_b)))
      [] op = "casex" -> Equal(op_a, op_b, Wild(op_a) \cap Wild(op_b))
      [] op = "casez" -> Bool(\A i \in DOMAIN op_a : op_a[i] = op_b[i] \/ "z" \in {op_a[i], op_b[i]})
      [] op = ">" -> Greater(op_a, op_b, FALSE, FALSE)
      [] op = ">=" -> Greater(op_a, op_b, FALSE, TRUE)
      [] op = ">s" -> Greater(op_a, op_b, TRUE, FALSE)
      [] op = ">=s" -> Greater(op_a, op_b, TRUE, TRUE)
      [] op = "<<" -> Moved(op_a, op_b, -1, "0")
      [] op = ">>" -> Moved(op_a, op_b, 1, "0")
      [] op = ">>>" -> Moved(op_a, op_b, 1, op_a[Width - 1])

(* A net has the value of its expression. *)
NetValue == out # None => out = Wanted

(* A process has the value of the same expression, whichever opcodes the code
   generator chooses for it. *)
ProcessValue == val # None => val = Wanted

(* The comment on vvp_cmp_eqx: "If in any bit position the a and b bits are
   known and different, then the result is 0. Otherwise, if there are X/Z bits
   anywhere in A or B, the result is X." *)
EqxUnknown == out # None /\ op = "casex" => out = Equal(op_a, op_b, DOMAIN op_a)

(* opcodes.txt: "The %cmp/u and %cmp/s differ only in the handling of the lt
   bit." *)
SameEq ==
    op = "case" => \A f \in {4, 6} : do_CMPU(op_a, op_b)[f] = do_CMPS(op_a, op_b)[f]
============================================================================
