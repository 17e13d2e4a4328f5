------------------------------- MODULE Arith -------------------------------
(***************************************************************************)
(* Arithmetic, done twice: by the functors of vvp/arith.cc in a net and by *)
(* the opcodes of vvp/vthread.cc in a process.  A vector of Width bits is  *)
(* its unsigned number, or X when any of its bits is x or z.  Vectors of   *)
(* at most CPU_WORD_BITS are computed with machine arithmetic, longer ones *)
(* on arrays of words (vvp_vector2_t and vvp_vector4_t of vvp_net.cc).     *)
(* Division in a process has a module of its own, Divide.                  *)
(***************************************************************************)
EXTENDS Words, FiniteSetsExt

CONSTANTS Ops,        \* operators of the run
          Signs,      \* pairs: is the left, is the right operand signed
          Width,      \* of operands and result
          IntBits,    \* bits of an int
          X,          \* a vector with x or z bits
          None        \* no value yet

ArithAssumption ==
    /\ Ops \subseteq {"+", "-", "*", "/", "%", "**", "abs", "neg"}
    /\ Signs \subseteq BOOLEAN \X BOOLEAN
    /\ Width \in Nat \ {0} /\ IntBits \in Nat \ {0} /\ IntBits < CPU_WORD_BITS

VARIABLES op, signs,
          op_a, op_b,    \* the operands
          out,           \* what the functor has sent, None before
          val            \* what the process has made of the operands, None before

vars == <<op, signs, op_a, op_b, out, val>>

Vectors == 0 .. 2 ^ Width - 1
n == WordsOf(Width)
Native == Width <= CPU_WORD_BITS
Sign(x) == x >= 2 ^ (Width - 1)
Bit(x, i) == (x \div 2 ^ i) % 2

(* The signed operation is chosen when both operands are signed; the power
   looks at its exponent alone. *)
signed_flag == (signs[1] \/ op = "**") /\ signs[2]

(* A functor is made with operands of z bits. *)
Init ==
    /\ op \in Ops /\ signs \in Signs
    /\ op_a = X /\ op_b = X
    /\ out = None /\ val = None

----------------------------------------------------------------------------
(* vvp_vector2_t: arrays of words.  A mask for the tail is the whole word when
   the width is a multiple of the word. *)
CleanTail(ws, wid) ==
    [ws EXCEPT ![WordsOf(wid) - 1] = IF wid % CPU_WORD_BITS = 0 THEN @ ELSE @ % 2 ^ (wid % CPU_WORD_BITS)]

(* <<= 1 and >>= 1 *)
Double(ws, wid) ==
    CleanTail([i \in DOMAIN ws |->
                  ((2 * ws[i]) % Base) + (IF i = 0 THEN 0 ELSE ws[i - 1] \div (Base \div 2))], wid)

HalfOf(ws) ==
    [i \in DOMAIN ws |->
        (ws[i] \div 2) + (IF i + 1 \in DOMAIN ws THEN (ws[i + 1] % 2) * (Base \div 2) ELSE 0)]

PlusVec(x, y, wid) == CleanTail(AddArray(add_carry, x, y, 0, WordsOf(wid), 0).words, wid)
MinusVec(x, y, wid) == AddArray(add_carry, x, Complement(y), 0, WordsOf(wid), 1).words
One(wid) == Array(1, WordsOf(wid))
NegVec(x, wid) == PlusVec(Complement(x), One(wid), wid)

(* The highest words that differ decide; the shorter array has zeros there. *)
Above(x, y) ==
    LET word(v, i) == IF i \in DOMAIN v THEN v[i] ELSE 0
        differ == {i \in DOMAIN x \cup DOMAIN y : word(x, i) # word(y, i)}
    IN  differ # {} /\ word(x, Max(differ)) > word(y, Max(differ))

(* The product, word by word; nothing cleans the tail. *)
TimesVec(x, y) ==
    FoldLeft(LAMBDA r, k :
                 LET a == k % n
                     b == k \div n
                 IN  IF x[a] = 0 \/ y[b] = 0 \/ a + b >= n THEN r
                     ELSE AddProduct(add_carry, r, a + b, n, multiply_long(x[a], y[b])),
             Zeros(n), Upward(n * n))

RECURSIVE PowVec(_, _)
PowVec(x, y) ==
    IF \A i \in DOMAIN y : y[i] = 0 THEN One(Width)
    ELSE IF y[0] % 2 = 1 THEN TimesVec(x, PowVec(x, [y EXCEPT ![0] = @ - 1]))
    ELSE LET z == PowVec(x, HalfOf(y)) IN TimesVec(z, z)

(* Long division.  The first loop brings the divisor up to the dividend, the
   second one subtracts it on its way back.  The dividend and the shifted
   divisor have one bit more than the operands, the mask has not. *)
RECURSIVE Startup(_, _, _)
Startup(divtmp, mask, dividend) ==
    IF Above(dividend, divtmp)
    THEN Startup(Double(divtmp, Width + 1), Double(mask, Width), dividend)
    ELSE <<divtmp, mask>>

RECURSIVE Subtract(_, _)
Subtract(s, divisor) ==
    IF Above(divisor, s.dividend) THEN s
    ELSE LET fits == ~Above(s.divtmp, s.dividend)
         IN  Subtract([dividend |-> IF fits THEN MinusVec(s.dividend, s.divtmp, Width + 1)
                                    ELSE s.dividend,
                       quotient |-> IF fits THEN PlusVec(s.quotient, s.mask, Width)
                                    ELSE s.quotient,
                       divtmp |-> HalfOf(s.divtmp), mask |-> HalfOf(s.mask)], divisor)

Wider(ws) == [i \in 0 .. WordsOf(Width + 1) - 1 |-> IF i \in DOMAIN ws THEN ws[i] ELSE 0]

div_mod(dividend, divisor) ==
    IF Above(divisor, dividend) THEN [quotient |-> Zeros(n), remainder |-> dividend]
    ELSE LET up == Startup(Wider(divisor), One(Width), Wider(dividend))
             end == Subtract([dividend |-> Wider(dividend), quotient |-> Zeros(n),
                              divtmp |-> up[1], mask |-> up[2]], divisor)
         IN  [quotient |-> end.quotient, remainder |-> [i \in 0 .. n - 1 |-> end.dividend[i]]]

(* The value as a 32 bit number and whether the vector fits one. *)
vector2_to_value(a) == Signed(a, Width)
FitsInt == Width <= IntBits

Vec(ws) == Number(ws, n) % 2 ^ Width

----------------------------------------------------------------------------
(* Functors *)

(* One bit after the other, with a carry. *)
Ripple(a, b, carry) ==
    FoldLeft(LAMBDA s, i :
                 LET sum == Bit(a, i) + Bit(b, i) + s.carry
                 IN  [v |-> s.v + (sum % 2) * 2 ^ i, carry |-> sum \div 2],
             [v |-> 0, carry |-> carry], Upward(Width)).v

Invert(x) == 2 ^ Width - 1 - x

vvp_arith_sum(a, b) == Ripple(a, b, 0)

vvp_arith_sub(a, b) == Ripple(a, Invert(b), 1)

vvp_arith_mult(a, b) ==
    IF Native THEN ((a * b) % Base) % 2 ^ Width ELSE Vec(TimesVec(Array(a, n), Array(b, n)))

(* Magnitude of an operand of a signed division: in a word the bits above the
   vector are masked. *)
Magnitude(x) ==
    IF ~signed_flag \/ ~Sign(x) THEN x
    ELSE IF Native THEN ((-x) % Base) % 2 ^ Width ELSE Vec(NegVec(Array(x, n), Width))

Restore(x, negate) ==
    IF ~negate THEN x
    ELSE IF Native THEN ((-x) % Base) % 2 ^ Width ELSE Vec(NegVec(Array(x, n), Width))

vvp_arith_div(a, b) ==
    LET x == Magnitude(a)
        y == Magnitude(b)
        q == IF Native THEN x \div y ELSE Vec(div_mod(Array(x, n), Array(y, n)).quotient)
    IN  IF b = 0 THEN X ELSE Restore(q, signed_flag /\ Sign(a) # Sign(b))

vvp_arith_mod_Divisor(a, b) ==
    LET x == Magnitude(a)
        y == Magnitude(b)
        r == IF Native THEN x % y ELSE Vec(div_mod(Array(x, n), Array(y, n)).remainder)
    IN  IF b = 0 THEN X ELSE Restore(r, signed_flag /\ Sign(a) # Sign(b))

vvp_arith_mod(a, b) ==
    LET x == Magnitude(a)
        y == Magnitude(b)
        r == IF Native THEN x % y ELSE Vec(div_mod(Array(x, n), Array(y, n)).remainder)
    IN  IF b = 0 THEN X ELSE Restore(r, signed_flag /\ Sign(a))

(* A negative exponent: 0, 1 and -1 have results, of a base that fits an int. *)
vvp_arith_pow(a, b) ==
    IF signed_flag /\ Sign(b)
    THEN CASE FitsInt /\ vector2_to_value(a) = 0 -> X
           [] FitsInt /\ vector2_to_value(a) = 1 -> 1
           [] FitsInt /\ vector2_to_value(a) = -1 -> IF Bit(b, 0) = 1 THEN Invert(0) ELSE 1
           [] OTHER -> 0
    ELSE Vec(PowVec(Array(a, n), Array(b, n)))

vvp_arith_abs(a) == IF Sign(a) THEN Ripple(Invert(a), 1, 0) ELSE a

(* -a is made a subtraction from 0; the absolute value of an unsigned net is
   the net itself. *)
synthesize(a) ==
    IF op = "neg" THEN vvp_arith_sub(0, a) ELSE IF signs[1] THEN vvp_arith_abs(a) ELSE a

Unary == op \in {"neg", "abs"}

Send(a, b) ==
    IF a = X \/ (b = X /\ ~Unary) THEN X
    ELSE IF Unary THEN synthesize(a)
    ELSE CASE op = "+" -> vvp_arith_sum(a, b)
           [] op = "-" -> vvp_arith_sub(a, b)
           [] op = "*" -> vvp_arith_mult(a, b)
           [] op = "/" -> vvp_arith_div(a, b)
           [] op = "%" -> vvp_arith_mod(a, b)
           [] op = "**" -> vvp_arith_pow(a, b)

(* A new value of one operand. *)
Recv ==
    /\ \/ op_a' \in Vectors \cup {X} /\ UNCHANGED op_b
       \/ op_b' \in Vectors \cup {X} /\ UNCHANGED op_a
    /\ out' = Send(op_a', op_b')
    /\ val' = None
    /\ UNCHANGED <<op, signs>>

----------------------------------------------------------------------------
(* Opcodes *)

(* vvp_vector4_t::add, sub and mul: machine arithmetic and a mask, or a loop
   over the words with the last one masked. *)
AddVec4(a, b) ==
    IF Native THEN ((a + b) % Base) % 2 ^ Width
    ELSE Number(CleanTail(AddArray(add_with_carry, Array(a, n), Array(b, n), 0, n, 0).words, Width), n)

SubVec4(a, b) ==
    IF Native THEN ((a - b) % Base) % 2 ^ Width
    ELSE Number(CleanTail(AddArray(add_with_carry, Array(a, n), Complement(Array(b, n)), 0, n, 1).words,
                          Width), n)

MulVec4(a, b) ==
    LET x == Array(a, n)
        y == Array(b, n)
        res == FoldLeft(LAMBDA r, k :
                            LET mul_a == k \div n
                                mul_b == k % n
                            IN  IF mul_a + mul_b >= n THEN r
                                ELSE AddProduct(add_with_carry, r, mul_a + mul_b, n,
                                                multiply_with_carry(x[mul_a], y[mul_b])),
                        Zeros(n), Upward(n * n))
    IN  IF Native THEN ((a * b) % Base) % 2 ^ Width ELSE Number(CleanTail(res, Width), n)

(* The remainder of vectors longer than a word, a bit at a time.  At each place
   the complement of the divisor is added to as many bits of z, and a carry
   keeps the sum. *)
TopBit(x) == Max({-1} \cup {i \in 0 .. Width - 1 : Bit(x, i) = 1})

RemStep_Carry(z, b, current, copylen) ==
    LET part == (z \div 2 ^ current) % 2 ^ copylen
        t == part + (2 ^ copylen - 1 - b)
    IN  IF t >= 2 ^ copylen THEN z + (t - 2 ^ copylen - part) * 2 ^ current ELSE z

RemStep(z, b, current, copylen) ==
    LET part == (z \div 2 ^ current) % 2 ^ copylen
        t == part + (2 ^ copylen - 1 - b) + 1
    IN  IF t >= 2 ^ copylen THEN z + (t - 2 ^ copylen - part) * 2 ^ current ELSE z

do_verylong_mod(vala, valb, left_is_neg, right_is_neg) ==
    LET a == IF left_is_neg THEN (-vala) % 2 ^ Width ELSE vala
        b == IF right_is_neg THEN (-valb) % 2 ^ Width ELSE valb
        current == TopBit(a) - TopBit(b)
        z == FoldLeft(LAMBDA s, i : RemStep(s, b, current - i, TopBit(b) + 2), a,
                      Upward(current + 1))
    IN  IF b = 0 THEN X ELSE IF left_is_neg THEN (-z) % 2 ^ Width ELSE z

of_MOD(a, b) ==
    IF ~Native THEN do_verylong_mod(a, b, FALSE, FALSE) ELSE IF b = 0 THEN X ELSE a % b

of_MOD_S(a, b) ==
    LET least == -(Base \div 2)
        lv == IF Width = CPU_WORD_BITS THEN Signed(a, Width) ELSE a
        rv == IF Width = CPU_WORD_BITS THEN Signed(b, Width) ELSE b
    IN  IF ~Native THEN do_verylong_mod(a, b, Sign(a), Sign(b))
        ELSE IF rv = 0 THEN X
        ELSE IF lv = least /\ rv = -1 THEN 0
        ELSE Rem(Signed(a, Width), Signed(b, Width)) % 2 ^ Width

of_POW_base(a, b) ==
    IF signed_flag /\ Sign(b)
    THEN LET zero == IF FitsInt THEN vector2_to_value(a) = 0 ELSE a = 0
             one == IF FitsInt THEN vector2_to_value(a) = 1 ELSE a = 1
             all == IF FitsInt THEN vector2_to_value(a) = -1 ELSE a = Invert(0)
         IN  CASE zero -> X
               [] one -> 1
               [] all -> IF Bit(b, 0) = 1 THEN Invert(0) ELSE 1
               [] OTHER -> 0
    ELSE Vec(PowVec(Array(a, n), Array(b, n)))

draw_binary_vec4_arith(a, b) ==
    CASE op = "+" -> AddVec4(a, b)
      [] op = "-" -> SubVec4(a, b)
      [] op = "*" -> MulVec4(a, b)
      [] op = "%" -> IF signed_flag THEN of_MOD_S(a, b) ELSE of_MOD(a, b)
      [] op = "**" -> of_POW_base(a, b)

(* -a is ~a + 1; abs tests the sign of a signed operand first. *)
draw_unary_vec4(a) ==
    IF op = "abs" /\ ~(signs[1] /\ Sign(a)) THEN a ELSE AddVec4(Invert(a), 1)

Eval ==
    /\ val = None /\ op # "/"
    /\ val' = IF Unary THEN IF op_a = X THEN X ELSE draw_unary_vec4(op_a)
              ELSE IF X \in {op_a, op_b} THEN X ELSE draw_binary_vec4_arith(op_a, op_b)
    /\ UNCHANGED <<op, signs, op_a, op_b, out>>

Next == Recv \/ Eval

Spec == Init /\ [][Next]_vars

----------------------------------------------------------------------------
(* Properties *)

(* What IEEE 1364 gives for an operator; a power of a negative exponent is a
   fraction cut to an integer, and undefined for the base 0. *)
Read(x, signed) == IF signed THEN Signed(x, Width) ELSE x

Power(x, y) ==
    IF y >= 0 THEN FoldLeft(LAMBDA r, i : (r * x) % 2 ^ Width, 1, Upward(y))
    ELSE CASE x = 0 -> X
           [] x = 1 -> 1
           [] x = -1 -> IF y % 2 = 0 THEN 1 ELSE 2 ^ Width - 1
           [] OTHER -> 0

Wanted ==
    LET both == signs[1] /\ signs[2]
        x == Read(op_a, both)
        y == Read(op_b, both)
    IN  IF op_a = X \/ (op_b = X /\ ~Unary) THEN X
        ELSE CASE op = "+" -> (x + y) % 2 ^ Width
               [] op = "-" -> (x - y) % 2 ^ Width
               [] op = "*" -> (x * y) % 2 ^ Width
               [] op = "/" -> IF y = 0 THEN X ELSE Quot(x, y) % 2 ^ Width
               [] op = "%" -> IF y = 0 THEN X ELSE Rem(x, y) % 2 ^ Width
               [] op = "**" -> Power(Read(op_a, signs[1]), Read(op_b, signs[2]))
               [] op = "neg" -> (-op_a) % 2 ^ Width
               [] op = "abs" -> Abs(Read(op_a, signs[1])) % 2 ^ Width

(* A net has the value of its expression. *)
NetValue == out # None => out = Wanted

(* A process has the value of the same expression. *)
ProcessValue == val # None => val = Wanted

(* README.txt of vvp, on the arithmetic functors: "In all cases, there are no
   width limits, so long as the width is fixed." *)
NoWidthLimit == out # None /\ op = "/" => out = Wanted

(* The comment in both evaluations of a power: "Is the exponent negative? If
   so, table 5-6 in IEEE1364-2005 defines what value is returned."  Its rows
   are the values of the base: below -1, -1, 0, 1 and above 1. *)
Negative == op = "**" /\ X \notin {op_a, op_b} /\ signs[2] /\ Sign(op_b)
NetTable == out # None /\ Negative => out = Wanted
ProcessTable == val # None /\ Negative => val = Wanted
=============================================================================
