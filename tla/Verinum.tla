------------------------------ MODULE Verinum ------------------------------
(***************************************************************************)
(* The numbers of the compiler, ivl/verinum.cc: a vector of bits, least    *)
(* significant first, that may have a fixed length and may be signed.  A   *)
(* number without a fixed length is as long as it needs to be.             *)
(***************************************************************************)
EXTENDS Integers, Sequences, SequencesExt, FiniteSetsExt

CONSTANT LongBits      \* bits of a long

V == {"0", "1", "x", "z"}

Count(n) == [i \in 1 .. n |-> i - 1]
Fill(b, n) == [i \in 0 .. n - 1 |-> b]

verinum(bits, n, has_len, has_sign) ==
    [bits |-> bits, len |-> n, has_len |-> has_len, has_sign |-> has_sign]

is_defined(v) == \A i \in 0 .. v.len - 1 : v.bits[i] \in {"0", "1"}
is_zero(v) == \A i \in 0 .. v.len - 1 : v.bits[i] = "0"
is_negative(v) == v.has_sign /\ v.bits[v.len - 1] = "1"
sign_bit(v) == IF v.has_sign THEN v.bits[v.len - 1] ELSE "0"
At(v, i, pad) == IF i < v.len THEN v.bits[i] ELSE pad
Not(b) == CASE b = "0" -> "1" [] b = "1" -> "0" [] OTHER -> "x"

One(b) == IF b = "1" THEN 1 ELSE 0
BitOf(x) == IF x % 2 = 1 THEN "1" ELSE "0"
Of(x, n) == [i \in 0 .. n - 1 |-> BitOf(x \div 2 ^ i)]

Sum(v) == FoldLeft(LAMBDA s, i : s + One(v.bits[i]) * 2 ^ i, 0, Count(v.len))

(* The value as a long, which keeps the low bits and the sign, and as an
   unsigned long, which stops at the greatest. *)
as_long(v) ==
    LET top == IF v.len > LongBits - 1 THEN LongBits - 1 ELSE v.len
        low == FoldLeft(LAMBDA s, i : s + One(v.bits[i]) * 2 ^ i, 0, Count(top))
    IN  IF ~is_defined(v) THEN 0 ELSE IF is_negative(v) THEN low - 2 ^ top ELSE low

as_ulong(v) ==
    IF ~is_defined(v) THEN 0 ELSE IF Sum(v) >= 2 ^ LongBits THEN 2 ^ LongBits - 1 ELSE Sum(v)

----------------------------------------------------------------------------
(* Lengths *)

(* The bit that fills a longer number.  An x or z at the top of an unsized
   number is carried on. *)
PadOf(v) ==
    LET top == v.bits[v.len - 1]
    IN  CASE top = "1" /\ ~v.has_sign -> "0"
          [] top \in {"x", "z"} /\ v.has_len /\ ~v.has_sign -> "0"
          [] OTHER -> top

Widen(v, width, has_len) ==
    verinum([i \in 0 .. width - 1 |-> At(v, i, PadOf(v))], width, has_len, v.has_sign)

pad_to_width(v, width) == IF v.len >= width THEN v ELSE Widen(v, width, v.has_len)

cast_to_width(v, width) ==
    IF v.len >= width THEN verinum([i \in 0 .. width - 1 |-> v.bits[i]], width, TRUE, v.has_sign)
    ELSE Widen(v, width, TRUE)

(* As few bits as hold the value: one sign bit of a signed number, one leading
   zero of an unsigned one that had any. *)
trim_vnum(v) ==
    LET sign == sign_bit(v)
        top == Max({0} \cup {i \in 0 .. v.len - 1 : v.bits[i] # sign})
        n == IF v.has_sign THEN IF v.bits[top] # sign THEN top + 2 ELSE top + 1
             ELSE IF top + 1 = v.len THEN v.len
             ELSE IF v.bits[top] = "0" THEN top + 1 ELSE top + 2
    IN  IF v.has_len \/ v.len < 2 THEN v
        ELSE verinum([i \in 0 .. n - 1 |-> v.bits[i]], n, FALSE, v.has_sign)

----------------------------------------------------------------------------
(* Comparison.  The operands may have different lengths; what the longer one
   has above the other is compared with the padding of the other. *)
SignedBoth(l, r) == l.has_sign /\ r.has_sign
PadIn(v, w) == IF SignedBoth(v, w) THEN v.bits[v.len - 1] ELSE "0"

Equal(l, r) ==
    \A i \in 0 .. Max({l.len, r.len}) - 1 : At(l, i, PadIn(l, r)) = At(r, i, PadIn(r, l))

Compare(l, r, out_if_equal) ==
    LET lp == PadIn(l, r)
        rp == PadIn(r, l)
        upper == {i \in r.len .. l.len - 1 : l.bits[i] # rp}
                     \cup {i \in l.len .. r.len - 1 : r.bits[i] # lp}
        lower == {i \in 0 .. Min({l.len, r.len}) - 1 : l.bits[i] # r.bits[i]}
    IN  CASE {lp, rp} = {"0", "1"} -> lp = "1"
          [] upper # {} -> IF l.len > r.len THEN lp = "1" ELSE rp # "1"
          [] lower # {} -> l.bits[Max(lower)] = "0"
          [] OTHER -> out_if_equal

Leeq(l, r) == Compare(l, r, TRUE)
Less(l, r) == Compare(l, r, FALSE)

----------------------------------------------------------------------------
(* Arithmetic *)

(* A bit of a sum of known bits, and its carry. *)
add_with_carry(l, r, c) ==
    LET sum == One(l) + One(r) + c IN [bit |-> BitOf(sum), carry |-> sum \div 2]

(* The bits of a sum. *)
Adder(f(_), g(_), n, carry) ==
    FoldLeft(LAMBDA s, i :
                 LET a == add_with_carry(f(i), g(i), s.carry)
                 IN  [bits |-> Append(s.bits, a.bit), carry |-> a.carry],
             [bits |-> <<>>, carry |-> carry], Count(n)).bits

Bits(s, n) == [i \in 0 .. n - 1 |-> s[i + 1]]

Unknown(l, r) ==
    LET has_len == l.has_len /\ r.has_len
        n == IF has_len THEN Max({l.len, r.len}) ELSE 1
    IN  verinum(Fill("x", n), n, has_len, SignedBoth(l, r))

Defined(l, r) == is_defined(l) /\ is_defined(r)

(* One bit more than the longer operand has been computed, and is kept when
   the result has no fixed length and needs it. *)
Kept(s, n, l, r, carries) ==
    LET has_len == l.has_len /\ r.has_len
        more == ~has_len /\ IF SignedBoth(l, r) THEN s[n + 1] # s[n] ELSE carries /\ s[n + 1] = "1"
        m == IF more THEN n + 1 ELSE n
    IN  verinum([i \in 0 .. m - 1 |-> s[i + 1]], m, has_len, SignedBoth(l, r))

Plus_Fixed(l, r) ==
    LET n == Max({l.len, r.len})
        s == Adder(LAMBDA i : At(l, i, sign_bit(l)), LAMBDA i : At(r, i, sign_bit(r)), n + 1, 0)
    IN  IF ~Defined(l, r) THEN Unknown(l, r) ELSE Kept(s, n, l, r, FALSE)

Plus(l, r) ==
    LET n == Max({l.len, r.len})
        s == Adder(LAMBDA i : At(l, i, sign_bit(l)), LAMBDA i : At(r, i, sign_bit(r)), n + 1, 0)
    IN  IF ~Defined(l, r) THEN Unknown(l, r) ELSE Kept(s, n, l, r, TRUE)

Minus(l, r) ==
    LET n == Max({l.len, r.len})
        s == Adder(LAMBDA i : At(l, i, sign_bit(l)), LAMBDA i : Not(At(r, i, sign_bit(r))), n + 1, 1)
    IN  IF ~Defined(l, r) THEN Unknown(l, r) ELSE Kept(s, n, l, r, FALSE)

Negate(v) ==
    LET s == Adder(LAMBDA i : "0", LAMBDA i : Not(At(v, i, sign_bit(v))), v.len + 1, 1)
    IN  IF ~is_defined(v) THEN Unknown(v, v) ELSE Kept(s, v.len, v, v, FALSE)

(* Shifted copies of the left operand, added for the ones of the right. *)
Times(l, r) ==
    LET has_len == l.has_len /\ r.has_len
        n == IF has_len THEN Max({l.len, r.len}) ELSE l.len + r.len
        add(s, k) == Adder(LAMBDA i : s[i],
                           LAMBDA i : IF i < k THEN "0" ELSE At(l, i - k, sign_bit(l)), n, 0)
        bits == FoldLeft(LAMBDA s, k : IF At(r, k, sign_bit(r)) = "0" THEN s
                                       ELSE Bits(add(s, k), n),
                         Fill("0", n), Count(n))
    IN  IF ~Defined(l, r) THEN Unknown(l, r) ELSE trim_vnum(verinum(bits, n, has_len, SignedBoth(l, r)))

ShiftLeft(v, shift) ==
    LET n == IF v.has_len THEN v.len ELSE v.len + shift
    IN  trim_vnum(verinum([i \in 0 .. n - 1 |-> IF i < shift THEN "0" ELSE v.bits[i - shift]], n,
                          v.has_len, v.has_sign))

ShiftRight(v, shift) ==
    LET n == IF v.has_len THEN v.len ELSE v.len - shift
    IN  IF shift >= v.len
        THEN LET m == IF v.has_len THEN v.len ELSE 1
             IN  verinum(Fill(sign_bit(v), m), m, v.has_len, v.has_sign)
        ELSE trim_vnum(verinum([i \in 0 .. n - 1 |-> At(v, i + shift, sign_bit(v))], n,
                               v.has_len, v.has_sign))

(* Long division of magnitudes, as numbers without a length. *)
Loose(v) == [v EXCEPT !.has_len = FALSE]
Used(v) == Max({0} \cup {i + 1 : i \in {j \in 0 .. v.len - 1 : v.bits[j] # "0"}})

LongDivision(num, den) ==
    LET first == Used(num) - Used(den) + 1
        step(s, k) ==
            LET shifted == [s EXCEPT !.den = ShiftRight(s.den, 1)]
            IN  IF Leeq(s.den, s.num)
                THEN [shifted EXCEPT !.num = Minus(s.num, s.den), !.quot = @ + 2 ^ (first - k - 1)]
                ELSE shifted
    IN  IF Used(den) > Used(num) THEN [num |-> num, quot |-> 0]
        ELSE FoldLeft(step, [num |-> num, quot |-> 0, den |-> ShiftLeft(den, first - 1)], Count(first))

unsigned_divide_Tight(n, d, signed_result) ==
    LET num == Loose(n)
        den == Loose(d)
        m == Used(num) - Used(den) + 1
    IN  IF Used(den) > Used(num) THEN verinum(Fill("0", 1), 1, TRUE, FALSE)
        ELSE verinum(Of(LongDivision(num, den).quot, m), m, TRUE, signed_result)

unsigned_divide(n, d, signed_result) ==
    LET num == Loose(n)
        den == Loose(d)
        size == Used(num) - Used(den) + 1
        m == IF signed_result THEN size + 1 ELSE size
    IN  IF Used(den) > Used(num) THEN verinum(Fill("0", 1), 1, TRUE, FALSE)
        ELSE verinum(Of(LongDivision(num, den).quot, m), m, TRUE, signed_result)

unsigned_modulus(n, d) == LongDivision(Loose(n), Loose(d)).num

NegateIf(v, negative) == IF negative THEN Negate(v) ELSE v
Magnitude(v, signed) ==
    IF signed THEN [NegateIf(v, is_negative(v)) EXCEPT !.has_sign = FALSE] ELSE v

(* The division of C: towards zero. *)
Abs(x) == IF x < 0 THEN -x ELSE x
Quot(x, y) == IF (x < 0) = (y < 0) THEN Abs(x) \div Abs(y) ELSE -(Abs(x) \div Abs(y))

NoResult(l, r) == ~Defined(l, r) \/ is_zero(r)

Sized(v, l, r) ==
    LET sized == IF l.has_len /\ r.has_len THEN cast_to_width(v, l.len) ELSE v
    IN  trim_vnum([sized EXCEPT !.has_sign = SignedBoth(l, r)])

Divide(l, r) ==
    LET n == l.len
        signed == SignedBoth(l, r)
        long(x) == verinum(Of(x, n), n, l.has_len /\ r.has_len, FALSE)
        q == CASE signed /\ n <= LongBits - 1 -> long(Quot(as_long(l), as_long(r)))
               [] ~signed /\ n <= LongBits -> long(as_ulong(l) \div as_ulong(r))
               [] OTHER -> NegateIf(unsigned_divide(Magnitude(l, signed), Magnitude(r, signed), signed),
                                    signed /\ is_negative(l) # is_negative(r))
    IN  IF NoResult(l, r) THEN verinum(Fill("x", n), n, l.has_len /\ r.has_len, signed)
        ELSE Sized(q, l, r)

Modulus(l, r) ==
    LET n == l.len
        signed == SignedBoth(l, r)
        long(x) == verinum(Of(x, n), n, l.has_len /\ r.has_len, FALSE)
        m == CASE signed /\ n <= LongBits -> long(as_long(l) - as_long(r) * Quot(as_long(l), as_long(r)))
               [] ~signed /\ n <= LongBits -> long(as_ulong(l) % as_ulong(r))
               [] OTHER -> NegateIf(unsigned_modulus(Magnitude(l, signed), Magnitude(r, signed)),
                                    signed /\ is_negative(l))
    IN  IF NoResult(l, r) THEN verinum(Fill("x", n), n, l.has_len /\ r.has_len, signed)
        ELSE Sized(m, l, r)

----------------------------------------------------------------------------
(* Power *)
make_p_one(v) ==
    LET n == IF v.has_len THEN v.len ELSE 2
    IN  verinum([i \in 0 .. n - 1 |-> IF i = 0 THEN "1" ELSE "0"], n, v.has_len, v.has_sign)

make_m_one(v) ==
    LET n == IF v.has_len THEN v.len ELSE 1 IN verinum(Fill("1", n), n, v.has_len, v.has_sign)

Same(b, v) == verinum(Fill(b, v.len), v.len, v.has_len, v.has_sign)

RECURSIVE pow(_, _)
recursive_pow(l, r) ==
    IF r.bits[0] = "1" THEN Times(l, pow(l, [r EXCEPT !.bits[0] = "0"]))
    ELSE LET z == pow(l, ShiftRight(r, 1)) IN Times(z, z)

pow(l, r) ==
    trim_vnum(
        IF ~Defined(l, r) THEN Same("x", l)
        ELSE IF is_zero(r) THEN make_p_one(l)
        ELSE IF ~is_negative(r) THEN recursive_pow(l, r)
        ELSE IF is_zero(l) THEN Same("x", l)
        ELSE IF l.has_sign /\ Equal(l, make_m_one(l))
        THEN IF r.bits[0] = "0" THEN make_p_one(l) ELSE make_m_one(l)
        ELSE IF Equal(l, make_p_one(l)) THEN make_p_one(l)
        ELSE Same("0", l))
============================================================================
