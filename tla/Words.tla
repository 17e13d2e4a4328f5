------------------------------- MODULE Words -------------------------------
(***************************************************************************)
(* Arithmetic on arrays of machine words, as vvp/vvp_net.cc and            *)
(* vvp/vthread.cc do it: a word is a number below Base, an array of words  *)
(* a function on 0 .. n - 1 with the least significant word first, and     *)
(* every operation of the machine is taken modulo Base.                    *)
(***************************************************************************)
EXTENDS Integers, Sequences, SequencesExt

CONSTANT CPU_WORD_BITS     \* an even number

Base == 2 ^ CPU_WORD_BITS
ULONG_MAX == Base - 1

Not(w) == ULONG_MAX - w

(* The number of words that hold wid bits. *)
WordsOf(wid) == (wid + CPU_WORD_BITS - 1) \div CPU_WORD_BITS

(* What an array of words stands for, and the array of a number. *)
Upward(n) == [i \in 1 .. n |-> i - 1]

Number(ws, n) == FoldLeft(LAMBDA s, i : s + ws[i] * Base ^ i, 0, Upward(n))

Array(x, n) == [i \in 0 .. n - 1 |-> (x \div Base ^ i) % Base]

(* A number of wid bits read as a signed one, and back. *)
Signed(x, wid) == IF x >= 2 ^ (wid - 1) THEN x - 2 ^ wid ELSE x
Unsigned(x, wid) == x % 2 ^ wid

(* The division of C, and of Verilog: towards zero. *)
Abs(x) == IF x < 0 THEN -x ELSE x
Quot(x, y) == IF (x < 0) = (y < 0) THEN Abs(x) \div Abs(y) ELSE -(Abs(x) \div Abs(y))
Rem(x, y) == x - y * Quot(x, y)

----------------------------------------------------------------------------
(* Sum and carry of two words and a carry: add_with_carry of vvp_net.h and
   add_carry of vvp_net.cc. *)
add_with_carry(a, b, carry) ==
    LET tmp == (b + carry) % Base
        sum == (a + tmp) % Base
    IN  <<sum, IF tmp < b \/ sum < tmp \/ sum < a THEN 1 ELSE 0>>

add_carry(a, b, carry) ==
    LET out == (carry + a) % Base
        one == IF ULONG_MAX - carry < a THEN 1 ELSE 0
        two == IF ULONG_MAX - out < b THEN 1 ELSE 0
    IN  <<(out + b) % Base, one + two>>

(* The loop of both: x[from + i] + y[i] from the word `from` to the end of x,
   with the sum in place of x and the last carry. *)
AddArray(add(_, _, _), x, y, from, n, carry) ==
    FoldLeft(LAMBDA s, i :
                 LET r == add(s.words[from + i], y[i], s.carry)
                 IN  [words |-> [s.words EXCEPT ![from + i] = r[1]], carry |-> r[2]],
             [words |-> x, carry |-> carry], Upward(n - from))

Complement(x) == [i \in DOMAIN x |-> Not(x[i])]

negate_words(x, n) ==
    AddArray(add_with_carry, [i \in DOMAIN x |-> 0], Complement(x), 0, n, 1).words

(* Product of two words as <<low, high>>, from the products of their halves:
   multiply_with_carry and multiply_long. *)
Half == 2 ^ (CPU_WORD_BITS \div 2)
Lo(w) == w % Half
Hi(w) == w \div Half

multiply_with_carry(a, b) ==
    LET mid == Hi(Lo(a) * Lo(b)) + Lo(Lo(a) * Hi(b)) + Lo(Hi(a) * Lo(b))
        top == Hi(mid) + Hi(Lo(a) * Hi(b)) + Hi(Hi(a) * Lo(b)) + Lo(Hi(a) * Hi(b))
        over == Hi(top) + Hi(Hi(a) * Hi(b))
    IN  <<Lo(mid) * Half + Lo(Lo(a) * Lo(b)), Lo(over) * Half + Lo(top)>>

multiply_long(a, b) ==
    LET one == Hi(Lo(a) * Lo(b)) + Hi(a) * Lo(b)
        two == Lo(one) + Lo(a) * Hi(b)
        top == Hi(one) + Hi(two)
        end == Lo(top) + Hi(a) * Hi(b)
    IN  <<Lo(two) * Half + Lo(Lo(a) * Lo(b)), (Hi(top) + Hi(end)) * Half + Lo(end)>>

(* The product `pr` of two words added to res at word `base`: the low word,
   the high word, then the carry up to the end. *)
AddProduct(add(_, _, _), res, base, n, pr) ==
    AddArray(add, res, [i \in 0 .. n - 1 |-> CASE i = 0 -> pr[1] [] i = 1 -> pr[2] [] OTHER -> 0],
             base, n, 0).words

Zeros(n) == [i \in 0 .. n - 1 |-> 0]

(* val * imm, cut to n words. *)
multiply_array_imm(val, n, imm) ==
    FoldLeft(LAMBDA res, i :
                 AddProduct(add_with_carry, res, i, n, multiply_with_carry(val[i], imm)),
             Zeros(n), Upward(n))
============================================================================
