------------------------------- MODULE Divide -------------------------------
(***************************************************************************)
(* The division of vectors in a thread: %div and %div/s of vvp/vthread.cc, *)
(* over vectors of any width.  A vector that fits a machine word is        *)
(* divided by the machine; a longer one by divide_bits, a long division    *)
(* in which a digit is a word.  One step of the model is one digit of the  *)
(* quotient, or one correction of a digit.                                 *)
(*                                                                         *)
(* A vector without x and z bits is its number; any other one is X, and    *)
(* only that much is used of it.                                           *)
(***************************************************************************)
EXTENDS Words

CONSTANTS Widths,        \* widths of the operands
          Asked(_, _, _), \* Asked(op, wid, b): the divisors to try
          X              \* a vector with an x or z bit

VARIABLES op, wid, a, b,      \* the instruction and its operands
          ap, bp,             \* the arrays of words
          negate_flag, result,
          cur, cur_res,       \* the digit being found
          fixes,              \* corrections made to it, counted up to 2
          pc, out

operands == <<op, wid, a, b>>
vars == <<operands, ap, bp, negate_flag, result, cur, cur_res, fixes, pc, out>>

words == WordsOf(wid)

Init ==
    /\ op \in {"div", "div/s"}
    /\ wid \in Widths
    /\ a \in 0 .. 2 ^ wid - 1 \cup {X}
    /\ b \in 0 .. 2 ^ wid - 1 \cup {X}
    /\ Asked(op, wid, b)
    /\ ap = Zeros(words) /\ bp = Zeros(words) /\ result = Zeros(words)
    /\ negate_flag = FALSE /\ cur = 0 /\ cur_res = 0 /\ fixes = 0
    /\ pc = "start" /\ out = X

Give(v) == pc' = "done" /\ out' = v

----------------------------------------------------------------------------
(* The word of the quotient for {high, a} over b. *)
RECURSIVE divide2words(_, _, _, _)
divide2words(lo, d, high, sum) ==
    IF high = 0 THEN (sum + lo \div d) % Base
    ELSE LET exact == (ULONG_MAX % d) + 1 >= d
             tmp_result == (ULONG_MAX \div d + (IF exact THEN 1 ELSE 0)) % Base
             remain == IF exact THEN (ULONG_MAX % d) + 1 - d ELSE (ULONG_MAX % d) + 1
             pr == multiply_with_carry(high, remain)
             next == (lo + pr[1]) % Base
         IN  divide2words(next, d, pr[2] + (IF next < pr[1] THEN 1 ELSE 0),
                          (sum + tmp_result * high) % Base)

(* The top word of a divisor. *)
Top(d) == LET used == {i \in 0 .. words - 1 : d[i] # 0}
          IN  IF used = {} THEN 0 ELSE CHOOSE i \in used : \A j \in used : j <= i

(* Both instructions up to the loop of divide_bits: x operands, one word, zero,
   and with %div/s the signs. *)
Negative(v) == op = "div/s" /\ v >= 2 ^ (wid - 1)

(* Sign extended to whole words, and made positive. *)
Size(v) == IF Negative(v)
           THEN Number(negate_words(Array(v + Base ^ words - 2 ^ wid, words), words), words)
           ELSE v

Native ==
    IF op = "div" THEN a \div b
    ELSE Unsigned(Quot(Signed(a, wid), Signed(b, wid)), wid)

Start ==
    /\ pc = "start"
    /\ \/ /\ X \in {a, b} \/ b = 0
          /\ Give(X)
          /\ UNCHANGED <<ap, bp, negate_flag, cur>>
       \/ /\ X \notin {a, b} /\ b # 0 /\ wid <= CPU_WORD_BITS
          /\ Give(Native)
          /\ UNCHANGED <<ap, bp, negate_flag, cur>>
       \/ /\ X \notin {a, b} /\ b # 0 /\ wid > CPU_WORD_BITS
          /\ ap' = Array(Size(a), words)
          /\ bp' = Array(Size(b), words)
          /\ negate_flag' = (Negative(a) # Negative(b))
          /\ cur' = words - Top(Array(Size(b), words))
          /\ pc' = "digit"
          /\ UNCHANGED out
    /\ UNCHANGED <<operands, result, cur_res, fixes>>

----------------------------------------------------------------------------
(* One turn of the loop of divide_bits. *)
ptr == cur - 1
btop == Top(bp)

(* The word above the one the digit is taken from. *)
High == IF ptr + btop + 1 < words THEN ap[ptr + btop + 1] ELSE 0

Skip == ap[ptr + btop] < bp[btop] /\ High = 0

Estimate == divide2words(ap[ptr + btop], bp[btop], High, 0)

(* Mutant of Subtract: bp is not shifted up to the digit. *)
Subtract_Low(digit) ==
    AddArray(add_with_carry, ap, Complement(multiply_array_imm(bp, words, digit)),
             0, words, 1)

(* ap - (bp * digit) << ptr, and whether there is no borrow. *)
Subtract(digit) ==
    AddArray(add_with_carry, ap, Complement(multiply_array_imm(bp, words - ptr, digit)),
             ptr, words, 1)

Digit ==
    /\ pc = "digit" /\ cur > 0
    /\ fixes' = 0
    /\ \/ /\ Skip
          /\ cur' = cur - 1
          /\ UNCHANGED <<ap, result, cur_res, pc>>
       \/ /\ ~Skip
          /\ LET rest == Subtract(Estimate)
             IN  /\ ap' = rest.words
                 /\ cur_res' = Estimate
                 /\ IF rest.carry = 0
                    THEN pc' = "correct" /\ UNCHANGED <<cur, result>>
                    ELSE /\ result' = [result EXCEPT ![ptr] = Estimate]
                         /\ cur' = cur - 1
                         /\ UNCHANGED pc
    /\ UNCHANGED <<operands, bp, negate_flag, out>>

(* bp << ptr is added back in until the carry says that ap is not negative. *)
Again(carry) == carry = 0

Correct ==
    /\ pc = "correct"
    /\ LET rest == AddArray(add_with_carry, ap, bp, ptr, words, 0)
           digit == (cur_res - 1) % Base
       IN  /\ ap' = rest.words
           /\ cur_res' = digit
           /\ fixes' = IF fixes < 2 THEN fixes + 1 ELSE fixes
           /\ IF Again(rest.carry) THEN UNCHANGED <<cur, result, pc>>
              ELSE /\ result' = [result EXCEPT ![ptr] = digit]
                   /\ cur' = cur - 1
                   /\ pc' = "digit"
    /\ UNCHANGED <<operands, bp, negate_flag, out>>

Finish ==
    /\ pc = "digit" /\ cur = 0
    /\ Give(Unsigned(Number(IF negate_flag THEN negate_words(result, words) ELSE result,
                            words), wid))
    /\ UNCHANGED <<operands, ap, bp, negate_flag, result, cur, cur_res, fixes>>

Done == pc = "done" /\ UNCHANGED vars

Next == Start \/ Digit \/ Correct \/ Finish \/ Done

Spec == Init /\ [][Next]_vars

----------------------------------------------------------------------------
(* Properties *)

(* The quotient is the one of Verilog: x when an operand is not a number or
   the divisor is 0, towards zero and cut to the width otherwise; wide
   operands, whose division is done here, and narrow ones agree. *)
Wanted ==
    IF X \in {a, b} \/ b = 0 THEN X
    ELSE IF op = "div" THEN a \div b
    ELSE Unsigned(Quot(Signed(a, wid), Signed(b, wid)), wid)

Quotient == pc = "done" => out = Wanted

(* The comment behind the loop, at every digit: "input-a = bp * result + ap". *)
Balanced ==
    pc = "digit" => Number(bp, words) * Number(result, words) + Number(ap, words) = Size(a)

(* "cur_res is a guesstimate of the result this far. It may be 1 too big." *)
OneTooBig == fixes <= 1

(* The loop that takes one off a digit has no bound of its own.  It ends since
   a digit above 0 is left to take from for as long as ap is negative. *)
Descends == pc = "correct" => cur_res > 0
=============================================================================
