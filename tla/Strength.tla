------------------------------ MODULE Strength ------------------------------
(***************************************************************************)
(* Values with strengths, vvp_scalar_t of vvp/vvp_net.h and its resolution *)
(* in vvp/vvp_net.cc.  The byte VSSSvsss is a record of its fields: v1 and *)
(* s1 are the bit and the strength nearest to supply1, v0 and s0 the ones  *)
(* nearest to supply0.                                                     *)
(***************************************************************************)
EXTENDS Integers, FiniteSets, FiniteSetsExt

CONSTANTS Bit0, Bit1, BitX, BitZ   \* BIT4_0, BIT4_1, BIT4_X, BIT4_Z

Bit4 == {Bit0, Bit1, BitX, BitZ}

Scalar == [v1 : {0, 1}, s1 : 0 .. 7, v0 : {0, 1}, s0 : 0 .. 7]

(* vvp_scalar_t(): high impedance *)
HiZ == [v1 |-> 0, s1 |-> 0, v0 |-> 0, s0 |-> 0]

(* vvp_scalar_t(val, str0, str1) *)
scalar(val, str0, str1) ==
    CASE val = BitZ \/ (str0 = 0 /\ str1 = 0) -> HiZ
      [] val = Bit0 -> [v1 |-> 0, s1 |-> str0, v0 |-> 0, s0 |-> str0]
      [] val = Bit1 -> [v1 |-> 1, s1 |-> str1, v0 |-> 1, s0 |-> str1]
      [] OTHER -> [v1 |-> 1, s1 |-> str1, v0 |-> 0, s0 |-> str0]

is_hiz(a) == a.s1 = 0 /\ a.s0 = 0

(* value: the bit a strength aware value is reduced to *)
value(a) ==
    CASE is_hiz(a) -> BitZ
      [] a.v1 = 0 /\ a.v0 = 0 -> Bit0
      [] a.v1 = 1 /\ a.v0 = 1 -> Bit1
      [] OTHER -> BitX

UNAMBIG(a) == a.v1 = a.v0 /\ a.s1 = a.s0

(* Both unambiguous: the stronger one, or x of the strength they share. *)
Stronger(a, b) ==
    IF b.s0 > a.s0 THEN b
    ELSE IF b.s0 = a.s0 THEN [a EXCEPT !.v1 = 1, !.v0 = 0]
    ELSE a

(* One unambiguous: u sweeps up the weaker ends of the ambiguous r. *)
Sweep(u, r) ==
    LET high == IF u.s1 > r.s1 THEN u ELSE r
        low == IF u.s0 > r.s0 THEN u ELSE r
    IN [v1 |-> high.v1, s1 |-> high.s1, v0 |-> low.v0, s0 |-> low.s0]

(* Both ambiguous: from the lowest of the four ends to the highest. *)
Widen(a, b) ==
    LET Signed(v, s) == IF v = 1 THEN s ELSE -s
        ends == {Signed(a.v1, a.s1), Signed(a.v0, a.s0),
                 Signed(b.v1, b.s1), Signed(b.v0, b.s0)}
        sv1 == Max(ends)
        sv0 == Min(ends)
        res == [v1 |-> IF sv1 > 0 THEN 1 ELSE IF a.v1 = 1 /\ b.v1 = 1 THEN 1 ELSE 0,
                s1 |-> IF sv1 > 0 THEN sv1 ELSE -sv1,
                v0 |-> IF sv0 > 0 THEN 1 ELSE 0,
                s0 |-> IF sv0 > 0 THEN sv0 ELSE -sv0]
    IN IF is_hiz(res) THEN HiZ ELSE res

fully_featured_resolv_(a, b) ==
    IF UNAMBIG(a) /\ UNAMBIG(b) THEN Stronger(a, b)
    ELSE IF UNAMBIG(a) THEN Sweep(a, b)
    ELSE IF UNAMBIG(b) THEN Sweep(b, a)
    ELSE Widen(a, b)

resolve(a, b) ==
    IF is_hiz(a) THEN b
    ELSE IF is_hiz(b) \/ a = b THEN a
    ELSE fully_featured_resolv_(a, b)

(* vvp_fun_bufif, for one bit: the enable and the data are the ones after the
   inversions of the gate. *)
bufif(en, bit, str0, str1) ==
    CASE en = Bit0 -> HiZ
      [] en = Bit1 -> scalar(IF bit = BitZ THEN BitX ELSE bit, str0, str1)
      [] OTHER -> CASE bit = Bit0 -> scalar(BitX, str0, 0)
                    [] bit = Bit1 -> scalar(BitX, 0, str1)
                    [] OTHER -> scalar(BitX, str0, str1)

(* vvp_switch_strength_map: what a switch makes of a strength. *)
Weaken(resistive, s) ==
    IF resistive THEN <<0, 1, 1, 2, 2, 3, 5, 5>>[s + 1]
    ELSE IF s = 7 THEN 6 ELSE s

============================================================================
