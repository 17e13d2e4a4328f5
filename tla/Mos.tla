-------------------------------- MODULE Mos --------------------------------
(***************************************************************************)
(* The unidirectional switches of vvp/npmos.cc.  Data comes in at port 0,  *)
(* the gates at ports 1 (and 2 of a cmos), each as a plain vector or as one*)
(* with strengths; every input makes an output.  One bit of the vectors    *)
(* stands for all: no switch mixes bits.                                   *)
(***************************************************************************)
EXTENDS Strength

CONSTANTS Types,      \* of "NMOS", "PMOS", "RNMOS", "RPMOS", "CMOS", "RCMOS"
          Strengths   \* strengths the sources use

MosAssumption ==
    /\ Types \subseteq {"NMOS", "PMOS", "RNMOS", "RPMOS", "CMOS", "RCMOS"}
    /\ Strengths \subseteq 1 .. 7

None == [v1 |-> 2]   \* nothing received, nothing sent
Signal == {scalar(b, s0, s1) : b \in Bit4, s0 \in Strengths \cup {0}, s1 \in Strengths}

VARIABLES type,
          bit_, en,    \* en[1] is en_, or n_en_, and en[2] is p_en_
          out,         \* the last output
          sent         \* what the sources of the ports sent last: history

vars == <<type, bit_, en, out, sent>>

Cmos == type \in {"CMOS", "RCMOS"}
resistive == type \in {"RNMOS", "RPMOS", "RCMOS"}
Invert(b) == CASE b = Bit0 -> Bit1 [] b = Bit1 -> Bit0 [] OTHER -> BitX

(* The data when the gate is neither open nor closed: it may be missing. *)
Ambiguous(b) ==
    CASE value(b) = Bit0 -> scalar(BitX, b.s0, 0)
      [] value(b) = Bit1 -> scalar(BitX, 0, b.s1)
      [] OTHER -> b

Weakened(b) == scalar(value(b), Weaken(resistive, b.s0), Weaken(resistive, b.s1))

(* vvp_fun_pmos_::generate_output_; en is inverted for an nmos *)
generate_output_pmos(b, e) ==
    CASE e[1] = Bit0 -> Weakened(b)
      [] e[1] = Bit1 -> HiZ
      [] OTHER -> Ambiguous(Weakened(b))

(* vvp_fun_cmos_::generate_output_ *)
generate_output_cmos(b, e) ==
    CASE e[1] = Bit1 \/ e[2] = Bit0 -> Weakened(b)
      [] e[1] = Bit0 /\ e[2] = Bit1 -> HiZ
      [] OTHER -> Ambiguous(Weakened(b))

generate_output_ ==
    out' = IF bit_' = None THEN out
           ELSE IF Cmos THEN generate_output_cmos(bit_', en') ELSE generate_output_pmos(bit_', en')

(* A gate as a plain vector *)
recv_gate(port, b) ==
    /\ en' = [en EXCEPT ![port] = IF type \in {"NMOS", "RNMOS"} THEN Invert(b) ELSE b]
    /\ bit_' = bit_
    /\ generate_output_

recv_vec4(port, b) ==
    /\ port = 2 => Cmos
    /\ IF port = 0 THEN bit_' = scalar(b, 6, 6) /\ en' = en /\ generate_output_
       ELSE recv_gate(port, b)
    /\ sent' = [sent EXCEPT ![port] = scalar(b, 6, 6)]
    /\ UNCHANGED type

(* A vector with strengths; a gate is reduced to its bits.  The resistive cmos
   does not know of port 2. *)
recv_vec8(port, s) ==
    /\ port = 2 => Cmos
    /\ CASE port = 0 -> bit_' = s /\ en' = en /\ generate_output_
         [] port = 1 \/ (port = 2 /\ type # "RCMOS") -> recv_gate(port, value(s))
         [] OTHER -> UNCHANGED <<bit_, en, out>>
    /\ sent' = [sent EXCEPT ![port] = s]
    /\ UNCHANGED type

Init ==
    /\ type \in Types
    /\ bit_ = None
    /\ en = <<BitX, BitX>>
    /\ out = None
    /\ sent = [p \in 0 .. 2 |-> None]

Next ==
    \/ \E port \in 0 .. 2, b \in Bit4 : recv_vec4(port, b)
    \/ \E port \in 0 .. 2, s \in Signal : recv_vec8(port, s)

Spec == Init /\ [][Next]_vars

----------------------------------------------------------------------------
(* Properties *)

(* The switch as two transistors side by side, an n and a p, either of which
   may be missing, whose outputs are resolved *)
Gate(p) == IF sent[p] = None THEN BitX ELSE value(sent[p])

Transistor(conducts, opens) ==
    IF conducts THEN Weakened(sent[0]) ELSE IF opens THEN HiZ ELSE Ambiguous(Weakened(sent[0]))

Wanted ==
    LET n == Transistor(Gate(1) = Bit1, Gate(1) = Bit0)
        p(port) == Transistor(Gate(port) = Bit0, Gate(port) = Bit1)
    IN CASE Cmos -> resolve(n, p(2))
         [] type \in {"NMOS", "RNMOS"} -> n
         [] OTHER -> p(1)

(* The output is that of the transistors for what the sources sent last, in
   whichever form it came and in whichever order; a cmos switch is an nmos and
   a pmos switch in parallel. *)
Conducts == sent[0] # None => out = Wanted

============================================================================
