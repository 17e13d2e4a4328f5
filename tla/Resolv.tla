------------------------------- MODULE Resolv -------------------------------
(***************************************************************************)
(* The resolver of a net with several drivers, vvp/resolv.cc.  The inputs  *)
(* are the leaves of a tree with four children to a node, flattened into   *)
(* val_: the inputs first, then each level of branches, the output last.   *)
(* A change climbs from its leaf and stops at the first branch it does not *)
(* change.  A vector is a sequence of bits, and empty before it has a      *)
(* value.                                                                  *)
(***************************************************************************)
EXTENDS Strength, Sequences, SequencesExt

CONSTANTS nports_,   \* number of inputs
          Types,     \* the types of resolvers: tri tri0 tri1 triand trior
          Width,     \* bits of the net
          Drives     \* the strength aware bits that drivers send

ResolvAssumption ==
    /\ nports_ \in Nat \ {0} /\ Width \in Nat \ {0}
    /\ Types \subseteq {"tri", "tri0", "tri1", "triand", "trior"}
    /\ Drives \subseteq Scalar

VARIABLES type,
          val_,    \* the nodes of the tree, from 0
          net,     \* the value last sent
          in       \* what each input last received

vars == <<type, val_, net, in>>

IsTri == type \in {"tri", "tri0", "tri1"}

hiz_value_ == CASE type = "tri0" -> scalar(Bit0, 5, 5)
                [] type = "tri1" -> scalar(Bit1, 5, 5)
                [] OTHER -> HiZ

RECURSIVE Branches(_)
Branches(n) == IF n > 4 THEN LET m == (n + 3) \div 4 IN m + Branches(m) ELSE 0

(* The nodes the constructor allocates. *)
nnodes == LET n == nports_ + Branches(nports_) IN IF n > 1 THEN n + 1 ELSE n

----------------------------------------------------------------------------
(* Combining two drivers *)

wired_logic_math_(a, b) ==
    LET strong == IF type = "triand" THEN Bit0 ELSE Bit1
        weak == IF type = "triand" THEN Bit1 ELSE Bit0
    IN IF a = BitZ THEN b
       ELSE IF b = BitZ THEN a
       ELSE IF strong \in {a, b} THEN strong
       ELSE IF BitX \in {a, b} THEN BitX
       ELSE weak

Combine(a, b) ==
    IF b = <<>> THEN a
    ELSE IF a = <<>> THEN b
    ELSE [i \in 1 .. Width |-> IF IsTri THEN resolve(a[i], b[i])
                               ELSE wired_logic_math_(a[i], b[i])]

Combined(vs) == FoldLeft(Combine, <<>>, vs)

(* The pull of a tri0 or tri1 net *)
Pulled(v) == IF is_hiz(hiz_value_) THEN v
             ELSE [i \in DOMAIN v |-> resolve(v[i], hiz_value_)]

----------------------------------------------------------------------------
(* One level of the tree after another, from the leaf that has changed *)

RECURSIVE Climb_Late(_, _, _, _)
Climb_Late(v, base, span, port) ==
    IF span <= 1 THEN [val |-> v, base |-> base, changed |-> TRUE]
    ELSE LET next_base == base + span
             ip == base + 4 * (port \div 4)
             op == next_base + port \div 4
             ll == Min({ip + 4, next_base + 1})
             out == Combined([k \in 1 .. ll - ip |-> v[ip + k - 1]])
         IN IF v[op] = out THEN [val |-> v, base |-> base, changed |-> FALSE]
            ELSE Climb_Late([v EXCEPT ![op] = out], next_base, (span + 3) \div 4, port \div 4)

RECURSIVE Climb(_, _, _, _)
Climb(v, base, span, port) ==
    IF span <= 1 THEN [val |-> v, base |-> base, changed |-> TRUE]
    ELSE LET next_base == base + span
             ip == base + 4 * (port \div 4)
             op == next_base + port \div 4
             ll == Min({ip + 4, next_base})
             out == Combined([k \in 1 .. ll - ip |-> v[ip + k - 1]])
         IN IF v[op] = out THEN [val |-> v, base |-> base, changed |-> FALSE]
            ELSE Climb([v EXCEPT ![op] = out], next_base, (span + 3) \div 4, port \div 4)

(* recv_vec8_ of a resolv_tri and recv_vec4_ of a resolv_wired_logic: the
   same walk; only the first has a pull, which is stored in the output too. *)
recv_(port, bit) ==
    LET up == Climb([val_ EXCEPT ![port] = bit], 0, nports_, port)
        out == Pulled(up.val[up.base])
    IN /\ in' = [in EXCEPT ![port] = bit]
       /\ IF val_[port] = bit THEN UNCHANGED <<val_, net>>
          ELSE IF ~up.changed THEN val_' = up.val /\ UNCHANGED net
          ELSE /\ val_' = [up.val EXCEPT ![up.base] = out]
               /\ net' = IF nports_ = 1 /\ ~is_hiz(hiz_value_) /\ out = val_[port]
                         THEN net ELSE out
       /\ UNCHANGED type

(* A vec4 is strong for a resolv_tri. *)
recv_vec4(port, bit) ==
    recv_(port, IF IsTri THEN [i \in DOMAIN bit |-> scalar(bit[i], 6, 6)] ELSE bit)

(* reduce4 for a resolv_wired_logic *)
recv_vec8(port, bit) ==
    recv_(port, IF IsTri THEN bit ELSE [i \in DOMAIN bit |-> value(bit[i])])

(* A driver of some of the bits leaves the others at z. *)
Expand(bit, base, z) ==
    [i \in 1 .. Width |-> IF i - 1 \in base .. base + Len(bit) - 1 THEN bit[i - base] ELSE z]

recv_vec4_pv(port, bit, base) == recv_vec4(port, Expand(bit, base, BitZ))
recv_vec8_pv(port, bit, base) == recv_vec8(port, Expand(bit, base, HiZ))

Parts(B) == UNION {[1 .. w -> B] : w \in 1 .. Width - 1}

Init ==
    /\ type \in Types
    /\ val_ = [n \in 0 .. nnodes - 1 |-> <<>>]
    /\ net = <<>>
    /\ in = [p \in 0 .. nports_ - 1 |-> <<>>]

Next ==
    \E port \in 0 .. nports_ - 1 :
        \/ \E bit \in [1 .. Width -> Bit4] : recv_vec4(port, bit)
        \/ \E bit \in [1 .. Width -> Drives] : recv_vec8(port, bit)
        \/ \E base \in 0 .. Width - 1, bit \in Parts(Bit4) : recv_vec4_pv(port, bit, base)
        \/ \E base \in 0 .. Width - 1, bit \in Parts(Drives) : recv_vec8_pv(port, bit, base)

Spec == Init /\ [][Next]_vars

----------------------------------------------------------------------------
(* count_drivers: how many inputs drive this bit with 0, 1 and x. *)
count_drivers(v, i) ==
    LET Drives0(b) == {p \in 0 .. nports_ - 1 :
                          v[p] # <<>> /\ (IF IsTri THEN value(v[p][i]) ELSE v[p][i]) = b}
    IN [b \in {Bit0, Bit1, BitX} |-> Cardinality(Drives0(b))]

(* The net has the value of all that the drivers sent last, resolved in the
   order of the ports from nothing, though each change only climbed one path
   of the tree and stopped where nothing changed. *)
Resolved ==
    net = IF \A p \in DOMAIN in : in[p] = <<>> THEN <<>>
          ELSE Pulled(Combined([k \in 1 .. nports_ |-> in[k - 1]]))

(* Some values have two encodings of z. *)
Canonical(v) == [i \in DOMAIN v |-> IF IsTri /\ is_hiz(v[i]) THEN HiZ ELSE v[i]]

(* The order in which drivers are connected to the ports makes no difference. *)
OrderFree ==
    \A perm \in SetToSeqs(0 .. nports_ - 1) :
        (\E p \in DOMAIN in : in[p] # <<>>) =>
            Canonical(net) = Canonical(Pulled(Combined([k \in 1 .. nports_ |-> in[perm[k]]])))

(* $countdrivers sees what the drivers sent, not what the tree made of it. *)
CountsDrivers ==
    \A i \in 1 .. Width : count_drivers(val_, i) = count_drivers(in, i)

============================================================================
