------------------------------- MODULE Part --------------------------------
(***************************************************************************)
(* The functors that take vectors apart and put them together (vvp/part.cc,*)
(* concat.cc, reduce.cc, substitute.cc and extend.cc), at the output of a  *)
(* wire.  The wire sends whole vectors, or parts: always the same one when *)
(* its single driver drives a part of it, and any part when the force of a *)
(* part is released (vvp_wire_vec4::release_pv).                           *)
(***************************************************************************)
EXTENDS Integers, Sequences, FiniteSets, FiniteSetsExt

CONSTANTS Kinds,     \* of "part", "part_var", "concat", "reduce", "substitute", "extend", "repeat"
          W,         \* width of the wire
          Driven,    \* indices of the wire its driver drives
          Forces     \* parts that are forced and released

PartAssumption ==
    /\ W \in Nat /\ W > 1
    /\ Driven \subseteq 0 .. W - 1 /\ Driven # {}
    /\ Forces \subseteq SUBSET (0 .. W - 1)

Idx == 0 .. W - 1
Vec(n, b) == [i \in 0 .. n - 1 |-> b]
Overlay(old, v, p) == [i \in DOMAIN old |-> IF i \in p THEN v[i] ELSE old[i]]

base_ == W - 2       \* of "part", two bits wide
soff_ == 0           \* the bit "substitute" replaces

VARIABLES kind,
          drv, fmask, force, sent,  \* the wire
          other,                    \* second input of concat and substitute
          sel,                      \* select input of part_var, -1 for x, W + 1: not sent
          f,                        \* [val, base, net]: the functor
          out,                      \* the last output
          aborted

wire == <<drv, fmask, force, sent>>
vars == <<kind, wire, other, sel, f, out, aborted>>

shown == Overlay(drv, force, fmask)

----------------------------------------------------------------------------
(* What the functors send: [f, out] after whole vector v came in *)

select(v, base) == [i \in 0 .. 1 |-> IF base >= 0 /\ base + i < W THEN v[base + i] ELSE "x"]

And(S) == CASE "0" \in S -> "0" [] S = {"1"} -> "1" [] OTHER -> "x"

part_recv_vec4(v) ==
    LET tmp == select(v, base_)
    IN [f |-> [f EXCEPT !.val = tmp, !.net = f.net \/ tmp # f.val], out |-> out]

part_var_recv_vec4(v) == [f |-> [f EXCEPT !.val = v], out |-> select(v, f.base)]

(* Concatenation and substitution keep the whole of the output. *)
Keep(v, p) ==
    LET val == Overlay(f.val, v, p) IN [f |-> [f EXCEPT !.val = val], out |-> val]

reduce_recv_vec4(v) == [f |-> [f EXCEPT !.val = v], out |-> <<And({v[i] : i \in Idx})>>]

extend_recv_vec4(v) ==
    [f |-> f, out |-> [i \in 0 .. W |-> IF i < W THEN v[i] ELSE v[W - 1]]]

repeat_recv_vec4(v) == [f |-> f, out |-> [i \in 0 .. (2 * W) - 1 |-> v[i % W]]]

substitute_recv_vec4(v) == Keep(v, Idx \ {soff_})

recv_vec4(v) ==
    CASE kind = "part" -> part_recv_vec4(v)
      [] kind = "part_var" -> part_var_recv_vec4(v)
      [] kind = "concat" -> Keep(v, Idx)
      [] kind = "substitute" -> substitute_recv_vec4(v)
      [] kind = "reduce" -> reduce_recv_vec4(v)
      [] kind = "extend" -> extend_recv_vec4(v)
      [] kind = "repeat" -> repeat_recv_vec4(v)

(* vvp_net_fun_t::recv_vec4_pv_: the rest of the vector is undriven. *)
recv_vec4_pv_(v, p) == recv_vec4(Overlay(Vec(W, "z"), v, p))

part_recv_vec4_pv_Alone(v, p) == recv_vec4_pv_(v, p)

part_recv_vec4_pv(v, p) ==
    LET own == {base_, base_ + 1}
        tmp == IF f.val = <<>> THEN Vec(W, "z")
               ELSE [i \in Idx |-> IF i \in own THEN f.val[i - base_] ELSE "z"]
    IN recv_vec4(Overlay(tmp, v, p))

(* Of the part select and of the reduction: without a vector yet, the rest is x. *)
part_var_recv_vec4_pv(v, p) ==
    recv_vec4(Overlay(IF f.val = <<>> THEN Vec(W, "x") ELSE f.val, v, p))

recv_vec4_pv(v, p) ==
    CASE kind = "part" -> part_recv_vec4_pv(v, p)
      [] kind \in {"part_var", "reduce"} -> part_var_recv_vec4_pv(v, p)
      [] kind = "concat" -> Keep(v, p)
      [] OTHER -> recv_vec4_pv_(v, p)

Take(r) == f' = r.f /\ out' = r.out

----------------------------------------------------------------------------
(* The wire *)

send_pv(v, p) ==
    IF kind = "repeat" THEN aborted' = TRUE /\ UNCHANGED <<f, out>>
    ELSE Take(recv_vec4_pv(v, p)) /\ aborted' = aborted

drive(v) ==
    /\ fmask = {}
    /\ drv' = Overlay(drv, v, Driven) /\ drv' # drv
    /\ IF Driven = Idx THEN Take(recv_vec4(drv')) /\ aborted' = aborted ELSE send_pv(drv', Driven)
    /\ sent' = TRUE
    /\ UNCHANGED <<kind, fmask, force, other, sel>>

(* A force of a part sends the whole vector. *)
force_vec4(p, v) ==
    /\ fmask = {}
    /\ fmask' = p
    /\ force' = v
    /\ Take(recv_vec4(Overlay(drv, v, p)))
    /\ sent' = TRUE
    /\ UNCHANGED <<kind, drv, other, sel, aborted>>

(* Releasing it sends the part, if its value is another one now. *)
release_pv ==
    /\ fmask # {}
    /\ fmask' = {}
    /\ IF \A i \in fmask : drv[i] = force[i] THEN UNCHANGED <<f, out, aborted>>
       ELSE send_pv(drv, fmask)
    /\ UNCHANGED <<kind, drv, force, sent, other, sel>>

----------------------------------------------------------------------------
(* The other inputs *)

recv_other(bit) ==
    /\ kind \in {"concat", "substitute"}
    /\ other' = bit
    /\ LET val == [f.val EXCEPT ![IF kind = "concat" THEN W ELSE soff_] = bit]
       IN f' = [f EXCEPT !.val = val] /\ out' = val
    /\ UNCHANGED <<kind, wire, sel, aborted>>

(* The base starts as 0, so a select of 0 that comes first sends nothing. *)
recv_select(s) ==
    /\ kind = "part_var"
    /\ sel' = s
    /\ f' = [f EXCEPT !.base = s]
    /\ out' = IF s = f.base THEN out
              ELSE IF f.val = <<>> THEN Vec(2, "x") ELSE select(f.val, s)
    /\ UNCHANGED <<kind, wire, other, aborted>>

run_run ==
    /\ f.net
    /\ f' = [f EXCEPT !.net = FALSE]
    /\ out' = f.val
    /\ UNCHANGED <<kind, wire, other, sel, aborted>>

----------------------------------------------------------------------------
Init ==
    /\ kind \in Kinds
    /\ drv = Vec(W, "z") /\ fmask = {} /\ force = Vec(W, "z") /\ sent = FALSE
    /\ other = "z"
    /\ sel = W + 1
    /\ f = [val |-> CASE kind = "concat" -> Vec(W + 1, "z")
                      [] kind = "substitute" -> Vec(W, "z")
                      [] OTHER -> <<>>,
            base |-> 0, net |-> FALSE]
    /\ out = <<>>
    /\ aborted = FALSE

Next ==
    /\ ~aborted
    /\ \/ \E v \in [Idx -> {"0", "1"}] : drive(v)
       \/ \E p \in Forces, v \in [Idx -> {"0", "1"}] : force_vec4(p, v)
       \/ release_pv
       \/ \E bit \in {"0", "1"} : recv_other(bit)
       \/ \E s \in -1 .. W : recv_select(s)
       \/ run_run

Spec == Init /\ [][Next]_vars

----------------------------------------------------------------------------
(* Properties *)

Wanted ==
    CASE kind = "part" -> [i \in 0 .. 1 |-> shown[W - 2 + i]]
      [] kind = "part_var" -> [i \in 0 .. 1 |-> IF sel # -1 /\ sel + i \in Idx THEN shown[sel + i] ELSE "x"]
      [] kind = "concat" -> [i \in 0 .. W |-> IF i = W THEN other ELSE shown[i]]
      [] kind = "substitute" -> [i \in Idx |-> IF i = 0 THEN other ELSE shown[i]]
      [] kind = "reduce" -> <<IF \E i \in Idx : shown[i] = "0" THEN "0"
                              ELSE IF \A i \in Idx : shown[i] = "1" THEN "1" ELSE "x">>
      [] kind = "extend" -> [i \in 0 .. W |-> IF i < W THEN shown[i] ELSE shown[W - 1]]
      [] OTHER -> [i \in 0 .. (2 * W) - 1 |-> shown[i % W]]

(* The functor shows what its wire shows: after any mix of whole vectors,
   parts, forces and releases, and with no run scheduled, the output is what
   the functor makes of the present value of the wire. *)
Carries == sent /\ ~f.net /\ (kind = "part_var" => sel <= W) => out = Wanted

(* A part of a vector can be sent to any functor. *)
NoAbort == ~aborted

============================================================================
