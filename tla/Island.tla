------------------------------- MODULE Island -------------------------------
(***************************************************************************)
(* Islands of bidirectional switches, vvp/vvp_island.cc and                *)
(* vvp/island_tran.cc.  Ports bring values in from outside and take the    *)
(* resolved ones out; branches (tran, tranif, rtran, part selects) connect *)
(* them.  An input flags the island, the scheduler runs it later, and a    *)
(* run tests the enables, pushes values through the branches until nothing *)
(* changes, and sends the results port by port.                            *)
(* A vector is a sequence of Strength!Scalar, empty while it is nil; a     *)
(* branch is [a, b, en, active_high, resistive, width, part, offset].      *)
(***************************************************************************)
EXTENDS Strength, Sequences, SequencesExt

CONSTANTS Meshes,      \* sequences of branches, in the order of add_branch
          Drives,      \* the bits the outside drives
          Forces,      \* the bits a force may set
          NoPort,      \* a branch without an enable
          InCallback,  \* may a callback of a value sent release a net by VPI?
          MaxSteps     \* bound on the changes from outside

VARIABLES mesh,
          invalue, outvalue, pvalue,  \* invalue, outvalue and value of the ports
          force,       \* forced value of the net of a port
          state,       \* of the branches
          flagged_,
          sending,     \* branch ends run_output has still to look at
          window,      \* a value was just sent, and those it reaches may react
          steps

vars == <<mesh, invalue, outvalue, pvalue, force, state, flagged_, sending, window, steps>>

nil == <<>>
Ports == UNION {{mesh[i].a, mesh[i].b, mesh[i].en} : i \in DOMAIN mesh} \ {NoPort}
Branches == DOMAIN mesh

(* The bits of a port: a part select has more at its a side. *)
Width(p) == Max({1} \cup {mesh[i].width : i \in {j \in Branches : mesh[j].a = p}}
                    \cup {mesh[i].part : i \in {j \in Branches : mesh[j].b = p}})

----------------------------------------------------------------------------
(* The mesh: add_branch links the ends at one port into a ring. *)

PortOf(e) == IF e[2] = 0 THEN mesh[e[1]].a ELSE mesh[e[1]].b

(* The end that stands for a port in anodes_ or bnodes_: the first one added. *)
Head1(p) ==
    LET i == Min({j \in Branches : p \in {mesh[j].a, mesh[j].b}})
    IN IF mesh[i].a = p THEN <<i, 0>> ELSE <<i, 1>>

Ends(p) == SelectSeq(FlattenSeq([i \in Branches |-> <<<<i, 0>>, <<i, 1>>>>]),
                     LAMBDA e : PortOf(e) = p)

(* Each later end is linked right behind the first: the ring from an end. *)
island_collect_node(e) ==
    LET p == PortOf(e)
        ring == <<Head1(p)>> \o Reverse(Tail(Ends(p)))
        k == CHOOSE j \in DOMAIN ring : ring[j] = e
    IN [j \in DOMAIN ring |-> ring[((k + j - 2) % Len(ring)) + 1]]

----------------------------------------------------------------------------
(* A run *)

(* island_get_value of every port: the input, seen through the forces f. *)
island_get_value(f) ==
    [p \in Ports |-> IF invalue[p] # nil /\ f[p] # nil THEN f[p] ELSE invalue[p]]

(* run_test_enabled: a port that was sent a value counts with that value. *)
test_enabled(br) ==
    IF br.en = NoPort THEN "enabled"
    ELSE LET v == IF outvalue[br.en] # nil THEN value(outvalue[br.en][1])
                  ELSE IF invalue[br.en] # nil THEN value(invalue[br.en][1])
                  ELSE BitZ
         IN CASE v = Bit0 -> IF br.active_high THEN "disabled" ELSE "enabled"
              [] v = Bit1 -> IF br.active_high THEN "enabled" ELSE "disabled"
              [] OTHER -> "unknown"

(* What a bit is behind a switch. *)
Through(b, st, resistive) ==
    LET w == scalar(value(b), Weaken(resistive, b.s0), Weaken(resistive, b.s1))
    IN IF st # "unknown" THEN w
       ELSE CASE value(w) = Bit0 -> scalar(BitX, w.s0, 0)
              [] value(w) = Bit1 -> scalar(BitX, 0, w.s1)
              [] OTHER -> w

Resolve(a, b) == [i \in DOMAIN a |-> resolve(a[i], b[i])]

part_expand(v, wid, off) ==
    [i \in 1 .. wid |-> IF i - 1 \in off .. off + Len(v) - 1 THEN v[i - off] ELSE HiZ]

(* What the value v at the end e becomes at the other end of its branch. *)
Across(v, e, st) ==
    LET br == mesh[e[1]]
    IN CASE br.width = 0 -> [i \in DOMAIN v |-> Through(v[i], st[e[1]], br.resistive)]
         [] br.width # 0 /\ e[2] = 0 -> SubSeq(v, br.offset + 1, br.offset + br.part)
         [] OTHER -> part_expand(v, br.width, br.offset)

Other(e) == <<e[1], 1 - e[2]>>

(* push_value_through_branches and push_value_through_branch: vals are the
   values of the ports so far.  The value pushed is a reference to the one of
   the port, and sees what comes back while it is pushed. *)

RECURSIVE push_value_through_branches(_, _, _, _)
push_value_through_branches(vals, ends, st, get) ==
    LET PushOne(vs, e) ==
            LET dst == PortOf(Other(e))
                start == IF vs[dst] = nil THEN get[dst] ELSE vs[dst]
                new == Resolve(start, Across(vs[PortOf(e)], e, st))
            IN IF st[e[1]] = "disabled" \/ start = nil THEN vs
               ELSE IF new = vs[dst] THEN vs
               ELSE push_value_through_branches([vs EXCEPT ![dst] = new],
                                                island_collect_node(Other(e)), st, get)
    IN FoldLeft(PushOne, vals, ends)

(* run_resolution: each side that has not been visited. *)
run_resolution(vals, i, st, get) ==
    LET Side(vs, e) ==
            LET p == PortOf(e)
            IN IF vs[p] # nil \/ get[p] = nil THEN vs
               ELSE push_value_through_branches([vs EXCEPT ![p] = get[p]],
                                                island_collect_node(e), st, get)
    IN Side(Side(vals, <<i, 0>>), <<i, 1>>)

(* The list of branches has the last one added first. *)
branches_ == Reverse([i \in Branches |-> i])

AllEnds == FlattenSeq([k \in Branches |-> <<<<branches_[k], 0>>, <<branches_[k], 1>>>>])

(* run_island up to its outputs, which a run inside a run sends first. *)
run_island(f) ==
    LET st == [i \in Branches |-> test_enabled(mesh[i])]
        get == island_get_value(f)
    IN /\ state' = st
       /\ pvalue' = FoldLeft(LAMBDA vs, i : run_resolution(vs, i, st, get), pvalue, branches_)
       /\ sending' = AllEnds \o sending
       /\ window' = FALSE

----------------------------------------------------------------------------
(* Steps *)

(* The outside acts between two runs, or when a value sent reaches it. *)
Bounded == (sending = <<>> \/ window) /\ steps < MaxSteps /\ steps' = steps + 1

(* run_run, called by the scheduler *)
run_run ==
    /\ flagged_ /\ sending = <<>>
    /\ flagged_' = FALSE
    /\ run_island(force)
    /\ UNCHANGED <<mesh, invalue, outvalue, force, steps>>

(* run_output for one end of a branch, with island_send_value *)
run_output ==
    /\ sending # <<>>
    /\ LET p == PortOf(Head(sending))
       IN IF pvalue[p] = nil THEN UNCHANGED <<outvalue, pvalue>>
          ELSE /\ outvalue' = [outvalue EXCEPT ![p] = pvalue[p]]
               /\ pvalue' = [pvalue EXCEPT ![p] = nil]
    /\ sending' = Tail(sending)
    /\ window' = (outvalue' # outvalue)
    /\ UNCHANGED <<mesh, invalue, force, state, flagged_, steps>>

(* recv_vec8; a value that an island sends may come back at once. *)
recv_vec8_Busy(p, bit) ==
    /\ Bounded
    /\ invalue' = [invalue EXCEPT ![p] = bit]
    /\ flagged_' = (flagged_ \/ (invalue[p] # bit /\ sending = <<>>))
    /\ UNCHANGED <<mesh, outvalue, pvalue, force, state, sending, window>>

recv_vec8(p, bit) ==
    /\ Bounded
    /\ IF invalue[p] = bit THEN UNCHANGED <<invalue, flagged_>>
       ELSE invalue' = [invalue EXCEPT ![p] = bit] /\ flagged_' = TRUE
    /\ UNCHANGED <<mesh, outvalue, pvalue, force, state, sending, window>>

(* recv_vec8_pv: the other bits stay what they are, or start at z. *)
recv_vec8_pv(p, bit, base) ==
    /\ Bounded
    /\ invalue' = [invalue EXCEPT ![p] =
           IF invalue[p] = nil THEN part_expand(bit, Width(p), base)
           ELSE [i \in 1 .. Width(p) |->
                    IF i - 1 \in base .. base + Len(bit) - 1 THEN bit[i - base] ELSE invalue[p][i]]]
    /\ flagged_' = TRUE
    /\ UNCHANGED <<mesh, outvalue, pvalue, force, state, sending, window>>

(* force_vec8 and a release by a thread flag the island. *)
force_vec8(p, bit) ==
    /\ Bounded /\ sending = <<>>
    /\ force' = [force EXCEPT ![p] = bit]
    /\ flagged_' = TRUE
    /\ UNCHANGED <<mesh, invalue, outvalue, pvalue, state, sending, window>>

release(p) ==
    /\ Bounded /\ sending = <<>>
    /\ force' = [force EXCEPT ![p] = nil]
    /\ flagged_' = TRUE
    /\ UNCHANGED <<mesh, invalue, outvalue, pvalue, state, sending, window>>

(* vpi_put_value with vpiReleaseFlag runs the island at once, in the middle of
   a run when a value change callback does it. *)
vpi_release(p) ==
    /\ Bounded
    /\ sending = <<>> \/ InCallback
    /\ force[p] # nil
    /\ force' = [force EXCEPT ![p] = nil]
    /\ run_island(force')
    /\ UNCHANGED <<mesh, invalue, outvalue, flagged_>>

Init ==
    /\ mesh \in Meshes
    /\ invalue = [p \in Ports |-> nil]
    /\ outvalue = invalue /\ pvalue = invalue /\ force = invalue
    /\ state = [i \in Branches |-> IF mesh[i].en = NoPort THEN "enabled" ELSE "disabled"]
    /\ flagged_ = FALSE /\ sending = <<>> /\ window = FALSE /\ steps = 0

Inner == {mesh[i].a : i \in Branches} \cup {mesh[i].b : i \in Branches}

Next ==
    \/ run_run
    \/ run_output
    \/ \E p \in Ports :
          \/ \E bit \in [1 .. Width(p) -> Drives] : recv_vec8(p, bit)
          \/ \E base \in 0 .. Width(p) - 1, bit \in [{1} -> Drives] :
                 Width(p) > 1 /\ recv_vec8_pv(p, bit, base)
    \/ \E p \in Inner :
          \/ \E bit \in [1 .. Width(p) -> Forces] : force_vec8(p, bit)
          \/ release(p)
          \/ vpi_release(p)

Spec == Init /\ [][Next]_vars

----------------------------------------------------------------------------
(* Properties *)

Idle == ~flagged_ /\ sending = <<>>

Now(i) == test_enabled(mesh[i])

(* The reference: the values of the ports from which a path of conducting
   switches leads to p, each as it arrives. *)
RECURSIVE Arriving(_, _)
Arriving(p, seen) ==
    LET get == island_get_value(force)
        st == [i \in Branches |-> Now(i)]
        Into == {e \in Branches \X {0, 1} :
                    /\ PortOf(Other(e)) = p /\ PortOf(e) \notin seen \cup {p}
                    /\ st[e[1]] # "disabled" /\ get[PortOf(e)] # nil}
    IN {get[p]} \cup UNION {{Across(v, e, st) : v \in Arriving(PortOf(e), seen \cup {p})} : e \in Into}

Known == \A i \in Branches : Now(i) # "unknown"

(* When the island rests, every port has been sent the resolution of all the
   inputs, forces included, that switches conduct to it at this moment. *)
Settled ==
    Idle /\ Known =>
        \A p \in Inner : island_get_value(force)[p] # nil =>
            outvalue[p] = FoldSet(Resolve, [i \in 1 .. Width(p) |-> HiZ], Arriving(p, {}))

(* When the island rests, no switch, conducting or unknown, has a value at one
   end that would still change the other. *)
Stable ==
    Idle => \A e \in Branches \X {0, 1} :
        LET src == outvalue[PortOf(e)]
            dst == outvalue[PortOf(Other(e))]
        IN state[e[1]] # "disabled" /\ src # nil /\ dst # nil =>
               Resolve(dst, Across(src, e, state)) = dst

(* No value of a run is left behind for the next one. *)
Clean == sending = <<>> => \A p \in Ports : pvalue[p] = nil

============================================================================
