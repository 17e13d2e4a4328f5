------------------------------- MODULE Filter -------------------------------
(***************************************************************************)
(* One signal of a running simulation: its functor (vvp_fun_signal4_sa),   *)
(* which takes the writes and the procedural continuous assigns, and the   *)
(* filter at its output (vvp_wire_vec4), which takes the forces.  A value  *)
(* leaves for the fan out only through the filter.  Two more signals are   *)
(* the right hand sides of assign and force statements; they reach this    *)
(* one through links in their fan out.                                     *)
(*                                                                         *)
(* A vector is a function from Idx; a part of it is a pair of a vector and *)
(* the set of the indices that count.  The functor, the filter and the     *)
(* fan out are one record t, and each method maps it to its new value.     *)
(***************************************************************************)
EXTENDS Integers, Sequences, FiniteSets, SequencesExt

CONSTANTS W,            \* width of the signal
          Bits,         \* the bit values used
          InitBit,      \* the one a signal starts with
          None,         \* no signal, no statement
          Sources,      \* signals that may be on a right hand side
          Kinds,        \* subset of {"reg", "net"}
          Ops,          \* the statements the design uses
          Disciplined,  \* a linked force is released, whole, before the next
          Overhang      \* part selects may stick out of the signal

FilterAssumption ==
    /\ W \in Nat \ {0}
    /\ Kinds \subseteq {"reg", "net"}
    /\ Ops \subseteq {"write", "force", "flink", "release",
                      "cassign", "clink", "deassign"}
    /\ Disciplined \in BOOLEAN /\ Overhang \in BOOLEAN
    /\ InitBit \in Bits /\ None \notin Bits \cup Sources

Idx == 0 .. W - 1
Vec == [Idx -> Bits]

VARIABLES kind,     \* variable or net
          t,        \* functor, filter and what the fan out was last sent
          src,      \* value of each source signal
          out,      \* links in the fan out of each source, newest first
          aborted,  \* an assertion of the code has failed
          want      \* what the statements executed ask of each bit

vars == <<kind, t, src, out, aborted, want>>

-----------------------------------------------------------------------------
(* The filter.                                                             *)

Idle == [i \in Idx |-> InitBit]

Overlay(old, v, p) == [i \in Idx |-> IF i \in p THEN v[i] ELSE old[i]]

\* vvp_send_vec4 and vvp_send_vec4_pv to the fan out.
Propagate(s, v, p) == [s EXCEPT !.shown = Overlay(@, v, p)]

filter_mask(s, v, p) ==
    IF s.fmask = {} THEN Propagate(s, v, p)
    ELSE LET u == [s EXCEPT !.fprop = FALSE]
         IN  IF s.fprop \/ ~(p \subseteq s.fmask)
             THEN Propagate(u, Overlay(v, s.force4, s.fmask), p)
             ELSE u

filter_vec4(s, v, p) ==
    IF ~s.finit /\ \A i \in p : s.fbits[i] = v[i] THEN s
    ELSE filter_mask([s EXCEPT !.fbits = Overlay(@, v, p), !.finit = FALSE], v, p)

\* What a reader of the signal gets, bit by bit.
filtered_value(s) == Overlay(s.fbits, s.force4, s.fmask)

\* vvp_net_t::force_vec4: all of v is sent on, whatever the mask.
force_vec4(s, v, p) ==
    Propagate([s EXCEPT !.fmask = @ \cup p,
                        !.fprop = TRUE,
                        !.force4 = IF s.fset THEN Overlay(@, v, p) ELSE v,
                        !.fset = TRUE],
              v, Idx)

-----------------------------------------------------------------------------
(* The functor.                                                            *)

\* recv_vec4 on port 0 compares, its part select form always sends.
recv_port0(s, v, p) ==
    LET free == p \ s.amask
        u == [s EXCEPT !.bits = Overlay(@, v, free), !.ninit = FALSE]
    IN  IF \/ s.amask = {} /\ p = Idx /\ ~s.ninit /\ s.bits = v
           \/ s.amask # {} /\ free = {}
        THEN s
        ELSE filter_vec4(u, u.bits, Idx)

recv_port1(s, v, p) ==
    LET u == [s EXCEPT !.bits = Overlay(@, v, p), !.amask = @ \cup p]
    IN  filter_vec4(u, u.bits, Idx)

\* release and release_pv: a net sends what drives it, a variable assigns
\* itself the value it has.
release(s, p) ==
    LET u == [s EXCEPT !.fmask = @ \ p]
    IN  IF kind = "net"
        THEN filter_vec4([u EXCEPT !.finit =
                             ~(s.fset /\ \A i \in p : s.force4[i] = s.fbits[i])],
                         s.fbits, p)
        ELSE recv_port0(u, filtered_value(s), p)

-----------------------------------------------------------------------------
(* The links.  flink and clink hold the source, or None.                   *)

Unlink(o, l) == [s \in Sources |-> SelectSeq(o[s], LAMBDA x : x # l)]

Link(o, s, l) == [o EXCEPT ![s] = <<l>> \o @]

\* vvp_fun_force::recv_vec4, or port 1 of the signal.
Receive(s, l, v) == IF l = "force" THEN force_vec4(s, v, Idx) ELSE recv_port1(s, v, Idx)

-----------------------------------------------------------------------------
(* Part selects are (base, width); the code cuts what sticks out.          *)

Part(base, wid) == {i \in Idx : base <= i /\ i < base + wid}

Selects == {s \in (0 .. W) \X (1 .. W) : Overhang \/ s[1] + s[2] <= W}

SticksOut(sel) == sel[1] < W /\ sel[1] + sel[2] > W

Init ==
    /\ kind \in Kinds
    /\ t = [bits |-> Idle, amask |-> {}, ninit |-> TRUE, clink |-> None,
            fbits |-> Idle, finit |-> TRUE, force4 |-> Idle, fset |-> FALSE,
            fmask |-> {}, fprop |-> FALSE, flink |-> None, shown |-> Idle]
    /\ src = [s \in Sources |-> Idle]
    /\ out = [s \in Sources |-> <<>>]
    /\ aborted = FALSE
    /\ want = [i \in Idx |-> [force |-> None, assign |-> None, held |-> InitBit]]

\* What the statements executed so far ask a bit to be.
Asked(w, i) ==
    LET Of(e) == IF e \in Sources THEN src[e][i] ELSE e
    IN  IF w.force # None THEN Of(w.force)
        ELSE IF w.assign # None THEN Of(w.assign)
        ELSE w.held

Ask(p, f(_, _)) == want' = [i \in Idx |-> IF i \in p THEN f(want[i], i) ELSE want[i]]

\* %store/vec4 of a variable, or a value from the drivers of a net.
Write(v, sel) ==
    LET p == Part(sel[1], sel[2])
    IN  /\ "write" \in Ops /\ ~aborted /\ p # {} /\ ~SticksOut(sel)
        /\ t' = IF kind = "reg" THEN recv_port0(t, v, p) ELSE filter_vec4(t, v, p)
        /\ Ask(p, LAMBDA w, i : IF w.assign = None THEN [w EXCEPT !.held = v[i]] ELSE w)
        /\ UNCHANGED <<kind, src, out, aborted>>

\* %force/vec4 and %force/vec4/off.  The value is not cut to the part.
Force(v, sel) ==
    LET p == Part(sel[1], sel[2])
    IN  /\ "force" \in Ops /\ ~aborted /\ p # {}
        /\ Disciplined => t.flink = None
        /\ IF SticksOut(sel)
           THEN aborted' = TRUE /\ UNCHANGED <<t, want>>
           ELSE /\ t' = force_vec4(t, Overlay(filtered_value(t), v, p), p)
                /\ Ask(p, LAMBDA w, i : [w EXCEPT !.force = v[i]])
                /\ UNCHANGED aborted
        /\ UNCHANGED <<kind, src, out>>

\* The statement force a = s: %force/vec4, then %force/link.
ForceSignal(s) ==
    /\ "flink" \in Ops /\ ~aborted
    /\ t' = [force_vec4(t, src[s], Idx) EXCEPT !.flink = s]
    /\ out' = Link(Unlink(out, "force"), s, "force")
    /\ Ask(Idx, LAMBDA w, i : [w EXCEPT !.force = s])
    /\ UNCHANGED <<kind, src, aborted>>

\* %release/net and %release/reg, which unlink whatever the part is.
Release(sel) ==
    LET p == Part(sel[1], sel[2])
    IN  /\ "release" \in Ops /\ ~aborted /\ p # {}
        /\ Disciplined /\ t.flink # None => p = Idx
        /\ t' = [release(t, p) EXCEPT !.flink = None]
        /\ out' = Unlink(out, "force")
        /\ Ask(p, LAMBDA w, i :
                 [w EXCEPT !.force = None,
                           !.held = IF kind = "reg" /\ w.assign = None
                                    THEN Asked(w, i) ELSE @])
        /\ UNCHANGED <<kind, src, aborted>>

Cassign_Linked(v, sel) ==
    LET p == Part(sel[1], sel[2])
    IN  /\ "cassign" \in Ops /\ kind = "reg" /\ ~aborted
        /\ t' = IF p = {} THEN t ELSE recv_port1(t, v, p)
        /\ Ask(Idx, LAMBDA w, i :
                 IF i \in p THEN [w EXCEPT !.assign = v[i]]
                 ELSE IF w.assign \in Sources THEN [w EXCEPT !.assign = src[@][i]]
                 ELSE w)
        /\ UNCHANGED <<kind, src, out, aborted>>

\* %cassign/vec4 and %cassign/vec4/off: the link goes first, even for a part.
Cassign(v, sel) ==
    LET p == Part(sel[1], sel[2])
    IN  /\ "cassign" \in Ops /\ kind = "reg" /\ ~aborted
        /\ t' = [(IF p = {} THEN t ELSE recv_port1(t, v, p)) EXCEPT !.clink = None]
        /\ out' = Unlink(out, "cassign")
        /\ Ask(Idx, LAMBDA w, i :
                 IF i \in p THEN [w EXCEPT !.assign = v[i]]
                 ELSE IF w.assign \in Sources THEN [w EXCEPT !.assign = src[@][i]]
                 ELSE w)
        /\ UNCHANGED <<kind, src, aborted>>

\* The statement assign a = s: %cassign/vec4, then %cassign/link.
CassignSignal(s) ==
    /\ "clink" \in Ops /\ kind = "reg" /\ ~aborted
    /\ t' = [recv_port1(t, src[s], Idx) EXCEPT !.clink = s]
    /\ out' = Link(Unlink(out, "cassign"), s, "cassign")
    /\ Ask(Idx, LAMBDA w, i : [w EXCEPT !.assign = s])
    /\ UNCHANGED <<kind, src, aborted>>

\* %deassign.  A part of a linked assign ends the program with "Sorry"; a
\* part of a signal without an assign fails vvp_vector2_t::set_bit.
Deassign(sel) ==
    LET p == Part(sel[1], sel[2])
    IN  /\ "deassign" \in Ops /\ kind = "reg" /\ ~aborted /\ p # {}
        /\ t.clink # None => p = Idx
        /\ IF p # Idx /\ t.amask = {}
           THEN aborted' = TRUE /\ UNCHANGED <<t, out, want>>
           ELSE /\ t' = [t EXCEPT !.amask = @ \ p, !.clink = None]
                /\ out' = Unlink(out, "cassign")
                /\ Ask(p, LAMBDA w, i :
                         [w EXCEPT !.assign = None,
                                   !.held = Asked([w EXCEPT !.force = None], i)])
                /\ UNCHANGED aborted
        /\ UNCHANGED <<kind, src>>

\* A source takes a new value and sends it down its fan out.
SourceChanges(s, v) ==
    /\ ~aborted /\ v # src[s]
    /\ src' = [src EXCEPT ![s] = v]
    /\ t' = FoldLeft(LAMBDA u, l : Receive(u, l, v), t, out[s])
    /\ UNCHANGED <<kind, out, aborted, want>>

Next ==
    \/ \E v \in Vec, sel \in Selects : Write(v, sel)
    \/ \E v \in Vec, sel \in Selects : Force(v, sel)
    \/ \E s \in Sources : ForceSignal(s)
    \/ \E sel \in Selects : Release(sel)
    \/ \E v \in Vec, sel \in Selects : Cassign(v, sel)
    \/ \E s \in Sources : CassignSignal(s)
    \/ \E sel \in Selects : Deassign(sel)
    \/ \E s \in Sources, v \in Vec : SourceChanges(s, v)

Spec == Init /\ [][Next]_vars

-----------------------------------------------------------------------------

TypeOK ==
    /\ kind \in {"reg", "net"}
    /\ t \in [bits : Vec, amask : SUBSET Idx, ninit : BOOLEAN,
              clink : Sources \cup {None}, fbits : Vec, finit : BOOLEAN,
              force4 : Vec, fset : BOOLEAN, fmask : SUBSET Idx,
              fprop : BOOLEAN, flink : Sources \cup {None}, shown : Vec]
    /\ src \in [Sources -> Vec]
    /\ \A s \in Sources : Range(out[s]) \subseteq {"cassign", "force"}
    /\ aborted \in BOOLEAN

(***************************************************************************)
(* Who reads the signal (%load, VPI) and who is driven by it agree: the    *)
(* fan out was last sent what the filter returns to readers.  The filter   *)
(* swallows a value it thinks is already out, and a force sends bits it    *)
(* does not force.                                                         *)
(***************************************************************************)
InSync == t.shown = filtered_value(t)

(***************************************************************************)
(* Every bit has the value that the statements executed so far ask of it:  *)
(* the latest force that was not released, following the signal it names;  *)
(* else the latest assign that was not deassigned; else the last value     *)
(* written, driven or left behind by a release.                            *)
(***************************************************************************)
AsAsked == ~aborted => \A i \in Idx : filtered_value(t)[i] = Asked(want[i], i)

(***************************************************************************)
(* A signal is in the fan out of a source exactly while the link it        *)
(* remembers names that source, and once: of_CASSIGN_LINK asserts it.      *)
(***************************************************************************)
LinksExact ==
    \A s \in Sources :
       /\ IsInjective(out[s])
       /\ Contains(out[s], "force") <=> t.flink = s
       /\ Contains(out[s], "cassign") <=> t.clink = s

(***************************************************************************)
(* %release/reg, opcodes.txt: the signal holds its forced value until      *)
(* another value propagates through.                                       *)
(***************************************************************************)
KeepsReleased ==
    (\E sel \in Selects : Release(sel)) /\ kind = "reg"
        => filtered_value(t') = filtered_value(t)

(***************************************************************************)
(* No assertion on the width of a vector fails.                            *)
(***************************************************************************)
NoAbort == ~aborted
=============================================================================
