------------------------------- MODULE Flop --------------------------------
(***************************************************************************)
(* The flip-flops of vvp/dff.cc and the latch of vvp/latch.cc.  Inputs come*)
(* in at four ports; an output is a non-blocking event of the current time,*)
(* and those run in the order they were scheduled.  The data is one bit:   *)
(* the ports handle a vector as a whole.                                   *)
(***************************************************************************)
EXTENDS Integers, Sequences, SequencesExt

CONSTANTS Kinds,      \* of "dff", "aclr", "aset", "latch"
          Steady,     \* the clock is enabled and disabled only while inactive
          Async,      \* values the set or clear input takes
          MaxOut      \* bound on the outputs scheduled at one time

Bit4 == {"0", "1", "x", "z"}

FlopAssumption ==
    /\ Kinds \subseteq {"dff", "aclr", "aset", "latch"}
    /\ Steady \in BOOLEAN /\ Async \subseteq Bit4 /\ MaxOut \in Nat \ {0}

VARIABLES kind,
          clk_active,
          clk, ena, asc,  \* clk_, ena_ and asc_; clk is en_ of the latch
          d,
          out,            \* scheduled outputs, oldest first
          q,              \* the value last sent
          port_clk,       \* what the source of the clock sent last
          port_d,         \* and the source of the data
          begun,          \* port 3 has received: history
          want            \* what the output is to become: history

vars == <<kind, clk_active, clk, ena, asc, d, out, q, port_clk, port_d, begun, want>>

Enabled == ena = "1" /\ asc = "0"

schedule_propagate_vector(v) == out' = Append(out, v)

----------------------------------------------------------------------------
(* vvp_dff *)

recv_data(bit) ==
    /\ kind # "latch"
    /\ d' = bit
    /\ port_d' = bit
    /\ UNCHANGED <<kind, clk_active, clk, ena, asc, out, q, port_clk, begun, want, begun>>

(* The wire of a clock passes on changes only. *)
recv_clock(bit) ==
    /\ kind # "latch" /\ bit # port_clk
    /\ port_clk' = bit
    /\ IF Enabled THEN clk' = bit ELSE clk' = clk
    /\ IF Enabled /\ bit = clk_active /\ clk # clk_active
       THEN schedule_propagate_vector(d) ELSE out' = out
    /\ want' = IF Enabled /\ bit = clk_active /\ port_clk # clk_active THEN port_d ELSE want
    /\ UNCHANGED <<kind, clk_active, ena, asc, d, q, begun, port_d>>

recv_enable(bit) ==
    /\ kind # "latch"
    /\ Steady => port_clk # clk_active
    /\ ena' = bit
    /\ UNCHANGED <<kind, clk_active, clk, asc, d, out, q, port_clk, want, begun, port_d>>

AsyncValue == IF kind = "aset" THEN "1" ELSE "0"

recv_async_Kept == schedule_propagate_vector(AsyncValue) /\ d' = AsyncValue

recv_async == schedule_propagate_vector(AsyncValue) /\ d' = d

(* The base flip-flop gets one 0 at this port, while the simulation is
   prepared. *)
recv_asc(bit) ==
    /\ kind # "latch"
    /\ IF kind = "dff" THEN bit = "0" /\ ~begun ELSE bit \in Async
    /\ begun' = TRUE
    /\ Steady => port_clk # clk_active
    /\ asc' = bit
    /\ IF bit = "1" /\ asc # "1" THEN recv_async /\ q' = q /\ want' = AsyncValue
       ELSE /\ out' = out /\ d' = d
            /\ q' = IF asc = "z" THEN "x" ELSE q
            /\ want' = IF begun THEN want ELSE "x"
    /\ UNCHANGED <<kind, clk_active, clk, ena, port_clk, port_d>>

----------------------------------------------------------------------------
(* vvp_latch *)

latch_data(bit) ==
    /\ kind = "latch"
    /\ d' = bit
    /\ port_d' = bit
    /\ IF clk = "1" THEN schedule_propagate_vector(bit) /\ want' = bit
       ELSE UNCHANGED <<out, want>>
    /\ UNCHANGED <<kind, clk_active, clk, ena, asc, q, port_clk, begun>>

latch_enable(bit) ==
    /\ kind = "latch"
    /\ clk' = bit
    /\ port_clk' = bit
    /\ IF bit = "1" /\ clk # "1" THEN schedule_propagate_vector(d) ELSE out' = out
    /\ want' = IF bit = "1" THEN port_d ELSE want
    /\ UNCHANGED <<kind, clk_active, ena, asc, d, q, begun, port_d>>

(* The value sent once to port 3: an initial output *)
latch_init ==
    /\ kind = "latch" /\ ~begun
    /\ begun' = TRUE
    /\ q' = "x"
    /\ UNCHANGED <<kind, clk_active, clk, ena, asc, d, out, port_clk, want, port_d>>

----------------------------------------------------------------------------
(* The initial values of ports go round before other events run. *)
propagate ==
    /\ out # <<>> /\ (kind \in {"dff", "latch"} => begun)
    /\ q' = Head(out)
    /\ out' = Tail(out)
    /\ UNCHANGED <<kind, clk_active, clk, ena, asc, d, port_clk, want, begun, port_d>>

Init ==
    /\ kind \in Kinds
    /\ clk_active \in (IF kind = "latch" THEN {"1"} ELSE {"0", "1"})
    /\ clk = "x" /\ ena = "x" /\ asc = "z"
    /\ d = "x"
    /\ out = <<>>
    /\ q = "z"
    /\ port_clk = "x"
    /\ port_d = "x"
    /\ begun = FALSE
    /\ want = IF kind = "latch" THEN "x" ELSE "z"

Receive ==
    \/ \E bit \in {"0", "1"} : recv_data(bit) \/ latch_data(bit)
    \/ \E bit \in Bit4 : recv_clock(bit) \/ recv_enable(bit) \/ recv_asc(bit) \/ latch_enable(bit)

Next == (Len(out) < MaxOut /\ Receive) \/ latch_init \/ propagate

Spec == Init /\ [][Next]_vars

----------------------------------------------------------------------------
(* Properties *)

(* Once the scheduled outputs are sent, a flip-flop has the data of the last
   active edge of its clock that was enabled, or the value of a later set or
   clear; a latch has the data it had when it was last open.  An edge is one
   of the clock that is connected, whether the flip-flop looked at it or not. *)
Follows ==
    LET last == IF out # <<>> THEN Last(out) ELSE q
    IN begun => last = want

============================================================================
