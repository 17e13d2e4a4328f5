------------------------------ MODULE Inertial ------------------------------
(***************************************************************************)
(* What an inertial delay promises, whatever the lists it is built of: the *)
(* output follows the input, one transition of it is in flight at a time,  *)
(* and a value that the input gave up before it came out never comes out.  *)
(* Times are distances from the current simulation time.                   *)
(***************************************************************************)
EXTENDS Integers

CONSTANTS
  Value,      \* the values the net carries
  MaxDelay,   \* the largest delay a transition can be given
  NoValue     \* stands for "no input has arrived yet"

VARIABLES
  input,      \* the value the input has now
  output,     \* the value the output shows
  due         \* ticks until the transition in flight comes out, -1 for none

vars == <<input, output, due>>

Init ==
  /\ input = NoValue
  /\ output \in Value
  /\ due = -1

\* The input takes a value.  The transition in flight stays when it already
\* leads there; otherwise it is withdrawn, and the new one takes its place, or
\* comes out at once.
Change(v) ==
  /\ due # 0
  /\ input' = v
  /\ IF v = input /\ due > 0
       THEN UNCHANGED <<output, due>>
       ELSE \/ due' = -1 /\ output' = v
            \/ due' \in 0..MaxDelay /\ UNCHANGED output

\* The transition in flight comes out: the output takes the input's value.
Deliver ==
  /\ due = 0
  /\ output' = input
  /\ due' = -1
  /\ UNCHANGED input

\* Time moves on, but never past a transition that is due.
Tick ==
  /\ due # 0
  /\ due' = IF due > 0 THEN due - 1 ELSE due
  /\ UNCHANGED <<input, output>>

Next == (\E v \in Value : Change(v)) \/ Deliver \/ Tick

Spec == Init /\ [][Next]_vars

=============================================================================
