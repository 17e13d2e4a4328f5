------------------------------- MODULE Delay --------------------------------
(***************************************************************************)
(* The propagation delay functor of vvp: vvp_delay_t, the rise, fall and   *)
(* decay times with their cached minimum, and vvp_fun_delay, which keeps   *)
(* the transitions in flight in a list of its own beside the events it has *)
(* in the scheduler (vvp/delay.cc, vvp/delay.h).  A transition that is     *)
(* withdrawn leaves its scheduler event behind, so run_run is called more  *)
(* often than there are transitions and has to find out which one is due.  *)
(*                                                                         *)
(* Times in the list and in the scheduler are distances from               *)
(* schedule_simtime(): Tick takes one from each.                           *)
(***************************************************************************)
EXTENDS Integers, Sequences, FiniteSets, FiniteSetsExt, SequencesExt, FiniteSetTheorems,
        TLAPS

CONSTANTS
  Width,      \* bits of a vector
  Bit4,       \* the bit values an input may carry, out of {"0","1","x","z"}
  Strength,   \* the drive strengths of a vec8 bit
  Reals,      \* the real values
  Kind,       \* "vec4", "vec8" or "real": the type the net carries
  Times,      \* the delays a delay port can be given
  Fixed,      \* TRUE: constant delays; FALSE: the delay ports are connected
  Racing,     \* TRUE: an input may come before a transition due now has run
  MaxStep,    \* inputs in one instant (bound)
  NoValue     \* the input before the first value

DelayAssumption ==
  /\ Width \in Nat \ {0}
  /\ Bit4 \subseteq {"0", "1", "x", "z"}
  /\ Kind \in {"vec4", "vec8", "real"}
  /\ Times \subseteq Nat /\ \E m \in Times : \A t \in Times : t <= m
  /\ Fixed \/ 0 \in Times
  /\ Fixed \in BOOLEAN /\ Racing \in BOOLEAN
  /\ MaxStep \in Nat
  /\ 0 \in Reals /\ "strong" \in Strength

Vec4 == [1..Width -> Bit4 \cup {"x"}]
Vec8 == [1..Width -> (Bit4 \cup {"x"}) \X Strength]

Values ==
  CASE Kind = "vec4" -> Vec4
    [] Kind = "vec8" -> Vec8
    [] Kind = "real" -> Reals

MaxDelay == Max(Times)

VARIABLES
  delay,      \* delay_: rise_, fall_, decay_, min_delay_ and ignore_decay_
  list,       \* list_: transitions in flight, the oldest first
  cur,        \* cur_vec4_, cur_vec8_ or cur_real_, the value last sent
  initial,    \* initial_
  sched,      \* the generic events in the scheduler: how many per distance
  input,      \* history: the value port 0 last received
  steps       \* inputs in this instant

vars == <<delay, list, cur, initial, sched, input, steps>>

-----------------------------------------------------------------------------
\* vvp_delay_t

MinOf2(a, b) == IF a < b THEN a ELSE b

\* A slip: the cached minimum only ever goes down.
calculate_min_delay(d) ==
  LET m == MinOf2(d.fall, d.rise)
  IN  IF d.ignore_decay
        THEN [d EXCEPT !.decay = m, !.min = m]
        ELSE [d EXCEPT !.min = MinOf2(d.decay, m)]

\* The two constructors, and set_ignore_decay.
delay_2(r, f) ==
  [rise |-> r, fall |-> f, decay |-> MinOf2(f, r), min |-> MinOf2(f, r),
   ignore_decay |-> FALSE]

delay_3(r, f, z) ==
  calculate_min_delay([rise |-> r, fall |-> f, decay |-> z, min |-> 0,
                       ignore_decay |-> FALSE])

set_ignore_decay(d) == calculate_min_delay([d EXCEPT !.ignore_decay = TRUE])

\* set_rise, set_fall: a new minimum is stored at once, anything else is
\* calculated afresh.
set_edge(d, edge, val) ==
  LET e == [d EXCEPT ![edge] = val]
  IN  IF val < d.min
        THEN [e EXCEPT !.min = val,
                       !.decay = IF d.ignore_decay THEN val ELSE @]
        ELSE calculate_min_delay(e)

\* set_decay asserts that the decay time is not ignored.
set_decay(d, val) ==
  LET e == [d EXCEPT !.decay = val]
  IN  IF val < d.min THEN [e EXCEPT !.min = val] ELSE calculate_min_delay(e)

get_delay(d, from, to) ==
  CASE to = from -> 0
    [] to # from /\ to = "0" -> d.fall
    [] to # from /\ to = "1" -> d.rise
    [] to # from /\ to = "x" -> d.min
    [] to # from /\ to = "z" -> d.decay

-----------------------------------------------------------------------------
\* vvp_fun_delay

Empty == list = <<>>
DueNow == list # <<>> /\ Head(list).left = 0

\* A slip: pulses are never withdrawn.
withdraw_None(l) == l

\* clean_pulse_events_(use_delay): withdraw the oldest transitions up to one
\* that is due by now.
withdraw(l) ==
  LET stop == {i \in 1..Len(l) : l[i].left <= 0}
  IN  IF stop = {} THEN <<>> ELSE SubSeq(l, Min(stop), Len(l))

\* The value-taking clean_pulse_events_: the new value is skipped when the
\* transition at list_->next, the oldest one, already has it.
skips(l, bit) == l # <<>> /\ Head(l).value = bit


\* Send at once, or queue a transition and schedule its event.
propagate(l, bit, use_delay) ==
  IF use_delay = 0 /\ l = <<>>
    THEN /\ cur' = bit
         /\ initial' = FALSE
         /\ list' = l
         /\ UNCHANGED sched
    ELSE /\ list' = Append(l, [left |-> use_delay, value |-> bit])
         /\ sched' = [sched EXCEPT ![use_delay] = @ + 1]
         /\ UNCHANGED <<cur, initial>>

\* The reference for the delay: bit 0 of the initial value for every bit, the
\* transition due now, or the value last sent.
reference ==
  IF initial THEN [i \in 1..Width |-> cur[1]]
  ELSE IF DueNow THEN Head(list).value
  ELSE cur

\* The largest delay over the bits, on the logic values val(_) of the bits.
use_delay_of(bit, val(_)) ==
  Max({get_delay(delay, val(reference[i]), val(bit[i])) : i \in 1..Width})

recv_vec(bit, val(_)) ==
  IF skips(list, bit)
    THEN UNCHANGED <<list, cur, initial, sched>>
    ELSE propagate(withdraw(list), bit, use_delay_of(bit, val))

recv_vec4(bit) == recv_vec(bit, LAMBDA b : b)

recv_vec8(bit) == recv_vec(bit, LAMBDA b : b[1])

\* The comparison with cur_real_ comes after the pulses are withdrawn.
recv_real(bit) ==
  IF skips(list, bit)
    THEN UNCHANGED <<list, cur, initial, sched>>
    ELSE IF cur = bit
      THEN list' = withdraw(list) /\ UNCHANGED <<cur, initial, sched>>
      ELSE propagate(withdraw(list), bit, delay.min)

-----------------------------------------------------------------------------
\* The functor and its surroundings

Init ==
  /\ delay \in IF Fixed
                THEN UNION {{delay_2(r, f), delay_3(r, f, z)} :
                              r, f, z \in Times}
                ELSE {delay_3(0, 0, 0), set_ignore_decay(delay_3(0, 0, 0))}
  /\ list = <<>>
  /\ cur = CASE Kind = "vec4" -> [i \in 1..Width |-> "x"]
             [] Kind = "vec8" -> [i \in 1..Width |->
                                    <<"x", "strong">>]
             [] Kind = "real" -> 0
  /\ initial = TRUE
  /\ sched = [t \in 0..MaxDelay |-> 0]
  /\ input = NoValue
  /\ steps = 0

\* A value arrives at port 0.
Receive(bit) ==
  /\ steps < MaxStep
  /\ Racing \/ sched[0] = 0
  /\ CASE Kind = "vec4" -> recv_vec4(bit)
       [] Kind = "vec8" -> recv_vec8(bit)
       [] Kind = "real" -> recv_real(bit)
  /\ input' = bit
  /\ steps' = steps + 1
  /\ UNCHANGED delay

\* A delay value arrives at port 1, 2 or 3; port 3 is connected only when the
\* decay time is not ignored (compile_delay).
ReceiveDelay(port, val) ==
  /\ ~Fixed
  /\ steps < MaxStep
  /\ port = 3 => ~delay.ignore_decay
  /\ delay' = CASE port = 1 -> set_edge(delay, "rise", val)
                [] port = 2 -> set_edge(delay, "fall", val)
                [] port = 3 -> set_decay(delay, val)
  /\ steps' = steps + 1
  /\ UNCHANGED <<list, cur, initial, sched, input>>

\* A slip: run_run sends the oldest transition without looking at its time.
run_run_Unchecked ==
  /\ sched[0] > 0
  /\ sched' = [sched EXCEPT ![0] = @ - 1]
  /\ IF Empty
       THEN UNCHANGED <<list, cur, initial>>
       ELSE /\ cur' = Head(list).value
            /\ list' = Tail(list)
            /\ initial' = FALSE
  /\ UNCHANGED <<delay, input, steps>>

\* vvp_fun_delay::run_run, called for a generic event that is due: send the
\* oldest transition unless it is still to come.
run_run ==
  /\ sched[0] > 0
  /\ sched' = [sched EXCEPT ![0] = @ - 1]
  /\ IF Empty \/ Head(list).left > 0
       THEN UNCHANGED <<list, cur, initial>>
       ELSE /\ cur' = Head(list).value
            /\ list' = Tail(list)
            /\ initial' = FALSE
  /\ UNCHANGED <<delay, input, steps>>

\* The scheduler moves to the next instant once this one has no event left.  A
\* transition that missed its event stays in the list, overdue.
Tick ==
  /\ sched[0] = 0
  /\ sched' = [t \in 0..MaxDelay |-> IF t < MaxDelay THEN sched[t + 1] ELSE 0]
  /\ list' = [i \in DOMAIN list |->
                [list[i] EXCEPT !.left = IF @ >= 0 THEN @ - 1 ELSE @]]
  /\ steps' = 0
  /\ UNCHANGED <<delay, cur, initial, input>>

Next ==
  \/ \E bit \in Values : Receive(bit)
  \/ \E port \in 1..3, val \in Times : ReceiveDelay(port, val)
  \/ run_run
  \/ Tick

Spec == Init /\ [][Next]_vars

-----------------------------------------------------------------------------
\* Properties

\* The variables keep the values their C++ types and the callers allow.
TypeOK ==
  /\ delay \in [rise : Times, fall : Times, decay : Times, min : Times,
                ignore_decay : BOOLEAN]
  /\ \A i \in DOMAIN list : list[i] \in [left : -1..MaxDelay, value : Values]
  /\ cur \in Values
  /\ initial \in BOOLEAN
  /\ sched \in [0..MaxDelay -> Nat]
  /\ input \in Values \cup {NoValue}
  /\ steps \in 0..MaxStep

\* The minimum that transitions to x and reals are given (vvp_delay_t caches it
\* and updates it by a shortcut) is the minimum of the delays in force, after
\* any sequence of changes on the delay ports.
MinDelayExact ==
  /\ delay.min = Min({delay.rise, delay.fall, delay.decay})
  /\ delay.ignore_decay => delay.decay = MinOf2(delay.rise, delay.fall)

\* Every transition in flight has an event in the scheduler at its time: the
\* events left over by withdrawn transitions are never needed by another one.
NoLostEvent ==
  \A i \in DOMAIN list :
    /\ list[i].left >= 0
    /\ sched[list[i].left] >= Cardinality({j \in DOMAIN list :
                                             list[j].left = list[i].left})

\* Once the functor has nothing left in the scheduler the output shows the
\* input: withdrawing and skipping never lose the last value.
Settled ==
  (input # NoValue /\ \A t \in DOMAIN sched : sched[t] = 0)
    => list = <<>> /\ cur = input

\* The newest transition in flight leads to the value the input has: what the
\* comment on the skip in clean_pulse_events_ promises.
MostRecent == list # <<>> => Last(list).value = input

\* The functor is an inertial delay: with no race between an input and a
\* transition due in the same instant, it has at most one transition in flight.
due == IF list = <<>> THEN -1 ELSE Head(list).left
A == INSTANCE Inertial WITH output <- cur, Value <- Values

-----------------------------------------------------------------------------
(***************************************************************************)
(* The proof that the functor is an inertial delay, when no input comes    *)
(* before a transition due now has run.  At most one transition is in      *)
(* flight, it leads to the value of the input and has an event at its      *)
(* time; without one the output shows the input.                           *)
(***************************************************************************)

InFlight ==
  list # <<>> => /\ Len(list) = 1 /\ list[1].left \in 0 .. MaxDelay
                 /\ list[1].value = input /\ sched[list[1].left] > 0

Arrived == list = <<>> => input = NoValue \/ cur = input

Transition == [left : -1 .. MaxDelay, value : Values]

DInv == TypeOK /\ list \in Seq(Transition) /\ MinDelayExact /\ InFlight /\ Arrived

\* The longest delay.
LEMMA Longest ==
  ASSUME DelayAssumption
  PROVE  MaxDelay \in Times /\ MaxDelay \in Nat /\ \A t \in Times : t \in 0 .. MaxDelay
<1>1. PICK m \in Times : \A t \in Times : t <= m
  BY DEF DelayAssumption
<1>2. Times \subseteq Nat
  BY DEF DelayAssumption
<1>3. \E x \in Times : \A y \in Times : x >= y
  BY <1>1, <1>2
<1>4. MaxDelay \in Times /\ \A y \in Times : MaxDelay >= y
  BY <1>3 DEF MaxDelay, Max
<1> QED BY <1>2, <1>4

\* The smallest of three numbers.
LEMMA SmallestOf ==
  ASSUME NEW a \in Nat, NEW b \in Nat, NEW c \in Nat
  PROVE  Min({a, b, c}) = MinOf2(c, MinOf2(b, a))
<1>1. PICK m : m = MinOf2(c, MinOf2(b, a))
  OBVIOUS
<1>2. m \in {a, b, c} /\ \A y \in {a, b, c} : m <= y
  BY <1>1 DEF MinOf2
<1>3. \A x \in {a, b, c} : (\A y \in {a, b, c} : x <= y) => x = m
  BY <1>2
<1>4. Min({a, b, c}) = m
  BY <1>2, <1>3 DEF Min
<1> QED BY <1>1, <1>4

Delays == [rise : Times, fall : Times, decay : Times, min : Times, ignore_decay : BOOLEAN]

\* The cached minimum is right.
Cached(d) == /\ d.min = Min({d.rise, d.fall, d.decay})
             /\ d.ignore_decay => d.decay = MinOf2(d.rise, d.fall)

\* calculate_min_delay: the cached minimum is right, whatever it was before.
LEMMA Recalculated ==
  ASSUME DelayAssumption,
         NEW d \in [rise : Times, fall : Times, decay : Times, min : Nat, ignore_decay : BOOLEAN]
  PROVE  calculate_min_delay(d) \in Delays /\ Cached(calculate_min_delay(d))
<1>1. Times \subseteq Nat
  BY DEF DelayAssumption
<1>2. PICK m : m = MinOf2(d.fall, d.rise)
  OBVIOUS
<1>3. m \in Times /\ m \in Nat /\ d.rise \in Nat /\ d.fall \in Nat /\ d.decay \in Nat
  BY <1>1, <1>2 DEF MinOf2, Delays
<1>4. CASE d.ignore_decay
  <2>1. PICK e : e = [d EXCEPT !.decay = m, !.min = m]
    OBVIOUS
  <2>2. e = calculate_min_delay(d)
    BY <1>2, <1>4, <2>1 DEF calculate_min_delay
  <2>3. e \in Delays /\ e.rise = d.rise /\ e.fall = d.fall /\ e.decay = m /\ e.min = m
    BY <1>3, <2>1 DEF Delays
  <2>4. Min({d.rise, d.fall, m}) = MinOf2(m, MinOf2(d.fall, d.rise))
    BY <1>3, SmallestOf
  <2>5. MinOf2(m, m) = m /\ MinOf2(d.rise, d.fall) = m
    BY <1>2, <1>3 DEF MinOf2
  <2> QED BY <1>2, <2>2, <2>3, <2>4, <2>5 DEF Cached
<1>5. CASE ~d.ignore_decay
  <2>1. PICK e : e = [d EXCEPT !.min = MinOf2(d.decay, m)]
    OBVIOUS
  <2>2. e = calculate_min_delay(d)
    BY <1>2, <1>5, <2>1 DEF calculate_min_delay
  <2>3. MinOf2(d.decay, m) \in Times
    BY <1>3 DEF MinOf2, Delays
  <2>4. /\ e \in Delays /\ e.rise = d.rise /\ e.fall = d.fall /\ e.decay = d.decay
        /\ e.min = MinOf2(d.decay, m) /\ ~e.ignore_decay
    BY <1>5, <2>1, <2>3 DEF Delays
  <2>5. Min({d.rise, d.fall, d.decay}) = MinOf2(d.decay, MinOf2(d.fall, d.rise))
    BY <1>3, SmallestOf
  <2> QED BY <1>2, <2>2, <2>4, <2>5 DEF Cached
<1> QED BY <1>4, <1>5

\* A Delays record suits calculate_min_delay.
LEMMA DelaysWide ==
  ASSUME DelayAssumption, NEW d \in Delays
  PROVE  d \in [rise : Times, fall : Times, decay : Times, min : Nat, ignore_decay : BOOLEAN]
  BY DEF DelayAssumption, Delays

\* A new time is the smallest, or the minimum is calculated afresh.
LEMMA ShortcutRight ==
  ASSUME DelayAssumption, NEW d \in Delays, Cached(d), NEW val \in Times, val < d.min,
         NEW e \in Delays, e.min = val, e.ignore_decay = d.ignore_decay,
         \/ e.rise = val /\ e.fall = d.fall
         \/ e.fall = val /\ e.rise = d.rise
         \/ e.rise = d.rise /\ e.fall = d.fall /\ e.decay = val,
         e.decay = val \/ e.decay = d.decay,
         d.ignore_decay => e.decay = val /\ (e.rise = val \/ e.fall = val)
  PROVE  Cached(e)
<1>1. Times \subseteq Nat
  BY DEF DelayAssumption
<1>2. /\ d.rise \in Nat /\ d.fall \in Nat /\ d.decay \in Nat /\ val \in Nat
      /\ e.rise \in Nat /\ e.fall \in Nat /\ e.decay \in Nat
  BY <1>1 DEF Delays
<1>3. d.min = MinOf2(d.decay, MinOf2(d.fall, d.rise))
  BY <1>2, SmallestOf DEF Cached
<1>4. d.min <= d.rise /\ d.min <= d.fall /\ d.min <= d.decay /\ d.min \in Nat
  BY <1>2, <1>3 DEF MinOf2
<1>5. val < d.rise /\ val < d.fall /\ val < d.decay
  BY <1>2, <1>4
<1>6. MinOf2(e.decay, MinOf2(e.fall, e.rise)) = val
  BY <1>2, <1>5 DEF MinOf2
<1>7. Min({e.rise, e.fall, e.decay}) = val
  BY <1>2, <1>6, SmallestOf
<1>8. d.ignore_decay => MinOf2(e.rise, e.fall) = val
  BY <1>2, <1>5 DEF MinOf2
<1> QED BY <1>7, <1>8 DEF Cached

\* set_rise and set_fall.
LEMMA EdgeSet ==
  ASSUME DelayAssumption, NEW d \in Delays, Cached(d), NEW edge \in {"rise", "fall"},
         NEW val \in Times
  PROVE  set_edge(d, edge, val) \in Delays /\ Cached(set_edge(d, edge, val))
<1>1. PICK e : e = [d EXCEPT ![edge] = val]
  OBVIOUS
<1>2. /\ e \in Delays /\ e.decay = d.decay /\ e.ignore_decay = d.ignore_decay
      /\ \/ e.rise = val /\ e.fall = d.fall
         \/ e.fall = val /\ e.rise = d.rise
  BY <1>1 DEF Delays
<1>3. CASE val < d.min
  <2>1. PICK f : f = [e EXCEPT !.min = val, !.decay = IF d.ignore_decay THEN val ELSE @]
    OBVIOUS
  <2>2. f = set_edge(d, edge, val)
    BY <1>1, <1>3, <2>1 DEF set_edge
  <2>3. /\ f \in Delays /\ f.rise = e.rise /\ f.fall = e.fall /\ f.min = val
        /\ f.ignore_decay = e.ignore_decay
        /\ f.decay = IF d.ignore_decay THEN val ELSE e.decay
    BY <1>2, <2>1 DEF Delays
  <2>4. Cached(f)
    <3>1. /\ \/ f.rise = val /\ f.fall = d.fall
             \/ f.fall = val /\ f.rise = d.rise
          /\ f.decay = val \/ f.decay = d.decay
          /\ d.ignore_decay => f.decay = val /\ (f.rise = val \/ f.fall = val)
          /\ f.ignore_decay = d.ignore_decay
      BY <1>2, <2>3
    <3> QED BY <1>3, <2>3, <3>1, ShortcutRight
  <2> QED BY <2>2, <2>3, <2>4
<1>4. CASE ~(val < d.min)
  <2>1. set_edge(d, edge, val) = calculate_min_delay(e)
    BY <1>1, <1>4 DEF set_edge
  <2> QED BY <1>2, <2>1, DelaysWide, Recalculated
<1> QED BY <1>3, <1>4

\* set_decay, when the decay time is not ignored.
LEMMA DecaySet ==
  ASSUME DelayAssumption, NEW d \in Delays, Cached(d), ~d.ignore_decay, NEW val \in Times
  PROVE  set_decay(d, val) \in Delays /\ Cached(set_decay(d, val))
<1>1. PICK e : e = [d EXCEPT !.decay = val]
  OBVIOUS
<1>2. /\ e \in Delays /\ e.decay = val /\ e.ignore_decay = d.ignore_decay
      /\ e.rise = d.rise /\ e.fall = d.fall
  BY <1>1 DEF Delays
<1>3. CASE val < d.min
  <2>1. PICK f : f = [e EXCEPT !.min = val]
    OBVIOUS
  <2>2. f = set_decay(d, val)
    BY <1>1, <1>3, <2>1 DEF set_decay
  <2>3. /\ f \in Delays /\ f.rise = d.rise /\ f.fall = d.fall /\ f.min = val /\ f.decay = val
        /\ f.ignore_decay = d.ignore_decay
    BY <1>2, <2>1 DEF Delays
  <2>4. Cached(f)
    BY <1>3, <2>3, ShortcutRight
  <2> QED BY <2>2, <2>3, <2>4
<1>4. CASE ~(val < d.min)
  <2>1. set_decay(d, val) = calculate_min_delay(e)
    BY <1>1, <1>4 DEF set_decay
  <2> QED BY <1>2, <2>1, DelaysWide, Recalculated
<1> QED BY <1>3, <1>4

\* The constructors.
LEMMA Constructed ==
  ASSUME DelayAssumption, NEW r \in Times, NEW f \in Times, NEW z \in Times
  PROVE  /\ delay_2(r, f) \in Delays /\ Cached(delay_2(r, f))
         /\ delay_3(r, f, z) \in Delays /\ Cached(delay_3(r, f, z))
<1>1. Times \subseteq Nat
  BY DEF DelayAssumption
<1>2. PICK m : m = MinOf2(f, r)
  OBVIOUS
<1>3. m \in Times /\ m \in Nat /\ r \in Nat /\ f \in Nat
  BY <1>1, <1>2 DEF MinOf2
<1>4. PICK d : d = delay_2(r, f)
  OBVIOUS
<1>5. /\ d \in Delays /\ d.rise = r /\ d.fall = f /\ d.decay = m /\ d.min = m
      /\ ~d.ignore_decay
  BY <1>2, <1>3, <1>4 DEF delay_2, Delays
<1>6. Cached(d)
  <2>1. Min({r, f, m}) = MinOf2(m, m)
    BY <1>2, <1>3, SmallestOf
  <2>2. MinOf2(m, m) = m
    BY DEF MinOf2
  <2> QED BY <1>5, <2>1, <2>2 DEF Cached
<1>7. [rise |-> r, fall |-> f, decay |-> z, min |-> 0, ignore_decay |-> FALSE]
         \in [rise : Times, fall : Times, decay : Times, min : Nat, ignore_decay : BOOLEAN]
  OBVIOUS
<1>8. delay_3(r, f, z) \in Delays /\ Cached(delay_3(r, f, z))
  BY <1>7, Recalculated DEF delay_3
<1> QED BY <1>4, <1>5, <1>6, <1>8

\* The largest of several of the delays in force.
LEMMA LargestOf ==
  ASSUME DelayAssumption, delay \in Delays, NEW S, S # {},
         \A x \in S : x \in {0, delay.fall, delay.rise, delay.min, delay.decay}
  PROVE  Max(S) \in 0 .. MaxDelay
<1>1. PICK a \in Times, b \in Times, c \in Times, e \in Times :
        a = delay.fall /\ b = delay.rise /\ c = delay.min /\ e = delay.decay
  BY DEF Delays
<1>2. /\ a \in 0 .. MaxDelay /\ b \in 0 .. MaxDelay /\ c \in 0 .. MaxDelay
      /\ e \in 0 .. MaxDelay /\ 0 \in 0 .. MaxDelay
  BY Longest
<1>3. \A x \in S : x \in {0, a, b, c, e}
  BY <1>1
<1>4. \E x \in S : \A y \in S : x >= y
  BY <1>2, <1>3
<1>5. Max(S) \in S
  BY <1>4 DEF Max
<1> QED BY <1>2, <1>3, <1>5

\* The delay a vector is given is one of the times in force, or 0.
LEMMA UseDelay4 ==
  ASSUME DelayAssumption, delay \in Delays, NEW bit \in Vec4
  PROVE  use_delay_of(bit, LAMBDA b : b) \in 0 .. MaxDelay
<1> DEFINE S == {get_delay(delay, reference[i], bit[i]) : i \in 1 .. Width}
<1>1. 1 \in 1 .. Width
  BY DEF DelayAssumption
<1>2. S # {}
  BY <1>1
<1>3. \A i \in 1 .. Width : bit[i] \in {"0", "1", "x", "z"}
  BY DEF Vec4, DelayAssumption
<1>4. \A x \in S : x \in {0, delay.fall, delay.rise, delay.min, delay.decay}
  BY <1>3 DEF get_delay
<1> HIDE DEF S
<1>5. Max(S) \in 0 .. MaxDelay
  BY <1>2, <1>4, LargestOf
<1> QED BY <1>5 DEF use_delay_of, S

\* The same for a vector with strengths.
LEMMA UseDelay8 ==
  ASSUME DelayAssumption, delay \in Delays, NEW bit \in Vec8
  PROVE  use_delay_of(bit, LAMBDA b : b[1]) \in 0 .. MaxDelay
<1> DEFINE S == {get_delay(delay, reference[i][1], bit[i][1]) : i \in 1 .. Width}
<1>1. 1 \in 1 .. Width
  BY DEF DelayAssumption
<1>2. S # {}
  BY <1>1
<1>3. \A i \in 1 .. Width : bit[i][1] \in {"0", "1", "x", "z"}
  BY DEF Vec8, DelayAssumption
<1>4. \A x \in S : x \in {0, delay.fall, delay.rise, delay.min, delay.decay}
  BY <1>3 DEF get_delay
<1> HIDE DEF S
<1>5. Max(S) \in 0 .. MaxDelay
  BY <1>2, <1>4, LargestOf
<1> QED BY <1>5 DEF use_delay_of, S

-----------------------------------------------------------------------------
(* The steps.                                                              *)

\* With nothing due now, every transition in flight is withdrawn.
LEMMA Withdrawn ==
  ASSUME DelayAssumption, DInv, sched[0] = 0
  PROVE  withdraw(list) = <<>> /\ due # 0 /\ (list = <<>> \/ list[1].left > 0)
<1>1. CASE list = <<>>
  <2>1. {i \in 1 .. Len(list) : list[i].left <= 0} = {}
    BY <1>1
  <2> QED BY <1>1, <2>1 DEF withdraw, due
<1>2. CASE list # <<>>
  <2>1. Len(list) = 1 /\ list[1].left \in 0 .. MaxDelay /\ sched[list[1].left] > 0
    BY <1>2 DEF DInv, InFlight
  <2>2. list[1].left > 0
    BY <2>1, Longest
  <2>3. {i \in 1 .. Len(list) : list[i].left <= 0} = {}
    BY <2>1, <2>2
  <2>4. Head(list) = list[1]
    BY <1>2 DEF DInv
  <2> QED BY <1>2, <2>2, <2>3, <2>4 DEF withdraw, due
<1> QED BY <1>1, <1>2

\* What a new value leads to, however it is treated.
Received(bit) ==
  \/ /\ skips(list, bit) /\ UNCHANGED <<list, cur, initial, sched>>
  \/ /\ ~skips(list, bit) /\ list' = <<>> /\ cur' = bit /\ initial' \in BOOLEAN
     /\ sched' = sched
  \/ /\ ~skips(list, bit)
     /\ \E d \in 0 .. MaxDelay : /\ list' = <<[left |-> d, value |-> bit]>>
                                 /\ sched' = [sched EXCEPT ![d] = @ + 1]
                                 /\ UNCHANGED <<cur, initial>>

\* A value with a delay is sent at once or is the only one in flight.
LEMMA Propagated ==
  ASSUME NEW bit, NEW d \in 0 .. MaxDelay, ~skips(list, bit), propagate(<<>>, bit, d)
  PROVE  Received(bit)
<1>1. CASE d = 0
  BY <1>1 DEF propagate, Received
<1>2. CASE d # 0
  <2>1. Append(<<>>, [left |-> d, value |-> bit]) = <<[left |-> d, value |-> bit]>>
    OBVIOUS
  <2> QED BY <1>2, <2>1 DEF propagate, Received
<1> QED BY <1>1, <1>2

\* Vectors, vectors with strengths and reals are all treated like this.
LEMMA ReceiveIs ==
  ASSUME DelayAssumption, Racing = FALSE, DInv, NEW bit \in Values, Receive(bit)
  PROVE  Received(bit) /\ sched[0] = 0
<1>1. sched[0] = 0
  BY DEF Receive
<1>2. withdraw(list) = <<>> /\ delay \in Delays /\ initial \in BOOLEAN
  BY <1>1, Withdrawn DEF DInv, TypeOK, Delays
<1>3. CASE skips(list, bit)
  BY <1>3 DEF Receive, Received, recv_vec4, recv_vec8, recv_real, recv_vec, DelayAssumption
<1>4. CASE ~skips(list, bit) /\ Kind = "vec4"
  <2>1. bit \in Vec4 /\ propagate(<<>>, bit, use_delay_of(bit, LAMBDA b : b))
    BY <1>2, <1>4 DEF Receive, Values, recv_vec4, recv_vec
  <2>2. PICK d \in 0 .. MaxDelay : propagate(<<>>, bit, d)
    BY <1>2, <2>1, UseDelay4 DEF use_delay_of
  <2> QED BY <1>1, <1>4, <2>2, Propagated
<1>5. CASE ~skips(list, bit) /\ Kind = "vec8"
  <2>1. bit \in Vec8 /\ propagate(<<>>, bit, use_delay_of(bit, LAMBDA b : b[1]))
    BY <1>2, <1>5 DEF Receive, Values, recv_vec8, recv_vec
  <2>2. PICK d \in 0 .. MaxDelay : propagate(<<>>, bit, d)
    BY <1>2, <2>1, UseDelay8 DEF use_delay_of
  <2> QED BY <1>1, <1>5, <2>2, Propagated
<1>6. CASE ~skips(list, bit) /\ Kind = "real"
  <2>1. \/ cur = bit /\ list' = <<>> /\ UNCHANGED <<cur, initial, sched>>
        \/ propagate(<<>>, bit, delay.min)
    BY <1>2, <1>6 DEF Receive, recv_real
  <2>2. delay.min \in 0 .. MaxDelay
    BY <1>2, Longest DEF Delays
  <2>3. CASE cur = bit /\ list' = <<>> /\ UNCHANGED <<cur, initial, sched>>
    BY <1>1, <1>2, <1>6, <2>3 DEF Received
  <2>4. CASE propagate(<<>>, bit, delay.min)
    BY <1>1, <1>6, <2>2, <2>4, Propagated
  <2> QED BY <2>1, <2>3, <2>4
<1> QED BY <1>1, <1>3, <1>4, <1>5, <1>6 DEF DelayAssumption

\* A value at port 0.
LEMMA StepReceive ==
  ASSUME DelayAssumption, Racing = FALSE, DInv, NEW bit \in Values, Receive(bit)
  PROVE  DInv' /\ A!Change(bit)
<1>1. Received(bit) /\ sched[0] = 0
  BY ReceiveIs
<1>2. due # 0 /\ (list = <<>> \/ list[1].left > 0) /\ list \in Seq(Transition)
  BY <1>1, Withdrawn DEF DInv
<1>3. /\ input' = bit /\ delay' = delay /\ steps' = steps + 1 /\ steps < MaxStep
      /\ MaxDelay \in Nat
  BY Longest DEF Receive
<1>4. steps' \in 0 .. MaxStep
  BY <1>3 DEF DInv, TypeOK, DelayAssumption
<1>5. /\ sched \in [0 .. MaxDelay -> Nat] /\ cur \in Values /\ initial \in BOOLEAN
      /\ delay \in Delays /\ Cached(delay)
  BY DEF DInv, TypeOK, MinDelayExact, Cached, Delays
<1>6. SUFFICES /\ list' \in Seq(Transition) /\ sched' \in [0 .. MaxDelay -> Nat]
               /\ cur' \in Values /\ initial' \in BOOLEAN /\ InFlight' /\ Arrived'
               /\ A!Change(bit)
  <2>1. MinDelayExact'
    BY <1>3, <1>5 DEF MinDelayExact, Cached
  <2>2. TypeOK'
    <3>1. \A i \in DOMAIN list' : list'[i] \in Transition
      BY <1>6
    <3> QED BY <1>3, <1>4, <1>5, <1>6, <3>1 DEF TypeOK, Transition, Delays
  <2> QED BY <1>6, <2>1, <2>2 DEF DInv
<1>7. CASE skips(list, bit) /\ UNCHANGED <<list, cur, initial, sched>>
  <2>1. list # <<>> /\ list[1].value = bit
    BY <1>2, <1>7 DEF skips
  <2>2. /\ input = bit /\ Len(list) = 1 /\ list[1].left \in 0 .. MaxDelay
        /\ sched[list[1].left] > 0
    BY <2>1 DEF DInv, InFlight
  <2>3. InFlight' /\ Arrived'
    BY <1>3, <1>7, <2>1, <2>2 DEF InFlight, Arrived
  <2>4. due > 0 /\ due' = due
    BY <1>2, <1>7, <2>1 DEF due
  <2>5. A!Change(bit)
    BY <1>3, <1>7, <2>2, <2>4 DEF A!Change
  <2> QED BY <1>2, <1>5, <1>7, <2>3, <2>5
<1>8. ASSUME ~skips(list, bit)
      PROVE  ~(bit = input /\ due > 0)
  <2>1. CASE list = <<>>
    BY <2>1 DEF due
  <2>2. CASE list # <<>>
    BY <1>2, <1>8, <2>2 DEF DInv, InFlight, skips
  <2> QED BY <2>1, <2>2
<1>9. CASE /\ ~skips(list, bit) /\ list' = <<>> /\ cur' = bit /\ initial' \in BOOLEAN
           /\ sched' = sched
  <2>1. InFlight' /\ Arrived' /\ due' = -1
    BY <1>3, <1>9 DEF InFlight, Arrived, due
  <2>2. A!Change(bit)
    BY <1>2, <1>3, <1>8, <1>9, <2>1 DEF A!Change
  <2>3. list' \in Seq(Transition)
    BY <1>9
  <2> QED BY <1>5, <1>9, <2>1, <2>2, <2>3
<1>10. CASE /\ ~skips(list, bit)
            /\ \E d \in 0 .. MaxDelay : /\ list' = <<[left |-> d, value |-> bit]>>
                                        /\ sched' = [sched EXCEPT ![d] = @ + 1]
                                        /\ UNCHANGED <<cur, initial>>
  <2>1. PICK d \in 0 .. MaxDelay : /\ list' = <<[left |-> d, value |-> bit]>>
                                   /\ sched' = [sched EXCEPT ![d] = @ + 1]
                                   /\ UNCHANGED <<cur, initial>>
    BY <1>10
  <2>2. PICK e : e = [left |-> d, value |-> bit]
    OBVIOUS
  <2>3. e \in Transition /\ e.left = d /\ e.value = bit
    BY <1>3, <2>2 DEF Transition
  <2>4. list' = <<e>> /\ list' \in Seq(Transition) /\ Len(list') = 1 /\ list'[1] = e /\ list' # <<>>
    BY <2>1, <2>2, <2>3
  <2>5. sched' \in [0 .. MaxDelay -> Nat] /\ sched'[d] > 0
    BY <1>5, <2>1
  <2>6. InFlight' /\ Arrived'
    BY <1>3, <2>3, <2>4, <2>5 DEF InFlight, Arrived
  <2>7. due' = d
    BY <2>3, <2>4 DEF due
  <2>8. A!Change(bit)
    BY <1>2, <1>3, <1>8, <1>10, <2>1, <2>7 DEF A!Change
  <2> QED BY <1>5, <2>1, <2>4, <2>5, <2>6, <2>8
<1> QED BY <1>1, <1>7, <1>9, <1>10 DEF Received

\* A delay port.
LEMMA DelayChanged ==
  ASSUME DelayAssumption, delay \in Delays, Cached(delay), NEW port \in 1 .. 3,
         NEW val \in Times, ReceiveDelay(port, val)
  PROVE  delay' \in Delays /\ Cached(delay')
<1>1. CASE port = 1
  <2>1. delay' = set_edge(delay, "rise", val)
    BY <1>1 DEF ReceiveDelay
  <2> QED BY <2>1, EdgeSet
<1>2. CASE port = 2
  <2>1. delay' = set_edge(delay, "fall", val)
    BY <1>2 DEF ReceiveDelay
  <2> QED BY <2>1, EdgeSet
<1>3. CASE port = 3
  <2>1. delay' = set_decay(delay, val) /\ ~delay.ignore_decay
    BY <1>3 DEF ReceiveDelay
  <2> QED BY <2>1, DecaySet
<1> QED BY <1>1, <1>2, <1>3

\* A delay port changes nothing else.
LEMMA StepDelay ==
  ASSUME DelayAssumption, DInv, NEW port \in 1 .. 3, NEW val \in Times, ReceiveDelay(port, val)
  PROVE  DInv' /\ UNCHANGED A!vars
<1>1. delay \in Delays /\ Cached(delay)
  BY DEF DInv, TypeOK, MinDelayExact, Cached, Delays
<1>2. delay' \in Delays /\ Cached(delay')
  BY <1>1, DelayChanged
<1>3. UNCHANGED <<list, cur, initial, sched, input>> /\ steps < MaxStep /\ steps' = steps + 1
  BY DEF ReceiveDelay
<1>4. steps' \in 0 .. MaxStep
  BY <1>3 DEF DInv, TypeOK, DelayAssumption
<1>5. TypeOK' /\ MinDelayExact'
  BY <1>2, <1>3, <1>4 DEF DInv, TypeOK, MinDelayExact, Cached, Delays
<1>6. InFlight' /\ Arrived' /\ list' \in Seq(Transition)
  BY <1>3 DEF DInv, InFlight, Arrived
<1>7. UNCHANGED A!vars
  BY <1>3 DEF A!vars, due
<1> QED BY <1>5, <1>6, <1>7 DEF DInv

\* An event of the scheduler.
LEMMA StepRun ==
  ASSUME DelayAssumption, DInv, run_run
  PROVE  DInv' /\ (A!Deliver \/ UNCHANGED A!vars)
<1>1. /\ sched[0] > 0 /\ sched' = [sched EXCEPT ![0] = @ - 1]
      /\ UNCHANGED <<delay, input, steps>> /\ MaxDelay \in Nat
  BY Longest DEF run_run
<1>2. sched \in [0 .. MaxDelay -> Nat] /\ list \in Seq(Transition) /\ TypeOK /\ MinDelayExact
  BY DEF DInv, TypeOK
<1>3. /\ sched' \in [0 .. MaxDelay -> Nat]
      /\ \A t \in 1 .. MaxDelay : sched'[t] = sched[t]
  BY <1>1, <1>2
<1>4. MinDelayExact'
  BY <1>1, <1>2 DEF MinDelayExact
<1>5. CASE list = <<>>
  <2>1. UNCHANGED <<list, cur, initial>>
    BY <1>5 DEF run_run, Empty
  <2>2. InFlight' /\ Arrived'
    BY <1>1, <1>5, <2>1 DEF DInv, InFlight, Arrived
  <2>3. TypeOK'
    BY <1>1, <1>2, <1>3, <2>1 DEF TypeOK
  <2>4. UNCHANGED A!vars
    BY <1>1, <2>1 DEF A!vars, due
  <2> QED BY <1>2, <1>4, <2>1, <2>2, <2>3, <2>4 DEF DInv
<1>6. CASE list # <<>> /\ list[1].left > 0
  <2>1. UNCHANGED <<list, cur, initial>>
    BY <1>2, <1>6 DEF run_run, Empty
  <2>2. Len(list) = 1 /\ list[1].left \in 1 .. MaxDelay /\ list[1].value = input /\ sched[list[1].left] > 0
    BY <1>6 DEF DInv, InFlight
  <2>3. InFlight' /\ Arrived'
    BY <1>1, <1>3, <1>6, <2>1, <2>2 DEF InFlight, Arrived
  <2>4. TypeOK'
    BY <1>1, <1>2, <1>3, <2>1 DEF TypeOK
  <2>5. UNCHANGED A!vars
    BY <1>1, <2>1 DEF A!vars, due
  <2> QED BY <1>2, <1>4, <2>1, <2>3, <2>4, <2>5 DEF DInv
<1>7. CASE list # <<>> /\ ~(list[1].left > 0)
  <2>1. cur' = list[1].value /\ list' = Tail(list) /\ initial' = FALSE
    BY <1>2, <1>7 DEF run_run, Empty
  <2>2. Len(list) = 1 /\ list[1].left = 0 /\ list[1].value = input /\ list[1] \in Transition
    BY <1>1, <1>2, <1>7 DEF DInv, InFlight
  <2>3. list' = <<>> /\ list' \in Seq(Transition) /\ due = 0 /\ due' = -1
    BY <1>2, <1>7, <2>1, <2>2 DEF due
  <2>4. cur' = input /\ cur' \in Values
    BY <2>1, <2>2 DEF Transition
  <2>5. InFlight' /\ Arrived'
    BY <1>1, <2>3, <2>4 DEF InFlight, Arrived
  <2>6. TypeOK'
    <3>1. \A i \in DOMAIN list' : list'[i] \in Transition
      BY <2>3
    <3> QED BY <1>1, <1>2, <1>3, <2>1, <2>4, <3>1 DEF TypeOK, Transition
  <2>7. A!Deliver
    BY <1>1, <2>3, <2>4 DEF A!Deliver
  <2> QED BY <1>4, <2>3, <2>5, <2>6, <2>7 DEF DInv
<1> QED BY <1>5, <1>6, <1>7

\* The next instant.
LEMMA StepTick ==
  ASSUME DelayAssumption, DInv, Tick
  PROVE  DInv' /\ A!Tick
<1>1. /\ sched[0] = 0 /\ steps' = 0 /\ UNCHANGED <<delay, cur, initial, input>>
      /\ sched' = [t \in 0 .. MaxDelay |-> IF t < MaxDelay THEN sched[t + 1] ELSE 0]
      /\ list' = [i \in DOMAIN list |->
                    [list[i] EXCEPT !.left = IF @ >= 0 THEN @ - 1 ELSE @]]
      /\ MaxDelay \in Nat
  BY Longest DEF Tick
<1>2. sched \in [0 .. MaxDelay -> Nat] /\ list \in Seq(Transition) /\ TypeOK /\ MinDelayExact
  BY DEF DInv, TypeOK
<1>3. sched' \in [0 .. MaxDelay -> Nat]
  BY <1>1, <1>2
<1>4. MinDelayExact' /\ 0 \in 0 .. MaxStep
  BY <1>1, <1>2 DEF MinDelayExact, DelayAssumption
<1>5. due # 0 /\ (list = <<>> \/ list[1].left > 0)
  BY <1>1, Withdrawn
<1>6. CASE list = <<>>
  <2>1. list' = <<>>
    BY <1>1, <1>6
  <2>2. InFlight' /\ Arrived'
    BY <1>1, <1>6, <2>1 DEF DInv, InFlight, Arrived
  <2>3. TypeOK'
    BY <1>1, <1>2, <1>3, <1>4, <2>1 DEF TypeOK
  <2>4. due = -1 /\ due' = -1
    BY <1>6, <2>1 DEF due
  <2>5. A!Tick
    BY <1>1, <2>4 DEF A!Tick
  <2> QED BY <1>4, <2>1, <2>2, <2>3, <2>5 DEF DInv
<1>7. CASE list # <<>>
  <2>1. /\ Len(list) = 1 /\ list[1].left \in 1 .. MaxDelay /\ list[1].value = input
        /\ sched[list[1].left] > 0 /\ list[1] \in Transition
    BY <1>1, <1>2, <1>5, <1>7 DEF DInv, InFlight
  <2>2. PICK e : e = [list[1] EXCEPT !.left = IF @ >= 0 THEN @ - 1 ELSE @]
    OBVIOUS
  <2>3. e \in Transition /\ e.left = list[1].left - 1 /\ e.value = list[1].value
    BY <1>1, <2>1, <2>2 DEF Transition
  <2>4. DOMAIN list = 1 .. 1
    BY <1>2, <2>1
  <2>5. list' # <<>> /\ Len(list') = 1 /\ list'[1] = e /\ list' \in Seq(Transition)
    <3>1. PICK l : l = list'
      OBVIOUS
    <3>2. /\ l = [i \in 1 .. 1 |-> [list[i] EXCEPT !.left = IF @ >= 0 THEN @ - 1 ELSE @]]
          /\ \A i \in 1 .. 1 : i = 1
      BY <1>1, <2>4, <3>1
    <3>3. l = [i \in 1 .. 1 |-> e]
      BY <2>2, <3>2
    <3>4. l \in Seq(Transition) /\ Len(l) = 1 /\ l[1] = e
      BY <2>3, <3>3
    <3> QED BY <3>1, <3>4
  <2>6. sched'[e.left] > 0
    BY <1>1, <2>1, <2>3
  <2>7. InFlight' /\ Arrived'
    BY <1>1, <2>1, <2>3, <2>5, <2>6 DEF InFlight, Arrived
  <2>8. TypeOK'
    <3>1. \A i \in DOMAIN list' : list'[i] \in Transition
      BY <2>5
    <3> QED BY <1>1, <1>2, <1>3, <1>4, <3>1 DEF TypeOK, Transition
  <2>9. due > 0 /\ due' = due - 1
    BY <1>2, <1>7, <2>1, <2>3, <2>5 DEF due
  <2>10. A!Tick
    BY <1>1, <2>9 DEF A!Tick
  <2> QED BY <1>4, <2>5, <2>7, <2>8, <2>10 DEF DInv
<1> QED BY <1>6, <1>7

\* Every step keeps the invariant, and is one of an inertial delay or changes
\* nothing of it.
LEMMA StepAny ==
  ASSUME DelayAssumption, Racing = FALSE, DInv, [Next]_vars
  PROVE  DInv' /\ [A!Next]_(A!vars)
<1>1. CASE \E bit \in Values : Receive(bit)
  BY <1>1, StepReceive DEF A!Next
<1>2. CASE \E port \in 1 .. 3, val \in Times : ReceiveDelay(port, val)
  BY <1>2, StepDelay
<1>3. CASE run_run
  BY <1>3, StepRun DEF A!Next
<1>4. CASE Tick
  BY <1>4, StepTick DEF A!Next
<1>5. CASE UNCHANGED vars
  <2>1. UNCHANGED <<delay, list, cur, initial, sched, input, steps>>
    BY <1>5 DEF vars
  <2>2. DInv'
    BY <2>1 DEF DInv, TypeOK, MinDelayExact, InFlight, Arrived
  <2>3. UNCHANGED A!vars
    BY <2>1 DEF A!vars, due
  <2> QED BY <2>2, <2>3
<1> QED BY <1>1, <1>2, <1>3, <1>4, <1>5 DEF Next

\* The beginning.
LEMMA StepFirst ==
  ASSUME DelayAssumption, Init
  PROVE  DInv /\ A!Init
<1>1. /\ list = <<>> /\ initial = TRUE /\ input = NoValue /\ steps = 0
      /\ sched = [t \in 0 .. MaxDelay |-> 0]
  BY DEF Init
<1>2. delay \in Delays /\ Cached(delay)
  <2>1. CASE Fixed
    <3>1. delay \in UNION {{delay_2(r, f), delay_3(r, f, z)} : r, f, z \in Times}
      BY <2>1 DEF Init
    <3>2. PICK r \in Times, f \in Times, z \in Times :
             delay = delay_2(r, f) \/ delay = delay_3(r, f, z)
      BY <3>1
    <3> QED BY <3>2, Constructed
  <2>2. CASE ~Fixed
    <3>1. 0 \in Times
      BY <2>2 DEF DelayAssumption
    <3>2. delay = delay_3(0, 0, 0) \/ delay = set_ignore_decay(delay_3(0, 0, 0))
      BY <2>2 DEF Init
    <3>3. PICK d : d = delay_3(0, 0, 0)
      OBVIOUS
    <3>4. d \in Delays /\ Cached(d)
      BY <3>1, <3>3, Constructed
    <3>5. [d EXCEPT !.ignore_decay = TRUE] \in Delays
      BY <3>4 DEF Delays
    <3>6. set_ignore_decay(d) \in Delays /\ Cached(set_ignore_decay(d))
      BY <3>5, DelaysWide, Recalculated DEF set_ignore_decay
    <3> QED BY <3>2, <3>3, <3>4, <3>6
  <2> QED BY <2>1, <2>2
<1>3. cur \in Values
  <2>1. CASE Kind = "vec4"
    BY <2>1 DEF Init, Values, Vec4
  <2>2. CASE Kind = "vec8"
    BY <2>2 DEF Init, Values, Vec8, DelayAssumption
  <2>3. CASE Kind = "real"
    BY <2>3 DEF Init, Values, DelayAssumption
  <2> QED BY <2>1, <2>2, <2>3 DEF DelayAssumption
<1>4. TypeOK
  <2>1. sched \in [0 .. MaxDelay -> Nat] /\ steps \in 0 .. MaxStep
    BY <1>1 DEF DelayAssumption
  <2>2. \A i \in DOMAIN list : list[i] \in Transition
    BY <1>1
  <2> QED BY <1>1, <1>2, <1>3, <2>1, <2>2 DEF TypeOK, Transition, Delays
<1>5. MinDelayExact /\ InFlight /\ Arrived /\ list \in Seq(Transition)
  BY <1>1, <1>2 DEF MinDelayExact, Cached, InFlight, Arrived
<1>6. A!Init
  BY <1>1, <1>3 DEF A!Init, due
<1> QED BY <1>4, <1>5, <1>6 DEF DInv

(***************************************************************************)
(* The invariant: at most one transition is in flight, it leads to the     *)
(* value of the input and has an event at its time; without one, the       *)
(* output shows the input (vvp_fun_delay of delay.cc).                     *)
(***************************************************************************)
THEOREM DelayInvariant == DelayAssumption /\ Racing = FALSE => (Spec => []DInv)
<1> SUFFICES ASSUME DelayAssumption, Racing = FALSE
             PROVE  Spec => []DInv
  OBVIOUS
<1>1. Init => DInv
  BY StepFirst
<1>2. DInv /\ [Next]_vars => DInv'
  BY StepAny
<1> QED BY <1>1, <1>2, PTL DEF Spec

\* What the invariant says about events and the value in the end.
LEMMA InvariantGives ==
  ASSUME DelayAssumption, DInv
  PROVE  NoLostEvent /\ Settled /\ MostRecent
<1>1. list \in Seq(Transition) /\ InFlight /\ Arrived /\ MinDelayExact
  BY DEF DInv
<1>2. CASE list = <<>>
  BY <1>1, <1>2 DEF NoLostEvent, Settled, MostRecent, Arrived
<1>3. CASE list # <<>>
  <2>1. /\ Len(list) = 1 /\ list[1].left \in 0 .. MaxDelay /\ list[1].value = input
        /\ sched[list[1].left] > 0 /\ DOMAIN list = {1} /\ sched[list[1].left] \in Nat
    BY <1>1, <1>3 DEF InFlight, DInv, TypeOK
  <2>2. NoLostEvent
    <3>1. {j \in DOMAIN list : list[j].left = list[1].left} = {1}
      BY <2>1
    <3>2. Cardinality({1}) = 1
      BY FS_Singleton
    <3> QED BY <2>1, <3>1, <3>2 DEF NoLostEvent
  <2>3. Settled
    <3>1. list[1].left \in DOMAIN sched
      BY <2>1 DEF DInv, TypeOK
    <3> QED BY <2>1, <3>1 DEF Settled
  <2>4. MostRecent
    BY <1>1, <2>1 DEF MostRecent, Last
  <2> QED BY <2>2, <2>3, <2>4
<1> QED BY <1>2, <1>3

(***************************************************************************)
(* Every transition in flight has an event of its own in the scheduler,    *)
(* the newest one leads to the input, and a functor with nothing left in   *)
(* the scheduler shows its input, for every width, kind of net and set of  *)
(* delays (clean_pulse_events_ and run_run of delay.cc).                   *)
(***************************************************************************)
THEOREM DelaySettles ==
  DelayAssumption /\ Racing = FALSE
    => (Spec => [](NoLostEvent /\ Settled /\ MostRecent))
<1> SUFFICES ASSUME DelayAssumption, Racing = FALSE
             PROVE  Spec => [](NoLostEvent /\ Settled /\ MostRecent)
  OBVIOUS
<1>1. DInv => NoLostEvent /\ Settled /\ MostRecent
  BY InvariantGives
<1> QED BY <1>1, DelayInvariant, PTL

(***************************************************************************)
(* The functor with its list of transitions and the events it leaves in    *)
(* the scheduler implements an inertial delay, for every width, kind of    *)
(* net and set of delays, constant or from ports (vvp_fun_delay).          *)
(***************************************************************************)
THEOREM DelayIsInertial == DelayAssumption /\ Racing = FALSE => (Spec => A!Spec)
<1> SUFFICES ASSUME DelayAssumption, Racing = FALSE
             PROVE  Spec => A!Spec
  OBVIOUS
<1>1. Init => A!Init
  BY StepFirst
<1>2. DInv /\ [Next]_vars => [A!Next]_(A!vars)
  BY StepAny
<1> QED BY <1>1, <1>2, DelayInvariant, PTL DEF Spec, A!Spec

(***************************************************************************)
(* The cached minimum is the minimum of the delays in force after every    *)
(* sequence of changes on the delay ports, shortcuts included, also when   *)
(* inputs race with transitions that are due (vvp_delay_t of delay.cc).    *)
(***************************************************************************)
THEOREM MinDelayRight == DelayAssumption => (Spec => []MinDelayExact)
<1> SUFFICES ASSUME DelayAssumption
             PROVE  Spec => []MinDelayExact
  OBVIOUS
<1> DEFINE I == delay \in Delays /\ Cached(delay)
<1>1. Init => I
  BY StepFirst DEF DInv, TypeOK, MinDelayExact, Cached, Delays
<1>2. I /\ [Next]_vars => I'
  <2> SUFFICES ASSUME I, [Next]_vars PROVE I'
    OBVIOUS
  <2>1. CASE \E port \in 1 .. 3, val \in Times : ReceiveDelay(port, val)
    BY <2>1, DelayChanged
  <2>2. CASE delay' = delay
    BY <2>2
  <2> QED BY <2>1, <2>2 DEF Next, vars, Receive, run_run, Tick
<1>3. I => MinDelayExact
  BY DEF MinDelayExact, Cached
<1> QED BY <1>1, <1>2, <1>3, PTL DEF Spec

=============================================================================
