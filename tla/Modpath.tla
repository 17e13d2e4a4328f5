------------------------------ MODULE Modpath -------------------------------
(***************************************************************************)
(* Module path delays of vvp (vvp/delay.cc from vvp_fun_modpath on).  Each *)
(* vvp_fun_modpath_src watches an input of the module and notes when it    *)
(* last moved; when the output functor receives a new value it takes the   *)
(* paths whose source moved last, and of their delays the smallest one for *)
(* the transition.  The value is stored when it arrives, and whatever is   *)
(* stored is sent when an event of the functor comes up.                   *)
(***************************************************************************)
EXTENDS Integers, Sequences, FiniteSets, FiniteSetsExt, SequencesExt

CONSTANTS
  Src,        \* src_list_ in list order: the plain and edge sensitive paths
  Ifnone,     \* ifnone_list_ in list order
  EdgeOf,     \* [source -> {"any", "pos", "neg"}]
  Width,      \* bits of the output
  Bit4,       \* bit values the nets carry
  DelayList,  \* the delay lists vpi_put_delays may be called with
  MaxTime,    \* simulation time the model stops at (bound)
  MaxEvents   \* events of the functor for one time (bound)

ModpathAssumption ==
  /\ IsInjective(Src \o Ifnone)
  /\ EdgeOf \in [Range(Src \o Ifnone) -> {"any", "pos", "neg"}]
  /\ Width \in Nat \ {0}
  /\ Bit4 \subseteq {"0", "1", "x", "z"}
  /\ DelayList # {} /\ \A d \in DelayList : Len(d) \in {1, 2, 3, 6, 12}
  /\ MaxTime \in Nat /\ MaxEvents \in Nat \ {0}

Sources == Range(Src \o Ifnone)

Vec4 == [1..Width -> Bit4 \cup {"x"}]

\* The twelve transitions, in the order of delay_edge_t.
DelayEdge ==
  <<<<"0","1">>, <<"1","0">>, <<"0","z">>, <<"z","1">>, <<"1","z">>, <<"z","0">>,
    <<"0","x">>, <<"x","1">>, <<"1","x">>, <<"x","0">>, <<"x","z">>, <<"z","x">>>>

VARIABLES
  now,        \* schedule_simtime()
  wake,       \* wake_time_ of each source
  cond,       \* condition_flag_ of each source
  old,        \* old_value_ of each edge sensitive source
  dly,        \* delay_[12] of each source
  cur,        \* cur_vec4_: the value received last
  sched,      \* the functor's events in the scheduler: how many per time
  output,     \* the value sent last
  failed      \* an assert() of recv_vec4 failed

vars == <<now, wake, cond, old, dly, cur, sched, output, failed>>

-----------------------------------------------------------------------------
\* vpi_put_delays: one, two, three, six or twelve delays make twelve.

MaxOf2(a, b) == IF a > b THEN a ELSE b

use_map(n) ==
  CASE n = 1 -> <<1, 1, 1, 1, 1, 1>>
    [] n = 2 -> <<1, 2, 1, 1, 2, 2>>
    [] n = 3 -> <<1, 2, 3, 1, 3, 2>>
    [] n = 6 -> <<1, 2, 3, 4, 5, 6>>

put_delays(da) ==
  LET Index(a, b) == CHOOSE i \in 1..12 : DelayEdge[i] = <<a, b>>
      t(a, b) == da[use_map(Len(da))[Index(a, b)]]
  IN  [e \in Range(DelayEdge) |->
         CASE Len(da) = 12 -> da[Index(e[1], e[2])]
           [] Len(da) < 12 /\ e[2] = "x" ->
                Min({t(e[1], b) : b \in {"0", "1", "z"} \ {e[1]}})
           [] Len(da) < 12 /\ e[1] = "x" ->
                Max({t(a, e[2]) : a \in {"0", "1", "z"} \ {e[2]}})
           [] OTHER -> t(e[1], e[2])]

-----------------------------------------------------------------------------
\* vvp_fun_modpath_src

\* edge(): 1 for a positive edge, -1 for a negative one.
edge(from, to) ==
  CASE \/ from = "0" /\ to # "0"
       \/ from \in {"x", "z"} /\ to = "1" -> 1
    [] \/ from = "1" /\ to # "1"
       \/ from \in {"x", "z"} /\ to = "0" -> -1
    [] OTHER -> 0

\* test_vec4 of the plain and of the edge sensitive sources.
test_vec4(s, bit) ==
  CASE EdgeOf[s] = "any" -> TRUE
    [] EdgeOf[s] = "pos" -> edge(old[s], bit) > 0
    [] EdgeOf[s] = "neg" -> edge(old[s], bit) < 0

\* A value arrives at the input of source s.
SrcInput(s, bit) ==
  /\ wake' = IF test_vec4(s, bit) THEN [wake EXCEPT ![s] = now] ELSE wake
  /\ old' = IF EdgeOf[s] = "any" THEN old ELSE [old EXCEPT ![s] = bit]
  /\ UNCHANGED <<now, cond, dly, cur, sched, output, failed>>

\* A value arrives at the condition input of source s.
SrcCondition(s, bit) ==
  /\ s \in Range(Src)
  /\ cond' = [cond EXCEPT ![s] = (bit = "1")]
  /\ UNCHANGED <<now, wake, old, dly, cur, sched, output, failed>>

\* vpi_put_delays on the path object of source s.
PutDelays(s, da) ==
  /\ dly' = [dly EXCEPT ![s] = put_delays(da)]
  /\ UNCHANGED <<now, wake, cond, old, cur, sched, output, failed>>

-----------------------------------------------------------------------------
\* vvp_fun_modpath

\* A slip: a path whose condition is off is still a candidate.
\* The first loop: the enabled sources that moved last, in list order.
add_src(acc, s) ==
  IF ~cond[s] THEN acc
  ELSE IF acc.list = <<>> \/ wake[s] > acc.time
    THEN [list |-> <<s>>, time |-> wake[s]]
  ELSE IF wake[s] = acc.time THEN [acc EXCEPT !.list = Append(@, s)]
  ELSE acc

normal == FoldLeft(add_src, [list |-> <<>>, time |-> 0], Src)

\* The second loop: an ifnone path that moved later than every normal one, or
\* any when there is no normal one.
add_ifnone(acc, s) ==
  IF acc.list = <<>> \/ wake[s] > acc.time
    THEN [list |-> <<s>>, time |-> wake[s]]
  ELSE IF wake[s] = acc.time /\ acc.time > normal.time
    THEN [acc EXCEPT !.list = Append(@, s)]
  ELSE acc

\* A slip: the ifnone paths are left out as soon as a normal path is enabled.
candidates_IfnoneLast ==
  IF normal.list # <<>> THEN normal.list
  ELSE FoldLeft(add_ifnone, normal, Ifnone).list

candidates == FoldLeft(add_ifnone, normal, Ifnone).list

\* What is left of the delay of source s for a transition.
left(s, e) == MaxOf2(0, wake[s] + dly[s][e] - now)

\* out_at: for each transition the smallest over the candidates.
out_at == [e \in Range(DelayEdge) |-> Min({left(s, e) : s \in Range(candidates)})]

\* delay_from_edge; the entries on the diagonal of its table stand for no
\* transition at all.
delay_from_edge(a, b, array) ==
  array[IF a # b THEN <<a, b>>
        ELSE CASE a = "0" -> <<"0","1">> [] a = "1" -> <<"1","0">>
               [] a = "z" -> <<"z","0">> [] a = "x" -> <<"x","0">>]

\* The delay of bit 0 is used for the vector; recv_vec4 asserts that every bit
\* that changes has the same.
use_delay(bit) ==
  IF candidates = <<>> THEN 0 ELSE delay_from_edge(cur[1], bit[1], out_at)

SameDelay(bit) ==
  candidates # <<>> =>
    \A i \in 2..Width :
      cur[i] # bit[i] => delay_from_edge(cur[i], bit[i], out_at) = use_delay(bit)

\* A value arrives at the functor.
Receive(bit) ==
  /\ bit # cur
  /\ now + use_delay(bit) <= MaxTime
  /\ sched[now + use_delay(bit)] < MaxEvents
  /\ failed' = (failed \/ ~SameDelay(bit))
  /\ cur' = bit
  /\ sched' = [sched EXCEPT ![now + use_delay(bit)] = @ + 1]
  /\ UNCHANGED <<now, wake, cond, old, dly, output>>

\* vvp_fun_modpath::run_run sends the value received last.
run_run ==
  /\ sched[now] > 0
  /\ sched' = [sched EXCEPT ![now] = @ - 1]
  /\ output' = cur
  /\ UNCHANGED <<now, wake, cond, old, dly, cur, failed>>

Tick ==
  /\ now < MaxTime
  /\ sched[now] = 0
  /\ now' = now + 1
  /\ UNCHANGED <<wake, cond, old, dly, cur, sched, output, failed>>

Init ==
  /\ now = 0
  /\ wake = [s \in Sources |-> 0]
  /\ cond = [s \in Sources |-> TRUE]
  /\ old = [s \in Sources |-> "x"]
  /\ dly \in [Sources -> {put_delays(d) : d \in DelayList}]
  /\ cur = [i \in 1..Width |-> "x"]
  /\ sched = [t \in 0..MaxTime |-> 0]
  /\ output = [i \in 1..Width |-> "x"]
  /\ failed = FALSE

Next ==
  \/ \E s \in Sources, bit \in Bit4 : SrcInput(s, bit) \/ SrcCondition(s, bit)
  \/ \E s \in Sources, da \in DelayList : PutDelays(s, da)
  \/ \E bit \in Vec4 : Receive(bit)
  \/ run_run
  \/ Tick

Spec == Init /\ [][Next]_vars

-----------------------------------------------------------------------------
\* Properties

\* The variables keep the values their C++ types and the callers allow.
TypeOK ==
  /\ now \in 0..MaxTime
  /\ wake \in [Sources -> 0..now]
  /\ cond \in [Sources -> BOOLEAN]
  /\ old \in [Sources -> Bit4 \cup {"x"}]
  /\ \A s \in Sources : dly[s] \in [Range(DelayEdge) -> Nat]
  /\ cur \in Vec4 /\ output \in Vec4
  /\ sched \in [0..MaxTime -> 0..MaxEvents]
  /\ failed \in BOOLEAN

\* Whatever the order in which inputs moved and conditions changed, the two
\* loops of recv_vec4 find the enabled paths that moved last, an ifnone path
\* only when it moved later than every enabled one or when none is enabled.
\* (Two ifnone paths that have not moved since time 0 are not told apart from
\* the initial candidate time; the second is left out then.)
Enabled == {s \in Range(Src) : cond[s]}
Latest(S) == {s \in S : \A r \in S : wake[r] <= wake[s]}
CandidatesRight ==
  LET i == Latest(Range(Ifnone))
      n == Latest(Enabled)
  IN  IF i # {} /\ \A s \in i, r \in n : wake[s] > wake[r]
        THEN IF \A s \in i : wake[s] > 0
               THEN Range(candidates) = i
               ELSE Range(candidates) \subseteq i /\ candidates # <<>>
        ELSE Range(candidates) = n

\* With no event of the functor left, the output shows the value received
\* last, however the delays of overlapping transitions were chosen.
Settled == (\A t \in now..MaxTime : sched[t] = 0) => output = cur

\* The assertion of recv_vec4 on the delays of the bits of a vector.
NoAbort == ~failed

=============================================================================
