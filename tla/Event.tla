------------------------------- MODULE Event --------------------------------
(***************************************************************************)
(* Event functors of vvp and the non-blocking event controls that wait on  *)
(* them (vvp/event.cc, vvp/event.h).  A signal sends its value to its fan  *)
(* out depth first; an edge functor that sees its edge walks its list of   *)
(* event controls, each of which counts down and at zero performs its      *)
(* assignment on the spot, from inside the walk; then the waiting threads  *)
(* are scheduled and the .event/or functors behind it are triggered.       *)
(*                                                                         *)
(* The C++ call stack is the variable stack, innermost call first.  The    *)
(* list of event controls is kept as the code keeps it: a head, a next     *)
(* field per node, and last, the address of a slot.                        *)
(***************************************************************************)
EXTENDS Integers, Sequences, FiniteSets, SequencesExt

CONSTANTS
  Sig,        \* signals
  Fun,        \* event functors
  Ctl,        \* identities for event controls
  Thread,     \* threads
  Bit4,       \* the values assigned, out of {"0", "1", "x"}
  Kind,       \* [Fun -> {"posedge", "negedge", "edge", "or"}]
  FanOut,     \* [Sig \cup Fun -> Seq(Fun)]: out_ of the net, in order
  Targets,    \* [Fun -> SUBSET Sig]: what event controls on a functor assign
  MaxCount,   \* largest repeat count of an event control (bound)
  MaxAssign,  \* procedural assignments (bound)
  Nil

EventAssumption ==
  /\ Kind \in [Fun -> {"posedge", "negedge", "edge", "or"}]
  /\ \A n \in Sig \cup Fun : Range(FanOut[n]) \subseteq Fun
  /\ \A f \in Fun : \A g \in Range(FanOut[f]) : Kind[g] = "or"
  /\ Targets \in [Fun -> SUBSET Sig]
  /\ Bit4 \subseteq {"0", "1", "x"}
  /\ MaxCount \in Nat /\ MaxAssign \in Nat
  /\ Nil \notin Ctl \cup Fun

\* A slot that can hold the address of an event control: event_ctls of a
\* functor, or the next field of an event control.
Slot == Fun \cup Ctl

VARIABLES
  value,      \* bits4_ of the signals
  old,        \* [Fun -> [Sig -> Bit4]]: bits_, the value seen last on a port
  slot,       \* [Slot -> Ctl \cup {Nil}]: event_ctls and next
  last,       \* [Fun -> Slot]: the slot the next event control goes into
  ctl,        \* the event controls: count, target, value; Nil when deleted
  threads,    \* [Fun -> SUBSET (Thread \X Nat)]: the threads waiting on a functor,
              \* each with (history) the trigger count when it began to wait
  ready,      \* threads handed to vthread_schedule_list
  stack,      \* calls in progress, innermost first
  aborted,    \* assert(ecount_ != 0) failed
  trig,       \* history: how often a functor was triggered
  ran,        \* history: event controls in the order they ran
  assigns     \* procedural assignments so far

vars == <<value, old, slot, last, ctl, threads, ready, stack, aborted, trig,
          ran, assigns>>

Idle == stack = <<>> /\ ~aborted

Top == Head(stack)

-----------------------------------------------------------------------------
\* Edge detection

posedge(from, to) == (from = "0" /\ to # "0") \/ (from = "x" /\ to = "1")
negedge(from, to) == (from = "1" /\ to # "1") \/ (from = "x" /\ to = "0")

\* recv_vec4_ of vvp_fun_edge and vvp_fun_anyedge; .event/or takes anything.
hits(f, from, to) ==
  CASE Kind[f] = "posedge" -> posedge(from, to)
    [] Kind[f] = "negedge" -> negedge(from, to)
    [] Kind[f] = "edge" -> from # to
    [] Kind[f] = "or" -> TRUE

-----------------------------------------------------------------------------
\* Calls

\* send_vec4 of net n: deliver to the fan out from position i on.
SendFrame(n, i) == [pc |-> "send", net |-> n, at |-> i, cur |-> Nil]

\* run_waiting_threads_ of functor f, at event control c.
WalkFrame(f, c) == [pc |-> "walk", net |-> f, at |-> 0, cur |-> c]

Replace(frame) == <<frame>> \o Tail(stack)

\* One functor of the fan out receives the value.  The value is passed by
\* reference to bits4_ of the signal: a change made further down in the call is
\* what the rest of the fan out gets to see.
Deliver ==
  /\ ~aborted /\ stack # <<>> /\ Top.pc = "send"
  /\ Top.at <= Len(FanOut[Top.net])
  /\ LET f == FanOut[Top.net][Top.at]
         s == Top.net
         rest == Replace(SendFrame(s, Top.at + 1))
         hit == Kind[f] = "or" \/ hits(f, old[f][s], value[s])
     IN  /\ old' = IF s \in Sig /\ Kind[f] # "or"
                     THEN [old EXCEPT ![f][s] = value[s]] ELSE old
         /\ IF hit
              THEN /\ stack' = <<WalkFrame(f, slot[f])>> \o rest
                   /\ last' = [last EXCEPT ![f] = f]
                   /\ trig' = [trig EXCEPT ![f] = @ + 1]
              ELSE /\ stack' = rest
                   /\ UNCHANGED <<last, trig>>
  /\ UNCHANGED <<value, slot, ctl, threads, ready, aborted, ran, assigns>>

SendReturn ==
  /\ ~aborted /\ stack # <<>> /\ Top.pc = "send"
  /\ Top.at > Len(FanOut[Top.net])
  /\ stack' = Tail(stack)
  /\ UNCHANGED <<value, old, slot, last, ctl, threads, ready, aborted, trig,
                 ran, assigns>>

\* vvp_fun_signal4_sa::recv_vec4: store a value that differs, and send it.
assign(s, v, st) ==
  IF value[s] = v
    THEN stack' = st /\ UNCHANGED value
    ELSE /\ value' = [value EXCEPT ![s] = v]
         /\ stack' = <<SendFrame(s, 1)>> \o st

\* dec_and_run: the count goes down; at zero the assignment is made, and the
\* walk goes on when it returns.
DecAndRun ==
  /\ ~aborted /\ stack # <<>> /\ Top.pc = "walk" /\ Top.cur # Nil
  /\ LET c == Top.cur
     IN  IF ctl[c].count = 0
           THEN /\ aborted' = TRUE
                /\ UNCHANGED <<value, ctl, last, stack, ran>>
           ELSE /\ ctl' = [ctl EXCEPT ![c].count = @ - 1]
                /\ IF ctl[c].count = 1
                     THEN /\ assign(ctl[c].target, ctl[c].val,
                                    Replace([Top EXCEPT !.pc = "ran"]))
                          /\ ran' = Append(ran, c)
                          /\ UNCHANGED last
                     ELSE /\ last' = [last EXCEPT ![Top.net] = c]
                          /\ stack' = Replace(WalkFrame(Top.net, slot[c]))
                          /\ UNCHANGED <<value, ran>>
                /\ UNCHANGED aborted
  /\ UNCHANGED <<old, slot, threads, ready, trig, assigns>>

\* A slip: last moves on past an event control that is deleted.
Unlink_Advance ==
  /\ ~aborted /\ stack # <<>> /\ Top.pc = "ran"
  /\ LET c == Top.cur
     IN  /\ slot' = [slot EXCEPT ![last[Top.net]] = slot[c]]
         /\ last' = [last EXCEPT ![Top.net] = c]
         /\ ctl' = [ctl EXCEPT ![c] = Nil]
         /\ stack' = Replace(WalkFrame(Top.net, slot[c]))
  /\ UNCHANGED <<value, old, threads, ready, aborted, trig, ran, assigns>>

\* The event control that ran is deleted, and the slot at last takes the next.
Unlink ==
  /\ ~aborted /\ stack # <<>> /\ Top.pc = "ran"
  /\ LET c == Top.cur
     IN  /\ slot' = [slot EXCEPT ![last[Top.net]] = slot[c]]
         /\ ctl' = [ctl EXCEPT ![c] = Nil]
         /\ stack' = Replace(WalkFrame(Top.net, slot[c]))
  /\ UNCHANGED <<value, old, last, threads, ready, aborted, trig, ran, assigns>>

\* The end of the walk: the waiting threads are scheduled and the functor sends
\* on to the .event/or functors.
WalkEnd ==
  /\ ~aborted /\ stack # <<>> /\ Top.pc = "walk" /\ Top.cur = Nil
  /\ ready' = ready \cup {w[1] : w \in threads[Top.net]}
  /\ threads' = [threads EXCEPT ![Top.net] = {}]
  /\ stack' = Replace(SendFrame(Top.net, 1))
  /\ UNCHANGED <<value, old, slot, last, ctl, aborted, trig, ran, assigns>>

-----------------------------------------------------------------------------
\* What threads do

Init ==
  /\ value = [s \in Sig |-> "x"]
  /\ old = [f \in Fun |-> [s \in Sig |-> "x"]]
  /\ slot = [p \in Slot |-> Nil]
  /\ last = [f \in Fun |-> f]
  /\ ctl = [c \in Ctl |-> Nil]
  /\ threads = [f \in Fun |-> {}]
  /\ ready = {}
  /\ stack = <<>>
  /\ aborted = FALSE
  /\ trig = [f \in Fun |-> 0]
  /\ ran = <<>>
  /\ assigns = 0

\* A blocking assignment of thread code.
Assign(s, v) ==
  /\ Idle /\ assigns < MaxAssign
  /\ value[s] # v
  /\ assign(s, v, <<>>)
  /\ assigns' = assigns + 1
  /\ UNCHANGED <<old, slot, last, ctl, threads, ready, aborted, trig, ran>>

\* History: how many event controls were scheduled before.
Scheduled == Cardinality({c \in Ctl : ctl[c] # Nil}) + Len(ran)

\* schedule_evctl: append to the list of functor f.  The compiler makes the
\* count at least one.
ScheduleEvctl(c, f, s, v, n) ==
  /\ Idle
  /\ ctl[c] = Nil /\ ~\E i \in DOMAIN ran : ran[i] = c
  /\ s \in Targets[f]
  /\ ctl' = [ctl EXCEPT ![c] = [count |-> n, target |-> s, val |-> v,
                                fun |-> f, due |-> trig[f] + n,
                                born |-> Scheduled]]
  /\ slot' = [slot EXCEPT ![last[f]] = c, ![c] = Nil]
  /\ last' = [last EXCEPT ![f] = c]
  /\ UNCHANGED <<value, old, threads, ready, stack, aborted, trig, ran, assigns>>

\* %wait
Wait(t, f) ==
  /\ Idle
  /\ \A g \in Fun : \A w \in threads[g] : t # w[1]
  /\ t \notin ready
  /\ threads' = [threads EXCEPT ![f] = @ \cup {<<t, trig[f]>>}]
  /\ UNCHANGED <<value, old, slot, last, ctl, ready, stack, aborted, trig, ran,
                 assigns>>

\* A scheduled thread runs and leaves the ready list.
Run(t) ==
  /\ Idle
  /\ t \in ready
  /\ ready' = ready \ {t}
  /\ UNCHANGED <<value, old, slot, last, ctl, threads, stack, aborted, trig,
                 ran, assigns>>

Next ==
  \/ \E s \in Sig, v \in Bit4 : Assign(s, v)
  \/ \E c \in Ctl, f \in Fun, s \in Sig, v \in Bit4, n \in 1..MaxCount :
       ScheduleEvctl(c, f, s, v, n)
  \/ \E t \in Thread, f \in Fun : Wait(t, f)
  \/ \E t \in Thread : Run(t)
  \/ Deliver \/ SendReturn \/ DecAndRun \/ Unlink \/ WalkEnd

Spec == Init /\ [][Next]_vars

-----------------------------------------------------------------------------
\* Properties

\* The variables keep the values their C++ types and the callers allow.
TypeOK ==
  /\ value \in [Sig -> Bit4 \cup {"x"}]
  /\ old \in [Fun -> [Sig -> Bit4 \cup {"x"}]]
  /\ slot \in [Slot -> Ctl \cup {Nil}]
  /\ last \in [Fun -> Slot]
  /\ \A c \in Ctl : ctl[c] # Nil => ctl[c].count \in 0..MaxCount
  /\ threads \in [Fun -> SUBSET (Thread \X Nat)]
  /\ ready \subseteq Thread
  /\ aborted \in BOOLEAN

\* An event control is never counted down past zero, whatever the assignments
\* made from inside a walk set off: the assertion of dec_and_run.
NoAbort == ~aborted

\* The event controls of functor f in list order; Nil from the end on.
Chain(f) ==
  LET walk[k \in 0..Cardinality(Ctl)] ==
        IF k = 0 THEN slot[f]
        ELSE IF walk[k - 1] = Nil THEN Nil ELSE slot[walk[k - 1]]
  IN  walk

\* Between calls every list holds exactly the event controls still pending on
\* its functor, ends, and last is the slot at its end: a walk that deletes from
\* the middle and assignments made during it leave no node behind.
ListSound ==
  Idle => \A f \in Fun :
    LET nodes == {Chain(f)[k] : k \in DOMAIN Chain(f)} \ {Nil}
    IN  /\ nodes = {c \in Ctl : ctl[c] # Nil /\ ctl[c].fun = f}
        /\ Chain(f)[Cardinality(Ctl)] = Nil
        /\ last[f] \in nodes \cup {f}
        /\ slot[last[f]] = Nil

\* A pending event control has seen every trigger since it was scheduled, once:
\* its assignment is made by the trigger its repeat count says.
CountExact ==
  Idle => \A c \in Ctl :
    ctl[c] # Nil => /\ ctl[c].count > 0
                    /\ ctl[c].due = trig[ctl[c].fun] + ctl[c].count

\* Between calls every edge functor remembers the value its signal has now, so
\* the next edge is judged against the right one, also when the signal changed
\* again while its fan out was being walked.
OldCurrent ==
  Idle => \A s \in Sig : \A f \in Range(FanOut[s]) :
            Kind[f] # "or" => old[f][s] = value[s]

\* A thread still waiting has missed no trigger since it began to wait.
NoMissedTrigger ==
  Idle => \A f \in Fun : \A w \in threads[f] : w[2] = trig[f]

\* Of two event controls that the same trigger of a functor completes, the one
\* scheduled first runs first.
FirstRunsFirst ==
  \A a, b \in Ctl :
    /\ ctl[a] # Nil /\ ctl[b] # Nil
    /\ ctl[a].fun = ctl[b].fun /\ ctl[a].due = ctl[b].due
    /\ ctl[a].born < ctl[b].born
    /\ Contains(ran', b) /\ ~Contains(ran, b)
    => Contains(ran', a)

=============================================================================
