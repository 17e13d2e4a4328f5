------------------------------- MODULE Agenda -------------------------------
(***************************************************************************)
(* What the stratified event queue of vvp promises, without any of the     *)
(* lists that implement it: a simulation time and a set of pending events, *)
(* each with the absolute time at which it is due.                         *)
(*                                                                         *)
(* An event is executed at exactly its due time, the time only moves to    *)
(* the due time of some pending event and never past one, and an event     *)
(* disappears unexecuted only when it has missed its time step or when the *)
(* simulation has been told to finish.                                     *)
(***************************************************************************)
EXTENDS Integers

VARIABLES now,          \* the simulation time
          pend,         \* the events that are scheduled and not executed
          ran,          \* the events that have been executed
          finishing     \* the simulation has been told to finish

vars == <<now, pend, ran, finishing>>

Init ==
  /\ now = 0
  /\ pend = {} /\ ran = {}
  /\ finishing = FALSE

\* An event is scheduled, now or in the future.
Post ==
  /\ \E e \in pend' \ ran : /\ e.due >= now /\ e \notin pend
                            /\ pend' = pend \cup {e}
  /\ UNCHANGED <<now, ran, finishing>>

\* An event that is due is taken off the agenda and executed.
Execute ==
  /\ \E e \in pend : /\ e.due = now
                     /\ pend' = pend \ {e}
                     /\ ran' = ran \cup {e}
  /\ UNCHANGED <<now, finishing>>

\* Time moves to the earliest pending event.
Tick ==
  /\ \E e \in pend : e.due > now /\ now' = e.due
  /\ \A e \in pend : e.due >= now'
  /\ ~finishing
  /\ UNCHANGED <<pend, ran, finishing>>

\* Two kinds of events can miss their time step: one for the start of a time
\* step that has already begun, and one that a read-only callback asked for.
Late(e) == e.ro \/ (e.kind = "start" /\ e.from = e.due)

\* The time step in hand ends, and with it the events that missed it.
Expire ==
  /\ pend' \subseteq pend
  /\ \A e \in pend \ pend' : e.due = now /\ Late(e)
  /\ UNCHANGED <<now, ran, finishing>>

\* The simulation is told to finish.
Finish ==
  /\ finishing' = TRUE
  /\ pend' \subseteq pend
  /\ UNCHANGED <<now, ran>>

Next == Post \/ Execute \/ Tick \/ Expire \/ Finish

Spec == Init /\ [][Next]_vars
=============================================================================
