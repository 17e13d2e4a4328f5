------------------------------ MODULE Schedule ------------------------------
(***************************************************************************)
(* The stratified event queue of the vvp runtime (vvp/schedule.cc): the    *)
(* delta-coded list of event_time_s cells, schedule_event_ that inserts    *)
(* into it, and schedule_simulate that drains it.                          *)
(*                                                                         *)
(* One thread executes everything here, so that the interleaving is that   *)
(* of the calls an executing event (or a VPI callback) makes back into the *)
(* scheduler, and of UNIX signals.  Each client call that inserts walks    *)
(* the list one cell per step.                                             *)
(*                                                                         *)
(* Ghost state: at (the absolute time of a cell, which the code never      *)
(* stores), the fields id, due, from and ro of an event, ran, term and the *)
(* counters that bound the model.                                          *)
(***************************************************************************)
EXTENDS Integers, Sequences
LOCAL INSTANCE TLC

CONSTANTS Cells,        \* the event_time_s objects of the slab
          Null,         \* the null pointer
          MaxEvents,    \* bound: events ever scheduled
          MaxDelay,     \* bound: the longest delay a client asks for
          MaxControls,  \* bound: calls of $finish and $stop
          MaxSignals    \* bound: UNIX signals delivered

ASSUME NullAssumption == Null \notin Cells
ASSUME BoundAssumption == /\ MaxEvents \in Nat /\ MaxDelay \in Nat
                          /\ MaxControls \in Nat /\ MaxSignals \in Nat

\* The slab hands out cells that nothing tells apart: a symmetry for TLC.
CellSymmetry == Permutations(Cells)

Region == {"start", "active", "inactive", "nbassign", "rwsync", "rosync",
           "del_thr"}

\* The regions that schedule_simulate drains through ctim->active, in order.
ReadWrite == {"active", "inactive", "nbassign", "rwsync"}
\* Mutant of Level: non-blocking assignments before #0 delays.
LevelSwapped(r) == CASE r = "active" -> 1 [] r = "inactive" -> 3
                     [] r = "nbassign" -> 2 [] r = "rwsync" -> 4 [] OTHER -> 5
Level(r) == CASE r = "active" -> 1 [] r = "inactive" -> 2
              [] r = "nbassign" -> 3 [] r = "rwsync" -> 4 [] OTHER -> 5

\* What a client asked for: a region, the front of the active region, or one
\* of the lists that live outside of the cells.
Kind == Region \cup {"push", "init", "final"}

Event == [id : Nat, kind : Kind, due : Nat, from : Nat, ro : BOOLEAN]
NoEvent == [id |-> 0, kind |-> "active", due |-> 0, from |-> 0, ro |-> FALSE]

VARIABLES
  sched_list,       \* the first cell, or Null
  live,             \* the cells that are allocated
  next, delay,      \* the fields of a cell
  queue,            \* the seven circular lists of a cell, oldest event first
  at,               \* ghost: the absolute time of a cell
  schedule_time,
  schedule_init_list, schedule_final_list,
  runnable,         \* schedule_runnable
  stopped,          \* schedule_stopped_flag
  single_step,      \* schedule_single_step_flag
  stop_is_finish,
  sim_started,
  run_finals,
  pc,               \* where schedule_simulate is
  cur,              \* the event being executed
  ins,              \* the activation of schedule_event_, if there is one
  count,            \* ghost: events scheduled so far
  ran,              \* ghost: events of the cells that have been executed
  term,             \* ghost: SIGTERM or SIGHUP has been delivered
  controls, signals \* ghosts: what MaxControls and MaxSignals bound

cells == <<sched_list, live, next, delay, at>>
lists == <<schedule_init_list, schedule_final_list>>
flags == <<runnable, stopped, single_step, stop_is_finish>>
phase == <<sim_started, run_finals>>
ghosts == <<count, ran, term, controls, signals>>
vars == <<cells, queue, schedule_time, lists, flags, phase, pc, cur, ins,
          ghosts>>

-----------------------------------------------------------------------------
(* Program counters.                                                       *)

\* Client code runs: compilation and the EndOfCompile callbacks, an event's
\* run_run, the StartOfSim, NextSimTime and Postsim callbacks, the debugger.
ClientPC == {"compile", "init_run", "startofsim", "nextsim", "start_run",
             "active_run", "rosync_run", "final_run", "interact", "postsim"}
\* The scheduler itself runs.  del_run only frees a thread.
LoopPC == {"loop", "stop", "stop_handler", "interact", "nextsim", "start",
           "start_run", "pull", "active_run", "rosync", "rosync_run",
           "del_thr", "del_run"}
EndPC == {"final", "final_run", "postsim", "done"}
PC == ClientPC \cup LoopPC \cup EndPC \cup {"init"}

NoIns == [on |-> FALSE, ev |-> NoEvent, delay |-> 0, prev |-> Null,
          ctim |-> Null]

Client == pc \in ClientPC /\ ~ins.on

Init ==
  /\ sched_list = Null /\ live = {}
  /\ next = [c \in Cells |-> Null]
  /\ delay = [c \in Cells |-> 0]
  /\ at = [c \in Cells |-> 0]
  /\ queue = [c \in Cells |-> [r \in Region |-> <<>>]]
  /\ schedule_time = 0
  /\ schedule_init_list = <<>> /\ schedule_final_list = <<>>
  /\ runnable = TRUE /\ stopped = FALSE /\ single_step = FALSE
  /\ stop_is_finish \in BOOLEAN           \* vvp -n sets it
  /\ sim_started = FALSE /\ run_finals = FALSE
  /\ pc = "compile" /\ cur = NoEvent /\ ins = NoIns
  /\ count = 0 /\ ran = {} /\ term = FALSE /\ controls = 0 /\ signals = 0

-----------------------------------------------------------------------------
(* Scheduling an event: schedule_event_ and its callers.                   *)

NewEvent(k, d) ==
  [id |-> count + 1, kind |-> k, due |-> schedule_time + d,
   from |-> schedule_time, ro |-> pc = "rosync_run"]

\* The list of a cell that receives an event.
Slot(e) == IF e.kind = "push" THEN "active" ELSE e.kind

\* The kinds and delays of the public schedule_* functions: #0 delays,
\* time-0 triggers and thread deletions always pass 0, and threads are only
\* reaped while an active, an init or a final event runs.
Callable(k, d) ==
  /\ k \in {"inactive", "del_thr"} => d = 0
  /\ k = "del_thr" => pc \in {"active_run", "init_run", "final_run"}

\* schedule_event_ is called.
ScheduleEvent(k, d) ==
  /\ Client /\ count < MaxEvents
  /\ Callable(k, d)
  /\ ins' = [on |-> TRUE, ev |-> NewEvent(k, d), delay |-> d, prev |-> Null,
             ctim |-> sched_list]
  /\ count' = count + 1
  /\ UNCHANGED <<cells, queue, schedule_time, lists, flags, phase, pc, cur,
                 ran, term, controls, signals>>

\* schedule_event_push_: in front of everything that is active, when the
\* first cell is the current time.
PushEvent ==
  /\ Client /\ count < MaxEvents
  /\ sched_list # Null /\ delay[sched_list] = 0
  /\ queue' = [queue EXCEPT ![sched_list]["active"] =
                                <<NewEvent("push", 0)>> \o @]
  /\ count' = count + 1
  /\ UNCHANGED <<cells, schedule_time, lists, flags, phase, pc, cur, ins, ran,
                 term, controls, signals>>

\* schedule_event_push_ hands over to schedule_event_ otherwise.
PushFallback ==
  /\ sched_list # Null => delay[sched_list] > 0
  /\ ScheduleEvent("push", 0)

Inserting == ins.on
Placed == ins' = NoIns /\ UNCHANGED <<schedule_time, lists, flags, phase, pc,
                                      cur, ghosts>>

\* The lists of a cell that has just been created for the event.
OnlyEvent == [r \in Region |-> IF r = Slot(ins.ev) THEN <<ins.ev>> ELSE <<>>]

InsertFirst ==
  /\ Inserting /\ ins.ctim = Null
  /\ \E c \in Cells \ live :
       /\ sched_list' = c
       /\ live' = live \cup {c}
       /\ delay' = [delay EXCEPT ![c] = ins.delay]
       /\ next' = [next EXCEPT ![c] = Null]
       /\ at' = [at EXCEPT ![c] = ins.ev.due]
       /\ queue' = [queue EXCEPT ![c] = OnlyEvent]
  /\ Placed

InsertFront ==
  /\ Inserting /\ ins.ctim # Null /\ ins.prev = Null
  /\ delay[ins.ctim] > ins.delay
  /\ \E c \in Cells \ live :
       /\ sched_list' = c
       /\ live' = live \cup {c}
       /\ delay' = [delay EXCEPT ![c] = ins.delay,
                                 ![ins.ctim] = @ - ins.delay]
       /\ next' = [next EXCEPT ![c] = ins.ctim]
       /\ at' = [at EXCEPT ![c] = ins.ev.due]
       /\ queue' = [queue EXCEPT ![c] = OnlyEvent]
  /\ Placed

\* Mutant of InsertWalk: prev stays behind.
InsertWalkNoPrev ==
  /\ Inserting /\ ins.ctim # Null
  /\ next[ins.ctim] # Null /\ delay[ins.ctim] < ins.delay
  /\ ins' = [ins EXCEPT !.delay = @ - delay[ins.ctim], !.ctim = next[ins.ctim]]
  /\ UNCHANGED <<cells, queue, schedule_time, lists, flags, phase, pc, cur,
                 ghosts>>

InsertWalk ==
  /\ Inserting /\ ins.ctim # Null
  /\ next[ins.ctim] # Null /\ delay[ins.ctim] < ins.delay
  /\ ins' = [ins EXCEPT !.delay = @ - delay[ins.ctim], !.prev = ins.ctim,
                        !.ctim = next[ins.ctim]]
  /\ UNCHANGED <<cells, queue, schedule_time, lists, flags, phase, pc, cur,
                 ghosts>>

\* Mutant of InsertBetween: tmp->next->delay is not reduced.
InsertBetweenOnly ==
  /\ Inserting /\ ins.ctim # Null /\ ins.prev # Null
  /\ delay[ins.ctim] > ins.delay
  /\ \E c \in Cells \ live :
       /\ live' = live \cup {c}
       /\ delay' = [delay EXCEPT ![c] = ins.delay]
       /\ next' = [next EXCEPT ![c] = next[ins.prev], ![ins.prev] = c]
       /\ at' = [at EXCEPT ![c] = ins.ev.due]
       /\ queue' = [queue EXCEPT ![c] = OnlyEvent]
  /\ UNCHANGED sched_list
  /\ Placed

InsertBetween ==
  /\ Inserting /\ ins.ctim # Null /\ ins.prev # Null
  /\ delay[ins.ctim] > ins.delay
  /\ \E c \in Cells \ live :
       /\ live' = live \cup {c}
       /\ delay' = [delay EXCEPT ![c] = ins.delay,
                                 ![next[ins.prev]] = @ - ins.delay]
       /\ next' = [next EXCEPT ![c] = next[ins.prev], ![ins.prev] = c]
       /\ at' = [at EXCEPT ![c] = ins.ev.due]
       /\ queue' = [queue EXCEPT ![c] = OnlyEvent]
  /\ UNCHANGED sched_list
  /\ Placed

InsertHere ==
  /\ Inserting /\ ins.ctim # Null
  /\ delay[ins.ctim] = ins.delay
  /\ queue' = [queue EXCEPT ![ins.ctim][Slot(ins.ev)] = Append(@, ins.ev)]
  /\ UNCHANGED cells
  /\ Placed

InsertLast ==
  /\ Inserting /\ ins.ctim # Null
  /\ next[ins.ctim] = Null /\ delay[ins.ctim] < ins.delay
  /\ \E c \in Cells \ live :
       /\ live' = live \cup {c}
       /\ delay' = [delay EXCEPT ![c] = ins.delay - delay[ins.ctim]]
       /\ next' = [next EXCEPT ![c] = Null, ![ins.ctim] = c]
       /\ at' = [at EXCEPT ![c] = ins.ev.due]
       /\ queue' = [queue EXCEPT ![c] = OnlyEvent]
  /\ UNCHANGED sched_list
  /\ Placed

\* The pre-simulation list: schedule_init_vector and the like, while the
\* design is set up, and schedule_functor until sim_started.
InitEvent ==
  /\ Client /\ count < MaxEvents /\ ~sim_started
  /\ schedule_init_list' = Append(schedule_init_list, NewEvent("init", 0))
  /\ count' = count + 1
  /\ UNCHANGED <<cells, queue, schedule_time, schedule_final_list, flags,
                 phase, pc, cur, ins, ran, term, controls, signals>>

\* schedule_final_vthread, from compile_thread.
FinalEvent ==
  /\ Client /\ count < MaxEvents /\ pc = "compile"
  /\ schedule_final_list' = Append(schedule_final_list, NewEvent("final", 0))
  /\ count' = count + 1
  /\ UNCHANGED <<cells, queue, schedule_time, schedule_init_list, flags,
                 phase, pc, cur, ins, ran, term, controls, signals>>

\* schedule_finish drops five of the seven lists of the first cell.
Cleared ==
  IF sched_list = Null THEN queue
  ELSE [queue EXCEPT ![sched_list] =
          [r \in Region |-> IF r \in {"start", "del_thr"} THEN @[r] ELSE <<>>]]

Finish ==
  /\ Client /\ controls < MaxControls
  /\ controls' = controls + 1
  /\ queue' = Cleared
  /\ runnable' = FALSE
  /\ UNCHANGED <<cells, schedule_time, lists, stopped, single_step,
                 stop_is_finish, phase, pc, cur, ins, count, ran, term,
                 signals>>

Stop ==
  /\ Client /\ controls < MaxControls
  /\ controls' = controls + 1
  /\ stopped' = TRUE
  /\ UNCHANGED <<cells, queue, schedule_time, lists, runnable, single_step,
                 stop_is_finish, phase, pc, cur, ins, count, ran, term,
                 signals>>

\* signals_handler, between signals_capture and signals_revert.  SIGINT
\* stops, SIGHUP and SIGTERM also turn every stop into a finish.
Signal(terminates) ==
  /\ signals < MaxSignals
  /\ pc \in LoopPC \cup {"final", "final_run"}
  /\ signals' = signals + 1
  /\ stop_is_finish' = (stop_is_finish \/ terminates)
  /\ term' = (term \/ terminates)
  /\ stopped' = TRUE
  /\ UNCHANGED <<cells, queue, schedule_time, lists, runnable, single_step,
                 phase, pc, cur, ins, count, ran, controls>>

-----------------------------------------------------------------------------
(* schedule_simulate.                                                      *)

Goto(from, to) ==
  /\ pc = from /\ ~ins.on
  /\ pc' = to

\* A callback list has been drained or an event's run_run returns.
Return(from, to) ==
  /\ Goto(from, to)
  /\ cur' = NoEvent
  /\ UNCHANGED <<cells, queue, schedule_time, lists, flags, phase, ins, ghosts>>

EndOfCompile == Return("compile", "init")
EndInitEvent == Return("init_run", "init")
EndNextSimTime == Return("nextsim", "start")
EndStartEvent == Return("start_run", "start")
EndActiveEvent == Return("active_run", "loop")
EndRosyncEvent == Return("rosync_run", "rosync")
EndDelThr == Return("del_run", "del_thr")
EndFinalEvent == Return("final_run", "final")
Postsim == Return("postsim", "done")

RunInitEvent ==
  /\ Goto("init", "init_run")
  /\ schedule_init_list # <<>>
  /\ cur' = Head(schedule_init_list)
  /\ schedule_init_list' = Tail(schedule_init_list)
  /\ UNCHANGED <<cells, queue, schedule_time, schedule_final_list, flags,
                 phase, ins, ghosts>>

InitDone ==
  /\ Goto("init", "startofsim")
  /\ schedule_init_list = <<>>
  /\ UNCHANGED <<cells, queue, schedule_time, lists, flags, phase, cur, ins,
                 ghosts>>

StartSimulation ==
  /\ pc = "startofsim" /\ ~ins.on
  /\ sim_started' = TRUE
  /\ run_finals' = runnable
  /\ pc' = IF runnable THEN "loop" ELSE "final"
  /\ UNCHANGED <<cells, queue, schedule_time, lists, flags, cur, ins, ghosts>>

\* The loop is over; the final blocks run unless it was never entered.
Leave ==
  /\ pc' = "final"
  /\ runnable' = run_finals

OutOfEvents ==
  /\ pc = "loop" /\ sched_list = Null
  /\ Leave
  /\ UNCHANGED <<cells, queue, schedule_time, lists, stopped, single_step,
                 stop_is_finish, phase, cur, ins, ghosts>>

\* The stop flag is tested, then reset, then the handler is called; a signal
\* may arrive between any two of these.
SeeStop ==
  /\ Goto("loop", "stop")
  /\ sched_list # Null /\ stopped
  /\ UNCHANGED <<cells, queue, schedule_time, lists, flags, phase, cur, ins,
                 ghosts>>

ResetStop ==
  /\ Goto("stop", "stop_handler")
  /\ stopped' = FALSE
  /\ UNCHANGED <<cells, queue, schedule_time, lists, runnable, single_step,
                 stop_is_finish, phase, cur, ins, ghosts>>

StopIsFinish ==
  /\ pc = "stop_handler" /\ stop_is_finish
  /\ queue' = Cleared
  /\ Leave
  /\ UNCHANGED <<cells, schedule_time, lists, stopped, single_step,
                 stop_is_finish, phase, cur, ins, ghosts>>

Interact ==
  /\ Goto("stop_handler", "interact")
  /\ ~stop_is_finish
  /\ UNCHANGED <<cells, queue, schedule_time, lists, flags, phase, cur, ins,
                 ghosts>>

\* The user leaves the debugger, having finished the simulation or not.
DebuggerFinished ==
  /\ pc = "interact" /\ ~ins.on /\ ~runnable
  /\ Leave
  /\ UNCHANGED <<cells, queue, schedule_time, lists, stopped, single_step,
                 stop_is_finish, phase, cur, ins, ghosts>>

\* Mutant of DebuggerReturn: the stop flag is reset after the handler.
DebuggerReturnResets(step) ==
  /\ Goto("interact", "loop")
  /\ runnable
  /\ single_step' = (single_step \/ step)
  /\ stopped' = FALSE
  /\ UNCHANGED <<cells, queue, schedule_time, lists, runnable,
                 stop_is_finish, phase, cur, ins, ghosts>>

DebuggerReturn(step) ==
  /\ Goto("interact", "loop")
  /\ runnable
  /\ single_step' = (single_step \/ step)
  /\ UNCHANGED <<cells, queue, schedule_time, lists, runnable, stopped,
                 stop_is_finish, phase, cur, ins, ghosts>>

\* The next cell is in the future and the simulation has been finished.
FinishedBreak ==
  /\ pc = "loop" /\ sched_list # Null /\ ~stopped
  /\ delay[sched_list] > 0 /\ ~runnable
  /\ Leave
  /\ UNCHANGED <<cells, queue, schedule_time, lists, stopped, single_step,
                 stop_is_finish, phase, cur, ins, ghosts>>

AdvanceTime ==
  /\ Goto("loop", "nextsim")
  /\ sched_list # Null /\ ~stopped
  /\ delay[sched_list] > 0 /\ runnable
  /\ schedule_time' = schedule_time + delay[sched_list]
  /\ delay' = [delay EXCEPT ![sched_list] = 0]
  /\ UNCHANGED <<sched_list, live, next, at, queue, lists, flags, phase, cur,
                 ins, ghosts>>

\* The oldest event of list r of the first cell is taken off and executed.
RunFirst(r) ==
  /\ queue[sched_list][r] # <<>>
  /\ cur' = Head(queue[sched_list][r])
  /\ ran' = ran \cup {Head(queue[sched_list][r])}

RunStartEvent ==
  /\ Goto("start", "start_run")
  /\ RunFirst("start")
  /\ queue' = [queue EXCEPT ![sched_list]["start"] = Tail(@)]
  /\ UNCHANGED <<cells, schedule_time, lists, flags, phase, ins, count, term,
                 controls, signals>>

StartDone ==
  /\ Goto("start", "pull")
  /\ queue[sched_list]["start"] = <<>>
  /\ UNCHANGED <<cells, queue, schedule_time, lists, flags, phase, cur, ins,
                 ghosts>>

\* The loop reaches the code that looks for an active event: directly when
\* the first cell is the current time, or after an advance of the time.
AtPull ==
  \/ pc = "pull"
  \/ pc = "loop" /\ sched_list # Null /\ ~stopped /\ delay[sched_list] = 0

\* The active list, or the first other list that has an event and then
\* becomes the active list, loses its oldest event to execution.
PullEvent ==
  /\ AtPull
  /\ \E r \in ReadWrite :
       /\ RunFirst(r)
       /\ \A s \in ReadWrite : Level(s) < Level(r) => queue[sched_list][s] = <<>>
       /\ queue' = [queue EXCEPT ![sched_list][r] = <<>>,
                                 ![sched_list]["active"] =
                                     Tail(queue[sched_list][r])]
  /\ pc' = "active_run"
  /\ stopped' = (stopped \/ single_step)
  /\ single_step' = FALSE
  /\ UNCHANGED <<cells, schedule_time, lists, runnable, stop_is_finish, phase,
                 ins, count, term, controls, signals>>

\* Mutant of NothingToPull: the rwsync list is forgotten.
NothingToPullYet ==
  /\ AtPull
  /\ \A r \in ReadWrite \ {"rwsync"} : queue[sched_list][r] = <<>>
  /\ pc' = "rosync"
  /\ UNCHANGED <<cells, queue, schedule_time, lists, flags, phase, cur, ins,
                 ghosts>>

NothingToPull ==
  /\ AtPull
  /\ \A r \in ReadWrite : queue[sched_list][r] = <<>>
  /\ pc' = "rosync"
  /\ UNCHANGED <<cells, queue, schedule_time, lists, flags, phase, cur, ins,
                 ghosts>>

RunRosyncEvent ==
  /\ Goto("rosync", "rosync_run")
  /\ RunFirst("rosync")
  /\ queue' = [queue EXCEPT ![sched_list]["rosync"] = Tail(@)]
  /\ UNCHANGED <<cells, schedule_time, lists, flags, phase, ins, count, term,
                 controls, signals>>

\* Mutant of RosyncDone: the callbacks are not drained.
RosyncAnyway ==
  /\ Goto("rosync", "del_thr")
  /\ UNCHANGED <<cells, queue, schedule_time, lists, flags, phase, cur, ins,
                 ghosts>>

RosyncDone ==
  /\ Goto("rosync", "del_thr")
  /\ queue[sched_list]["rosync"] = <<>>
  /\ UNCHANGED <<cells, queue, schedule_time, lists, flags, phase, cur, ins,
                 ghosts>>

RunDelThr ==
  /\ Goto("del_thr", "del_run")
  /\ RunFirst("del_thr")
  /\ queue' = [queue EXCEPT ![sched_list]["del_thr"] = Tail(@)]
  /\ UNCHANGED <<cells, schedule_time, lists, flags, phase, ins, count, term,
                 controls, signals>>

\* Mutant of EndCell: the cell stays at the head of the list.
KeepCell ==
  /\ Goto("del_thr", "loop")
  /\ queue[sched_list]["del_thr"] = <<>>
  /\ UNCHANGED <<cells, queue, schedule_time, lists, flags, phase, cur, ins,
                 ghosts>>

\* The cell is released, with whatever is still on its lists.
EndCell ==
  /\ Goto("del_thr", "loop")
  /\ queue[sched_list]["del_thr"] = <<>>
  /\ sched_list' = next[sched_list]
  /\ live' = live \ {sched_list}
  /\ next' = [next EXCEPT ![sched_list] = Null]
  /\ at' = [at EXCEPT ![sched_list] = 0]
  /\ queue' = [queue EXCEPT ![sched_list] = [r \in Region |-> <<>>]]
  /\ UNCHANGED <<delay, schedule_time, lists, flags, phase, cur, ins, ghosts>>

RunFinalEvent ==
  /\ Goto("final", "final_run")
  /\ runnable /\ schedule_final_list # <<>>
  /\ cur' = Head(schedule_final_list)
  /\ schedule_final_list' = Tail(schedule_final_list)
  /\ UNCHANGED <<cells, queue, schedule_time, schedule_init_list, flags,
                 phase, ins, ghosts>>

FinalDone ==
  /\ Goto("final", "postsim")
  /\ ~runnable \/ schedule_final_list = <<>>
  /\ UNCHANGED <<cells, queue, schedule_time, lists, flags, phase, cur, ins,
                 ghosts>>

\* schedule_simulate has returned.
Done == pc = "done" /\ UNCHANGED vars

Returns ==
  \/ EndOfCompile \/ EndInitEvent \/ EndNextSimTime \/ EndStartEvent
  \/ EndActiveEvent \/ EndRosyncEvent \/ EndDelThr \/ EndFinalEvent \/ Postsim

ClientCall ==
  \/ \E k \in Region, d \in 0..MaxDelay : ScheduleEvent(k, d)
  \/ PushEvent \/ PushFallback
  \/ InitEvent \/ FinalEvent
  \/ Finish \/ Stop

Insert ==
  \/ InsertFirst \/ InsertFront \/ InsertWalk \/ InsertBetween \/ InsertHere
  \/ InsertLast

Simulate ==
  \/ RunInitEvent \/ InitDone \/ StartSimulation
  \/ OutOfEvents \/ SeeStop \/ ResetStop \/ StopIsFinish \/ Interact
  \/ DebuggerFinished \/ (\E step \in BOOLEAN : DebuggerReturn(step))
  \/ FinishedBreak \/ AdvanceTime
  \/ RunStartEvent \/ StartDone \/ PullEvent \/ NothingToPull
  \/ RunRosyncEvent \/ RosyncDone \/ RunDelThr \/ EndCell
  \/ RunFinalEvent \/ FinalDone

MainThread == ClientCall \/ Insert \/ Returns \/ Simulate

Next == MainThread \/ (\E t \in BOOLEAN : Signal(t)) \/ Done

Spec == Init /\ [][Next]_vars

\* The one thread of vvp keeps running, and client code returns.
FairSpec == Spec /\ WF_vars(MainThread)
-----------------------------------------------------------------------------
(* What is checked and proved.                                             *)

EventsOf(s) == {s[i] : i \in DOMAIN s}

\* The events that the cells hold or are about to hold.
Pending ==
  (UNION {UNION {EventsOf(queue[c][r]) : r \in Region} : c \in live})
    \cup (IF ins.on THEN {ins.ev} ELSE {})

InsType ==
  [on : BOOLEAN, ev : Event, delay : Nat, prev : Cells \cup {Null},
   ctim : Cells \cup {Null}]

ListTypeOK ==
  /\ sched_list \in Cells \cup {Null}
  /\ live \subseteq Cells
  /\ next \in [Cells -> Cells \cup {Null}]
  /\ delay \in [Cells -> Nat]
  /\ at \in [Cells -> Nat]
  /\ schedule_time \in Nat
EventTypeOK ==
  /\ queue \in [Cells -> [Region -> Seq(Event)]]
  /\ schedule_init_list \in Seq(Event)
  /\ schedule_final_list \in Seq(Event)
  /\ cur \in Event /\ ins \in InsType /\ ran \subseteq Event
ControlTypeOK ==
  /\ runnable \in BOOLEAN /\ stopped \in BOOLEAN
  /\ single_step \in BOOLEAN /\ stop_is_finish \in BOOLEAN
  /\ sim_started \in BOOLEAN /\ run_finals \in BOOLEAN /\ term \in BOOLEAN
  /\ pc \in PC
  /\ count \in Nat /\ controls \in Nat /\ signals \in Nat

\* Every variable has its type: in particular no delay of a cell and no
\* remaining delay of schedule_event_, all unsigned in the code, ever wraps
\* below zero.
TypeOK == ListTypeOK /\ EventTypeOK /\ ControlTypeOK

\* The cells in use are linked in the strict order of their absolute times,
\* from sched_list on, and none is missed.
Linked ==
  /\ sched_list \in live \cup {Null}
  /\ sched_list = Null => live = {}
  /\ \A c \in live :
       /\ at[sched_list] <= at[c]
       /\ next[c] \in live \cup {Null}
       /\ next[c] = Null => \A d \in live : at[d] <= at[c]
       /\ next[c] # Null =>
            /\ at[c] < at[next[c]]
            /\ \A d \in live : at[d] <= at[c] \/ at[next[c]] <= at[d]
       /\ \A d \in live : at[c] = at[d] => c = d

\* The delay of the first cell counts from the simulation time, that of any
\* other cell from the cell before it.
Deltas ==
  /\ sched_list # Null => at[sched_list] = schedule_time + delay[sched_list]
  /\ \A c \in live : next[c] # Null => at[next[c]] = at[c] + delay[next[c]]

\* The delta-coded list that schedule_event_ builds and schedule_simulate
\* consumes holds the times that were asked for, whatever the order of the
\* insertions, the advances of time and the releases of cells.
DeltaList == Linked /\ Deltas

\* An event is executed at exactly the simulation time at which the call of
\* schedule_event_ that created it, with the delay it was given, put it.
RunAtDue ==
  pc \in {"start_run", "active_run", "rosync_run", "del_run"} =>
     cur.due = schedule_time

\* While schedule_simulate works on a cell, it is the first one and stands at
\* the simulation time, whatever the events that it executes insert.
WorkPC == {"nextsim", "start", "start_run", "pull", "active_run", "rosync",
           "rosync_run", "del_thr", "del_run"}
AtHead == pc \in WorkPC => sched_list # Null /\ delay[sched_list] = 0

\* Where schedule_event_ is in its walk, the remaining delay counts from the
\* cell before ctim, and the cells already passed are earlier.
Walk ==
  ins.on =>
    /\ pc \in ClientPC
    /\ ins.ev.kind \in Region \cup {"push"}
    /\ ins.ctim \in live \cup {Null}
    /\ ins.ctim = Null => /\ sched_list = Null
                          /\ ins.ev.due = schedule_time + ins.delay
    /\ ins.ctim # Null => ins.ev.due + delay[ins.ctim] = at[ins.ctim] + ins.delay
    /\ ins.prev = Null => ins.ctim = sched_list
    /\ ins.prev # Null => /\ ins.prev \in live /\ ins.ctim # Null
                          /\ next[ins.prev] = ins.ctim
                          /\ at[ins.prev] < ins.ev.due

\* The events of a cell are due at the time of the cell.
AllDue(s, t) == \A i \in DOMAIN s : s[i].due = t
EventTime == \A c \in live : \A r \in Region : AllDue(queue[c][r], at[c])

\* The inductive invariant from which RunAtDue and DeltaList follow: a walk of
\* schedule_event_ that is under way keeps its place in the list, and every
\* event is in the cell of its due time.
IInv ==
  TypeOK /\ Linked /\ Deltas /\ AtHead /\ Walk /\ EventTime /\ RunAtDue

\* The order of the regions within a time step.
Rank == [push |-> 1, active |-> 1, inactive |-> 2, nbassign |-> 3,
         rwsync |-> 4, rosync |-> 5, del_thr |-> 6]

\* f was scheduled first and its region does not come after that of e.
Precedes(f, e) ==
  /\ f.id < e.id /\ f.due = e.due /\ ~f.ro
  /\ (f.kind = "start") = (e.kind = "start")
  /\ f.kind # "start" => Rank[f.kind] <= Rank[e.kind]

\* Within a time step events execute in the order of the regions (active,
\* inactive, nbassign, rwsync, rosync, thread deletion) and, in a region, in
\* the order in which they were scheduled; a later event of an earlier region
\* may overtake, and only an event that %fork pushes goes to the front.
\* (Events that a read-only callback creates illegally are not covered.)
RunInOrder ==
  [][\A e \in Pending : cur' = e /\ cur # e /\ e.kind # "push" =>
        \A f \in Pending : ~Precedes(f, e)]_vars

\* An event scheduled with the push flag (the body of a task call) runs before
\* everything that is active, the last one pushed first.
PushFirst ==
  \A c \in live : LET a == queue[c]["active"] IN
    \A i, j \in DOMAIN a : i < j /\ a[j].kind = "push" =>
       a[i].kind = "push" /\ a[j].id < a[i].id

\* Both together: the order in which the events of a time step execute.
OrderKept == RunInOrder /\ []PushFirst

\* Once the read-only callbacks of a time step have begun, no write is left in
\* it, other than what those callbacks create against the rules.
ReadOnlyStable ==
  pc \in {"rosync", "rosync_run", "del_thr", "del_run"} =>
    \A r \in ReadWrite : \A e \in EventsOf(queue[sched_list][r]) : e.ro

\* A SIGTERM or SIGHUP is not lost, whenever it arrives: until the simulation
\* is finished, either the stop flag is up or the handler is about to test
\* stop_is_finish.
TermNotLost ==
  term /\ pc \in LoopPC => stopped \/ pc = "stop_handler" \/ ~runnable

\* The list s is in the order in which it is to be executed, and no event is
\* on it twice.
Listed(s) ==
  \A i, j \in DOMAIN s : i < j =>
    /\ s[i].id # s[j].id
    /\ s[i].kind # "push" => ~Precedes(s[j], s[i])
    /\ s[j].kind = "push" => s[i].kind = "push" /\ s[j].id < s[i].id

\* An event may be on list r: those of other regions move to the active list.
Belongs(e, r) == IF r = "active" THEN e.kind \in ReadWrite \cup {"push"}
                 ELSE e.kind = r

\* The lists q of a cell: each is in order and has the events of its region,
\* and nothing that is on another list should run before what is active.
InOrder(q) ==
  \A r \in Region :
    /\ Listed(q[r])
    /\ \A e \in EventsOf(q[r]) :
         /\ Belongs(e, r)
         /\ \A s \in Region \ {r} : \A f \in EventsOf(q[s]) :
              /\ e.id # f.id
              /\ r = "active" /\ e.kind # "push" => ~Precedes(f, e)

\* Events are numbered in the order of the calls that create them; the one
\* that is being inserted is the newest.
Numbered ==
  /\ \A c \in live, r \in Region : \A e \in EventsOf(queue[c][r]) :
       e.id \in 1 .. count /\ (ins.on => e.id < ins.ev.id)
  /\ ins.on => ins.ev.id \in 1 .. count
  /\ \A e \in ran : e.id <= count

\* An event that could not be pushed starts a cell of its own, the first one.
PushAlone ==
  ins.on /\ ins.ev.kind = "push" =>
    ins.delay = 0 /\ ins.prev = Null /\ (ins.ctim # Null => delay[ins.ctim] > 0)

\* The lists outside of the cells have only events of their own.
ApartKinds ==
  /\ \A e \in EventsOf(schedule_init_list) : e.kind = "init"
  /\ \A e \in EventsOf(schedule_final_list) : e.kind = "final"

OrderInv ==
  /\ \A c \in live : InOrder(queue[c])
  /\ Numbered /\ PushAlone /\ ApartKinds

\* What is left in a time step that ends: events that a read-only callback
\* created, and events for the start of a time step that had already begun.
Leftovers ==
  /\ ins.on => ins.ev.from = schedule_time /\ (pc = "rosync_run" => ins.ev.ro)
  /\ pc \in {"del_thr", "del_run"} => queue[sched_list]["rosync"] = <<>>
  /\ pc \notin {"nextsim", "start", "start_run"} =>
       \A c \in live : at[c] = schedule_time =>
         \A e \in EventsOf(queue[c]["start"]) : e.from = schedule_time

\* There is something to execute at every time to come, until a finish.
FutureFull ==
  runnable /\ pc \notin EndPC =>
    \A c \in live : at[c] > schedule_time => \E r \in Region : queue[c][r] # <<>>

\* A termination has been asked for only in the loop and behind it, and then
\* every stop is a finish.
TermKnown == term => stop_is_finish /\ pc \in LoopPC \cup EndPC

\* With IInv, the invariants from which the order of execution, ReadOnlyStable,
\* TermNotLost and the implementation of the agenda follow.
StepInv == ReadOnlyStable /\ Leftovers /\ FutureFull
Inductive == IInv /\ OrderInv /\ StepInv /\ TermKnown /\ TermNotLost

\* The scheduler implements the agenda: every event is executed once, at its
\* time, or expires with its time step for one of the two known reasons, or is
\* abandoned by a finish; time moves to the earliest event and, after a finish,
\* not at all.
Abstract ==
  INSTANCE Agenda WITH now <- schedule_time, pend <- Pending, ran <- ran,
                       finishing <- ~runnable \/ pc \in EndPC
Implements == Abstract!Spec

\* schedule_simulate returns: the loop never spins or waits without an event to
\* execute, for any finite number of events.
Terminates == <>(pc = "done")

\* schedule.h says that schedule_finish has all remaining events abandoned; the
\* threads that have ended are still freed.
FinishAbandons ==
  [][~runnable /\ pc \in LoopPC =>
       \A e \in ran' \ ran : e.kind = "del_thr"]_vars

\* schedule.cc says that the events of schedule_init_list happen before the
\* simulation as a whole starts.
InitBeforeStart == sim_started => schedule_init_list = <<>>
=============================================================================
