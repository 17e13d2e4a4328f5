--------------------------- MODULE ScheduleProofs ---------------------------
(***************************************************************************)
(* For any set of cells and any bounds: the delta-coded list of the        *)
(* scheduler always stands for the absolute times that were asked for, and *)
(* every event is executed at its due time (ExecutionTimes) and in its     *)
(* order (ExecutionOrder); read-only callbacks see a step that is over     *)
(* (ReadOnlySynch); a termination is not lost (TerminationSeen); and the   *)
(* scheduler implements the agenda (Refinement).                           *)
(*                                                                         *)
(* In this order: the lists of a cell; IInv, the list of cells, action by  *)
(* action; termination; StepInv, what a time step has left over; OrderInv, *)
(* the lists of the cells in order; the steps of the agenda.               *)
(***************************************************************************)
EXTENDS Schedule, TLAPS

(* The lists of a cell: what taking, appending and pushing an event keep.  *)

\* The empty list and the list of one event.
LEMMA ShortLists ==
  ASSUME NEW e \in Event
  PROVE  /\ <<>> \in Seq(Event) /\ \A t : AllDue(<<>>, t)
         /\ <<e>> \in Seq(Event) /\ AllDue(<<e>>, e.due)
BY DEF AllDue

\* The tail append that every schedule_ function ends in.
LEMMA AppendKeeps ==
  ASSUME NEW e \in Event, NEW s \in Seq(Event), AllDue(s, e.due)
  PROVE  Append(s, e) \in Seq(Event) /\ AllDue(Append(s, e), e.due)
<1>1. Append(s, e) \in Seq(Event)
  OBVIOUS
<1>2. ASSUME NEW i \in DOMAIN Append(s, e)
      PROVE  Append(s, e)[i].due = e.due
  BY <1>2 DEF AllDue
<1> QED  BY <1>1, <1>2 DEF AllDue

\* The insertion at the front of schedule_event_push_.
LEMMA PushKeeps ==
  ASSUME NEW e \in Event, NEW s \in Seq(Event), AllDue(s, e.due)
  PROVE  <<e>> \o s \in Seq(Event) /\ AllDue(<<e>> \o s, e.due)
<1>1. <<e>> \o s \in Seq(Event)
  OBVIOUS
<1>2. ASSUME NEW i \in DOMAIN (<<e>> \o s)
      PROVE  (<<e>> \o s)[i].due = e.due
  <2>1. i \in 1 .. Len(s) + 1
    BY <1>2
  <2>2. CASE i = 1
    BY <2>2
  <2>3. CASE i # 1
    <3>1. i - 1 \in DOMAIN s /\ (<<e>> \o s)[i] = s[i - 1]
      BY <2>1, <2>3
    <3> QED  BY <3>1 DEF AllDue
  <2> QED  BY <2>2, <2>3
<1> QED  BY <1>1, <1>2 DEF AllDue

\* Taking the oldest event off a list.
LEMMA TakeKeeps ==
  ASSUME NEW s \in Seq(Event), s # <<>>, NEW t, AllDue(s, t)
  PROVE  /\ Head(s) \in Event /\ Head(s).due = t
         /\ Tail(s) \in Seq(Event) /\ AllDue(Tail(s), t)
<1>1. Head(s) \in Event /\ Tail(s) \in Seq(Event)
  OBVIOUS
<1>2. Head(s).due = t
  BY DEF AllDue
<1>3. ASSUME NEW i \in DOMAIN Tail(s)
      PROVE  Tail(s)[i].due = t
  <2>1. i + 1 \in DOMAIN s /\ Tail(s)[i] = s[i + 1]
    BY <1>3
  <2> QED  BY <2>1 DEF AllDue
<1> QED  BY <1>1, <1>2, <1>3 DEF AllDue

-----------------------------------------------------------------------------
(* The inductive invariant.                                                *)

\* The values that stand for no event and no walk.
LEMMA NoneTypes == NoEvent \in Event /\ NoIns \in InsType /\ ~NoIns.on
BY DEF NoEvent, Event, Kind, Region, NoIns, InsType

LEMMA InitIInv == Init => IInv
<1> SUFFICES ASSUME Init PROVE IInv
  OBVIOUS
<1> USE NullAssumption DEF Init
<1>1. TypeOK
  <2>1. ListTypeOK
    BY DEF ListTypeOK
  <2>2. EventTypeOK
    BY NoneTypes DEF EventTypeOK
  <2>3. ControlTypeOK
    BY DEF ControlTypeOK, PC, ClientPC
  <2> QED  BY <2>1, <2>2, <2>3 DEF TypeOK
<1>2. Linked /\ Deltas
  BY DEF Linked, Deltas
<1>3. AtHead /\ Walk /\ EventTime /\ RunAtDue
  BY DEF AtHead, WorkPC, Walk, NoIns, EventTime, RunAtDue
<1> QED  BY <1>1, <1>2, <1>3 DEF IInv

\* A step that leaves the cells, their lists, the time and the walk alone keeps
\* the parts of the invariant that speak of nothing else.
LEMMA CellsKept ==
  ASSUME IInv, UNCHANGED <<cells, queue, schedule_time>>
  PROVE  Linked' /\ Deltas' /\ EventTime'
BY DEF IInv, Linked, Deltas, EventTime, cells

\* A step that only moves the control of schedule_simulate.
LEMMA ControlStep ==
  ASSUME IInv, UNCHANGED <<cells, queue, schedule_time, ins>>,
         EventTypeOK', ControlTypeOK',
         pc' \in WorkPC => sched_list # Null /\ delay[sched_list] = 0,
         ins.on => pc' \in ClientPC, RunAtDue'
  PROVE  IInv'
<1>1. Linked' /\ Deltas' /\ EventTime'
  BY CellsKept
<1>2. TypeOK' /\ AtHead'
  BY DEF IInv, TypeOK, ListTypeOK, AtHead, cells
<1>3. Walk'
  BY DEF IInv, Walk, cells
<1> QED  BY <1>1, <1>2, <1>3 DEF IInv

\* A walk is under way only while client code runs.
LEMMA NotWalking ==
  ASSUME IInv, pc \notin ClientPC
  PROVE  ~ins.on
BY DEF IInv, Walk

LEMMA ReturnsKeep ==
  ASSUME IInv, Returns
  PROVE  IInv'
<1> USE DEF Returns, EndOfCompile, EndInitEvent, EndNextSimTime, EndStartEvent,
            EndActiveEvent, EndRosyncEvent, EndDelThr, EndFinalEvent, Postsim,
            Return, Goto
<1>1. UNCHANGED <<cells, queue, schedule_time, lists, flags, phase, ins, ghosts>>
      /\ ~ins.on /\ cur' = NoEvent
  OBVIOUS
<1>2. pc' \in PC /\ pc' \notin {"start_run", "active_run", "rosync_run",
                                "del_run"}
      /\ (pc' \in WorkPC => pc \in WorkPC)
  BY DEF PC, ClientPC, LoopPC, EndPC, WorkPC
<1>3. EventTypeOK' /\ ControlTypeOK' /\ RunAtDue'
  BY <1>1, <1>2, NoneTypes DEF IInv, TypeOK, EventTypeOK, ControlTypeOK,
                  RunAtDue, lists, flags, phase, ghosts
<1> QED  BY <1>1, <1>2, <1>3, ControlStep DEF IInv, AtHead

\* The client calls that stay away from the cells, and signals.
LEMMA OutsideKeeps ==
  ASSUME IInv,
         InitEvent \/ FinalEvent \/ Stop \/ (\E t \in BOOLEAN : Signal(t))
  PROVE  IInv'
<1> USE DEF InitEvent, FinalEvent, Stop, Signal
<1>1. UNCHANGED <<cells, queue, schedule_time, ins, pc, cur, ran, sim_started,
                  run_finals, runnable, single_step>>
  BY DEF flags, phase
<1>2. \A k \in {"init", "final"} : NewEvent(k, 0) \in Event
  BY DEF IInv, TypeOK, ListTypeOK, ControlTypeOK, NewEvent, Event, Kind
<1>3. EventTypeOK'
  <2>1. schedule_init_list \in Seq(Event) /\ schedule_final_list \in Seq(Event)
    BY DEF IInv, TypeOK, EventTypeOK
  <2>2. Append(schedule_init_list, NewEvent("init", 0)) \in Seq(Event)
    BY <1>2, <2>1
  <2>3. Append(schedule_final_list, NewEvent("final", 0)) \in Seq(Event)
    BY <1>2, <2>1
  <2>4. schedule_init_list' \in Seq(Event) /\ schedule_final_list' \in Seq(Event)
    BY <2>1, <2>2, <2>3, Zenon DEF lists
  <2> QED  BY <1>1, <2>4 DEF IInv, TypeOK, EventTypeOK
<1>4. ControlTypeOK'
  <2>1. count' \in Nat /\ controls' \in Nat /\ signals' \in Nat
    BY DEF IInv, TypeOK, ControlTypeOK
  <2>2. stopped' \in BOOLEAN /\ stop_is_finish' \in BOOLEAN /\ term' \in BOOLEAN
    BY DEF IInv, TypeOK, ControlTypeOK, flags
  <2> QED  BY <1>1, <2>1, <2>2 DEF IInv, TypeOK, ControlTypeOK
<1>5. RunAtDue'
  BY <1>1 DEF IInv, RunAtDue
<1> QED
  BY <1>1, <1>3, <1>4, <1>5, ControlStep DEF IInv, AtHead, Walk

\* The steps of schedule_simulate that decide where to go next, and those that
\* take an event from a list outside of the cells.
LEMMA DecisionsKeep ==
  ASSUME IInv,
         \/ RunInitEvent \/ InitDone \/ StartSimulation
         \/ OutOfEvents \/ SeeStop \/ ResetStop \/ Interact
         \/ DebuggerFinished \/ (\E step \in BOOLEAN : DebuggerReturn(step))
         \/ FinishedBreak \/ StartDone \/ NothingToPull \/ RosyncDone
         \/ RunFinalEvent \/ FinalDone
  PROVE  IInv'
<1> USE DEF RunInitEvent, InitDone, StartSimulation, OutOfEvents, SeeStop,
            ResetStop, Interact, DebuggerFinished, DebuggerReturn,
            FinishedBreak, StartDone, NothingToPull, RosyncDone, RunFinalEvent,
            FinalDone, Leave, Goto, AtPull
<1>1. UNCHANGED <<cells, queue, schedule_time, ins, ran, count, term, controls,
                  signals, stop_is_finish>>
  BY DEF ghosts, flags
<1>2. /\ ~ins.on
      /\ pc' \in {"init_run", "startofsim", "loop", "final", "stop",
                  "stop_handler", "interact", "pull", "rosync", "del_thr",
                  "final_run", "postsim"}
  BY NotWalking DEF ClientPC
<1>3. pc' \in WorkPC => sched_list # Null /\ delay[sched_list] = 0
  BY DEF IInv, AtHead, WorkPC
<1>4. EventTypeOK'
  <2>1. schedule_init_list \in Seq(Event) /\ schedule_final_list \in Seq(Event)
        /\ cur \in Event
    BY DEF IInv, TypeOK, EventTypeOK
  <2>2. \A s \in Seq(Event) : s # <<>> => Head(s) \in Event /\ Tail(s) \in Seq(Event)
    OBVIOUS
  <2>3. /\ schedule_init_list' \in Seq(Event)
        /\ schedule_final_list' \in Seq(Event) /\ cur' \in Event
    BY <2>1, <2>2, Zenon DEF lists
  <2> QED  BY <1>1, <2>3 DEF IInv, TypeOK, EventTypeOK
<1>5. ControlTypeOK'
  <2>1. pc' \in PC
    BY <1>2 DEF PC, ClientPC, LoopPC, EndPC
  <2> QED  BY <1>1, <2>1 DEF IInv, TypeOK, ControlTypeOK, flags, phase
<1>6. RunAtDue'
  BY <1>2 DEF RunAtDue
<1> QED  BY <1>1, <1>2, <1>3, <1>4, <1>5, <1>6, ControlStep

-----------------------------------------------------------------------------
(* Calls that create and abandon events.                                   *)

LEMMA NewEventType ==
  ASSUME IInv, NEW k \in Kind, NEW d \in Nat
  PROVE  NewEvent(k, d) \in Event /\ NewEvent(k, d).due = schedule_time + d
BY DEF IInv, TypeOK, ListTypeOK, ControlTypeOK, NewEvent, Event

\* A call of schedule_event_ begins its walk at the first cell.
LEMMA ScheduleKeeps ==
  ASSUME IInv, NEW k \in Region \cup {"push"}, NEW d \in Nat,
         ScheduleEvent(k, d)
  PROVE  IInv'
<1> USE DEF ScheduleEvent, Client
<1>1. UNCHANGED <<cells, queue, schedule_time, lists, flags, phase, pc, cur,
                  ran, term, controls, signals>>
  OBVIOUS
<1>2. /\ NewEvent(k, d) \in Event
      /\ NewEvent(k, d).due = schedule_time + d
      /\ NewEvent(k, d).kind = k
  BY NewEventType DEF Kind, NewEvent
<1>3. Linked' /\ Deltas' /\ EventTime'
  BY CellsKept
<1>4. sched_list \in live \cup {Null} /\ ListTypeOK
      /\ (sched_list # Null => at[sched_list] = schedule_time + delay[sched_list])
  BY DEF IInv, TypeOK, Linked, Deltas
<1>5. ins' \in InsType
  BY <1>2, <1>4 DEF InsType, ListTypeOK
<1>6. TypeOK'
  BY <1>1, <1>5 DEF IInv, TypeOK, ListTypeOK, EventTypeOK, ControlTypeOK, cells,
                  lists, flags, phase
<1>7. Walk'
  BY <1>1, <1>2, <1>4 DEF Walk, cells, ListTypeOK
<1>8. AtHead' /\ RunAtDue'
  BY <1>1 DEF IInv, AtHead, RunAtDue, cells
<1> QED  BY <1>3, <1>6, <1>7, <1>8 DEF IInv

\* A step that changes only the lists of the first cell, into lists of events
\* that are due when that cell is.
LEMMA QueueStep ==
  ASSUME IInv, UNCHANGED <<cells, schedule_time, ins>>,
         queue' \in [Cells -> [Region -> Seq(Event)]],
         \A c \in live \ {sched_list} : queue'[c] = queue[c],
         sched_list # Null =>
           \A r \in Region : AllDue(queue'[sched_list][r], at[sched_list]),
         lists' = lists, cur' \in Event, ran' \subseteq Event, ControlTypeOK',
         pc' \in WorkPC => sched_list # Null /\ delay[sched_list] = 0,
         ins.on => pc' \in ClientPC, RunAtDue'
  PROVE  IInv'
<1>1. Linked' /\ Deltas'
  BY DEF IInv, Linked, Deltas, cells
<1>2. TypeOK' /\ AtHead'
  BY DEF IInv, TypeOK, ListTypeOK, EventTypeOK, AtHead, cells, lists
<1>3. Walk'
  BY DEF IInv, Walk, cells
<1>4. EventTime'
  BY DEF IInv, EventTime, Linked, cells
<1> QED  BY <1>1, <1>2, <1>3, <1>4 DEF IInv

LEMMA PushEventKeeps ==
  ASSUME IInv, PushEvent
  PROVE  IInv'
<1> USE DEF PushEvent, Client
<1> DEFINE e == NewEvent("push", 0)
           s == queue[sched_list]["active"]
<1>1. e \in Event /\ e.due = schedule_time + 0
  <2>1. "push" \in Kind /\ 0 \in Nat
    BY DEF Kind
  <2> QED  BY <2>1, NewEventType
<1>2. /\ sched_list \in Cells /\ sched_list \in live
      /\ at[sched_list] = schedule_time + 0
  BY DEF IInv, TypeOK, ListTypeOK, Linked, Deltas
<1>3. /\ queue \in [Cells -> [Region -> Seq(Event)]]
      /\ \A r \in Region : AllDue(queue[sched_list][r], at[sched_list])
  BY <1>2 DEF IInv, TypeOK, EventTypeOK, EventTime
<1>4. <<e>> \o s \in Seq(Event) /\ AllDue(<<e>> \o s, at[sched_list])
  <2>1. "active" \in Region
    BY DEF Region
  <2>2. s \in Seq(Event) /\ AllDue(s, e.due) /\ at[sched_list] = e.due
    BY <1>1, <1>2, <1>3, <2>1
  <2> QED  BY <1>1, <2>2, PushKeeps
<1> HIDE DEF e, s
<1>5. queue' = [queue EXCEPT ![sched_list]["active"] = <<e>> \o s]
  BY DEF e, s
<1>6. queue' \in [Cells -> [Region -> Seq(Event)]]
  BY <1>2, <1>3, <1>4, <1>5 DEF Region
<1>7. /\ \A c \in live \ {sched_list} : queue'[c] = queue[c]
      /\ \A r \in Region : AllDue(queue'[sched_list][r], at[sched_list])
  <2>1. live \subseteq Cells /\ "active" \in Region
    BY DEF IInv, TypeOK, ListTypeOK, Region
  <2>2. \A c \in live \ {sched_list} : queue'[c] = queue[c]
    BY <1>2, <1>3, <1>5, <2>1
  <2>3. queue'[sched_list]["active"] = <<e>> \o s
    BY <1>2, <1>3, <1>5, <2>1
  <2>4. \A r \in Region \ {"active"} : queue'[sched_list][r] = queue[sched_list][r]
    BY <1>2, <1>3, <1>5, <2>1
  <2> QED  BY <1>3, <1>4, <2>2, <2>3, <2>4
<1>8. ControlTypeOK'
  BY DEF IInv, TypeOK, ControlTypeOK, flags, phase
<1>9. cur' \in Event /\ ran' \subseteq Event /\ RunAtDue'
  BY DEF IInv, TypeOK, EventTypeOK, RunAtDue
<1> QED
  BY <1>6, <1>7, <1>8, <1>9, QueueStep DEF IInv, AtHead, Walk

\* What schedule_finish leaves of the first cell.
LEMMA ClearedKeeps ==
  ASSUME IInv
  PROVE  /\ Cleared \in [Cells -> [Region -> Seq(Event)]]
         /\ \A c \in live \ {sched_list} : Cleared[c] = queue[c]
         /\ sched_list # Null =>
              \A r \in Region : AllDue(Cleared[sched_list][r], at[sched_list])
<1>1. /\ queue \in [Cells -> [Region -> Seq(Event)]]
      /\ live \subseteq Cells /\ sched_list \in live \cup {Null}
      /\ \A c \in live : \A r \in Region : AllDue(queue[c][r], at[c])
  BY DEF IInv, TypeOK, ListTypeOK, EventTypeOK, EventTime, Linked
<1>2. <<>> \in Seq(Event) /\ \A t : AllDue(<<>>, t)
  BY NoneTypes, ShortLists
<1>3. CASE sched_list = Null
  BY <1>1, <1>3 DEF Cleared
<1>4. CASE sched_list # Null
  <2> DEFINE q == [r \in Region |-> IF r \in {"start", "del_thr"}
                                      THEN queue[sched_list][r] ELSE <<>>]
  <2>1. q \in [Region -> Seq(Event)]
        /\ \A r \in Region : AllDue(q[r], at[sched_list])
    BY <1>1, <1>2, <1>4
  <2>2. Cleared = [queue EXCEPT ![sched_list] = q]
    BY <1>4 DEF Cleared
  <2> QED  BY <1>1, <1>4, <2>1, <2>2
<1> QED  BY <1>3, <1>4

LEMMA FinishKeeps ==
  ASSUME IInv, Finish \/ StopIsFinish
  PROVE  IInv'
<1> USE DEF Finish, StopIsFinish, Client, Leave
<1>1. /\ UNCHANGED <<cells, schedule_time, lists, cur, ins, ran, phase, stopped,
                     single_step, stop_is_finish, count, term, signals>>
      /\ queue' = Cleared
      /\ pc' = pc \/ (pc' = "final" /\ pc = "stop_handler")
  BY DEF ghosts
<1>2. ControlTypeOK'
  <2>1. pc' \in PC
    BY <1>1 DEF IInv, TypeOK, ControlTypeOK, PC, EndPC
  <2>2. runnable' \in BOOLEAN
    BY Zenon DEF IInv, TypeOK, ControlTypeOK
  <2>3. controls' \in Nat
    BY DEF IInv, TypeOK, ControlTypeOK, ghosts
  <2> QED  BY <1>1, <2>1, <2>2, <2>3 DEF IInv, TypeOK, ControlTypeOK, phase
<1>3. cur' \in Event /\ ran' \subseteq Event /\ RunAtDue'
  BY <1>1 DEF IInv, TypeOK, EventTypeOK, RunAtDue
<1>4. /\ pc' \in WorkPC => sched_list # Null /\ delay[sched_list] = 0
      /\ ins.on => pc' \in ClientPC
  BY <1>1 DEF IInv, AtHead, Walk, WorkPC, ClientPC
<1> QED  BY <1>1, <1>2, <1>3, <1>4, ClearedKeeps, QueueStep

-----------------------------------------------------------------------------
(* The insertions of schedule_event_.                                      *)

LEMMA OnlyEventKeeps ==
  ASSUME IInv, ins.on
  PROVE  /\ OnlyEvent \in [Region -> Seq(Event)]
         /\ \A r \in Region : AllDue(OnlyEvent[r], ins.ev.due)
<1>1. ins.ev \in Event
  BY DEF IInv, TypeOK, EventTypeOK, InsType
<1> QED  BY <1>1, ShortLists DEF OnlyEvent

\* What the end of schedule_event_ leaves alone.
LEMMA PlacedKeeps ==
  ASSUME IInv, ins.on, Placed
  PROVE  ControlTypeOK' /\ Walk' /\ RunAtDue' /\ ins' \in InsType
         /\ UNCHANGED <<lists, cur, ran, pc, schedule_time>>
<1>1. UNCHANGED <<schedule_time, lists, flags, phase, pc, cur, ghosts>>
      /\ ins' = NoIns
  BY DEF Placed
<1>2. ControlTypeOK'
  BY <1>1 DEF IInv, TypeOK, ControlTypeOK, flags, phase, ghosts
<1>3. Walk' /\ RunAtDue' /\ ins' \in InsType
  BY <1>1, NoneTypes DEF IInv, Walk, RunAtDue
<1> QED  BY <1>1, <1>2, <1>3 DEF ghosts

\* What does not depend on where a new cell is linked in.
LEMMA NewCellKeeps ==
  ASSUME IInv, ins.on, Placed, NEW c \in Cells \ live,
         live' = live \cup {c},
         at' = [at EXCEPT ![c] = ins.ev.due],
         queue' = [queue EXCEPT ![c] = OnlyEvent],
         ListTypeOK', Linked', Deltas', AtHead'
  PROVE  IInv'
<1>1. /\ queue \in [Cells -> [Region -> Seq(Event)]]
      /\ at \in [Cells -> Nat] /\ live \subseteq Cells /\ EventTime
  BY DEF IInv, TypeOK, ListTypeOK, EventTypeOK
<1>2. queue' \in [Cells -> [Region -> Seq(Event)]]
  BY <1>1, OnlyEventKeeps
<1>3. EventTypeOK'
  BY <1>2, PlacedKeeps DEF IInv, TypeOK, EventTypeOK, lists
<1>4. EventTime'
  <2> SUFFICES ASSUME NEW d \in live', NEW r \in Region
               PROVE  AllDue(queue'[d][r], at'[d])
    BY DEF EventTime
  <2>1. CASE d = c
    BY <1>1, <2>1, OnlyEventKeeps
  <2>2. CASE d # c
    BY <1>1, <2>2 DEF EventTime
  <2> QED  BY <2>1, <2>2
<1> QED  BY <1>3, <1>4, PlacedKeeps DEF IInv, TypeOK

\* The facts about the list that the insertions start from.
LEMMA ListFacts ==
  ASSUME IInv, ins.on
  PROVE  /\ ListTypeOK /\ Linked /\ Deltas /\ AtHead /\ Walk
         /\ ins.delay \in Nat /\ ins.ev.due \in Nat
         /\ ins.ctim \in Cells \cup {Null} /\ ins.prev \in Cells \cup {Null}
BY DEF IInv, TypeOK, EventTypeOK, InsType, Event

LEMMA InsertFirstKeeps ==
  ASSUME IInv, InsertFirst
  PROVE  IInv'
<1> USE DEF InsertFirst, Inserting
<1>1. PICK c \in Cells \ live :
       /\ sched_list' = c
       /\ live' = live \cup {c}
       /\ delay' = [delay EXCEPT ![c] = ins.delay]
       /\ next' = [next EXCEPT ![c] = Null]
       /\ at' = [at EXCEPT ![c] = ins.ev.due]
       /\ queue' = [queue EXCEPT ![c] = OnlyEvent]
  OBVIOUS
<1>2. /\ sched_list = Null /\ live = {}
      /\ ins.ev.due = schedule_time + ins.delay
  BY ListFacts DEF Linked, Walk
<1>3. schedule_time' = schedule_time /\ pc' = pc
  BY DEF Placed
<1>4. ListTypeOK'
  BY <1>1, <1>3, ListFacts DEF ListTypeOK
<1>5. Linked' /\ Deltas'
  BY <1>1, <1>2, <1>3, NullAssumption, ListFacts DEF Linked, Deltas, ListTypeOK
<1>6. AtHead'
  BY <1>2, <1>3, ListFacts DEF AtHead
<1> QED  BY <1>1, <1>4, <1>5, <1>6, NewCellKeeps

LEMMA InsertFrontKeeps ==
  ASSUME IInv, InsertFront
  PROVE  IInv'
<1> USE DEF InsertFront, Inserting
<1>1. PICK c \in Cells \ live :
       /\ sched_list' = c
       /\ live' = live \cup {c}
       /\ delay' = [delay EXCEPT ![c] = ins.delay,
                                 ![ins.ctim] = @ - ins.delay]
       /\ next' = [next EXCEPT ![c] = ins.ctim]
       /\ at' = [at EXCEPT ![c] = ins.ev.due]
       /\ queue' = [queue EXCEPT ![c] = OnlyEvent]
  OBVIOUS
<1>2. /\ ins.ctim = sched_list /\ sched_list \in live /\ sched_list # Null
      /\ ins.ev.due + delay[sched_list] = at[sched_list] + ins.delay
      /\ at[sched_list] = schedule_time + delay[sched_list]
      /\ delay[sched_list] > ins.delay
  BY ListFacts DEF Linked, Walk, Deltas
<1>3. schedule_time' = schedule_time /\ pc' = pc
  BY DEF Placed
<1>4. ins.ev.due < at[sched_list]
  BY <1>2, ListFacts DEF ListTypeOK
<1>5. ListTypeOK'
  BY <1>1, <1>2, <1>3, ListFacts DEF ListTypeOK
<1>6. Linked'
  BY <1>1, <1>2, <1>4, NullAssumption, ListFacts DEF Linked, ListTypeOK
<1>7. Deltas'
  <2>1. at'[sched_list'] = schedule_time' + delay'[sched_list']
    BY <1>1, <1>2, <1>3, ListFacts DEF ListTypeOK
  <2>2. ASSUME NEW d \in live', next'[d] # Null
        PROVE  at'[next'[d]] = at'[d] + delay'[next'[d]]
    <3>1. CASE d = c
      BY <1>1, <1>2, <3>1, ListFacts DEF ListTypeOK
    <3>2. CASE d # c
      <4>1. next'[d] = next[d] /\ next[d] \in live /\ d \in live
            /\ next[d] # sched_list /\ next[d] # c
        BY <1>1, <1>2, <2>2, <3>2, ListFacts DEF ListTypeOK, Linked
      <4> QED  BY <1>1, <1>2, <3>2, <4>1, <2>2, ListFacts DEF ListTypeOK, Deltas
    <3> QED  BY <3>1, <3>2
  <2> QED  BY <2>1, <2>2 DEF Deltas
<1>8. AtHead'
  BY <1>2, <1>3, ListFacts DEF AtHead, ListTypeOK
<1> QED  BY <1>1, <1>5, <1>6, <1>7, <1>8, NewCellKeeps

\* One iteration of the while loop of schedule_event_.
LEMMA InsertWalkKeeps ==
  ASSUME IInv, InsertWalk
  PROVE  IInv'
<1> USE DEF InsertWalk, Inserting
<1>1. UNCHANGED <<cells, queue, schedule_time, lists, flags, phase, pc, cur,
                  ghosts>>
  OBVIOUS
<1> DEFINE t == ins.ctim
<1>2. /\ t \in live /\ next[t] \in live /\ next[t] # Null
      /\ ins.ev.due + delay[t] = at[t] + ins.delay
      /\ at[next[t]] = at[t] + delay[next[t]]
      /\ delay[t] < ins.delay
  BY ListFacts DEF Linked, Walk, Deltas
<1>3. /\ ins'.on = ins.on /\ ins'.ev = ins.ev
      /\ ins'.delay = ins.delay - delay[t]
      /\ ins'.prev = t /\ ins'.ctim = next[t] /\ ins' \in InsType
  <2>1. ins \in InsType /\ ins.delay - delay[t] \in Nat /\ next[t] \in Cells
        /\ t \in Cells
    BY <1>2, ListFacts DEF IInv, TypeOK, EventTypeOK, ListTypeOK
  <2> QED  BY <2>1 DEF InsType
<1>4. Linked' /\ Deltas' /\ EventTime'
  BY <1>1, CellsKept
<1>5. TypeOK' /\ AtHead' /\ RunAtDue'
  BY <1>1, <1>3 DEF IInv, TypeOK, ListTypeOK, EventTypeOK, ControlTypeOK,
       AtHead, RunAtDue, cells, lists, flags, phase, ghosts
<1>6. Walk'
  <2>1. at[t] < ins.ev.due
    BY <1>2, ListFacts DEF ListTypeOK
  <2>2. ins.ev.due + delay[next[t]] = at[next[t]] + (ins.delay - delay[t])
    BY <1>2, ListFacts DEF ListTypeOK
  <2>3. t \in Cells /\ t # Null
    BY <1>2, ListFacts, NullAssumption DEF ListTypeOK
  <2> QED  BY <1>1, <1>2, <1>3, <2>1, <2>2, <2>3, ListFacts DEF Walk, cells
<1> QED  BY <1>4, <1>5, <1>6 DEF IInv

LEMMA InsertBetweenKeeps ==
  ASSUME IInv, InsertBetween
  PROVE  IInv'
<1> USE DEF InsertBetween, Inserting
<1> DEFINE q == ins.prev
           t == ins.ctim
<1>1. /\ q \in live /\ t \in live /\ next[q] = t /\ t # q
      /\ ins.ev.due + delay[t] = at[t] + ins.delay
      /\ at[t] = at[q] + delay[t]
      /\ at[q] < ins.ev.due /\ ins.ev.due < at[t]
      /\ sched_list \in live /\ sched_list # Null
      /\ at[sched_list] <= at[q]
  <2>1. /\ q \in live /\ t \in live /\ next[q] = t
        /\ ins.ev.due + delay[t] = at[t] + ins.delay
        /\ at[q] < ins.ev.due /\ t # Null
    BY ListFacts DEF Walk
  <2>2. at[t] = at[q] + delay[t] /\ sched_list \in live /\ sched_list # Null
        /\ at[sched_list] <= at[q] /\ at[q] < at[t]
    BY <2>1, ListFacts DEF Linked, Deltas
  <2> QED  BY <2>1, <2>2, ListFacts DEF ListTypeOK
<1>2. PICK c \in Cells \ live :
       /\ live' = live \cup {c}
       /\ delay' = [delay EXCEPT ![c] = ins.delay, ![t] = @ - ins.delay]
       /\ next' = [next EXCEPT ![c] = t, ![q] = c]
       /\ at' = [at EXCEPT ![c] = ins.ev.due]
       /\ queue' = [queue EXCEPT ![c] = OnlyEvent]
  BY <1>1
<1>3. schedule_time' = schedule_time /\ pc' = pc /\ sched_list' = sched_list
  BY DEF Placed
<1>0. /\ ListTypeOK /\ Linked /\ Deltas /\ AtHead
      /\ ins.delay \in Nat /\ ins.ev.due \in Nat
  BY ListFacts
<1>00. ins.on /\ Placed
  OBVIOUS
<1> HIDE DEF InsertBetween, Inserting
<1>4. ListTypeOK'
  BY <1>1, <1>2, <1>3, <1>0 DEF ListTypeOK
<1>5. /\ \A d \in live : at'[d] = at[d] /\ (d # q => next'[d] = next[d])
      /\ at'[c] = ins.ev.due /\ next'[c] = t /\ next'[q] = c /\ c # Null
      /\ \A d \in live : d # t => delay'[d] = delay[d]
      /\ delay'[c] = ins.delay /\ delay'[t] = delay[t] - ins.delay
  BY <1>1, <1>2, <1>0, NullAssumption DEF ListTypeOK
<1>6. \A d \in live : at[d] \in Nat /\ delay[d] \in Nat
  BY <1>0 DEF ListTypeOK
<1>7. Linked'
  <2>1. \A d \in live : at[d] <= at[q] \/ at[t] <= at[d]
    BY <1>1, <1>0 DEF Linked
  <2>2. sched_list' \in live' \cup {Null} /\ (sched_list' = Null => live' = {})
    BY <1>1, <1>2, <1>3
  <2>3. ASSUME NEW d \in live'
        PROVE  /\ at'[sched_list'] <= at'[d]
               /\ next'[d] \in live' \cup {Null}
               /\ next'[d] = Null => \A e \in live' : at'[e] <= at'[d]
               /\ next'[d] # Null =>
                    /\ at'[d] < at'[next'[d]]
                    /\ \A e \in live' : at'[e] <= at'[d] \/ at'[next'[d]] <= at'[e]
               /\ \A e \in live' : at'[d] = at'[e] => d = e
    <3>1. CASE d = c
      BY <1>1, <1>2, <1>3, <1>5, <1>6, <2>1, <3>1, <1>0, NullAssumption
         DEF Linked, ListTypeOK
    <3>2. CASE d = q
      BY <1>1, <1>2, <1>3, <1>5, <1>6, <2>1, <3>2, <1>0, NullAssumption
         DEF Linked, ListTypeOK
    <3>3. CASE d # c /\ d # q
      BY <1>1, <1>2, <1>3, <1>5, <1>6, <2>1, <3>3, <1>0, NullAssumption
         DEF Linked, ListTypeOK
    <3> QED  BY <3>1, <3>2, <3>3
  <2> QED  BY <2>2, <2>3 DEF Linked
<1>8. Deltas'
  <2>1. sched_list # t
    BY <1>0, <1>1, <1>6
  <2>2. at'[sched_list'] = schedule_time' + delay'[sched_list']
    BY <1>1, <1>3, <1>5, <2>1, <1>0 DEF Deltas
  <2>3. ASSUME NEW d \in live', next'[d] # Null
        PROVE  at'[next'[d]] = at'[d] + delay'[next'[d]]
    <3>1. CASE d = c
      BY <1>1, <1>5, <1>6, <3>1, <1>0
    <3>2. CASE d = q
      BY <1>1, <1>5, <1>6, <3>2, <1>0
    <3>3. CASE d # c /\ d # q
      <4>1. d \in live /\ next'[d] = next[d] /\ next[d] \in live
        BY <1>2, <1>5, <2>3, <3>3, <1>0 DEF Linked
      <4>2. next[d] # t
        BY <1>1, <1>6, <4>1, <3>3, <2>3, <1>0 DEF Linked
      <4> QED  BY <1>5, <2>3, <4>1, <4>2, <1>0 DEF Deltas
    <3> QED  BY <3>1, <3>2, <3>3
  <2> QED  BY <2>2, <2>3 DEF Deltas
<1>9. AtHead'
  <2>1. sched_list # t
    BY <1>0, <1>1, <1>6
  <2> QED  BY <1>1, <1>3, <1>5, <2>1, <1>0 DEF AtHead
<1> QED  BY <1>2, <1>4, <1>7, <1>8, <1>9, <1>00, NewCellKeeps

LEMMA InsertLastKeeps ==
  ASSUME IInv, InsertLast
  PROVE  IInv'
<1> USE DEF InsertLast, Inserting
<1> DEFINE t == ins.ctim
<1>1. /\ t \in live /\ next[t] = Null /\ delay[t] < ins.delay
      /\ ins.ev.due + delay[t] = at[t] + ins.delay
      /\ sched_list \in live /\ sched_list # Null
  BY ListFacts DEF Walk, Linked
<1>2. PICK c \in Cells \ live :
       /\ live' = live \cup {c}
       /\ delay' = [delay EXCEPT ![c] = ins.delay - delay[t]]
       /\ next' = [next EXCEPT ![c] = Null, ![t] = c]
       /\ at' = [at EXCEPT ![c] = ins.ev.due]
       /\ queue' = [queue EXCEPT ![c] = OnlyEvent]
  OBVIOUS
<1>3. schedule_time' = schedule_time /\ pc' = pc /\ sched_list' = sched_list
  BY DEF Placed
<1>0. /\ ListTypeOK /\ Linked /\ Deltas /\ AtHead
      /\ ins.delay \in Nat /\ ins.ev.due \in Nat
  BY ListFacts
<1>00. ins.on /\ Placed
  OBVIOUS
<1> HIDE DEF InsertLast, Inserting
<1>4. ListTypeOK'
  BY <1>1, <1>2, <1>3, <1>0 DEF ListTypeOK
<1>5. /\ \A d \in live : at'[d] = at[d] /\ (d # t => next'[d] = next[d])
                         /\ delay'[d] = delay[d]
      /\ at'[c] = ins.ev.due /\ next'[c] = Null /\ next'[t] = c /\ c # Null
      /\ delay'[c] = ins.delay - delay[t]
  BY <1>1, <1>2, <1>0, NullAssumption DEF ListTypeOK
<1>6. \A d \in live : at[d] \in Nat /\ delay[d] \in Nat /\ at[d] <= at[t]
  BY <1>1, <1>0 DEF ListTypeOK, Linked
<1>7. at[t] < ins.ev.due /\ ins.ev.due = at[t] + (ins.delay - delay[t])
  BY <1>1, <1>6, <1>0
<1>8. Linked'
  <2>1. ASSUME NEW d \in live'
        PROVE  /\ at'[sched_list'] <= at'[d]
               /\ next'[d] \in live' \cup {Null}
               /\ next'[d] = Null => \A e \in live' : at'[e] <= at'[d]
               /\ next'[d] # Null =>
                    /\ at'[d] < at'[next'[d]]
                    /\ \A e \in live' : at'[e] <= at'[d] \/ at'[next'[d]] <= at'[e]
               /\ \A e \in live' : at'[d] = at'[e] => d = e
    <3>1. CASE d = c
      BY <1>1, <1>2, <1>3, <1>5, <1>6, <1>7, <3>1, <1>0, NullAssumption
         DEF Linked, ListTypeOK
    <3>2. CASE d = t
      BY <1>1, <1>2, <1>3, <1>5, <1>6, <1>7, <3>2, <1>0, NullAssumption
         DEF Linked, ListTypeOK
    <3>3. CASE d # c /\ d # t
      BY <1>1, <1>2, <1>3, <1>5, <1>6, <1>7, <3>3, <1>0, NullAssumption
         DEF Linked, ListTypeOK
    <3> QED  BY <3>1, <3>2, <3>3
  <2> QED  BY <1>1, <1>2, <1>3, <2>1 DEF Linked
<1>9. Deltas'
  <2>1. at'[sched_list'] = schedule_time' + delay'[sched_list']
    BY <1>1, <1>3, <1>5, <1>0 DEF Deltas
  <2>2. ASSUME NEW d \in live', next'[d] # Null
        PROVE  at'[next'[d]] = at'[d] + delay'[next'[d]]
    <3>1. CASE d = t
      BY <1>1, <1>5, <1>7, <3>1
    <3>2. CASE d # t
      <4>1. d \in live /\ next'[d] = next[d] /\ next[d] \in live
        BY <1>2, <1>5, <2>2, <3>2, <1>0 DEF Linked
      <4> QED  BY <1>5, <2>2, <4>1, <1>0 DEF Deltas
    <3> QED  BY <3>1, <3>2
  <2> QED  BY <2>1, <2>2 DEF Deltas
<1>10. AtHead'
  BY <1>1, <1>3, <1>5, <1>0 DEF AtHead
<1> QED  BY <1>2, <1>4, <1>8, <1>9, <1>10, <1>00, NewCellKeeps

LEMMA InsertHereKeeps ==
  ASSUME IInv, InsertHere
  PROVE  IInv'
<1> DEFINE t == ins.ctim
           r0 == Slot(ins.ev)
           s == Append(queue[t][r0], ins.ev)
<1>1. /\ ins.on /\ Placed /\ t \in live /\ delay[t] = ins.delay
      /\ queue' = [queue EXCEPT ![t][r0] = s] /\ UNCHANGED cells
      /\ at[t] = ins.ev.due /\ r0 \in Region
  <2>1. ins.on /\ Placed /\ t # Null /\ delay[t] = ins.delay
        /\ queue' = [queue EXCEPT ![t][r0] = s] /\ UNCHANGED cells
    BY DEF InsertHere, Inserting
  <2>2. t \in live /\ ins.ev.due + delay[t] = at[t] + ins.delay
        /\ ins.ev.kind \in Region \cup {"push"}
    BY <2>1, ListFacts DEF Walk
  <2>3. at[t] = ins.ev.due
    BY <2>1, <2>2, ListFacts DEF ListTypeOK
  <2>4. r0 \in Region
    BY <2>2 DEF Slot, Region
  <2> QED  BY <2>1, <2>2, <2>3, <2>4
<1>2. /\ queue \in [Cells -> [Region -> Seq(Event)]] /\ t \in Cells
      /\ live \subseteq Cells /\ ins.ev \in Event
      /\ \A c \in live : \A r \in Region : AllDue(queue[c][r], at[c])
  BY <1>1 DEF IInv, TypeOK, ListTypeOK, EventTypeOK, EventTime, InsType
<1>3. s \in Seq(Event) /\ AllDue(s, at[t])
  BY <1>1, <1>2, AppendKeeps
<1> HIDE DEF t, r0, s
<1>4. queue' \in [Cells -> [Region -> Seq(Event)]]
  BY <1>1, <1>2, <1>3
<1>5. EventTime'
  <2> SUFFICES ASSUME NEW c \in live, NEW r \in Region
               PROVE  AllDue(queue'[c][r], at[c])
    BY <1>1 DEF EventTime, cells
  <2>1. CASE c = t /\ r = r0
    BY <1>1, <1>2, <1>3, <2>1
  <2>2. CASE ~(c = t /\ r = r0)
    <3>1. queue'[c][r] = queue[c][r]
      BY <1>1, <1>2, <2>2
    <3> QED  BY <1>2, <3>1
  <2> QED  BY <2>1, <2>2
<1>6. EventTypeOK'
  BY <1>1, <1>4, PlacedKeeps DEF IInv, TypeOK, EventTypeOK, lists
<1>7. ListTypeOK' /\ Linked' /\ Deltas' /\ AtHead'
  BY <1>1, PlacedKeeps DEF IInv, TypeOK, ListTypeOK, Linked, Deltas, AtHead, cells
<1> QED  BY <1>1, <1>5, <1>6, <1>7, PlacedKeeps DEF IInv, TypeOK

-----------------------------------------------------------------------------
(* The steps of schedule_simulate on the cells.                            *)

\* The time moves to that of the first cell.
LEMMA AdvanceKeeps ==
  ASSUME IInv, AdvanceTime
  PROVE  IInv'
<1>1. /\ pc' = "nextsim" /\ ~ins.on /\ sched_list # Null
      /\ schedule_time' = schedule_time + delay[sched_list]
      /\ delay' = [delay EXCEPT ![sched_list] = 0]
      /\ UNCHANGED <<sched_list, live, next, at, queue, lists, flags, phase,
                     cur, ins, ghosts>>
  BY DEF AdvanceTime, Goto
<1>2. /\ ListTypeOK /\ Linked /\ Deltas /\ EventTypeOK /\ ControlTypeOK
      /\ EventTime /\ sched_list \in Cells /\ sched_list \in live
  BY <1>1 DEF IInv, TypeOK, ListTypeOK, Linked
<1>3. ListTypeOK' /\ EventTypeOK' /\ ControlTypeOK'
  <2>1. ListTypeOK'
    BY <1>1, <1>2 DEF ListTypeOK
  <2>2. EventTypeOK'
    BY <1>1, <1>2 DEF EventTypeOK, lists, ghosts
  <2>3. ControlTypeOK'
    BY <1>1, <1>2 DEF ControlTypeOK, flags, phase, ghosts, PC, ClientPC
  <2> QED  BY <2>1, <2>2, <2>3
<1>4. Linked'
  BY <1>1, <1>2 DEF Linked
<1>5. Deltas'
  <2>1. at'[sched_list'] = schedule_time' + delay'[sched_list']
    BY <1>1, <1>2 DEF Deltas, ListTypeOK
  <2>2. ASSUME NEW d \in live', next'[d] # Null
        PROVE  at'[next'[d]] = at'[d] + delay'[next'[d]]
    <3>1. next[d] \in live /\ next[d] # sched_list /\ next[d] \in Cells
      BY <1>1, <1>2, <2>2 DEF Linked, ListTypeOK
    <3> QED  BY <1>1, <1>2, <2>2, <3>1 DEF Deltas, ListTypeOK
  <2> QED  BY <2>1, <2>2 DEF Deltas
<1>6. AtHead' /\ Walk' /\ RunAtDue'
  BY <1>1, <1>2 DEF AtHead, Walk, RunAtDue, ListTypeOK
<1>7. EventTime'
  BY <1>1, <1>2 DEF EventTime
<1> QED  BY <1>3, <1>4, <1>5, <1>6, <1>7 DEF IInv, TypeOK

\* An event is taken off a list r of the first cell, whose other events become
\* the list s; the lists in between are emptied or stay.
LEMMA TakeFrom ==
  ASSUME IInv, sched_list # Null, delay[sched_list] = 0,
         NEW r \in Region, NEW s \in Region, RunFirst(r),
         queue' = [queue EXCEPT ![sched_list][r] = <<>>,
                                ![sched_list][s] = Tail(queue[sched_list][r])],
         UNCHANGED <<cells, schedule_time, lists, ins>>, ~ins.on,
         ControlTypeOK'
  PROVE  IInv'
<1> DEFINE q == queue[sched_list][r]
<1>1. /\ queue \in [Cells -> [Region -> Seq(Event)]] /\ sched_list \in Cells
      /\ sched_list \in live /\ live \subseteq Cells /\ ran \subseteq Event
      /\ \A u \in Region : AllDue(queue[sched_list][u], at[sched_list])
      /\ at[sched_list] = schedule_time
  BY DEF IInv, TypeOK, ListTypeOK, EventTypeOK, EventTime, Linked, Deltas
<1>2. /\ Head(q) \in Event /\ Head(q).due = at[sched_list]
      /\ Tail(q) \in Seq(Event) /\ AllDue(Tail(q), at[sched_list])
  <2>1. q \in Seq(Event) /\ q # <<>> /\ AllDue(q, at[sched_list])
    BY <1>1 DEF RunFirst
  <2> QED  BY <2>1, TakeKeeps
<1>3. cur' = Head(q) /\ ran' = ran \cup {Head(q)}
  BY DEF RunFirst
<1> HIDE DEF q
<1>4. queue' = [queue EXCEPT ![sched_list][r] = <<>>, ![sched_list][s] = Tail(q)]
  BY DEF q
<1>5. <<>> \in Seq(Event) /\ \A t : AllDue(<<>>, t)
  BY NoneTypes, ShortLists
<1> DEFINE w == [u \in Region |-> IF u = s THEN Tail(q)
                                  ELSE IF u = r THEN <<>>
                                  ELSE queue[sched_list][u]]
<1>6. w \in [Region -> Seq(Event)] /\ \A u \in Region : AllDue(w[u], at[sched_list])
  BY <1>1, <1>2, <1>5
<1>7. queue' = [queue EXCEPT ![sched_list] = w]
  <2>1. queue' = [queue EXCEPT ![sched_list] =
                    [queue[sched_list] EXCEPT ![r] = <<>>, ![s] = Tail(q)]]
    BY <1>1, <1>4
  <2>2. w = [queue[sched_list] EXCEPT ![r] = <<>>, ![s] = Tail(q)]
    BY <1>1
  <2> QED  BY <2>1, <2>2
<1> HIDE DEF w
<1>8. /\ queue' \in [Cells -> [Region -> Seq(Event)]]
      /\ \A c \in live \ {sched_list} : queue'[c] = queue[c]
      /\ \A u \in Region : AllDue(queue'[sched_list][u], at[sched_list])
  BY <1>1, <1>6, <1>7
<1>9. cur' \in Event /\ ran' \subseteq Event /\ RunAtDue'
  BY <1>1, <1>2, <1>3 DEF RunAtDue
<1> QED  BY <1>8, <1>9, QueueStep

LEMMA RunKeeps ==
  ASSUME IInv, RunStartEvent \/ RunRosyncEvent \/ RunDelThr
  PROVE  IInv'
<1>1. PICK r \in {"start", "rosync", "del_thr"} :
        /\ RunFirst(r)
        /\ queue' = [queue EXCEPT ![sched_list][r] = Tail(@)]
  BY Zenon DEF RunStartEvent, RunRosyncEvent, RunDelThr
<1>2. /\ ~ins.on /\ pc \in WorkPC
      /\ pc' \in {"start_run", "rosync_run", "del_run"}
      /\ UNCHANGED <<cells, schedule_time, lists, flags, phase, ins, count,
                     term, controls, signals>>
  BY DEF RunStartEvent, RunRosyncEvent, RunDelThr, Goto, WorkPC
<1>3. ControlTypeOK'
  BY <1>2 DEF IInv, TypeOK, ControlTypeOK, flags, phase, PC, ClientPC, LoopPC
<1>4. sched_list # Null /\ delay[sched_list] = 0 /\ r \in Region
  BY <1>2 DEF IInv, AtHead, Region
<1>5. queue' = [queue EXCEPT ![sched_list][r] = <<>>,
                             ![sched_list][r] = Tail(queue[sched_list][r])]
  <2>1. queue \in [Cells -> [Region -> Seq(Event)]] /\ sched_list \in Cells
    BY <1>4 DEF IInv, TypeOK, ListTypeOK, EventTypeOK
  <2> QED  BY <1>1, <1>4, <2>1
<1> QED  BY <1>1, <1>2, <1>3, <1>4, <1>5, TakeFrom

LEMMA PullKeeps ==
  ASSUME IInv, PullEvent
  PROVE  IInv'
<1>1. PICK r \in ReadWrite :
        /\ RunFirst(r)
        /\ queue' = [queue EXCEPT ![sched_list][r] = <<>>,
                                  ![sched_list]["active"] =
                                      Tail(queue[sched_list][r])]
  BY DEF PullEvent
<1>2. /\ AtPull /\ pc' = "active_run"
      /\ stopped' = (stopped \/ single_step) /\ single_step' = FALSE
      /\ UNCHANGED <<cells, schedule_time, lists, runnable, stop_is_finish,
                     phase, ins, count, term, controls, signals>>
  BY DEF PullEvent
<1>3. pc \in {"pull", "loop"} /\ sched_list # Null /\ delay[sched_list] = 0
  BY <1>2 DEF AtPull, IInv, AtHead, WorkPC
<1>4. ~ins.on
  BY <1>3, NotWalking DEF ClientPC
<1>5. ControlTypeOK'
  <2>1. stopped' \in BOOLEAN
    BY <1>2 DEF IInv, TypeOK, ControlTypeOK
  <2> QED  BY <1>2, <2>1 DEF IInv, TypeOK, ControlTypeOK, phase, PC, ClientPC
<1>6. r \in Region /\ "active" \in Region
  BY DEF ReadWrite, Region
<1> QED  BY <1>1, <1>2, <1>3, <1>4, <1>5, <1>6, TakeFrom

\* The cell of the time step that has ended is released.
LEMMA EndCellKeeps ==
  ASSUME IInv, EndCell
  PROVE  IInv'
<1> DEFINE h == sched_list
<1>1. /\ pc = "del_thr" /\ pc' = "loop" /\ ~ins.on
      /\ sched_list' = next[h] /\ live' = live \ {h}
      /\ next' = [next EXCEPT ![h] = Null] /\ at' = [at EXCEPT ![h] = 0]
      /\ queue' = [queue EXCEPT ![h] = [r \in Region |-> <<>>]]
      /\ UNCHANGED <<delay, schedule_time, lists, flags, phase, cur, ins, ghosts>>
  BY DEF EndCell, Goto
<1>2. /\ ListTypeOK /\ Linked /\ Deltas /\ EventTypeOK /\ ControlTypeOK
      /\ EventTime /\ h # Null /\ h \in live /\ h \in Cells
      /\ at[h] = schedule_time
  BY <1>1 DEF IInv, TypeOK, ListTypeOK, Linked, AtHead, WorkPC, Deltas
<1>3. ListTypeOK'
  BY <1>1, <1>2 DEF ListTypeOK
<1>4. EventTypeOK'
  <2>1. [r \in Region |-> <<>>] \in [Region -> Seq(Event)]
    BY NoneTypes, ShortLists
  <2> QED  BY <1>1, <1>2, <2>1 DEF EventTypeOK, ListTypeOK, lists, ghosts
<1>5. ControlTypeOK'
  BY <1>1, <1>2 DEF ControlTypeOK, flags, phase, ghosts, PC, LoopPC
<1>6. /\ \A d \in live' : d \in live /\ d # h /\ at'[d] = at[d]
                          /\ next'[d] = next[d] /\ at[d] \in Nat /\ at[h] < at[d]
      /\ at[h] \in Nat
  BY <1>1, <1>2 DEF ListTypeOK, Linked
<1>7. \A d \in live : next[d] # h
  BY <1>2, NullAssumption DEF Linked, ListTypeOK
<1>8. Linked'
  <2>1. sched_list' \in live' \cup {Null} /\ (sched_list' = Null => live' = {})
    BY <1>1, <1>2, <1>6, <1>7 DEF Linked
  <2>2. ASSUME NEW d \in live'
        PROVE  /\ at'[sched_list'] <= at'[d]
               /\ next'[d] \in live' \cup {Null}
               /\ next'[d] = Null => \A e \in live' : at'[e] <= at'[d]
               /\ next'[d] # Null =>
                    /\ at'[d] < at'[next'[d]]
                    /\ \A e \in live' : at'[e] <= at'[d] \/ at'[next'[d]] <= at'[e]
               /\ \A e \in live' : at'[d] = at'[e] => d = e
    <3>1. at'[sched_list'] <= at'[d]
      BY <1>1, <1>2, <1>6, <2>1 DEF Linked
    <3>2. next'[d] \in live' \cup {Null}
      BY <1>1, <1>2, <1>6, <1>7 DEF Linked
    <3> QED  BY <1>2, <1>6, <3>1, <3>2, NullAssumption DEF Linked, ListTypeOK
  <2> QED  BY <2>1, <2>2 DEF Linked
<1>9. Deltas'
  BY <1>1, <1>2, <1>6, <1>7, <1>8, NullAssumption DEF Deltas, Linked, ListTypeOK
<1>10. EventTime'
  BY <1>1, <1>2, <1>6 DEF EventTime, EventTypeOK, ListTypeOK
<1>11. AtHead' /\ Walk' /\ RunAtDue'
  BY <1>1 DEF AtHead, WorkPC, Walk, RunAtDue
<1> QED
  BY <1>3, <1>4, <1>5, <1>8, <1>9, <1>10, <1>11 DEF IInv, TypeOK

-----------------------------------------------------------------------------
(* The theorems.                                                           *)

LEMMA NextIInv == IInv /\ [Next]_vars => IInv'
<1> SUFFICES ASSUME IInv, [Next]_vars PROVE IInv'
  OBVIOUS
<1>1. CASE ClientCall
  <2>1. CASE \E k \in Region, d \in 0..MaxDelay : ScheduleEvent(k, d)
    BY <2>1, BoundAssumption, ScheduleKeeps
  <2>2. CASE PushFallback
    BY <2>2, ScheduleKeeps DEF PushFallback
  <2>3. CASE PushEvent
    BY <2>3, PushEventKeeps
  <2>4. CASE InitEvent \/ FinalEvent \/ Stop
    BY <2>4, OutsideKeeps
  <2>5. CASE Finish
    BY <2>5, FinishKeeps
  <2> QED  BY <1>1, <2>1, <2>2, <2>3, <2>4, <2>5 DEF ClientCall
<1>2. CASE Insert
  BY <1>2, InsertFirstKeeps, InsertFrontKeeps, InsertWalkKeeps,
     InsertBetweenKeeps, InsertHereKeeps, InsertLastKeeps DEF Insert
<1>3. CASE Returns
  BY <1>3, ReturnsKeep
<1>4. CASE Simulate
  BY <1>4, DecisionsKeep, FinishKeeps, AdvanceKeeps, RunKeeps, PullKeeps,
     EndCellKeeps DEF Simulate
<1>5. CASE \E t \in BOOLEAN : Signal(t)
  BY <1>5, OutsideKeeps
<1>6. CASE UNCHANGED vars
  <2>1. UNCHANGED <<cells, queue, schedule_time, ins, lists, flags, phase, pc,
                    cur, ghosts>>
    BY <1>6 DEF vars
  <2>2. EventTypeOK' /\ ControlTypeOK' /\ RunAtDue'
    BY <2>1 DEF IInv, TypeOK, EventTypeOK, ControlTypeOK, RunAtDue, lists,
                flags, phase, ghosts
  <2> QED  BY <2>1, <2>2, ControlStep DEF IInv, AtHead, Walk
<1> QED
  BY <1>1, <1>2, <1>3, <1>4, <1>5, <1>6 DEF Next, MainThread, Done

\* The inductive invariant holds throughout, for any cells and any bounds.
THEOREM ScheduleInvariant == Spec => []IInv
<1>1. Init => IInv
  BY InitIInv
<1>2. IInv /\ [Next]_vars => IInv'
  BY NextIInv
<1> QED  BY <1>1, <1>2, PTL DEF Spec

\* No variable of the scheduler leaves its type; no unsigned delay wraps.
THEOREM TypeCorrect == Spec => []TypeOK
<1>1. IInv => TypeOK
  BY DEF IInv
<1> QED  BY <1>1, ScheduleInvariant, PTL

\* The list of cells that schedule_event_ maintains stands for the times that
\* were asked for.
THEOREM ListCorrect == Spec => []DeltaList
<1>1. IInv => DeltaList
  BY DEF IInv, DeltaList
<1> QED  BY <1>1, ScheduleInvariant, PTL

\* schedule_simulate executes every event at its due time.
THEOREM ExecutionTimes == Spec => []RunAtDue
<1>1. IInv => RunAtDue
  BY DEF IInv
<1> QED  BY <1>1, ScheduleInvariant, PTL

-----------------------------------------------------------------------------
(* A termination is not lost.                                              *)

\* A signal that terminates is seen: no step of schedule_simulate leaves the
\* loop's test of the stop flag behind with the flag down.
LEMMA NextTerm ==
  ASSUME IInv, TermKnown, TermNotLost, [Next]_vars
  PROVE  TermKnown' /\ TermNotLost'
<1> USE DEF TermKnown, TermNotLost
<1>0. /\ pc \in PC /\ stopped \in BOOLEAN /\ stop_is_finish \in BOOLEAN
      /\ term \in BOOLEAN /\ runnable \in BOOLEAN
  BY DEF IInv, TypeOK, ControlTypeOK
<1>1. CASE ClientCall
  <2>1. UNCHANGED <<pc, term, stop_is_finish>>
    BY <1>1 DEF ClientCall, ScheduleEvent, PushEvent, PushFallback, InitEvent,
                FinalEvent, Finish, Stop, flags
  <2>2. stopped' = stopped \/ stopped' = TRUE
    BY <1>1 DEF ClientCall, ScheduleEvent, PushEvent, PushFallback, InitEvent,
                FinalEvent, Finish, Stop, flags
  <2>3. runnable' = runnable \/ runnable' = FALSE
    BY <1>1 DEF ClientCall, ScheduleEvent, PushEvent, PushFallback, InitEvent,
                FinalEvent, Finish, Stop, flags
  <2> QED  BY <1>0, <2>1, <2>2, <2>3
<1>2. CASE Insert
  <2>1. UNCHANGED <<pc, term, stop_is_finish, stopped, runnable>>
    BY <1>2 DEF Insert, InsertFirst, InsertFront, InsertWalk, InsertBetween,
                InsertHere, InsertLast, Placed, flags, ghosts
  <2> QED  BY <2>1
<1>3. CASE Returns
  <2>1. UNCHANGED <<term, stop_is_finish, stopped, runnable>>
    BY <1>3 DEF Returns, EndOfCompile, EndInitEvent, EndNextSimTime,
                EndStartEvent, EndActiveEvent, EndRosyncEvent, EndDelThr,
                EndFinalEvent, Postsim, Return, flags, ghosts
  <2>2. /\ pc \in LoopPC => pc' \in LoopPC /\ pc # "stop_handler"
        /\ pc \notin LoopPC => pc' \notin LoopPC
        /\ pc \in EndPC => pc' \in EndPC
    BY <1>3 DEF Returns, EndOfCompile, EndInitEvent, EndNextSimTime,
                EndStartEvent, EndActiveEvent, EndRosyncEvent, EndDelThr,
                EndFinalEvent, Postsim, Return, Goto, LoopPC, EndPC
  <2> QED  BY <1>0, <2>1, <2>2
<1>4. CASE Simulate
  <2>1. CASE RunInitEvent \/ InitDone \/ StartSimulation
    BY <2>1 DEF RunInitEvent, InitDone, StartSimulation, Goto, LoopPC, EndPC,
                flags, ghosts
  <2>2. CASE OutOfEvents \/ DebuggerFinished \/ FinishedBreak \/ StopIsFinish
    BY <2>2 DEF OutOfEvents, DebuggerFinished, FinishedBreak, StopIsFinish,
                Leave, LoopPC, EndPC, ghosts
  <2>3. CASE ResetStop
    BY <2>3 DEF ResetStop, Goto, LoopPC, EndPC, flags, ghosts
  <2>4. CASE Interact
    BY <1>0, <2>4 DEF Interact, Goto, LoopPC, flags, ghosts
  <2>5. CASE RunFinalEvent \/ FinalDone
    BY <2>5 DEF RunFinalEvent, FinalDone, Goto, LoopPC, EndPC, flags, ghosts
  <2>6. CASE \/ SeeStop \/ (\E step \in BOOLEAN : DebuggerReturn(step))
             \/ AdvanceTime \/ RunStartEvent \/ StartDone \/ NothingToPull
             \/ RunRosyncEvent \/ RosyncDone \/ RunDelThr \/ EndCell
    <3>1. UNCHANGED <<term, stop_is_finish, stopped, runnable>>
      BY <2>6 DEF SeeStop, DebuggerReturn, AdvanceTime, RunStartEvent,
                  StartDone, NothingToPull, RunRosyncEvent, RosyncDone,
                  RunDelThr, EndCell, flags, ghosts
    <3>2. pc \in LoopPC /\ pc # "stop_handler" /\ pc' \in LoopPC
      BY <2>6 DEF SeeStop, DebuggerReturn, AdvanceTime, RunStartEvent,
                  StartDone, NothingToPull, RunRosyncEvent, RosyncDone,
                  RunDelThr, EndCell, Goto, AtPull, LoopPC
    <3> QED  BY <1>0, <3>1, <3>2
  <2>7. CASE PullEvent
    <3>1. /\ UNCHANGED <<term, stop_is_finish, runnable>>
          /\ stopped' = (stopped \/ single_step)
          /\ pc \in {"pull", "loop"} /\ pc' = "active_run"
      BY <2>7 DEF PullEvent, AtPull
    <3> QED  BY <1>0, <3>1 DEF LoopPC
  <2> QED
    BY <1>4, <2>1, <2>2, <2>3, <2>4, <2>5, <2>6, <2>7 DEF Simulate
<1>5. CASE \E t \in BOOLEAN : Signal(t)
  <2>1. PICK t \in BOOLEAN : Signal(t)
    BY <1>5
  <2>2. /\ stop_is_finish' = (stop_is_finish \/ t) /\ term' = (term \/ t)
        /\ stopped' /\ pc' = pc
        /\ pc \in LoopPC \cup {"final", "final_run"}
    BY <2>1 DEF Signal
  <2> QED  BY <1>0, <2>2 DEF EndPC
<1>6. CASE UNCHANGED vars
  BY <1>6 DEF vars, flags, ghosts
<1> QED
  BY <1>1, <1>2, <1>3, <1>4, <1>5, <1>6 DEF Next, MainThread, Done

\* SIGTERM and SIGHUP are not lost, whenever they arrive.
THEOREM TerminationSeen == Spec => []TermNotLost
<1>1. Init => TermKnown /\ TermNotLost
  BY DEF Init, TermKnown, TermNotLost
<1>2. IInv /\ TermKnown /\ TermNotLost /\ [Next]_vars => (TermKnown /\ TermNotLost)'
  BY NextTerm
<1> QED  BY <1>1, <1>2, ScheduleInvariant, PTL DEF Spec

-----------------------------------------------------------------------------
(* What becomes of the lists of a cell.                                    *)

\* The program counters of the read-only part of a time step, and those of its
\* beginning.
RoPC == {"rosync", "rosync_run", "del_thr", "del_run"}
StartPC == {"nextsim", "start", "start_run"}

-----------------------------------------------------------------------------
(* The events of a list.                                                   *)

LEMMA EventsOfShort == EventsOf(<<>>) = {} /\ \A e : EventsOf(<<e>>) = {e}
BY DEF EventsOf

LEMMA EventsOfAppend ==
  ASSUME NEW s \in Seq(Event), NEW e \in Event
  PROVE  EventsOf(Append(s, e)) = EventsOf(s) \cup {e}
<1>1. DOMAIN Append(s, e) = DOMAIN s \cup {Len(s) + 1}
  OBVIOUS
<1>2. /\ Append(s, e)[Len(s) + 1] = e /\ Len(s) + 1 \notin DOMAIN s
      /\ \A i \in DOMAIN s : Append(s, e)[i] = s[i]
  OBVIOUS
<1> QED  BY <1>1, <1>2, Zenon DEF EventsOf

LEMMA EventsOfPush ==
  ASSUME NEW s \in Seq(Event), NEW e \in Event
  PROVE  EventsOf(<<e>> \o s) = {e} \cup EventsOf(s)
<1> DEFINE t == <<e>> \o s
<1>1. /\ DOMAIN t = 1 .. Len(s) + 1 /\ DOMAIN s = 1 .. Len(s)
      /\ t[1] = e /\ \A i \in 2 .. Len(s) + 1 : t[i] = s[i - 1]
  OBVIOUS
<1> HIDE DEF t
<1>2. \A i \in DOMAIN s : i + 1 \in DOMAIN t /\ t[i + 1] = s[i]
  BY <1>1
<1>3. \A i \in DOMAIN t : t[i] = e \/ \E j \in DOMAIN s : t[i] = s[j]
  BY <1>1
<1>4. 1 \in DOMAIN t /\ t[1] = e
  BY <1>1
<1>5. EventsOf(t) = {e} \cup EventsOf(s)
  <2>1. \A f \in EventsOf(t) : f \in {e} \cup EventsOf(s)
    BY <1>3, Zenon DEF EventsOf
  <2>2. e \in EventsOf(t) /\ \A f \in EventsOf(s) : f \in EventsOf(t)
    BY <1>2, <1>4 DEF EventsOf
  <2> QED  BY <2>1, <2>2
<1> QED  BY <1>5 DEF t

LEMMA EventsOfTail ==
  ASSUME NEW s \in Seq(Event), s # <<>>
  PROVE  /\ EventsOf(s) = {Head(s)} \cup EventsOf(Tail(s))
         /\ EventsOf(s) \subseteq Event
<1> DEFINE t == Tail(s)
<1>1. /\ DOMAIN s = 1 .. Len(s) /\ DOMAIN t = 1 .. Len(s) - 1 /\ Len(s) \in Nat
      /\ Len(s) > 0 /\ s[1] = Head(s) /\ \A i \in DOMAIN t : t[i] = s[i + 1]
  OBVIOUS
<1>2. \A i \in DOMAIN s : s[i] \in Event
  OBVIOUS
<1> HIDE DEF t
<1>3. \A i \in DOMAIN s : s[i] = Head(s) \/ \E j \in DOMAIN t : s[i] = t[j]
  <2> SUFFICES ASSUME NEW i \in DOMAIN s, i # 1
               PROVE  \E j \in DOMAIN t : s[i] = t[j]
    BY <1>1
  <2>1. i - 1 \in DOMAIN t /\ t[i - 1] = s[i]
    BY <1>1
  <2> QED  BY <2>1
<1>4. \A j \in DOMAIN t : \E i \in DOMAIN s : s[i] = t[j]
  <2> SUFFICES ASSUME NEW j \in DOMAIN t
               PROVE  \E i \in DOMAIN s : s[i] = t[j]
    OBVIOUS
  <2>1. j + 1 \in DOMAIN s /\ s[j + 1] = t[j]
    BY <1>1
  <2> QED  BY <2>1
<1>5. 1 \in DOMAIN s /\ s[1] = Head(s)
  BY <1>1
<1>6. EventsOf(s) = {Head(s)} \cup EventsOf(t)
  <2>1. \A f \in EventsOf(s) : f \in {Head(s)} \cup EventsOf(t)
    BY <1>3, Zenon DEF EventsOf
  <2>2. Head(s) \in EventsOf(s) /\ \A f \in EventsOf(t) : f \in EventsOf(s)
    BY <1>4, <1>5 DEF EventsOf
  <2> QED  BY <2>1, <2>2
<1>7. EventsOf(s) \subseteq Event
  BY <1>2, Zenon DEF EventsOf
<1> QED  BY <1>6, <1>7 DEF t

\* What is known of the cells and their lists.
LEMMA CellFacts ==
  ASSUME IInv
  PROVE  /\ queue \in [Cells -> [Region -> Seq(Event)]]
         /\ live \subseteq Cells /\ Null \notin live
         /\ sched_list \in live \cup {Null}
         /\ schedule_time \in Nat /\ count \in Nat
         /\ at \in [Cells -> Nat] /\ delay \in [Cells -> Nat]
         /\ \A c \in live : /\ at[c] \in Nat
                            /\ at[c] >= schedule_time
                            /\ at[c] = schedule_time => c = sched_list /\ delay[c] = 0
         /\ sched_list # Null /\ delay[sched_list] = 0 => at[sched_list] = schedule_time
         /\ \A c \in live, r \in Region : \A e \in EventsOf(queue[c][r]) :
              e \in Event /\ e.due = at[c]
<1>1. /\ ListTypeOK /\ EventTypeOK /\ ControlTypeOK /\ Linked /\ Deltas /\ EventTime
  BY DEF IInv, TypeOK
<1>2. /\ queue \in [Cells -> [Region -> Seq(Event)]]
      /\ live \subseteq Cells /\ Null \notin live
      /\ sched_list \in live \cup {Null}
      /\ schedule_time \in Nat /\ count \in Nat
      /\ at \in [Cells -> Nat] /\ delay \in [Cells -> Nat]
  BY <1>1, NullAssumption DEF ListTypeOK, EventTypeOK, ControlTypeOK, Linked
<1>3. ASSUME NEW c \in live
      PROVE  /\ at[c] \in Nat
             /\ at[c] >= schedule_time
             /\ at[c] = schedule_time => c = sched_list /\ delay[c] = 0
  <2>1. sched_list \in live /\ sched_list # Null /\ at[sched_list] <= at[c]
        /\ (at[c] = at[sched_list] => c = sched_list)
    BY <1>1, <1>2 DEF Linked
  <2>2. at[sched_list] = schedule_time + delay[sched_list]
    BY <1>1, <2>1 DEF Deltas
  <2>3. at[c] \in Nat /\ at[sched_list] \in Nat /\ delay[sched_list] \in Nat
    BY <1>2, <2>1
  <2> QED  BY <1>2, <2>1, <2>2, <2>3
<1>4. ASSUME NEW c \in live, NEW r \in Region, NEW e \in EventsOf(queue[c][r])
      PROVE  e \in Event /\ e.due = at[c]
  <2>1. PICK i \in DOMAIN queue[c][r] : e = queue[c][r][i]
    BY <1>4 DEF EventsOf
  <2>2. queue[c][r] \in Seq(Event)
    BY <1>2
  <2> QED  BY <1>1, <2>1, <2>2 DEF EventTime, AllDue
<1> QED  BY <1>1, <1>2, <1>3, <1>4 DEF Deltas

-----------------------------------------------------------------------------
(* What is left in a time step: StepInv is kept by every step.             *)

\* A step that leaves cells, lists, time and walk alone.
LEMMA StepControl ==
  ASSUME IInv, StepInv, UNCHANGED <<sched_list, live, at, queue, schedule_time, ins>>,
         pc' \in RoPC =>
           pc \in RoPC \/ \A r \in ReadWrite : queue[sched_list][r] = <<>>,
         pc' \in {"del_thr", "del_run"} =>
           pc \in {"del_thr", "del_run"} \/ queue[sched_list]["rosync"] = <<>>,
         pc' \notin StartPC =>
           pc \notin StartPC \/ queue[sched_list]["start"] = <<>>,
         runnable' /\ pc' \notin EndPC => runnable /\ pc \notin EndPC,
         ins.on => pc' = pc
  PROVE  StepInv'
<1>1. ReadOnlyStable'
  BY EventsOfShort DEF StepInv, ReadOnlyStable, RoPC
<1>2. Leftovers'
  <2>1. ASSUME pc' \notin StartPC, NEW c \in live, at[c] = schedule_time,
               NEW e \in EventsOf(queue[c]["start"])
        PROVE  e.from = schedule_time
    <3>1. c = sched_list
      BY <2>1, CellFacts
    <3>2. queue[sched_list]["start"] # <<>>
      BY <2>1, <3>1, EventsOfShort
    <3> QED  BY <2>1, <3>2 DEF StepInv, Leftovers, StartPC
  <2>2. ins.on => ins.ev.from = schedule_time /\ (pc' = "rosync_run" => ins.ev.ro)
    BY DEF StepInv, Leftovers
  <2>3. pc' \in {"del_thr", "del_run"} => queue[sched_list]["rosync"] = <<>>
    BY DEF StepInv, Leftovers
  <2> QED  BY <2>1, <2>2, <2>3 DEF Leftovers, StartPC
<1>3. FutureFull'
  BY DEF StepInv, FutureFull
<1> QED  BY <1>1, <1>2, <1>3 DEF StepInv

\* A step that changes lists of the first cell only.
LEMMA StepLists ==
  ASSUME IInv, StepInv, UNCHANGED <<sched_list, live, at, schedule_time, ins>>,
         NEW h \in live, h = sched_list,
         \A c \in live \ {h} : queue'[c] = queue[c],
         pc' \in RoPC => pc \in RoPC /\ \A r \in ReadWrite :
           \A e \in EventsOf(queue'[h][r]) : e \in EventsOf(queue[h][r]) \/ e.ro,
         pc' \in {"del_thr", "del_run"} =>
           pc \in {"del_thr", "del_run"} /\ queue'[h]["rosync"] = queue[h]["rosync"],
         pc' \notin StartPC =>
           /\ pc \notin StartPC
           /\ EventsOf(queue'[h]["start"]) \subseteq EventsOf(queue[h]["start"]),
         runnable' /\ pc' \notin EndPC =>
           /\ runnable /\ pc \notin EndPC
           /\ \/ at[h] = schedule_time
              \/ \A r \in Region : queue[h][r] # <<>> => queue'[h][r] # <<>>,
         ins.on => pc' = pc
  PROVE  StepInv'
<1>1. ReadOnlyStable'
  BY DEF StepInv, ReadOnlyStable, RoPC
<1>2. Leftovers'
  <2>1. ASSUME pc' \notin StartPC, NEW c \in live, at[c] = schedule_time,
               NEW e \in EventsOf(queue'[c]["start"])
        PROVE  e.from = schedule_time
    <3>1. e \in EventsOf(queue[c]["start"])
      BY <2>1
    <3> QED  BY <2>1, <3>1 DEF StepInv, Leftovers, StartPC
  <2>2. ins.on => ins.ev.from = schedule_time /\ (pc' = "rosync_run" => ins.ev.ro)
    BY DEF StepInv, Leftovers
  <2>3. pc' \in {"del_thr", "del_run"} => queue'[sched_list]["rosync"] = <<>>
    BY DEF StepInv, Leftovers
  <2> QED  BY <2>1, <2>2, <2>3 DEF Leftovers, StartPC
<1>3. FutureFull'
  <2> SUFFICES ASSUME runnable', pc' \notin EndPC, NEW c \in live, at[c] > schedule_time
               PROVE  \E r \in Region : queue'[c][r] # <<>>
    BY DEF FutureFull
  <2>1. PICK r \in Region : queue[c][r] # <<>>
    BY DEF StepInv, FutureFull
  <2>2. CASE c # h
    BY <2>1, <2>2
  <2>3. CASE c = h
    <3>1. at[h] # schedule_time
      BY <2>3, CellFacts
    <3> QED  BY <2>1, <2>3, <3>1
  <2> QED  BY <2>2, <2>3
<1> QED  BY <1>1, <1>2, <1>3 DEF StepInv

\* A new cell for the event that is being inserted.
LEMMA StepNewCell ==
  ASSUME IInv, StepInv, ins.on, Placed, NEW c \in Cells \ live,
         live' = live \cup {c},
         at' = [at EXCEPT ![c] = ins.ev.due],
         queue' = [queue EXCEPT ![c] = OnlyEvent],
         pc \in RoPC => sched_list' = sched_list
  PROVE  StepInv'
<1>1. /\ pc' = pc /\ schedule_time' = schedule_time /\ runnable' = runnable
      /\ ~ins'.on
  BY NoneTypes DEF Placed, flags
<1>2. /\ queue'[c] = OnlyEvent /\ at'[c] = ins.ev.due
      /\ \A d \in live : d # c /\ queue'[d] = queue[d] /\ at'[d] = at[d]
  BY CellFacts
<1>3. Slot(ins.ev) \in Region /\ pc \in ClientPC
  BY DEF IInv, Walk, Slot, Region
<1>4. OnlyEvent[Slot(ins.ev)] = <<ins.ev>>
      /\ \A r \in Region : EventsOf(OnlyEvent[r]) \subseteq {ins.ev}
  BY <1>3, EventsOfShort DEF OnlyEvent
<1>5. ReadOnlyStable'
  <2> SUFFICES ASSUME pc \in RoPC, NEW r \in ReadWrite,
                      NEW e \in EventsOf(queue'[sched_list'][r])
               PROVE  e.ro
    BY <1>1 DEF ReadOnlyStable, RoPC
  <2>1. sched_list' = sched_list /\ sched_list \in live
    BY CellFacts DEF IInv, AtHead, WorkPC, RoPC
  <2> QED  BY <1>2, <2>1 DEF StepInv, ReadOnlyStable, RoPC
<1>6. Leftovers'
  <2>1. pc \notin {"del_thr", "del_run"}
    BY <1>3 DEF ClientPC
  <2>2. ASSUME pc \notin StartPC, NEW d \in live \cup {c}, at'[d] = schedule_time,
               NEW e \in EventsOf(queue'[d]["start"])
        PROVE  e.from = schedule_time
    <3>1. CASE d = c
      <4>1. "start" \in Region
        BY DEF Region
      <4>2. e = ins.ev
        BY <1>2, <1>4, <2>2, <3>1, <4>1
      <4> QED  BY <4>2 DEF StepInv, Leftovers
    <3>2. CASE d # c
      BY <1>2, <2>2, <3>2 DEF StepInv, Leftovers, StartPC
    <3> QED  BY <3>1, <3>2
  <2> QED  BY <1>1, <2>1, <2>2 DEF Leftovers, StartPC
<1>7. FutureFull'
  <2> SUFFICES ASSUME runnable, pc \notin EndPC, NEW d \in live \cup {c},
                      at'[d] > schedule_time
               PROVE  \E r \in Region : queue'[d][r] # <<>>
    BY <1>1 DEF FutureFull
  <2>1. CASE d = c
    BY <1>2, <1>3, <1>4, <2>1
  <2>2. CASE d # c
    BY <1>2, <2>2 DEF StepInv, FutureFull
  <2> QED  BY <2>1, <2>2
<1> QED  BY <1>5, <1>6, <1>7 DEF StepInv

\* The event is appended to a list of a cell that exists.
LEMMA StepHere ==
  ASSUME IInv, StepInv, InsertHere
  PROVE  StepInv'
<1> DEFINE h == ins.ctim
           k == Slot(ins.ev)
<1>1. /\ pc' = pc /\ schedule_time' = schedule_time /\ runnable' = runnable
      /\ ~ins'.on /\ ins.on /\ sched_list' = sched_list /\ live' = live /\ at' = at
      /\ queue' = [queue EXCEPT ![h][k] = Append(@, ins.ev)]
  BY NoneTypes DEF InsertHere, Inserting, Placed, flags, cells
<1>2. k \in Region /\ h \in live /\ ins.ev \in Event /\ pc \in ClientPC
  BY DEF IInv, Walk, Slot, Region, InsertHere, Inserting, TypeOK, EventTypeOK, InsType
<1> HIDE DEF h, k
<1>3. /\ queue'[h][k] = Append(queue[h][k], ins.ev)
      /\ \A r \in Region \ {k} : queue'[h][r] = queue[h][r]
      /\ \A d \in live \ {h} : queue'[d] = queue[d]
  BY <1>1, <1>2, CellFacts
<1>4. queue[h][k] \in Seq(Event)
  BY <1>2, CellFacts
<1>5. \A d \in live, r \in Region : \A e \in EventsOf(queue'[d][r]) :
        e \in EventsOf(queue[d][r]) \/ e = ins.ev
  <2>1. EventsOf(queue'[h][k]) = EventsOf(queue[h][k]) \cup {ins.ev}
    BY <1>2, <1>3, <1>4, EventsOfAppend
  <2> SUFFICES ASSUME NEW d \in live, NEW r \in Region, NEW e \in EventsOf(queue'[d][r])
               PROVE  e \in EventsOf(queue[d][r]) \/ e = ins.ev
    OBVIOUS
  <2>2. CASE d = h /\ r = k
    BY <2>1, <2>2
  <2>3. CASE ~(d = h /\ r = k)
    BY <1>3, <2>3
  <2> QED  BY <2>2, <2>3
<1>6. \A d \in live, r \in Region : queue[d][r] # <<>> => queue'[d][r] # <<>>
  BY <1>2, <1>3, <1>4
<1>7. ins.ev.from = schedule_time /\ (pc = "rosync_run" => ins.ev.ro)
  BY <1>1 DEF StepInv, Leftovers
<1>8. ReadOnlyStable'
  <2> SUFFICES ASSUME pc \in RoPC, NEW r \in ReadWrite,
                      NEW e \in EventsOf(queue'[sched_list][r])
               PROVE  e.ro
    BY <1>1 DEF ReadOnlyStable, RoPC
  <2>1. sched_list \in live /\ pc = "rosync_run" /\ r \in Region
    BY <1>2, CellFacts DEF IInv, AtHead, WorkPC, RoPC, ClientPC, ReadWrite, Region
  <2> QED  BY <1>5, <1>7, <2>1 DEF StepInv, ReadOnlyStable
<1>9. Leftovers'
  <2>1. pc \notin {"del_thr", "del_run"} /\ "start" \in Region
    BY <1>2 DEF ClientPC, Region
  <2> QED  BY <1>1, <1>5, <1>7, <2>1 DEF StepInv, Leftovers
<1>10. FutureFull'
  BY <1>1, <1>6 DEF StepInv, FutureFull
<1> QED  BY <1>8, <1>9, <1>10 DEF StepInv

LEMMA StepInserts ==
  ASSUME IInv, StepInv, Insert
  PROVE  StepInv'
<1> USE DEF Inserting
<1>1. CASE InsertFirst
  <2>1. ins.on /\ Placed /\ sched_list = Null
    BY <1>1 DEF InsertFirst, IInv, Walk
  <2>2. PICK c \in Cells \ live : /\ live' = live \cup {c}
                                  /\ at' = [at EXCEPT ![c] = ins.ev.due]
                                  /\ queue' = [queue EXCEPT ![c] = OnlyEvent]
    BY <1>1 DEF InsertFirst
  <2>3. pc \notin RoPC
    BY <2>1 DEF IInv, AtHead, WorkPC, RoPC
  <2> QED  BY <2>1, <2>2, <2>3, StepNewCell
<1>2. CASE InsertFront
  <2>1. ins.on /\ Placed /\ sched_list # Null /\ delay[sched_list] > ins.delay
        /\ ins.delay \in Nat
    BY <1>2 DEF InsertFront, IInv, Walk, TypeOK, EventTypeOK, InsType
  <2>2. PICK c \in Cells \ live : /\ live' = live \cup {c}
                                  /\ at' = [at EXCEPT ![c] = ins.ev.due]
                                  /\ queue' = [queue EXCEPT ![c] = OnlyEvent]
    BY <1>2 DEF InsertFront
  <2>3. pc \notin RoPC
    BY <2>1 DEF IInv, AtHead, WorkPC, RoPC
  <2> QED  BY <2>1, <2>2, <2>3, StepNewCell
<1>3. CASE InsertBetween
  <2>1. ins.on /\ Placed /\ sched_list' = sched_list
    BY <1>3 DEF InsertBetween
  <2>2. PICK c \in Cells \ live : /\ live' = live \cup {c}
                                  /\ at' = [at EXCEPT ![c] = ins.ev.due]
                                  /\ queue' = [queue EXCEPT ![c] = OnlyEvent]
    BY <1>3 DEF InsertBetween
  <2> QED  BY <2>1, <2>2, StepNewCell
<1>4. CASE InsertLast
  <2>1. ins.on /\ Placed /\ sched_list' = sched_list
    BY <1>4 DEF InsertLast
  <2>2. PICK c \in Cells \ live : /\ live' = live \cup {c}
                                  /\ at' = [at EXCEPT ![c] = ins.ev.due]
                                  /\ queue' = [queue EXCEPT ![c] = OnlyEvent]
    BY <1>4 DEF InsertLast
  <2> QED  BY <2>1, <2>2, StepNewCell
<1>5. CASE InsertHere
  BY <1>5, StepHere
<1>6. CASE InsertWalk
  <2>1. /\ UNCHANGED <<sched_list, live, at, queue, schedule_time, pc, runnable>>
        /\ ins'.ev = ins.ev /\ ins.on
    <3>1. ins \in InsType
      BY DEF IInv, TypeOK, EventTypeOK
    <3> QED  BY <1>6, <3>1 DEF InsertWalk, cells, flags, InsType
  <2>2. ReadOnlyStable' /\ FutureFull'
    BY <2>1 DEF StepInv, ReadOnlyStable, FutureFull
  <2>3. Leftovers'
    BY <2>1 DEF StepInv, Leftovers
  <2> QED  BY <2>2, <2>3 DEF StepInv
<1> QED  BY <1>1, <1>2, <1>3, <1>4, <1>5, <1>6 DEF Insert

LEMMA StepClients ==
  ASSUME IInv, StepInv, ClientCall
  PROVE  StepInv'
<1>1. ASSUME NEW k \in Kind, NEW d \in Nat, ScheduleEvent(k, d)
      PROVE  StepInv'
  <2>1. /\ UNCHANGED <<sched_list, live, at, queue, schedule_time, pc, runnable>>
        /\ ins'.ev = NewEvent(k, d)
    BY <1>1 DEF ScheduleEvent, cells, flags
  <2>2. ReadOnlyStable' /\ FutureFull'
    BY <2>1 DEF StepInv, ReadOnlyStable, FutureFull
  <2>3. Leftovers'
    <3>1. ins'.ev.from = schedule_time
      BY <2>1 DEF NewEvent
    <3>2. ins'.ev.ro = (pc = "rosync_run")
      BY <2>1 DEF NewEvent
    <3> QED  BY <2>1, <3>1, <3>2 DEF StepInv, Leftovers
  <2> QED  BY <2>2, <2>3 DEF StepInv
<1>2. CASE PushEvent
  <2> DEFINE h == sched_list
             e == NewEvent("push", 0)
  <2>1. /\ UNCHANGED <<sched_list, live, at, schedule_time, ins, pc, runnable>>
        /\ queue' = [queue EXCEPT ![h]["active"] = <<e>> \o @]
        /\ h # Null /\ pc \in ClientPC
    BY <1>2 DEF PushEvent, Client, cells, flags
  <2>2. h \in live /\ e \in Event /\ "active" \in Region /\ "start" \in Region
    <3>1. "push" \in Kind /\ 0 \in Nat
      BY DEF Kind
    <3> QED  BY <2>1, <3>1, CellFacts, NewEventType DEF Region
  <2>3. e.ro = (pc = "rosync_run")
    BY DEF NewEvent
  <2> HIDE DEF h, e
  <2>4. queue[h]["active"] \in Seq(Event)
    BY <2>2, CellFacts
  <2>5. /\ queue'[h]["active"] = <<e>> \o queue[h]["active"]
        /\ \A r \in Region \ {"active"} : queue'[h][r] = queue[h][r]
        /\ \A d \in live \ {h} : queue'[d] = queue[d]
    BY <2>1, <2>2, CellFacts
  <2>6. EventsOf(queue'[h]["active"]) = {e} \cup EventsOf(queue[h]["active"])
        /\ queue'[h]["active"] # <<>>
    BY <2>2, <2>4, <2>5, EventsOfPush
  <2>7. pc \in RoPC => pc = "rosync_run"
    BY <2>1 DEF ClientPC, RoPC
  <2>8. \A r \in ReadWrite : \A f \in EventsOf(queue'[h][r]) :
          f \in EventsOf(queue[h][r]) \/ f = e
    BY <2>5, <2>6 DEF ReadWrite, Region
  <2>9. pc \notin {"del_thr", "del_run"}
    BY <2>1 DEF ClientPC
  <2>10. queue'[h]["start"] = queue[h]["start"]
    BY <2>2, <2>5
  <2>11. \A r \in Region : queue[h][r] # <<>> => queue'[h][r] # <<>>
    BY <2>5, <2>6
  <2>12. pc \in RoPC => \A r \in ReadWrite :
           \A f \in EventsOf(queue'[h][r]) : f \in EventsOf(queue[h][r]) \/ f.ro
    BY <2>3, <2>7, <2>8
  <2>13. h = sched_list
    BY DEF h
  <2> QED
    BY <2>1, <2>2, <2>5, <2>9, <2>10, <2>11, <2>12, <2>13, StepLists
<1>3. CASE InitEvent \/ FinalEvent \/ Stop
  <2>1. UNCHANGED <<sched_list, live, at, queue, schedule_time, ins, pc, runnable>>
    BY <1>3 DEF InitEvent, FinalEvent, Stop, cells, flags
  <2> QED  BY <2>1, StepControl
<1>4. CASE Finish
  <2>1. /\ UNCHANGED <<sched_list, live, at, schedule_time, ins, pc>>
        /\ queue' = Cleared /\ ~runnable' /\ pc \in ClientPC
    BY <1>4 DEF Finish, Client, cells
  <2>2. CASE sched_list = Null
    <3>1. queue' = queue
      BY <2>1, <2>2 DEF Cleared
    <3> QED  BY <2>1, <3>1, StepControl
  <2>3. CASE sched_list # Null
    <3>1. sched_list \in live /\ queue \in [Cells -> [Region -> Seq(Event)]]
          /\ live \subseteq Cells
      BY <2>3, CellFacts
    <3>2. /\ \A c \in live \ {sched_list} : queue'[c] = queue[c]
          /\ \A r \in Region :
               queue'[sched_list][r] = <<>> \/ queue'[sched_list][r] = queue[sched_list][r]
      BY <2>1, <2>3, <3>1 DEF Cleared
    <3>3. \A r \in Region :
            EventsOf(queue'[sched_list][r]) \subseteq EventsOf(queue[sched_list][r])
      BY <3>2, EventsOfShort
    <3>4. pc \notin {"del_thr", "del_run"} /\ ReadWrite \subseteq Region
          /\ "start" \in Region
      BY <2>1 DEF ClientPC, ReadWrite, Region
    <3> QED  BY <2>1, <3>1, <3>2, <3>3, <3>4, StepLists
  <2> QED  BY <2>2, <2>3
<1>5. Region \subseteq Kind /\ "push" \in Kind /\ 0 \in Nat /\ 0..MaxDelay \subseteq Nat
  BY BoundAssumption DEF Kind
<1> QED
  BY <1>1, <1>2, <1>3, <1>4, <1>5 DEF ClientCall, PushFallback

\* The oldest event of list r of the first cell is executed, and what is left
\* of the list is list t.
Taken(r, t) ==
  /\ RunFirst(r)
  /\ queue' = [queue EXCEPT ![sched_list][r] = <<>>,
                            ![sched_list][t] = Tail(queue[sched_list][r])]
  /\ UNCHANGED <<sched_list, live, at, delay, schedule_time, ins, count>>
  /\ ~ins.on /\ sched_list # Null /\ delay[sched_list] = 0

\* The four ways in which an event leaves a list for execution.
LEMMA TakenIs ==
  ASSUME IInv
  PROVE  /\ RunStartEvent => Taken("start", "start")
         /\ RunRosyncEvent => Taken("rosync", "rosync")
         /\ RunDelThr => Taken("del_thr", "del_thr")
         /\ PullEvent => \E r \in ReadWrite :
              /\ Taken(r, "active")
              /\ \A s \in ReadWrite : Level(s) < Level(r) => queue[sched_list][s] = <<>>
<1>1. \A r \in Region : sched_list \in Cells =>
        [queue EXCEPT ![sched_list][r] = Tail(@)] =
        [queue EXCEPT ![sched_list][r] = <<>>,
                      ![sched_list][r] = Tail(queue[sched_list][r])]
  BY CellFacts
<1>2. pc \in WorkPC => sched_list # Null /\ delay[sched_list] = 0 /\ sched_list \in Cells
  BY CellFacts DEF IInv, AtHead
<1>3. RunStartEvent => Taken("start", "start")
  <2> SUFFICES ASSUME RunStartEvent PROVE Taken("start", "start")
    OBVIOUS
  <2>1. pc \in WorkPC /\ ~ins.on /\ "start" \in Region
    BY DEF RunStartEvent, Goto, WorkPC, Region
  <2> QED  BY <1>1, <1>2, <2>1 DEF RunStartEvent, Taken, cells
<1>4. RunRosyncEvent => Taken("rosync", "rosync")
  <2> SUFFICES ASSUME RunRosyncEvent PROVE Taken("rosync", "rosync")
    OBVIOUS
  <2>1. pc \in WorkPC /\ ~ins.on /\ "rosync" \in Region
    BY DEF RunRosyncEvent, Goto, WorkPC, Region
  <2> QED  BY <1>1, <1>2, <2>1 DEF RunRosyncEvent, Taken, cells
<1>5. RunDelThr => Taken("del_thr", "del_thr")
  <2> SUFFICES ASSUME RunDelThr PROVE Taken("del_thr", "del_thr")
    OBVIOUS
  <2>1. pc \in WorkPC /\ ~ins.on /\ "del_thr" \in Region
    BY DEF RunDelThr, Goto, WorkPC, Region
  <2> QED  BY <1>1, <1>2, <2>1 DEF RunDelThr, Taken, cells
<1>6. ASSUME PullEvent
      PROVE  \E r \in ReadWrite :
              /\ Taken(r, "active")
              /\ \A s \in ReadWrite : Level(s) < Level(r) => queue[sched_list][s] = <<>>
  <2>1. sched_list # Null /\ delay[sched_list] = 0 /\ pc \notin ClientPC
    BY <1>6, <1>2 DEF PullEvent, AtPull, WorkPC, ClientPC
  <2>2. ~ins.on
    BY <2>1, NotWalking
  <2>3. UNCHANGED <<sched_list, live, at, delay, schedule_time, ins, count>>
    BY <1>6 DEF PullEvent, cells
  <2>4. PICK r \in ReadWrite :
          /\ RunFirst(r)
          /\ \A s \in ReadWrite : Level(s) < Level(r) => queue[sched_list][s] = <<>>
          /\ queue' = [queue EXCEPT ![sched_list][r] = <<>>,
                                    ![sched_list]["active"] = Tail(queue[sched_list][r])]
    BY <1>6 DEF PullEvent
  <2>5. Taken(r, "active")
    BY <2>1, <2>2, <2>3, <2>4 DEF Taken
  <2> QED  BY <2>4, <2>5
<1> QED  BY <1>3, <1>4, <1>5, <1>6

\* The lists after such a step.
LEMMA TakenLists ==
  ASSUME IInv, NEW r \in Region, NEW t \in Region, Taken(r, t)
  PROVE  LET h == sched_list
             e == Head(queue[h][r])
         IN  /\ h \in live /\ at[h] = schedule_time
             /\ queue[h][r] \in Seq(Event) /\ queue[h][r] # <<>>
             /\ e \in Event /\ e \in EventsOf(queue[h][r])
             /\ cur' = e /\ ran' = ran \cup {e}
             /\ EventsOf(queue[h][r]) = {e} \cup EventsOf(Tail(queue[h][r]))
             /\ queue'[h][t] = Tail(queue[h][r])
             /\ r # t => queue'[h][r] = <<>>
             /\ \A s \in Region \ {r, t} : queue'[h][s] = queue[h][s]
             /\ \A c \in live \ {h} : queue'[c] = queue[c]
<1> DEFINE h == sched_list
<1>1. /\ queue[h][r] # <<>> /\ cur' = Head(queue[h][r])
      /\ ran' = ran \cup {Head(queue[h][r])}
      /\ queue' = [queue EXCEPT ![h][r] = <<>>, ![h][t] = Tail(queue[h][r])]
      /\ h # Null /\ delay[h] = 0
  BY DEF Taken, RunFirst
<1>2. h \in live /\ h \in Cells /\ at[h] = schedule_time
  BY <1>1, CellFacts
<1>3. queue \in [Cells -> [Region -> Seq(Event)]] /\ live \subseteq Cells
  BY CellFacts
<1> HIDE DEF h
<1>4. /\ queue[h][r] \in Seq(Event) /\ Head(queue[h][r]) \in Event
      /\ EventsOf(queue[h][r]) = {Head(queue[h][r])} \cup EventsOf(Tail(queue[h][r]))
  BY <1>1, <1>2, <1>3, EventsOfTail
<1>5. /\ queue'[h][t] = Tail(queue[h][r])
      /\ r # t => queue'[h][r] = <<>>
      /\ \A s \in Region \ {r, t} : queue'[h][s] = queue[h][s]
      /\ \A c \in live \ {h} : queue'[c] = queue[c]
  BY <1>1, <1>2, <1>3
<1> QED  BY <1>1, <1>2, <1>4, <1>5 DEF h

LEMMA StepTakes ==
  ASSUME IInv, StepInv, RunStartEvent \/ RunRosyncEvent \/ RunDelThr \/ PullEvent
  PROVE  StepInv'
<1> DEFINE h == sched_list
<1>0. runnable' = runnable /\ pc' \notin EndPC /\ pc \notin EndPC
  BY DEF RunStartEvent, RunRosyncEvent, RunDelThr, PullEvent, Goto, AtPull, EndPC, flags
<1>1. CASE RunStartEvent
  <2>1. Taken("start", "start") /\ "start" \in Region /\ pc' = "start_run"
    BY <1>1, TakenIs DEF RunStartEvent, Goto, Region
  <2>2. UNCHANGED <<sched_list, live, at, schedule_time, ins>> /\ ~ins.on
    BY <2>1 DEF Taken
  <2>3. h \in live /\ at[h] = schedule_time /\ \A c \in live \ {h} : queue'[c] = queue[c]
    BY <2>1, TakenLists
  <2> QED  BY <1>0, <2>1, <2>2, <2>3, StepLists DEF StartPC, RoPC
<1>2. CASE RunRosyncEvent
  <2>1. Taken("rosync", "rosync") /\ "rosync" \in Region /\ pc' = "rosync_run"
        /\ pc = "rosync"
    BY <1>2, TakenIs DEF RunRosyncEvent, Goto, Region
  <2>2. UNCHANGED <<sched_list, live, at, schedule_time, ins>> /\ ~ins.on
    BY <2>1 DEF Taken
  <2>3. /\ h \in live /\ at[h] = schedule_time
        /\ \A c \in live \ {h} : queue'[c] = queue[c]
        /\ \A s \in Region \ {"rosync", "rosync"} : queue'[h][s] = queue[h][s]
    BY <2>1, TakenLists
  <2>4. queue'[h]["start"] = queue[h]["start"]
        /\ \A s \in ReadWrite : queue'[h][s] = queue[h][s]
    <3>1. "start" \in Region \ {"rosync", "rosync"}
          /\ ReadWrite \subseteq Region \ {"rosync", "rosync"}
      BY DEF Region, ReadWrite
    <3> QED  BY <2>3, <3>1
  <2> QED  BY <1>0, <2>1, <2>2, <2>3, <2>4, StepLists DEF StartPC, RoPC
<1>3. CASE RunDelThr
  <2>1. Taken("del_thr", "del_thr") /\ "del_thr" \in Region /\ pc' = "del_run"
        /\ pc = "del_thr"
    BY <1>3, TakenIs DEF RunDelThr, Goto, Region
  <2>2. UNCHANGED <<sched_list, live, at, schedule_time, ins>> /\ ~ins.on
    BY <2>1 DEF Taken
  <2>3. /\ h \in live /\ at[h] = schedule_time
        /\ \A c \in live \ {h} : queue'[c] = queue[c]
        /\ \A s \in Region \ {"del_thr", "del_thr"} : queue'[h][s] = queue[h][s]
    BY <2>1, TakenLists
  <2>4. queue'[h]["start"] = queue[h]["start"] /\ queue'[h]["rosync"] = queue[h]["rosync"]
        /\ \A s \in ReadWrite : queue'[h][s] = queue[h][s]
    <3>1. {"start", "rosync"} \cup ReadWrite \subseteq Region \ {"del_thr", "del_thr"}
      BY DEF Region, ReadWrite
    <3> QED  BY <2>3, <3>1
  <2> QED  BY <1>0, <2>1, <2>2, <2>3, <2>4, StepLists DEF StartPC, RoPC
<1>4. CASE PullEvent
  <2>1. PICK r \in ReadWrite : Taken(r, "active")
    BY <1>4, TakenIs
  <2>2. UNCHANGED <<sched_list, live, at, schedule_time, ins>> /\ ~ins.on
    BY <2>1 DEF Taken
  <2>3. r \in Region /\ "active" \in Region /\ "start" \in Region \ {r, "active"}
    BY DEF Region, ReadWrite
  <2>4. /\ h \in live /\ at[h] = schedule_time
        /\ \A c \in live \ {h} : queue'[c] = queue[c]
        /\ queue'[h]["start"] = queue[h]["start"]
    BY <2>1, <2>3, TakenLists
  <2>5. pc' \notin RoPC /\ pc' \notin {"del_thr", "del_run"} /\ pc \notin StartPC
    BY <1>4 DEF PullEvent, AtPull, StartPC, RoPC
  <2> QED  BY <1>0, <2>2, <2>4, <2>5, StepLists
<1> QED  BY <1>1, <1>2, <1>3, <1>4

LEMMA StepControls ==
  ASSUME IInv, StepInv,
         \/ Returns
         \/ RunInitEvent \/ InitDone \/ StartSimulation
         \/ OutOfEvents \/ SeeStop \/ ResetStop \/ Interact
         \/ DebuggerFinished \/ (\E step \in BOOLEAN : DebuggerReturn(step))
         \/ FinishedBreak \/ StartDone \/ NothingToPull \/ RosyncDone
         \/ RunFinalEvent \/ FinalDone
         \/ \E t \in BOOLEAN : Signal(t)
  PROVE  StepInv'
<1>1. CASE Returns
  <2> USE <1>1 DEF Returns, EndOfCompile, EndInitEvent, EndNextSimTime,
        EndStartEvent, EndActiveEvent, EndRosyncEvent, EndDelThr, EndFinalEvent,
        Postsim, Return, Goto
  <2>1. UNCHANGED <<sched_list, live, at, queue, schedule_time, ins, runnable>>
        /\ ~ins.on
    BY DEF cells, flags
  <2>2. /\ pc' \in RoPC => pc \in RoPC
        /\ pc' \in {"del_thr", "del_run"} => pc \in {"del_thr", "del_run"}
        /\ pc' \notin StartPC => pc \notin StartPC
        /\ pc' \notin EndPC => pc \notin EndPC
    BY DEF RoPC, StartPC, EndPC
  <2> QED  BY <2>1, <2>2, StepControl
<1>2. CASE \E t \in BOOLEAN : Signal(t)
  <2>1. UNCHANGED <<sched_list, live, at, queue, schedule_time, ins, pc, runnable>>
    BY <1>2 DEF Signal, cells
  <2> QED  BY <2>1, StepControl
<1>3. CASE \/ RunInitEvent \/ InitDone \/ StartSimulation
           \/ OutOfEvents \/ SeeStop \/ ResetStop \/ Interact
           \/ DebuggerFinished \/ (\E step \in BOOLEAN : DebuggerReturn(step))
           \/ FinishedBreak \/ StartDone \/ NothingToPull \/ RosyncDone
           \/ RunFinalEvent \/ FinalDone
  <2> USE <1>3 DEF RunInitEvent, InitDone, StartSimulation, OutOfEvents, SeeStop,
            ResetStop, Interact, DebuggerFinished, DebuggerReturn,
            FinishedBreak, StartDone, NothingToPull, RosyncDone, RunFinalEvent,
            FinalDone, Leave, Goto, AtPull
  <2>1. UNCHANGED <<sched_list, live, at, queue, schedule_time, ins>>
    BY DEF cells
  <2>2. ~ins.on
    BY NotWalking DEF ClientPC
  <2>3. /\ pc' \in RoPC =>
             pc \in RoPC \/ \A r \in ReadWrite : queue[sched_list][r] = <<>>
        /\ pc' \in {"del_thr", "del_run"} =>
             pc \in {"del_thr", "del_run"} \/ queue[sched_list]["rosync"] = <<>>
        /\ pc' \notin StartPC =>
             pc \notin StartPC \/ queue[sched_list]["start"] = <<>>
    BY DEF RoPC, StartPC
  <2>4. runnable' /\ pc' \notin EndPC => runnable /\ pc \notin EndPC
    BY DEF EndPC, flags
  <2> HIDE <1>3
  <2> QED  BY <2>1, <2>2, <2>3, <2>4, StepControl
<1> QED  BY <1>1, <1>2, <1>3

LEMMA NextStep ==
  ASSUME IInv, StepInv, [Next]_vars
  PROVE  StepInv'
<1>1. CASE ClientCall
  BY <1>1, StepClients
<1>2. CASE Insert
  BY <1>2, StepInserts
<1>3. CASE StopIsFinish
  <2>1. /\ UNCHANGED <<sched_list, live, at, schedule_time, ins>>
        /\ pc' = "final" /\ pc = "stop_handler" /\ queue' = Cleared
    BY <1>3 DEF StopIsFinish, Leave, cells
  <2>2. ~ins.on
    BY <2>1, NotWalking DEF ClientPC
  <2>3. CASE sched_list = Null
    <3>1. queue' = queue
      BY <2>1, <2>3 DEF Cleared
    <3> QED  BY <2>1, <2>2, <3>1, StepControl DEF RoPC, StartPC, EndPC
  <2>4. CASE sched_list # Null
    <3>1. sched_list \in live /\ "start" \in Region
      BY <2>4, CellFacts DEF Region
    <3>2. /\ \A c \in live \ {sched_list} : queue'[c] = queue[c]
          /\ queue'[sched_list]["start"] = queue[sched_list]["start"]
      BY <2>1, <2>4, <3>1, CellFacts DEF Cleared
    <3> QED  BY <2>1, <2>2, <3>1, <3>2, StepLists DEF RoPC, StartPC, EndPC
  <2> QED  BY <2>3, <2>4
<1>4. CASE AdvanceTime
  <2>1. /\ UNCHANGED <<sched_list, live, at, queue, ins, runnable>>
        /\ pc = "loop" /\ pc' = "nextsim" /\ ~ins.on /\ sched_list # Null
        /\ schedule_time' = schedule_time + delay[sched_list]
    BY <1>4 DEF AdvanceTime, Goto, flags
  <2>2. schedule_time \in Nat /\ delay[sched_list] \in Nat
        /\ \A c \in live : at[c] \in Nat
    BY <2>1, CellFacts
  <2>3. ReadOnlyStable' /\ Leftovers'
    BY <2>1 DEF ReadOnlyStable, Leftovers
  <2>4. FutureFull'
    BY <2>1, <2>2 DEF StepInv, FutureFull, EndPC
  <2> QED  BY <2>3, <2>4 DEF StepInv
<1>5. CASE EndCell
  <2> DEFINE h == sched_list
  <2>1. /\ pc = "del_thr" /\ pc' = "loop" /\ ~ins.on /\ ins' = ins
        /\ live' = live \ {h} /\ at' = [at EXCEPT ![h] = 0]
        /\ queue' = [queue EXCEPT ![h] = [r \in Region |-> <<>>]]
        /\ UNCHANGED <<schedule_time, runnable>>
    BY <1>5 DEF EndCell, Goto, flags
  <2>2. h \in live /\ queue \in [Cells -> [Region -> Seq(Event)]]
        /\ live \subseteq Cells /\ at \in [Cells -> Nat]
    BY <2>1, CellFacts DEF IInv, AtHead, WorkPC
  <2>3. \A c \in live' : /\ c \in live /\ queue'[c] = queue[c] /\ at'[c] = at[c]
                         /\ at[c] # schedule_time
    BY <2>1, <2>2, CellFacts
  <2> HIDE DEF h
  <2>4. ReadOnlyStable' /\ Leftovers'
    BY <2>1, <2>3 DEF ReadOnlyStable, Leftovers
  <2>5. FutureFull'
    BY <2>1, <2>3 DEF StepInv, FutureFull, EndPC
  <2> QED  BY <2>4, <2>5 DEF StepInv
<1>6. CASE UNCHANGED vars
  <2>1. UNCHANGED <<sched_list, live, at, queue, schedule_time, ins, pc, runnable>>
    BY <1>6 DEF vars, cells, flags
  <2> QED  BY <2>1, StepControl
<1> QED
  BY <1>1, <1>2, <1>3, <1>4, <1>5, <1>6, StepControls, StepTakes
     DEF Next, MainThread, Simulate, Done

LEMMA InitStep == Init => StepInv
BY DEF Init, StepInv, ReadOnlyStable, Leftovers, FutureFull, NoIns

\* When the read-only callbacks of a time step run, its writes are over.
THEOREM ReadOnlySynch == Spec => []ReadOnlyStable
<1>1. IInv /\ StepInv /\ [Next]_vars => StepInv'
  BY NextStep
<1>2. StepInv => ReadOnlyStable
  BY DEF StepInv
<1> QED  BY <1>1, <1>2, InitStep, ScheduleInvariant, PTL DEF Spec

-----------------------------------------------------------------------------
(* The order of the events on a list, and of the lists of a cell.          *)

LEMMA ListedShort == Listed(<<>>) /\ \A e : Listed(<<e>>)
BY DEF Listed

LEMMA PrecedesNumber == \A e, f : Precedes(f, e) => f.id < e.id
BY DEF Precedes

LEMMA ListedAppend ==
  ASSUME NEW s \in Seq(Event), NEW e \in Event, Listed(s), e.kind # "push",
         \A f \in EventsOf(s) : f.id < e.id
  PROVE  Listed(Append(s, e))
<1> DEFINE t == Append(s, e)
<1>1. /\ DOMAIN t = 1 .. Len(s) + 1 /\ DOMAIN s = 1 .. Len(s) /\ Len(s) \in Nat
      /\ t[Len(s) + 1] = e /\ \A i \in DOMAIN s : t[i] = s[i] /\ s[i] \in Event
  OBVIOUS
<1>2. \A i \in DOMAIN s : s[i].id < e.id
  BY DEF EventsOf
<1> HIDE DEF t
<1>3. e.id \in Nat /\ \A f \in Event : f.id \in Nat
  BY DEF Event
<1>4. ASSUME NEW i \in DOMAIN t, NEW j \in DOMAIN t, i < j
      PROVE  /\ t[i].id # t[j].id
             /\ t[i].kind # "push" => ~Precedes(t[j], t[i])
             /\ t[j].kind = "push" => t[i].kind = "push" /\ t[j].id < t[i].id
  <2>1. CASE j \in DOMAIN s
    <3>1. i \in DOMAIN s
      BY <1>1, <1>4, <2>1
    <3> QED  BY <1>1, <1>4, <2>1, <3>1 DEF Listed
  <2>2. CASE j \notin DOMAIN s
    <3>1. i \in DOMAIN s /\ j = Len(s) + 1
      BY <1>1, <1>4, <2>2
    <3>2. t[j] = e /\ t[i] = s[i] /\ t[i].id < e.id /\ s[i].id \in Nat
      BY <1>1, <1>2, <1>3, <3>1
    <3>3. ~Precedes(t[j], t[i])
      BY <1>3, <3>2, PrecedesNumber
    <3> QED  BY <1>3, <3>2, <3>3
  <2> QED  BY <2>1, <2>2
<1>5. Listed(t)
  BY <1>4 DEF Listed
<1> QED  BY <1>5 DEF t

LEMMA ListedPush ==
  ASSUME NEW s \in Seq(Event), NEW e \in Event, Listed(s), e.kind = "push",
         \A f \in EventsOf(s) : f.id < e.id
  PROVE  Listed(<<e>> \o s)
<1> DEFINE t == <<e>> \o s
<1>1. /\ DOMAIN t = 1 .. Len(s) + 1 /\ DOMAIN s = 1 .. Len(s) /\ Len(s) \in Nat
      /\ t[1] = e /\ \A i \in 2 .. Len(s) + 1 : t[i] = s[i - 1]
  OBVIOUS
<1>2. \A i \in DOMAIN s : s[i].id < e.id /\ s[i] \in Event
  BY DEF EventsOf
<1> HIDE DEF t
<1>3. e.id \in Nat /\ \A f \in Event : f.id \in Nat
  BY DEF Event
<1>4. ASSUME NEW i \in DOMAIN t, NEW j \in DOMAIN t, i < j
      PROVE  /\ t[i].id # t[j].id
             /\ t[i].kind # "push" => ~Precedes(t[j], t[i])
             /\ t[j].kind = "push" => t[i].kind = "push" /\ t[j].id < t[i].id
  <2>1. j - 1 \in DOMAIN s /\ t[j] = s[j - 1]
    BY <1>1, <1>4
  <2>2. CASE i = 1
    BY <1>1, <1>2, <1>3, <2>1, <2>2
  <2>3. CASE i # 1
    <3>1. i - 1 \in DOMAIN s /\ t[i] = s[i - 1] /\ i - 1 < j - 1
      BY <1>1, <1>4, <2>3
    <3> QED  BY <2>1, <3>1 DEF Listed
  <2> QED  BY <2>2, <2>3
<1>5. Listed(t)
  BY <1>4 DEF Listed
<1> QED  BY <1>5 DEF t

LEMMA ListedTail ==
  ASSUME NEW s \in Seq(Event), s # <<>>, Listed(s)
  PROVE  /\ Listed(Tail(s))
         /\ \A f \in EventsOf(Tail(s)) :
              /\ f.id # Head(s).id
              /\ Head(s).kind # "push" => ~Precedes(f, Head(s))
<1> DEFINE t == Tail(s)
<1>1. /\ DOMAIN s = 1 .. Len(s) /\ DOMAIN t = 1 .. Len(s) - 1 /\ Len(s) \in Nat
      /\ Len(s) > 0 /\ s[1] = Head(s) /\ \A i \in DOMAIN t : t[i] = s[i + 1]
  OBVIOUS
<1> HIDE DEF t
<1>2. \A i \in DOMAIN t : i + 1 \in DOMAIN s /\ 1 \in DOMAIN s /\ 1 < i + 1
  BY <1>1
<1>3. Listed(t)
  <2> SUFFICES ASSUME NEW i \in DOMAIN t, NEW j \in DOMAIN t, i < j
               PROVE  /\ t[i].id # t[j].id
                      /\ t[i].kind # "push" => ~Precedes(t[j], t[i])
                      /\ t[j].kind = "push" => t[i].kind = "push" /\ t[j].id < t[i].id
    BY DEF Listed
  <2>1. i + 1 < j + 1
    BY <1>1
  <2> QED  BY <1>1, <1>2, <2>1 DEF Listed
<1>4. ASSUME NEW f \in EventsOf(t)
      PROVE  f.id # Head(s).id /\ (Head(s).kind # "push" => ~Precedes(f, Head(s)))
  <2>1. PICK i \in DOMAIN t : f = t[i]
    BY <1>4 DEF EventsOf
  <2> QED  BY <1>1, <1>2, <2>1 DEF Listed
<1> QED  BY <1>3, <1>4 DEF t

\* An event on a list other than the active one does not have to run before
\* an active event.
LEMMA PrecedesActive ==
  ASSUME NEW e, NEW f, NEW s \in Region \ {"active"}, Belongs(f, s), e.kind = "active"
  PROVE  ~Precedes(f, e)
BY DEF Precedes, Belongs, Region, Rank

\* When a list becomes the active one, nothing behind it has to run first.
LEMMA PrecedesLater ==
  ASSUME NEW e, NEW f, NEW r \in ReadWrite \ {"active"},
         NEW s \in Region \ {"active", r}, s \in ReadWrite => ~(Level(s) < Level(r)),
         Belongs(e, r), Belongs(f, s)
  PROVE  ~Precedes(f, e)
<1>1. e.kind = r /\ f.kind = s
  BY DEF Belongs
<1>2. CASE s = "start"
  BY <1>1, <1>2 DEF Precedes, ReadWrite
<1>3. CASE r = "inactive" /\ s # "start"
  BY <1>1, <1>3 DEF Precedes, ReadWrite, Region, Level, Rank
<1>4. CASE r = "nbassign" /\ s # "start"
  BY <1>1, <1>4 DEF Precedes, ReadWrite, Region, Level, Rank
<1>5. CASE r = "rwsync" /\ s # "start"
  BY <1>1, <1>5 DEF Precedes, ReadWrite, Region, Level, Rank
<1> QED  BY <1>2, <1>3, <1>4, <1>5 DEF ReadWrite

Lists == [Region -> Seq(Event)]

\* What InOrder asks of two lists.
LEMMA CrossOrder ==
  ASSUME NEW q, InOrder(q), NEW r \in Region, NEW s \in Region, r # s,
         NEW e \in EventsOf(q[r]), NEW f \in EventsOf(q[s])
  PROVE  e.id # f.id /\ (r = "active" /\ e.kind # "push" => ~Precedes(f, e))
BY DEF InOrder

\* Lists that lose events stay in order.
LEMMA InOrderLess ==
  ASSUME NEW q, NEW p, InOrder(q),
         \A r \in Region : Listed(p[r]) /\ EventsOf(p[r]) \subseteq EventsOf(q[r])
  PROVE  InOrder(p)
<1>1. ASSUME NEW r \in Region
      PROVE  Listed(p[r]) /\ \A e \in EventsOf(p[r]) : Belongs(e, r)
  BY DEF InOrder
<1>2. ASSUME NEW r \in Region, NEW s \in Region, r # s,
             NEW e \in EventsOf(p[r]), NEW f \in EventsOf(p[s])
      PROVE  e.id # f.id /\ (r = "active" /\ e.kind # "push" => ~Precedes(f, e))
  <2>1. e \in EventsOf(q[r]) /\ f \in EventsOf(q[s])
    OBVIOUS
  <2> QED  BY <1>2, <2>1, CrossOrder
<1> QED  BY <1>1, <1>2 DEF InOrder

\* A newer event joins list k, at its end or, when it is pushed, at its front.
LEMMA InOrderMore ==
  ASSUME NEW q, NEW p, InOrder(q), NEW k \in Region, NEW e \in Event,
         Belongs(e, k), k = "active" => e.kind \in {"active", "push"},
         \A r \in Region : \A f \in EventsOf(q[r]) : f \in Event /\ f.id < e.id,
         Listed(p[k]), EventsOf(p[k]) = EventsOf(q[k]) \cup {e},
         \A r \in Region \ {k} : p[r] = q[r]
  PROVE  InOrder(p)
<1>0. e.id \in Nat /\ \A f \in Event : f.id \in Nat
  BY DEF Event
<1>1. ASSUME NEW r \in Region
      PROVE  Listed(p[r]) /\ \A f \in EventsOf(p[r]) : Belongs(f, r)
  <2>1. CASE r = k
    BY <2>1 DEF InOrder
  <2>2. CASE r # k
    BY <2>2 DEF InOrder
  <2> QED  BY <2>1, <2>2
<1>2. ASSUME NEW r \in Region, NEW s \in Region, r # s,
             NEW a \in EventsOf(p[r]), NEW b \in EventsOf(p[s])
      PROVE  a.id # b.id /\ (r = "active" /\ a.kind # "push" => ~Precedes(b, a))
  <2>1. CASE a \in EventsOf(q[r]) /\ b \in EventsOf(q[s])
    BY <1>2, <2>1, CrossOrder
  <2>2. CASE a \notin EventsOf(q[r])
    <3>1. a = e /\ r = k /\ b \in EventsOf(q[s])
      BY <1>2, <2>2
    <3>2. b.id < a.id /\ b.id \in Nat /\ a.id \in Nat
      BY <1>0, <3>1
    <3>3. r = "active" /\ a.kind # "push" => ~Precedes(b, a)
      <4>1. Belongs(b, s)
        BY <3>1 DEF InOrder
      <4> QED  BY <1>2, <3>1, <4>1, PrecedesActive
    <3> QED  BY <3>2, <3>3
  <2>3. CASE b \notin EventsOf(q[s])
    <3>1. b = e /\ s = k /\ a \in EventsOf(q[r])
      BY <1>2, <2>3
    <3>2. a.id < b.id /\ b.id \in Nat /\ a.id \in Nat
      BY <1>0, <3>1
    <3>3. ~Precedes(b, a)
      BY <3>2, PrecedesNumber
    <3> QED  BY <3>2, <3>3
  <2> QED  BY <2>1, <2>2, <2>3
<1> QED  BY <1>1, <1>2 DEF InOrder

LEMMA InOrderEmpty ==
  ASSUME NEW q, \A r \in Region : q[r] = <<>>
  PROVE  InOrder(q)
BY ListedShort, EventsOfShort DEF InOrder

\* The lists of a new cell.
LEMMA InOrderOnly ==
  ASSUME NEW p, NEW k \in Region, NEW e \in Event,
         Belongs(e, k), k = "active" => e.kind \in {"active", "push"},
         p = [r \in Region |-> IF r = k THEN <<e>> ELSE <<>>]
  PROVE  InOrder(p)
<1> DEFINE q == [r \in Region |-> <<>>]
<1>1. InOrder(q)
  BY InOrderEmpty
<1>2. /\ \A r \in Region : q[r] = <<>> /\ EventsOf(q[r]) = {}
      /\ Listed(p[k]) /\ EventsOf(p[k]) = {e}
      /\ \A r \in Region \ {k} : p[r] = q[r]
  BY ListedShort, EventsOfShort
<1> HIDE DEF q
<1>3. /\ \A r \in Region : \A f \in EventsOf(q[r]) : f \in Event /\ f.id < e.id
      /\ EventsOf(p[k]) = EventsOf(q[k]) \cup {e}
  BY <1>2
<1> QED  BY <1>1, <1>2, <1>3, InOrderMore

\* List r, all lists before it being empty, becomes the active list without
\* its first event.
LEMMA InOrderMoved ==
  ASSUME NEW q \in Lists, NEW p, InOrder(q), NEW r \in ReadWrite \ {"active"},
         \A s \in ReadWrite : Level(s) < Level(r) => q[s] = <<>>,
         q[r] # <<>>, p["active"] = Tail(q[r]), p[r] = <<>>,
         \A s \in Region \ {r, "active"} : p[s] = q[s]
  PROVE  InOrder(p)
<1>1. "active" \in Region /\ r \in Region /\ ReadWrite \subseteq Region
  BY DEF Region, ReadWrite
<1>2. q[r] \in Seq(Event) /\ Listed(q[r])
  BY <1>1 DEF Lists, InOrder
<1>3. /\ Listed(p["active"]) /\ EventsOf(p["active"]) \subseteq EventsOf(q[r])
      /\ EventsOf(p[r]) = {} /\ Listed(p[r])
  BY <1>2, ListedTail, EventsOfTail, ListedShort, EventsOfShort
<1>4. \A f \in EventsOf(q[r]) : Belongs(f, r) /\ f.kind = r
  BY <1>1 DEF InOrder, Belongs
<1>5. ASSUME NEW s \in Region
      PROVE  Listed(p[s]) /\ \A f \in EventsOf(p[s]) : Belongs(f, s)
  <2>1. CASE s = "active"
    BY <1>3, <1>4, <2>1 DEF Belongs
  <2>2. CASE s = r
    BY <1>3, <2>2
  <2>3. CASE s \notin {r, "active"}
    BY <2>3 DEF InOrder
  <2> QED  BY <2>1, <2>2, <2>3
<1>6. ASSUME NEW u \in Region, NEW s \in Region, u # s,
             NEW a \in EventsOf(p[u]), NEW b \in EventsOf(p[s])
      PROVE  a.id # b.id /\ (u = "active" /\ a.kind # "push" => ~Precedes(b, a))
  <2>1. u # r /\ s # r
    BY <1>3
  <2>2. CASE u = "active"
    <3>1. s \notin {r, "active"} /\ b \in EventsOf(q[s]) /\ a \in EventsOf(q[r])
      BY <1>3, <1>6, <2>1, <2>2
    <3>2. a.id # b.id
      BY <1>1, <3>1, CrossOrder
    <3>3. s \in ReadWrite => ~(Level(s) < Level(r))
      BY <3>1, EventsOfShort
    <3>4. Belongs(a, r) /\ Belongs(b, s)
      BY <1>4, <3>1 DEF InOrder
    <3> QED  BY <3>1, <3>2, <3>3, <3>4, PrecedesLater
  <2>3. CASE s = "active"
    <3>1. u \notin {r, "active"} /\ a \in EventsOf(q[u]) /\ b \in EventsOf(q[r])
      BY <1>3, <1>6, <2>1, <2>3
    <3> QED  BY <1>1, <3>1, CrossOrder
  <2>4. CASE u # "active" /\ s # "active"
    <3>1. a \in EventsOf(q[u]) /\ b \in EventsOf(q[s])
      BY <2>1, <2>4
    <3> QED  BY <1>6, <2>4, <3>1, CrossOrder
  <2> QED  BY <2>2, <2>3, <2>4
<1> QED  BY <1>5, <1>6 DEF InOrder

-----------------------------------------------------------------------------
(* OrderInv is kept by every step.                                         *)

\* Events of a list of a list outside of the cells keep their kind.
LEMMA ApartStep ==
  ASSUME IInv, ApartKinds,
         \/ lists' = lists
         \/ InitEvent \/ FinalEvent \/ RunInitEvent \/ RunFinalEvent
  PROVE  ApartKinds'
<1>0. schedule_init_list \in Seq(Event) /\ schedule_final_list \in Seq(Event)
  BY DEF IInv, TypeOK, EventTypeOK
<1>1. CASE lists' = lists
  BY <1>1 DEF ApartKinds, lists
<1>2. CASE InitEvent
  <2>1. NewEvent("init", 0) \in Event /\ NewEvent("init", 0).kind = "init"
    BY NewEventType DEF Kind, NewEvent
  <2>2. /\ EventsOf(schedule_init_list') =
             EventsOf(schedule_init_list) \cup {NewEvent("init", 0)}
        /\ schedule_final_list' = schedule_final_list
    BY <1>0, <1>2, <2>1, EventsOfAppend DEF InitEvent
  <2> QED  BY <2>1, <2>2 DEF ApartKinds
<1>3. CASE FinalEvent
  <2>1. NewEvent("final", 0) \in Event /\ NewEvent("final", 0).kind = "final"
    BY NewEventType DEF Kind, NewEvent
  <2>2. /\ EventsOf(schedule_final_list') =
             EventsOf(schedule_final_list) \cup {NewEvent("final", 0)}
        /\ schedule_init_list' = schedule_init_list
    BY <1>0, <1>3, <2>1, EventsOfAppend DEF FinalEvent
  <2> QED  BY <2>1, <2>2 DEF ApartKinds
<1>4. CASE RunInitEvent
  <2>1. /\ EventsOf(schedule_init_list') \subseteq EventsOf(schedule_init_list)
        /\ schedule_final_list' = schedule_final_list
    BY <1>0, <1>4, EventsOfTail DEF RunInitEvent
  <2> QED  BY <2>1 DEF ApartKinds
<1>5. CASE RunFinalEvent
  <2>1. /\ EventsOf(schedule_final_list') \subseteq EventsOf(schedule_final_list)
        /\ schedule_init_list' = schedule_init_list
    BY <1>0, <1>5, EventsOfTail DEF RunFinalEvent
  <2> QED  BY <2>1 DEF ApartKinds
<1> QED  BY <1>1, <1>2, <1>3, <1>4, <1>5

\* A step that leaves the lists of the cells and the walk alone.
LEMMA OrderControl ==
  ASSUME IInv, OrderInv, UNCHANGED <<live, queue, ins, ran>>, ApartKinds',
         count' \in Nat, count' >= count, ins.on => delay' = delay
  PROVE  OrderInv'
<1>1. count \in Nat
  BY CellFacts
<1>2. Numbered'
  <2>1. ASSUME NEW c \in live, NEW r \in Region, NEW e \in EventsOf(queue[c][r])
        PROVE  e.id \in 1 .. count' /\ (ins.on => e.id < ins.ev.id)
    BY <1>1 DEF OrderInv, Numbered
  <2>2. ins.on => ins.ev.id \in 1 .. count'
    BY <1>1 DEF OrderInv, Numbered
  <2>3. ASSUME NEW e \in ran PROVE e.id <= count'
    <3>1. e.id \in Nat /\ e.id <= count
      BY DEF IInv, TypeOK, EventTypeOK, Event, OrderInv, Numbered
    <3> QED  BY <1>1, <3>1
  <2> QED  BY <2>1, <2>2, <2>3 DEF Numbered
<1>3. PushAlone'
  BY DEF OrderInv, PushAlone
<1> QED  BY <1>2, <1>3 DEF OrderInv

LEMMA OrderSchedule ==
  ASSUME IInv, OrderInv, NEW k \in Kind, NEW d \in Nat, ScheduleEvent(k, d),
         k = "push" => d = 0 /\ (sched_list # Null => delay[sched_list] > 0)
  PROVE  OrderInv'
<1>1. /\ UNCHANGED <<live, queue, ran, lists, delay>> /\ count' = count + 1 /\ ~ins.on
      /\ ins' = [on |-> TRUE, ev |-> NewEvent(k, d), delay |-> d, prev |-> Null,
                 ctim |-> sched_list]
  BY DEF ScheduleEvent, Client, cells
<1>2. NewEvent(k, d).id = count + 1 /\ NewEvent(k, d).kind = k /\ count \in Nat
  BY CellFacts DEF NewEvent
<1>3. Numbered'
  <2>1. ASSUME NEW c \in live, NEW r \in Region, NEW e \in EventsOf(queue[c][r])
        PROVE  e.id \in 1 .. count + 1 /\ e.id < count + 1
    BY <1>2 DEF OrderInv, Numbered
  <2>2. ASSUME NEW e \in ran PROVE e.id <= count + 1
    <3>1. e.id \in Nat /\ e.id <= count
      BY DEF IInv, TypeOK, EventTypeOK, Event, OrderInv, Numbered
    <3> QED  BY <1>2, <3>1
  <2>3. ins'.ev.id = count + 1 /\ count + 1 \in 1 .. count + 1
    BY <1>1, <1>2
  <2> QED  BY <1>1, <2>1, <2>2, <2>3 DEF Numbered
<1>4. PushAlone'
  BY <1>1, <1>2 DEF PushAlone
<1>5. ApartKinds'
  BY <1>1, ApartStep DEF OrderInv
<1> QED  BY <1>1, <1>3, <1>4, <1>5 DEF OrderInv

LEMMA OrderPush ==
  ASSUME IInv, OrderInv, PushEvent
  PROVE  OrderInv'
<1> DEFINE h == sched_list
           e == NewEvent("push", 0)
<1>1. /\ UNCHANGED <<live, ran, lists, ins>> /\ count' = count + 1 /\ ~ins.on
      /\ queue' = [queue EXCEPT ![h]["active"] = <<e>> \o @] /\ h # Null
  BY DEF PushEvent, Client, cells
<1>2. h \in live /\ e \in Event /\ "active" \in Region /\ count \in Nat
  <2>1. "push" \in Kind /\ 0 \in Nat
    BY DEF Kind
  <2> QED  BY <1>1, <2>1, CellFacts, NewEventType DEF Region
<1>3. e.id = count + 1 /\ e.kind = "push"
  BY DEF NewEvent
<1> HIDE DEF h, e
<1>4. queue[h]["active"] \in Seq(Event)
  BY <1>2, CellFacts
<1>5. /\ queue'[h]["active"] = <<e>> \o queue[h]["active"]
      /\ \A r \in Region \ {"active"} : queue'[h][r] = queue[h][r]
      /\ \A d \in live \ {h} : queue'[d] = queue[d]
  BY <1>1, <1>2, CellFacts
<1>6. EventsOf(queue'[h]["active"]) = EventsOf(queue[h]["active"]) \cup {e}
  BY <1>2, <1>4, <1>5, EventsOfPush
<1>7. \A c \in live, r \in Region : \A f \in EventsOf(queue[c][r]) :
        f \in Event /\ f.id < e.id /\ f.id \in 1 .. count + 1
  BY <1>2, <1>3, CellFacts DEF OrderInv, Numbered
<1>8. InOrder(queue'[h])
  <2>1. InOrder(queue[h])
    BY <1>2 DEF OrderInv
  <2>2. Listed(queue'[h]["active"])
    <3>1. Listed(queue[h]["active"])
      BY <1>2, <2>1 DEF InOrder
    <3> QED  BY <1>2, <1>3, <1>4, <1>5, <1>7, <3>1, ListedPush
  <2>3. Belongs(e, "active")
    BY <1>3 DEF Belongs
  <2> QED  BY <1>2, <1>3, <1>5, <1>6, <1>7, <2>1, <2>2, <2>3, InOrderMore
<1>9. \A c \in live : InOrder(queue'[c])
  BY <1>5, <1>8 DEF OrderInv
<1>10. Numbered'
  <2>1. ASSUME NEW c \in live, NEW r \in Region, NEW f \in EventsOf(queue'[c][r])
        PROVE  f.id \in 1 .. count + 1
    <3>1. CASE f \in EventsOf(queue[c][r])
      BY <1>7, <3>1
    <3>2. CASE f \notin EventsOf(queue[c][r])
      <4>1. f = e
        BY <1>5, <1>6, <2>1, <3>2
      <4> QED  BY <1>2, <1>3, <4>1
    <3> QED  BY <3>1, <3>2
  <2>2. ASSUME NEW f \in ran PROVE f.id <= count + 1
    <3>1. f.id \in Nat /\ f.id <= count
      BY DEF IInv, TypeOK, EventTypeOK, Event, OrderInv, Numbered
    <3> QED  BY <1>2, <3>1
  <2> QED  BY <1>1, <2>1, <2>2 DEF Numbered
<1>11. PushAlone' /\ ApartKinds'
  BY <1>1, ApartStep DEF OrderInv, PushAlone
<1> QED  BY <1>1, <1>9, <1>10, <1>11 DEF OrderInv

\* The event that is being inserted gets a cell of its own.
LEMMA OrderNewCell ==
  ASSUME IInv, OrderInv, ins.on, Placed, NEW c \in Cells \ live,
         live' = live \cup {c},
         queue' = [queue EXCEPT ![c] = OnlyEvent]
  PROVE  OrderInv'
<1>1. ~ins'.on /\ UNCHANGED <<lists, ran, count>>
  BY NoneTypes DEF Placed, ghosts
<1>2. /\ queue'[c] = OnlyEvent
      /\ \A d \in live : d # c /\ queue'[d] = queue[d]
  BY CellFacts
<1>3. Slot(ins.ev) \in Region /\ ins.ev \in Event
  BY DEF IInv, Walk, Slot, Region, TypeOK, EventTypeOK, InsType
<1>4. InOrder(OnlyEvent)
  <2>1. /\ Belongs(ins.ev, Slot(ins.ev))
        /\ Slot(ins.ev) = "active" => ins.ev.kind \in {"active", "push"}
    BY DEF Belongs, Slot, ReadWrite
  <2> QED  BY <1>3, <2>1, InOrderOnly DEF OnlyEvent
<1>5. Numbered'
  <2>1. ASSUME NEW d \in live', NEW r \in Region, NEW e \in EventsOf(queue'[d][r])
        PROVE  e.id \in 1 .. count
    <3>1. CASE d = c
      <4>1. e = ins.ev
        BY <1>2, <2>1, <3>1, EventsOfShort DEF OnlyEvent
      <4> QED  BY <4>1 DEF OrderInv, Numbered
    <3>2. CASE d # c
      BY <1>2, <2>1, <3>2 DEF OrderInv, Numbered
    <3> QED  BY <3>1, <3>2
  <2> QED  BY <1>1, <2>1 DEF OrderInv, Numbered
<1>6. PushAlone' /\ ApartKinds'
  BY <1>1, ApartStep DEF OrderInv, PushAlone
<1> QED  BY <1>2, <1>4, <1>5, <1>6 DEF OrderInv

\* The event that is being inserted joins the list of its region.
LEMMA OrderHere ==
  ASSUME IInv, OrderInv, InsertHere
  PROVE  OrderInv'
<1> DEFINE h == ins.ctim
           k == Slot(ins.ev)
<1>1. /\ ~ins'.on /\ ins.on /\ UNCHANGED <<live, lists, ran, count>>
      /\ queue' = [queue EXCEPT ![h][k] = Append(@, ins.ev)]
      /\ h # Null /\ delay[h] = ins.delay
  BY NoneTypes DEF InsertHere, Inserting, Placed, ghosts, cells
<1>2. k \in Region /\ h \in live /\ ins.ev \in Event
  BY DEF IInv, Walk, Slot, Region, InsertHere, Inserting, TypeOK, EventTypeOK, InsType
<1>3. ins.ev.kind # "push"
  BY <1>1 DEF OrderInv, PushAlone
<1>4. Belongs(ins.ev, k) /\ (k = "active" => ins.ev.kind \in {"active", "push"})
  BY DEF Belongs, Slot, ReadWrite
<1> HIDE DEF h, k
<1>5. /\ queue'[h][k] = Append(queue[h][k], ins.ev)
      /\ \A r \in Region \ {k} : queue'[h][r] = queue[h][r]
      /\ \A d \in live \ {h} : queue'[d] = queue[d]
      /\ queue[h][k] \in Seq(Event)
  BY <1>1, <1>2, CellFacts
<1>6. \A c \in live, r \in Region : \A f \in EventsOf(queue[c][r]) :
        f \in Event /\ f.id < ins.ev.id /\ f.id \in 1 .. count
  BY <1>1, CellFacts DEF OrderInv, Numbered
<1>7. EventsOf(queue'[h][k]) = EventsOf(queue[h][k]) \cup {ins.ev}
  BY <1>2, <1>5, EventsOfAppend
<1>8. InOrder(queue'[h])
  <2>1. InOrder(queue[h]) /\ Listed(queue[h][k])
    BY <1>2 DEF OrderInv, InOrder
  <2>2. Listed(queue'[h][k])
    BY <1>2, <1>3, <1>5, <1>6, <2>1, ListedAppend
  <2> QED  BY <1>2, <1>4, <1>5, <1>6, <1>7, <2>1, <2>2, InOrderMore
<1>9. \A c \in live : InOrder(queue'[c])
  BY <1>5, <1>8 DEF OrderInv
<1>10. Numbered'
  <2>1. ASSUME NEW c \in live, NEW r \in Region, NEW f \in EventsOf(queue'[c][r])
        PROVE  f.id \in 1 .. count
    <3>1. CASE f \in EventsOf(queue[c][r])
      BY <1>6, <3>1
    <3>2. CASE f \notin EventsOf(queue[c][r])
      <4>1. f = ins.ev
        BY <1>5, <1>7, <2>1, <3>2
      <4> QED  BY <1>1, <4>1 DEF OrderInv, Numbered
    <3> QED  BY <3>1, <3>2
  <2> QED  BY <1>1, <2>1 DEF OrderInv, Numbered
<1>11. PushAlone' /\ ApartKinds'
  BY <1>1, ApartStep DEF OrderInv, PushAlone
<1> QED  BY <1>1, <1>9, <1>10, <1>11 DEF OrderInv

LEMMA OrderInserts ==
  ASSUME IInv, OrderInv, Insert
  PROVE  OrderInv'
<1>1. CASE InsertFirst \/ InsertFront \/ InsertBetween \/ InsertLast
  <2>1. ins.on /\ Placed
    BY <1>1 DEF InsertFirst, InsertFront, InsertBetween, InsertLast, Inserting
  <2>2. PICK c \in Cells \ live : /\ live' = live \cup {c}
                                  /\ queue' = [queue EXCEPT ![c] = OnlyEvent]
    BY <1>1, Zenon DEF InsertFirst, InsertFront, InsertBetween, InsertLast
  <2> QED  BY <2>1, <2>2, OrderNewCell
<1>2. CASE InsertHere
  BY <1>2, OrderHere
<1>3. CASE InsertWalk
  <2>1. ins \in InsType /\ delay \in [Cells -> Nat]
    BY CellFacts DEF IInv, TypeOK, EventTypeOK
  <2>2. /\ UNCHANGED <<live, queue, lists, ran, count>> /\ ins.on
        /\ ins.ctim # Null /\ delay[ins.ctim] < ins.delay
        /\ ins'.ev = ins.ev /\ ins'.on
    BY <1>3, <2>1 DEF InsertWalk, Inserting, cells, ghosts, InsType
  <2>3. ins.ev.kind # "push"
    <3>1. delay[ins.ctim] \in Nat
      BY <2>1, <2>2 DEF InsType
    <3> QED  BY <2>2, <3>1 DEF OrderInv, PushAlone
  <2>4. PushAlone' /\ ApartKinds'
    BY <2>2, <2>3, ApartStep DEF OrderInv, PushAlone
  <2>5. Numbered'
    BY <2>2 DEF OrderInv, Numbered
  <2> QED  BY <2>2, <2>4, <2>5 DEF OrderInv
<1> QED  BY <1>1, <1>2, <1>3 DEF Insert

\* The cells in use lose events, or rearrange them, and no event is under way.
LEMMA OrderLess ==
  ASSUME IInv, OrderInv, ~ins.on, ins' = ins, count' = count, lists' = lists,
         \A e \in ran' : e.id <= count, live' \subseteq live,
         \A c \in live' : InOrder(queue'[c]) /\ \A r \in Region :
           \E s \in Region : EventsOf(queue'[c][r]) \subseteq EventsOf(queue[c][s])
  PROVE  OrderInv'
<1>1. PushAlone' /\ ApartKinds'
  BY ApartStep DEF OrderInv, PushAlone
<1>2. ASSUME NEW c \in live', NEW r \in Region, NEW e \in EventsOf(queue'[c][r])
      PROVE  e.id \in 1 .. count
  <2>1. PICK s \in Region : e \in EventsOf(queue[c][s])
    BY <1>2
  <2> QED  BY <2>1 DEF OrderInv, Numbered
<1>3. Numbered'
  BY <1>2 DEF Numbered
<1> QED  BY <1>1, <1>3 DEF OrderInv

\* schedule_finish empties lists.
LEMMA OrderCleared ==
  ASSUME IInv, OrderInv, ~ins.on, queue' = Cleared,
         UNCHANGED <<live, ins, ran, count, lists>>
  PROVE  OrderInv'
<1>1. ASSUME NEW c \in live
      PROVE  \A r \in Region : queue'[c][r] = <<>> \/ queue'[c][r] = queue[c][r]
  <2>1. CASE sched_list = Null
    BY <2>1 DEF Cleared
  <2>2. CASE sched_list # Null
    BY <2>2, CellFacts DEF Cleared
  <2> QED  BY <2>1, <2>2
<1>2. ASSUME NEW c \in live
      PROVE  InOrder(queue'[c]) /\ \A r \in Region :
               EventsOf(queue'[c][r]) \subseteq EventsOf(queue[c][r])
  <2>1. InOrder(queue[c]) /\ \A r \in Region : Listed(queue[c][r])
    BY DEF OrderInv, InOrder
  <2>2. \A r \in Region : /\ Listed(queue'[c][r])
                          /\ EventsOf(queue'[c][r]) \subseteq EventsOf(queue[c][r])
    BY <1>1, <2>1, ListedShort, EventsOfShort
  <2> QED  BY <2>1, <2>2, InOrderLess
<1>3. \A e \in ran' : e.id <= count
  BY DEF OrderInv, Numbered
<1> QED  BY <1>2, <1>3, OrderLess

\* An event leaves its list in place, or its list becomes the active one.
LEMMA OrderTaken ==
  ASSUME IInv, OrderInv, lists' = lists, NEW r \in Region, NEW t \in Region, Taken(r, t),
         \/ r = t
         \/ /\ t = "active" /\ r \in ReadWrite \ {"active"}
            /\ \A s \in ReadWrite : Level(s) < Level(r) => queue[sched_list][s] = <<>>
  PROVE  OrderInv'
<1> DEFINE h == sched_list
           e == Head(queue[h][r])
<1>1. /\ h \in live /\ queue[h][r] \in Seq(Event) /\ queue[h][r] # <<>>
      /\ e \in EventsOf(queue[h][r]) /\ ran' = ran \cup {e}
      /\ EventsOf(queue[h][r]) = {e} \cup EventsOf(Tail(queue[h][r]))
      /\ queue'[h][t] = Tail(queue[h][r])
      /\ r # t => queue'[h][r] = <<>>
      /\ \A s \in Region \ {r, t} : queue'[h][s] = queue[h][s]
      /\ \A c \in live \ {h} : queue'[c] = queue[c]
  BY TakenLists
<1>2. UNCHANGED <<live, ins, count>> /\ ~ins.on
  BY DEF Taken
<1>3. InOrder(queue[h]) /\ \A s \in Region : Listed(queue[h][s])
  BY <1>1 DEF OrderInv, InOrder
<1>4. queue[h] \in Lists
  BY <1>1, CellFacts DEF Lists
<1>5. h = sched_list
  OBVIOUS
<1>6. count \in Nat /\ \A f \in ran' : f.id <= count
  <2>1. e.id \in 1 .. count /\ count \in Nat
    BY <1>1, CellFacts DEF OrderInv, Numbered
  <2> QED  BY <1>1, <2>1 DEF OrderInv, Numbered
<1> HIDE DEF h, e
<1>7. Listed(Tail(queue[h][r])) /\ EventsOf(Tail(queue[h][r])) \subseteq EventsOf(queue[h][r])
  BY <1>1, <1>3, ListedTail
<1>8. InOrder(queue'[h])
  <2>1. CASE r = t
    <3>1. \A s \in Region : /\ Listed(queue'[h][s])
                            /\ EventsOf(queue'[h][s]) \subseteq EventsOf(queue[h][s])
      BY <1>1, <1>3, <1>7, <2>1
    <3> QED  BY <1>3, <3>1, InOrderLess
  <2>2. CASE r # t
    <3>1. /\ t = "active" /\ r \in ReadWrite \ {"active"}
          /\ \A s \in ReadWrite : Level(s) < Level(r) => queue[h][s] = <<>>
      BY <1>5, <2>2
    <3> QED  BY <1>1, <1>3, <1>4, <2>2, <3>1, InOrderMoved
  <2> QED  BY <2>1, <2>2
<1>9. \A s \in Region : \E u \in Region :
        EventsOf(queue'[h][s]) \subseteq EventsOf(queue[h][u])
  <2> SUFFICES ASSUME NEW s \in Region
               PROVE  \E u \in Region : EventsOf(queue'[h][s]) \subseteq EventsOf(queue[h][u])
    OBVIOUS
  <2>1. CASE s = t
    BY <1>1, <1>7, <2>1
  <2>2. CASE s # t /\ s = r
    BY <1>1, <2>2, EventsOfShort
  <2>3. CASE s \notin {r, t}
    BY <1>1, <2>3
  <2> QED  BY <2>1, <2>2, <2>3
<1>10. \A c \in live : InOrder(queue'[c]) /\ \A s \in Region : \E u \in Region :
         EventsOf(queue'[c][s]) \subseteq EventsOf(queue[c][u])
  BY <1>1, <1>8, <1>9 DEF OrderInv
<1> QED  BY <1>2, <1>6, <1>10, OrderLess

LEMMA OrderTakes ==
  ASSUME IInv, OrderInv, RunStartEvent \/ RunRosyncEvent \/ RunDelThr \/ PullEvent
  PROVE  OrderInv'
<1>0. lists' = lists
  BY DEF RunStartEvent, RunRosyncEvent, RunDelThr, PullEvent
<1>1. CASE RunStartEvent \/ RunRosyncEvent \/ RunDelThr
  <2>1. \E r \in Region : Taken(r, r)
    BY <1>1, TakenIs DEF Region
  <2> QED  BY <1>0, <2>1, OrderTaken
<1>2. CASE PullEvent
  <2>1. PICK r \in ReadWrite :
          /\ Taken(r, "active")
          /\ \A s \in ReadWrite : Level(s) < Level(r) => queue[sched_list][s] = <<>>
    BY <1>2, TakenIs
  <2>2. r \in Region /\ "active" \in Region
    BY DEF Region, ReadWrite
  <2> QED  BY <1>0, <2>1, <2>2, OrderTaken
<1> QED  BY <1>1, <1>2

LEMMA OrderClients ==
  ASSUME IInv, OrderInv, ClientCall
  PROVE  OrderInv'
<1>1. ASSUME NEW k \in Region, NEW d \in 0 .. MaxDelay, ScheduleEvent(k, d)
      PROVE  OrderInv'
  <2>1. k \in Kind /\ d \in Nat /\ k # "push"
    BY BoundAssumption DEF Kind, Region
  <2> QED  BY <1>1, <2>1, OrderSchedule
<1>2. CASE PushFallback
  BY <1>2, OrderSchedule DEF PushFallback, Kind
<1>3. CASE PushEvent
  BY <1>3, OrderPush
<1>4. CASE InitEvent \/ FinalEvent
  <2>1. UNCHANGED <<live, queue, ins, ran, delay>> /\ count' = count + 1
    BY <1>4 DEF InitEvent, FinalEvent, cells
  <2>2. ApartKinds'
    BY <1>4, ApartStep DEF OrderInv
  <2>3. count \in Nat
    BY CellFacts
  <2> QED  BY <2>1, <2>2, <2>3, OrderControl
<1>5. CASE Stop
  <2>1. UNCHANGED <<live, queue, ins, ran, delay, count, lists>>
    BY <1>5 DEF Stop, cells
  <2>2. ApartKinds'
    BY <2>1, ApartStep DEF OrderInv
  <2> QED  BY <2>1, <2>2, CellFacts, OrderControl
<1>6. CASE Finish
  <2>1. UNCHANGED <<live, ins, ran, count, lists>> /\ ~ins.on /\ queue' = Cleared
    BY <1>6 DEF Finish, Client, cells
  <2> QED  BY <2>1, OrderCleared
<1> QED  BY <1>1, <1>2, <1>3, <1>4, <1>5, <1>6 DEF ClientCall

LEMMA OrderControls ==
  ASSUME IInv, OrderInv,
         \/ Returns
         \/ RunInitEvent \/ InitDone \/ StartSimulation
         \/ OutOfEvents \/ SeeStop \/ ResetStop \/ Interact
         \/ DebuggerFinished \/ (\E step \in BOOLEAN : DebuggerReturn(step))
         \/ FinishedBreak \/ AdvanceTime \/ StartDone \/ NothingToPull \/ RosyncDone
         \/ RunFinalEvent \/ FinalDone
         \/ (\E t \in BOOLEAN : Signal(t))
         \/ UNCHANGED vars
  PROVE  OrderInv'
<1>0. count \in Nat
  BY CellFacts
<1>1. CASE RunInitEvent \/ RunFinalEvent
  <2>1. UNCHANGED <<live, queue, ins, ran, delay, count>>
    BY <1>1 DEF RunInitEvent, RunFinalEvent, cells, ghosts
  <2>2. ApartKinds'
    BY <1>1, ApartStep DEF OrderInv
  <2> QED  BY <1>0, <2>1, <2>2, OrderControl
<1>2. CASE \/ Returns
           \/ InitDone \/ StartSimulation
           \/ OutOfEvents \/ SeeStop \/ ResetStop \/ Interact
           \/ DebuggerFinished \/ (\E step \in BOOLEAN : DebuggerReturn(step))
           \/ FinishedBreak \/ AdvanceTime \/ StartDone \/ NothingToPull \/ RosyncDone
           \/ FinalDone
           \/ (\E t \in BOOLEAN : Signal(t))
           \/ UNCHANGED vars
  <2> USE <1>2 DEF InitDone, StartSimulation, OutOfEvents, SeeStop,
            ResetStop, Interact, DebuggerFinished, DebuggerReturn,
            FinishedBreak, AdvanceTime, StartDone, NothingToPull, RosyncDone,
            FinalDone, Signal, vars, Leave, Goto, cells, ghosts,
            Returns, EndOfCompile, EndInitEvent, EndNextSimTime,
            EndStartEvent, EndActiveEvent, EndRosyncEvent, EndDelThr, EndFinalEvent,
            Postsim, Return
  <2>1. UNCHANGED <<live, queue, ins, ran, count, lists>>
    OBVIOUS
  <2>2. ~ins.on \/ delay' = delay
    OBVIOUS
  <2> HIDE <1>2
  <2>3. ApartKinds'
    BY <2>1, ApartStep DEF OrderInv
  <2> QED  BY <1>0, <2>1, <2>2, <2>3, OrderControl
<1> QED  BY <1>1, <1>2

LEMMA NextOrder ==
  ASSUME IInv, OrderInv, [Next]_vars
  PROVE  OrderInv'
<1>1. CASE StopIsFinish
  <2>1. /\ UNCHANGED <<live, ins, ran, count, lists>>
        /\ pc = "stop_handler" /\ queue' = Cleared
    BY <1>1 DEF StopIsFinish, Leave, cells, ghosts
  <2>2. ~ins.on
    BY <2>1, NotWalking DEF ClientPC
  <2> QED  BY <2>1, <2>2, OrderCleared
<1>2. CASE EndCell
  <2> DEFINE h == sched_list
  <2>1. /\ pc = "del_thr" /\ ~ins.on
        /\ UNCHANGED <<ins, count, lists, ran>> /\ live' = live \ {h}
        /\ queue' = [queue EXCEPT ![h] = [r \in Region |-> <<>>]]
    BY <1>2 DEF EndCell, Goto, ghosts
  <2>2. \A c \in live' : c \in live /\ queue'[c] = queue[c]
    BY <2>1, CellFacts
  <2>3. \A e \in ran' : e.id <= count
    BY <2>1 DEF OrderInv, Numbered
  <2> QED  BY <2>1, <2>2, <2>3, OrderLess DEF OrderInv
<1> QED
  BY <1>1, <1>2, OrderClients, OrderInserts, OrderControls, OrderTakes
     DEF Next, MainThread, Simulate, Done

LEMMA InitOrder == Init => OrderInv
<1> SUFFICES ASSUME Init PROVE OrderInv
  OBVIOUS
<1>1. live = {} /\ ran = {} /\ ~ins.on /\ schedule_init_list = <<>>
      /\ schedule_final_list = <<>>
  BY DEF Init, NoIns
<1>2. ApartKinds
  BY <1>1, EventsOfShort DEF ApartKinds
<1> QED  BY <1>1, <1>2 DEF OrderInv, Numbered, PushAlone

LEMMA InitTerm == Init => TermKnown /\ TermNotLost
BY DEF Init, TermKnown, TermNotLost

\* Everything that is invariant at once.
THEOREM ScheduleInductive == Spec => []Inductive
<1>1. Init => Inductive
  BY InitIInv, InitOrder, InitStep, InitTerm DEF Inductive
<1>2. Inductive /\ [Next]_vars => Inductive'
  BY NextIInv, NextOrder, NextStep, NextTerm DEF Inductive
<1> QED  BY <1>1, <1>2, PTL DEF Spec

\* An event that is pushed is in front of all that is active.
THEOREM PushedFirst == Spec => []PushFirst
<1>1. Inductive => PushFirst
  <2> SUFFICES ASSUME Inductive, NEW c \in live PROVE LET a == queue[c]["active"] IN
                 \A i, j \in DOMAIN a : i < j /\ a[j].kind = "push" =>
                    a[i].kind = "push" /\ a[j].id < a[i].id
    BY DEF PushFirst
  <2>1. Listed(queue[c]["active"])
    BY DEF Inductive, OrderInv, InOrder, Region
  <2> QED  BY <2>1 DEF Listed
<1> QED  BY <1>1, ScheduleInductive, PTL

-----------------------------------------------------------------------------
(* The order of execution.                                                 *)

\* Where the pending events are.
LEMMA PendingIs ==
  /\ \A e : e \in Pending <=> \/ \E c \in live, r \in Region : e \in EventsOf(queue[c][r])
                              \/ ins.on /\ e = ins.ev
  /\ \A e : e \in Pending' <=>
       \/ \E c \in live', r \in Region : e \in EventsOf(queue'[c][r])
       \/ ins'.on /\ e = ins'.ev
<1>1. ASSUME NEW e
      PROVE  e \in Pending <=> \/ \E c \in live, r \in Region : e \in EventsOf(queue[c][r])
                               \/ ins.on /\ e = ins.ev
  <2>1. CASE ins.on
    BY <2>1 DEF Pending
  <2>2. CASE ~ins.on
    BY <2>2 DEF Pending
  <2> QED  BY <2>1, <2>2
<1>2. ASSUME NEW e
      PROVE  e \in Pending' <=> \/ \E c \in live', r \in Region : e \in EventsOf(queue'[c][r])
                                \/ ins'.on /\ e = ins'.ev
  <2>1. CASE ins'.on
    BY <2>1 DEF Pending
  <2>2. CASE ~ins'.on
    BY <2>2 DEF Pending
  <2> QED  BY <2>1, <2>2
<1> QED  BY <1>1, <1>2

LEMMA PendingFacts ==
  ASSUME IInv, OrderInv, NEW e \in Pending
  PROVE  /\ e \in Event /\ e.id \in 1 .. count /\ e.kind \in Region \cup {"push"}
         /\ e.due >= schedule_time
<1>1. CASE \E c \in live, r \in Region : e \in EventsOf(queue[c][r])
  <2>1. PICK c \in live, r \in Region : e \in EventsOf(queue[c][r])
    BY <1>1
  <2>2. e \in Event /\ e.due >= schedule_time
    BY <2>1, CellFacts
  <2>3. e.id \in 1 .. count
    BY <2>1 DEF OrderInv, Numbered
  <2>4. Belongs(e, r)
    BY <2>1 DEF OrderInv, InOrder
  <2> QED  BY <2>2, <2>3, <2>4 DEF Belongs, ReadWrite, Region
<1>2. CASE ins.on /\ e = ins.ev
  <2>1. e \in Event /\ ins.delay \in Nat /\ e.due \in Nat
    BY <1>2 DEF IInv, TypeOK, EventTypeOK, InsType, Event
  <2>2. e.id \in 1 .. count
    BY <1>2 DEF OrderInv, Numbered
  <2>3. Walk /\ Deltas
    BY DEF IInv
  <2>4. e.due >= schedule_time
    <3>1. CASE ins.prev # Null
      BY <1>2, <2>1, <2>3, <3>1, CellFacts DEF Walk
    <3>2. CASE ins.prev = Null /\ sched_list = Null
      BY <1>2, <2>1, <2>3, <3>2, CellFacts DEF Walk
    <3>3. CASE ins.prev = Null /\ sched_list # Null
      <4>1. /\ e.due + delay[sched_list] = at[sched_list] + ins.delay
            /\ at[sched_list] = schedule_time + delay[sched_list]
        BY <1>2, <2>3, <3>3 DEF Walk, Deltas
      <4>2. delay[sched_list] \in Nat /\ schedule_time \in Nat
        BY <3>3, CellFacts
      <4> QED  BY <2>1, <4>1, <4>2
    <3> QED  BY <3>1, <3>2, <3>3
  <2> QED  BY <1>2, <2>1, <2>2, <2>3, <2>4 DEF Walk
<1> QED  BY <1>1, <1>2, PendingIs

\* The event that is taken: nothing that is pending should have run first.
LEMMA TakenInOrder ==
  ASSUME Inductive, NEW r \in Region, NEW t \in Region, Taken(r, t),
         Head(queue[sched_list][r]).kind # "push",
         \/ r = "start" \/ r = "active"
         \/ r = "rosync" /\ pc = "rosync"
         \/ r = "del_thr" /\ pc = "del_thr"
         \/ /\ r \in ReadWrite \ {"active"}
            /\ \A s \in ReadWrite : Level(s) < Level(r) => queue[sched_list][s] = <<>>,
         NEW f \in Pending
  PROVE  ~Precedes(f, Head(queue[sched_list][r]))
<1> DEFINE h == sched_list
           e == Head(queue[h][r])
<1> SUFFICES ASSUME Precedes(f, e) PROVE FALSE
  OBVIOUS
<1>0. IInv /\ OrderInv /\ StepInv
  BY DEF Inductive
<1>1. /\ h \in live /\ queue[h][r] \in Seq(Event) /\ queue[h][r] # <<>>
      /\ e \in EventsOf(queue[h][r]) /\ at[h] = schedule_time
      /\ EventsOf(queue[h][r]) = {e} \cup EventsOf(Tail(queue[h][r]))
  BY <1>0, TakenLists
<1>2. h = sched_list /\ e = Head(queue[h][r]) /\ e.kind # "push"
  OBVIOUS
<1> HIDE DEF h, e
<1>3. ~ins.on
  BY DEF Taken
<1>4. PICK c \in live, s \in Region : f \in EventsOf(queue[c][s])
  BY <1>3, PendingIs
<1>5. c = h
  <2>1. f.due = at[c] /\ e.due = at[h] /\ f.due = e.due
    BY <1>0, <1>1, <1>4, CellFacts DEF Precedes
  <2> QED  BY <1>0, <1>1, <1>2, <2>1, CellFacts
<1>6. f \in EventsOf(queue[h][s]) /\ InOrder(queue[h])
  BY <1>0, <1>1, <1>4, <1>5 DEF OrderInv
<1>7. e \in Event /\ f \in Event /\ e.id \in Nat /\ f.id \in Nat
  BY <1>0, <1>1, <1>6, CellFacts DEF Event
<1>8. f # e
  BY <1>7, PrecedesNumber
<1>9. Belongs(e, r) /\ Belongs(f, s)
  BY <1>1, <1>6 DEF InOrder
<1>10. s # r
  <2> SUFFICES ASSUME s = r PROVE FALSE
    OBVIOUS
  <2>1. Listed(queue[h][r])
    BY <1>6 DEF InOrder
  <2>2. f \in EventsOf(Tail(queue[h][r]))
    BY <1>1, <1>6, <1>8
  <2> QED  BY <1>1, <1>2, <2>1, <2>2, ListedTail
<1>11. CASE r = "start"
  BY <1>9, <1>10, <1>11 DEF Precedes, Belongs, ReadWrite
<1>12. CASE r = "active"
  BY <1>1, <1>2, <1>6, <1>10, <1>12, CrossOrder
<1>13. CASE r \in {"rosync", "del_thr"} /\ pc = r
  <2>1. s \notin ReadWrite
    <3>1. pc \in {"rosync", "rosync_run", "del_thr", "del_run"}
      BY <1>13
    <3>2. s \in ReadWrite => f.ro
      BY <1>0, <1>2, <1>6, <3>1 DEF StepInv, ReadOnlyStable
    <3> QED  BY <3>2 DEF Precedes
  <2>2. f.kind = s /\ e.kind = r
    BY <1>9, <1>13, <2>1 DEF Belongs, ReadWrite
  <2>3. s # "start"
    BY <1>13, <2>2 DEF Precedes
  <2>4. r = "del_thr" /\ s = "rosync"
    BY <1>10, <1>13, <2>1, <2>2, <2>3 DEF Precedes, Rank, Region, ReadWrite
  <2>5. queue[h]["rosync"] = <<>>
    BY <1>0, <1>2, <1>13, <2>4 DEF StepInv, Leftovers
  <2> QED  BY <1>6, <2>4, <2>5, EventsOfShort
<1>14. CASE /\ r \in ReadWrite \ {"active"}
            /\ \A u \in ReadWrite : Level(u) < Level(r) => queue[h][u] = <<>>
  <2>1. s \in ReadWrite => ~(Level(s) < Level(r))
    BY <1>6, <1>14, EventsOfShort
  <2>2. s # "active"
    BY <1>14, <2>1 DEF ReadWrite, Level
  <2> QED  BY <1>9, <1>10, <1>14, <2>1, <2>2, PrecedesLater
<1> QED  BY <1>2, <1>11, <1>12, <1>13, <1>14

\* The other steps begin no event of a cell.
LEMMA OthersStart ==
  ASSUME Inductive, [Next]_vars, NEW e \in Pending, cur' = e, cur # e
  PROVE  RunStartEvent \/ RunRosyncEvent \/ RunDelThr \/ PullEvent
<1>0. IInv /\ OrderInv
  BY DEF Inductive
<1>1. e.id \in 1 .. count /\ e.kind \in Region \cup {"push"} /\ count \in Nat
  BY <1>0, PendingFacts, CellFacts
<1>2. e # NoEvent
  <2>1. NoEvent.id = 0
    BY DEF NoEvent
  <2> QED  BY <1>1, <2>1
<1>3. ~ClientCall
  BY DEF ClientCall, ScheduleEvent, PushEvent, PushFallback, InitEvent, FinalEvent,
         Finish, Stop
<1>4. ~Insert
  BY DEF Insert, InsertFirst, InsertFront, InsertWalk, InsertBetween, InsertHere,
         InsertLast, Placed
<1>5. ~Returns
  BY <1>2 DEF Returns, EndOfCompile, EndInitEvent, EndNextSimTime, EndStartEvent,
         EndActiveEvent, EndRosyncEvent, EndDelThr, EndFinalEvent, Postsim, Return
<1>6. ~RunInitEvent /\ ~RunFinalEvent
  <2>1. schedule_init_list \in Seq(Event) /\ schedule_final_list \in Seq(Event)
        /\ ApartKinds
    BY <1>0 DEF IInv, TypeOK, EventTypeOK, OrderInv
  <2>2. \A s \in Seq(Event) : s # <<>> => Head(s) \in EventsOf(s)
    BY EventsOfTail
  <2>3. RunInitEvent => e.kind = "init"
    BY <2>1, <2>2 DEF RunInitEvent, ApartKinds
  <2>4. RunFinalEvent => e.kind = "final"
    BY <2>1, <2>2 DEF RunFinalEvent, ApartKinds
  <2> QED  BY <1>1, <2>3, <2>4 DEF Region
<1>7. ~(\E b \in BOOLEAN : Signal(b)) /\ ~Done /\ ~UNCHANGED vars
  BY DEF Signal, Done, vars
<1>8. ~ (\/ InitDone \/ StartSimulation
         \/ OutOfEvents \/ SeeStop \/ ResetStop \/ StopIsFinish \/ Interact
         \/ DebuggerFinished \/ (\E step \in BOOLEAN : DebuggerReturn(step))
         \/ FinishedBreak \/ AdvanceTime \/ StartDone \/ NothingToPull
         \/ RosyncDone \/ EndCell \/ FinalDone)
  BY DEF InitDone, StartSimulation, OutOfEvents, SeeStop, ResetStop, StopIsFinish,
         Interact, DebuggerFinished, DebuggerReturn, FinishedBreak, AdvanceTime,
         StartDone, NothingToPull, RosyncDone, EndCell, FinalDone
<1> QED
  BY <1>3, <1>4, <1>5, <1>6, <1>7, <1>8 DEF Next, MainThread, Simulate

\* The events of a time step execute in the order of their regions and, within
\* one, in the order of the calls that scheduled them; what %fork pushes runs
\* first.
THEOREM ExecutionOrder == Spec => OrderKept
<1>1. ASSUME Inductive, [Next]_vars, NEW e \in Pending, cur' = e, cur # e,
             e.kind # "push", NEW f \in Pending
      PROVE  ~Precedes(f, e)
  <2>0. IInv
    BY <1>1 DEF Inductive
  <2>1. RunStartEvent \/ RunRosyncEvent \/ RunDelThr \/ PullEvent
    BY <1>1, OthersStart
  <2>2. CASE RunStartEvent
    <3>1. Taken("start", "start") /\ "start" \in Region
      BY <2>0, <2>2, TakenIs DEF Region
    <3>2. e = Head(queue[sched_list]["start"])
      BY <1>1, <3>1 DEF Taken, RunFirst
    <3> QED  BY <1>1, <3>1, <3>2, TakenInOrder
  <2>3. CASE RunRosyncEvent
    <3>1. Taken("rosync", "rosync") /\ "rosync" \in Region /\ pc = "rosync"
      BY <2>0, <2>3, TakenIs DEF Region, RunRosyncEvent, Goto
    <3>2. e = Head(queue[sched_list]["rosync"])
      BY <1>1, <3>1 DEF Taken, RunFirst
    <3> QED  BY <1>1, <3>1, <3>2, TakenInOrder
  <2>4. CASE RunDelThr
    <3>1. Taken("del_thr", "del_thr") /\ "del_thr" \in Region /\ pc = "del_thr"
      BY <2>0, <2>4, TakenIs DEF Region, RunDelThr, Goto
    <3>2. e = Head(queue[sched_list]["del_thr"])
      BY <1>1, <3>1 DEF Taken, RunFirst
    <3> QED  BY <1>1, <3>1, <3>2, TakenInOrder
  <2>5. CASE PullEvent
    <3>1. PICK r \in ReadWrite :
            /\ Taken(r, "active")
            /\ \A s \in ReadWrite : Level(s) < Level(r) => queue[sched_list][s] = <<>>
      BY <2>0, <2>5, TakenIs
    <3>2. r \in Region /\ "active" \in Region
      BY DEF ReadWrite, Region
    <3>3. e = Head(queue[sched_list][r])
      BY <1>1, <3>1 DEF Taken, RunFirst
    <3> QED  BY <1>1, <3>1, <3>2, <3>3, TakenInOrder
  <2> QED  BY <2>1, <2>2, <2>3, <2>4, <2>5
<1>2. Inductive /\ [Next]_vars =>
        [\A e \in Pending : cur' = e /\ cur # e /\ e.kind # "push" =>
           \A f \in Pending : ~Precedes(f, e)]_vars
  BY <1>1
<1>3. Spec => RunInOrder
  BY <1>2, ScheduleInductive, PTL DEF Spec, RunInOrder
<1> QED  BY <1>3, PushedFirst, PTL DEF OrderKept

-----------------------------------------------------------------------------
(* The scheduler implements the agenda, step by step.                      *)

Finishing == ~runnable \/ pc \in EndPC

\* A step that moves no event: the agenda stands still, or is told to finish.
LEMMA AgendaControl ==
  ASSUME Pending' = Pending, UNCHANGED <<schedule_time, ran>>,
         Finishing => Finishing'
  PROVE  [Abstract!Next]_Abstract!vars
<1>1. CASE Finishing' /\ ~Finishing
  <2>1. Abstract!Finish
    BY <1>1 DEF Abstract!Finish, Finishing
  <2> QED  BY <2>1 DEF Abstract!Next
<1>2. CASE Finishing' <=> Finishing
  <2>1. (~runnable \/ pc \in EndPC)' = (~runnable \/ pc \in EndPC)
    BY <1>2 DEF Finishing
  <2> QED  BY <2>1 DEF Abstract!vars
<1> QED  BY <1>1, <1>2

\* One new event.
LEMMA AgendaPost ==
  ASSUME IInv, OrderInv, UNCHANGED <<schedule_time, ran, runnable, pc>>,
         NEW k \in Kind, NEW d \in Nat, Pending' = Pending \cup {NewEvent(k, d)}
  PROVE  Abstract!Next
<1> DEFINE e == NewEvent(k, d)
<1>1. e.id = count + 1 /\ e.due = schedule_time + d /\ count \in Nat /\ schedule_time \in Nat
  BY CellFacts DEF NewEvent
<1> HIDE DEF e
<1>2. e \notin Pending
  BY <1>1, PendingFacts
<1>3. e \notin ran
  BY <1>1 DEF OrderInv, Numbered
<1>4. e \in Pending' \ ran /\ e.due >= schedule_time /\ Pending' = Pending \cup {e}
  BY <1>1, <1>3 DEF e
<1>5. Abstract!Post
  BY <1>2, <1>4 DEF Abstract!Post
<1> QED  BY <1>5 DEF Abstract!Next

\* Lists of the first cell are emptied by a finish.
LEMMA AgendaFinish ==
  ASSUME IInv, ~ins.on, queue' = Cleared, UNCHANGED <<schedule_time, ran, live, ins>>,
         Finishing'
  PROVE  Abstract!Next
<1>1. ASSUME NEW c \in live, NEW r \in Region
      PROVE  queue'[c][r] = <<>> \/ queue'[c][r] = queue[c][r]
  <2>1. CASE sched_list = Null
    BY <2>1 DEF Cleared
  <2>2. CASE sched_list # Null
    BY <2>2, CellFacts DEF Cleared
  <2> QED  BY <2>1, <2>2
<1>2. \A c \in live, r \in Region : EventsOf(queue'[c][r]) \subseteq EventsOf(queue[c][r])
  BY <1>1, EventsOfShort
<1>3. ASSUME NEW e \in Pending' PROVE e \in Pending
  BY <1>2, PendingIs
<1>4. Abstract!Finish
  BY <1>3 DEF Abstract!Finish, Finishing
<1> QED  BY <1>4 DEF Abstract!Next

\* An insertion puts the event that is pending anyway into a cell.
LEMMA AgendaInsert ==
  ASSUME IInv, Insert
  PROVE  [Abstract!Next]_Abstract!vars
<1>1. UNCHANGED <<schedule_time, ran, runnable, pc>> /\ ins.on
  BY DEF Insert, InsertFirst, InsertFront, InsertWalk, InsertBetween, InsertHere,
         InsertLast, Placed, Inserting, flags, ghosts
<1>2. CASE InsertFirst \/ InsertFront \/ InsertBetween \/ InsertLast
  <2>1. ~ins'.on
    BY <1>2, NoneTypes DEF InsertFirst, InsertFront, InsertBetween, InsertLast, Placed
  <2>2. PICK c \in Cells \ live : /\ live' = live \cup {c}
                                  /\ queue' = [queue EXCEPT ![c] = OnlyEvent]
    BY <1>2, Zenon DEF InsertFirst, InsertFront, InsertBetween, InsertLast
  <2>3. /\ queue'[c] = OnlyEvent
        /\ \A d \in live : d # c /\ queue'[d] = queue[d]
    BY <2>2, CellFacts
  <2>4. Slot(ins.ev) \in Region
    BY <1>1 DEF IInv, Walk, Slot, Region
  <2>5. /\ EventsOf(queue'[c][Slot(ins.ev)]) = {ins.ev}
        /\ \A r \in Region : EventsOf(queue'[c][r]) \subseteq {ins.ev}
    BY <2>3, <2>4, EventsOfShort DEF OnlyEvent
  <2>6. ASSUME NEW e \in Pending PROVE e \in Pending'
    <3>1. CASE e = ins.ev
      BY <2>2, <2>4, <2>5, <3>1, PendingIs
    <3>2. CASE \E d \in live, r \in Region : e \in EventsOf(queue[d][r])
      BY <2>2, <2>3, <3>2, PendingIs
    <3> QED  BY <3>1, <3>2, PendingIs
  <2>7. ASSUME NEW e \in Pending' PROVE e \in Pending
    <3>1. PICK d \in live', r \in Region : e \in EventsOf(queue'[d][r])
      BY <2>1, PendingIs
    <3>2. CASE d = c
      BY <1>1, <2>5, <3>1, <3>2, PendingIs
    <3>3. CASE d # c
      BY <2>2, <2>3, <3>1, <3>3, PendingIs
    <3> QED  BY <3>2, <3>3
  <2>8. Pending' = Pending
    BY <2>6, <2>7
  <2> QED  BY <1>1, <2>8, AgendaControl DEF Finishing
<1>3. CASE InsertHere
  <2> DEFINE h == ins.ctim
             k == Slot(ins.ev)
  <2>1. /\ ~ins'.on /\ live' = live
        /\ queue' = [queue EXCEPT ![h][k] = Append(@, ins.ev)] /\ h # Null
    BY <1>3, NoneTypes DEF InsertHere, Placed, cells
  <2>2. k \in Region /\ h \in live /\ ins.ev \in Event
    BY <1>1, <2>1 DEF IInv, Walk, Slot, Region, TypeOK, EventTypeOK, InsType
  <2> HIDE DEF h, k
  <2>3. /\ queue'[h][k] = Append(queue[h][k], ins.ev)
        /\ \A r \in Region \ {k} : queue'[h][r] = queue[h][r]
        /\ \A d \in live \ {h} : queue'[d] = queue[d]
        /\ queue[h][k] \in Seq(Event)
    BY <2>1, <2>2, CellFacts
  <2>4. EventsOf(queue'[h][k]) = EventsOf(queue[h][k]) \cup {ins.ev}
    BY <2>2, <2>3, EventsOfAppend
  <2>5. \A d \in live, r \in Region : ~(d = h /\ r = k) => queue'[d][r] = queue[d][r]
    BY <2>3
  <2>6. ASSUME NEW e \in Pending PROVE e \in Pending'
    <3>1. CASE e = ins.ev
      BY <2>1, <2>2, <2>4, <3>1, PendingIs
    <3>2. CASE \E d \in live, r \in Region : e \in EventsOf(queue[d][r])
      BY <2>1, <2>4, <2>5, <3>2, PendingIs
    <3> QED  BY <3>1, <3>2, PendingIs
  <2>7. ASSUME NEW e \in Pending' PROVE e \in Pending
    <3>1. PICK d \in live, r \in Region : e \in EventsOf(queue'[d][r])
      BY <2>1, PendingIs
    <3> QED  BY <1>1, <2>4, <2>5, <3>1, PendingIs
  <2>8. Pending' = Pending
    BY <2>6, <2>7
  <2> QED  BY <1>1, <2>8, AgendaControl DEF Finishing
<1>4. CASE InsertWalk
  <2>1. ins \in InsType
    BY DEF IInv, TypeOK, EventTypeOK
  <2>2. UNCHANGED <<live, queue>> /\ ins'.on = ins.on /\ ins'.ev = ins.ev
    BY <1>4, <2>1 DEF InsertWalk, cells, InsType
  <2>3. Pending' = Pending
    BY <2>2 DEF Pending
  <2> QED  BY <1>1, <2>3, AgendaControl DEF Finishing
<1> QED  BY <1>2, <1>3, <1>4 DEF Insert

\* Taking an event off its list is its execution.
LEMMA AgendaExecute ==
  ASSUME IInv, OrderInv, NEW r \in Region, NEW t \in Region, Taken(r, t),
         r = t \/ queue[sched_list][t] = <<>>, Finishing' <=> Finishing
  PROVE  Abstract!Next
<1> DEFINE h == sched_list
           e == Head(queue[h][r])
<1>1. /\ h \in live /\ queue[h][r] \in Seq(Event) /\ queue[h][r] # <<>>
      /\ e \in EventsOf(queue[h][r]) /\ at[h] = schedule_time /\ ran' = ran \cup {e}
      /\ EventsOf(queue[h][r]) = {e} \cup EventsOf(Tail(queue[h][r]))
      /\ queue'[h][t] = Tail(queue[h][r])
      /\ r # t => queue'[h][r] = <<>>
      /\ \A s \in Region \ {r, t} : queue'[h][s] = queue[h][s]
      /\ \A c \in live \ {h} : queue'[c] = queue[c]
  BY TakenLists
<1>2. UNCHANGED <<live, ins, schedule_time>> /\ ~ins.on
  BY DEF Taken
<1>3. h = sched_list /\ e = Head(queue[h][r]) /\ (r = t \/ queue[h][t] = <<>>)
  OBVIOUS
<1> HIDE DEF h, e
<1>4. InOrder(queue[h]) /\ Listed(queue[h][r])
  BY <1>1 DEF OrderInv, InOrder
<1>5. e.due = schedule_time /\ e \in Pending
  BY <1>1, CellFacts, PendingIs
<1>6. ASSUME NEW x \in Pending' PROVE x \in Pending /\ x # e
  <2>1. PICK c \in live, s \in Region : x \in EventsOf(queue'[c][s])
    BY <1>2, PendingIs
  <2>2. CASE c # h
    <3>1. x \in EventsOf(queue[c][s])
      BY <1>1, <2>1, <2>2
    <3>2. x.due = at[c] /\ at[c] # schedule_time
      BY <1>3, <2>2, <3>1, CellFacts
    <3> QED  BY <1>5, <3>1, <3>2, PendingIs
  <2>3. CASE c = h /\ s = t
    <3>1. x \in EventsOf(Tail(queue[h][r]))
      BY <1>1, <2>1, <2>3
    <3>2. x \in EventsOf(queue[h][r]) /\ x.id # e.id
      BY <1>1, <1>3, <1>4, <3>1, ListedTail
    <3> QED  BY <1>1, <3>2, PendingIs
  <2>4. CASE c = h /\ s # t
    <3>1. s # r
      BY <1>1, <2>1, <2>4, EventsOfShort
    <3>2. x \in EventsOf(queue[h][s])
      BY <1>1, <2>1, <2>4, <3>1
    <3>3. x.id # e.id
      BY <1>1, <1>4, <3>1, <3>2, CrossOrder
    <3> QED  BY <1>1, <3>2, <3>3, PendingIs
  <2> QED  BY <2>2, <2>3, <2>4
<1>7. ASSUME NEW x \in Pending, x # e PROVE x \in Pending'
  <2>1. PICK c \in live, s \in Region : x \in EventsOf(queue[c][s])
    BY <1>2, PendingIs
  <2>2. CASE c # h
    <3>1. x \in EventsOf(queue'[c][s])
      BY <1>1, <2>1, <2>2
    <3> QED  BY <1>2, <3>1, PendingIs
  <2>3. CASE c = h /\ s = r
    <3>1. x \in EventsOf(queue'[h][t])
      BY <1>1, <1>7, <2>1, <2>3
    <3> QED  BY <1>1, <1>2, <3>1, PendingIs
  <2>4. CASE c = h /\ s # r
    <3>1. s # t
      BY <1>3, <2>1, <2>4, EventsOfShort
    <3>2. x \in EventsOf(queue'[h][s])
      BY <1>1, <2>1, <2>4, <3>1
    <3> QED  BY <1>1, <1>2, <3>2, PendingIs
  <2> QED  BY <2>2, <2>3, <2>4
<1>8. Pending' = Pending \ {e}
  BY <1>6, <1>7
<1>9. (~runnable \/ pc \in EndPC)' = (~runnable \/ pc \in EndPC)
  BY DEF Finishing
<1>10. Abstract!Execute
  BY <1>1, <1>2, <1>5, <1>8, <1>9 DEF Abstract!Execute
<1> QED  BY <1>10 DEF Abstract!Next

LEMMA AgendaTakes ==
  ASSUME IInv, OrderInv, RunStartEvent \/ RunRosyncEvent \/ RunDelThr \/ PullEvent
  PROVE  Abstract!Next
<1>0. Finishing' <=> Finishing
  BY DEF RunStartEvent, RunRosyncEvent, RunDelThr, PullEvent, Goto, AtPull,
         Finishing, EndPC, flags
<1>1. CASE RunStartEvent \/ RunRosyncEvent \/ RunDelThr
  <2>1. \E r \in Region : Taken(r, r)
    BY <1>1, TakenIs DEF Region
  <2> QED  BY <1>0, <2>1, AgendaExecute
<1>2. CASE PullEvent
  <2>1. PICK r \in ReadWrite :
          /\ Taken(r, "active")
          /\ \A s \in ReadWrite : Level(s) < Level(r) => queue[sched_list][s] = <<>>
    BY <1>2, TakenIs
  <2>2. r \in Region /\ "active" \in Region
    BY DEF Region, ReadWrite
  <2>3. r = "active" \/ queue[sched_list]["active"] = <<>>
    BY <2>1 DEF ReadWrite, Level
  <2> QED  BY <1>0, <2>1, <2>2, <2>3, AgendaExecute
<1> QED  BY <1>1, <1>2

LEMMA AgendaClients ==
  ASSUME IInv, OrderInv, ClientCall
  PROVE  [Abstract!Next]_Abstract!vars
<1>1. ASSUME NEW k \in Kind, NEW d \in Nat, ScheduleEvent(k, d)
      PROVE  Abstract!Next
  <2>1. /\ UNCHANGED <<live, queue, schedule_time, ran, runnable, pc>> /\ ~ins.on
        /\ ins'.on /\ ins'.ev = NewEvent(k, d)
    BY <1>1 DEF ScheduleEvent, Client, cells, flags
  <2>2. Pending' = Pending \cup {NewEvent(k, d)}
    <3>1. \A e : e \in Pending' <=> e \in Pending \/ e = NewEvent(k, d)
      BY <2>1, PendingIs
    <3> QED  BY <3>1
  <2> QED  BY <2>1, <2>2, AgendaPost
<1>2. CASE PushEvent
  <2> DEFINE h == sched_list
             e == NewEvent("push", 0)
  <2>1. /\ UNCHANGED <<live, schedule_time, ran, runnable, pc, ins>> /\ ~ins.on
        /\ queue' = [queue EXCEPT ![h]["active"] = <<e>> \o @] /\ h # Null
    BY <1>2 DEF PushEvent, Client, cells, flags
  <2>2. "push" \in Kind /\ 0 \in Nat
    BY DEF Kind
  <2>3. h \in live /\ e \in Event /\ "active" \in Region
    BY <2>1, <2>2, CellFacts, NewEventType DEF Region
  <2>4. e = NewEvent("push", 0)
    OBVIOUS
  <2> HIDE DEF h, e
  <2>5. /\ queue'[h]["active"] = <<e>> \o queue[h]["active"]
        /\ \A d \in live, r \in Region :
             ~(d = h /\ r = "active") => queue'[d][r] = queue[d][r]
        /\ queue[h]["active"] \in Seq(Event)
    BY <2>1, <2>3, CellFacts
  <2>6. EventsOf(queue'[h]["active"]) = EventsOf(queue[h]["active"]) \cup {e}
    BY <2>3, <2>5, EventsOfPush
  <2>7. ASSUME NEW x PROVE x \in Pending' <=> x \in Pending \/ x = e
    <3>1. x \in Pending' <=> \E c \in live, r \in Region : x \in EventsOf(queue'[c][r])
      BY <2>1, PendingIs
    <3>2. x \in Pending <=> \E c \in live, r \in Region : x \in EventsOf(queue[c][r])
      BY <2>1, PendingIs
    <3> QED  BY <2>3, <2>5, <2>6, <3>1, <3>2
  <2>8. Pending' = Pending \cup {e}
    BY <2>7
  <2> QED  BY <2>1, <2>2, <2>4, <2>8, AgendaPost
<1>3. CASE InitEvent \/ FinalEvent \/ Stop
  <2>1. UNCHANGED <<live, queue, ins, schedule_time, ran, runnable, pc>>
    BY <1>3 DEF InitEvent, FinalEvent, Stop, cells, flags
  <2>2. Pending' = Pending
    BY <2>1 DEF Pending
  <2> QED  BY <2>1, <2>2, AgendaControl DEF Finishing
<1>4. CASE Finish
  <2>1. /\ UNCHANGED <<live, ins, schedule_time, ran>> /\ ~ins.on
        /\ queue' = Cleared /\ ~runnable'
    BY <1>4 DEF Finish, Client, cells
  <2> QED  BY <2>1, AgendaFinish DEF Finishing
<1>5. Region \subseteq Kind /\ "push" \in Kind /\ 0 \in Nat /\ 0..MaxDelay \subseteq Nat
  BY BoundAssumption DEF Kind
<1> QED  BY <1>1, <1>2, <1>3, <1>4, <1>5 DEF ClientCall, PushFallback

LEMMA AgendaControls ==
  ASSUME IInv,
         \/ Returns
         \/ RunInitEvent \/ InitDone \/ StartSimulation
         \/ OutOfEvents \/ SeeStop \/ ResetStop \/ Interact
         \/ DebuggerFinished \/ (\E step \in BOOLEAN : DebuggerReturn(step))
         \/ FinishedBreak \/ StartDone \/ NothingToPull \/ RosyncDone
         \/ RunFinalEvent \/ FinalDone
         \/ (\E t \in BOOLEAN : Signal(t))
         \/ UNCHANGED vars
  PROVE  [Abstract!Next]_Abstract!vars
<1>1. CASE Returns
  <2> USE <1>1 DEF Returns, EndOfCompile, EndInitEvent, EndNextSimTime,
        EndStartEvent, EndActiveEvent, EndRosyncEvent, EndDelThr, EndFinalEvent,
        Postsim, Return, Goto
  <2>1. UNCHANGED <<live, queue, ins, schedule_time, ran, runnable>>
    BY DEF cells, ghosts, flags
  <2>2. Finishing => Finishing'
    BY DEF flags, Finishing, EndPC
  <2>3. Pending' = Pending
    BY <2>1 DEF Pending
  <2> QED  BY <2>1, <2>2, <2>3, AgendaControl
<1>2. CASE (\E t \in BOOLEAN : Signal(t)) \/ UNCHANGED vars
  <2>1. UNCHANGED <<live, queue, ins, schedule_time, ran, runnable, pc>>
    BY <1>2 DEF Signal, vars, cells, ghosts, flags
  <2>2. Pending' = Pending
    BY <2>1 DEF Pending
  <2> QED  BY <2>1, <2>2, AgendaControl DEF Finishing
<1>3. CASE \/ RunInitEvent \/ InitDone \/ StartSimulation
           \/ OutOfEvents \/ SeeStop \/ ResetStop \/ Interact
           \/ DebuggerFinished \/ (\E step \in BOOLEAN : DebuggerReturn(step))
           \/ FinishedBreak \/ StartDone \/ NothingToPull \/ RosyncDone
           \/ RunFinalEvent \/ FinalDone
  <2> USE <1>3 DEF RunInitEvent, InitDone, StartSimulation, OutOfEvents, SeeStop,
            ResetStop, Interact, DebuggerFinished, DebuggerReturn,
            FinishedBreak, StartDone, NothingToPull, RosyncDone, RunFinalEvent,
            FinalDone, Leave, Goto, AtPull
  <2>1. UNCHANGED <<live, queue, ins, schedule_time, ran>>
    BY DEF cells, ghosts
  <2>2. Finishing => Finishing'
    BY DEF flags, Finishing, EndPC
  <2> HIDE <1>3
  <2>3. Pending' = Pending
    BY <2>1 DEF Pending
  <2> QED  BY <2>1, <2>2, <2>3, AgendaControl
<1> QED  BY <1>1, <1>2, <1>3

\* Time moves to the first cell, which has an event and is the earliest.
LEMMA AgendaAdvance ==
  ASSUME IInv, StepInv, AdvanceTime
  PROVE  Abstract!Next
<1> DEFINE h == sched_list
<1>1. /\ UNCHANGED <<live, queue, ins, ran, runnable>> /\ runnable
      /\ pc = "loop" /\ pc' = "nextsim" /\ ~ins.on /\ h # Null
      /\ schedule_time' = schedule_time + delay[h] /\ delay[h] > 0
  BY DEF AdvanceTime, Goto, flags, ghosts
<1>2. h \in live /\ at[h] = schedule_time' /\ at[h] > schedule_time
      /\ \A c \in live : at[c] >= schedule_time'
  <2>1. h \in live /\ schedule_time \in Nat /\ delay[h] \in Nat
    BY <1>1, CellFacts
  <2>2. at[h] = schedule_time + delay[h] /\ \A c \in live : at[h] <= at[c]
    BY <1>1 DEF IInv, Deltas, Linked
  <2>3. \A c \in live : at[c] \in Nat
    BY CellFacts
  <2> QED  BY <1>1, <2>1, <2>2, <2>3
<1> HIDE DEF h
<1>3. PICK r \in Region : queue[h][r] # <<>>
  BY <1>1, <1>2 DEF StepInv, FutureFull, EndPC
<1>4. Head(queue[h][r]) \in EventsOf(queue[h][r])
  BY <1>2, <1>3, CellFacts, EventsOfTail
<1>5. /\ Head(queue[h][r]) \in Pending /\ Head(queue[h][r]).due > schedule_time
      /\ schedule_time' = Head(queue[h][r]).due
  BY <1>2, <1>4, CellFacts, PendingIs
<1>6. ASSUME NEW e \in Pending PROVE e.due >= schedule_time'
  BY <1>1, <1>2, CellFacts, PendingIs
<1>7. Pending' = Pending
  BY <1>1 DEF Pending
<1>8. ~(~runnable \/ pc \in EndPC) /\ ~(~runnable \/ pc \in EndPC)'
  BY <1>1 DEF EndPC
<1>9. Abstract!Tick
  BY <1>1, <1>5, <1>6, <1>7, <1>8 DEF Abstract!Tick
<1> QED  BY <1>9 DEF Abstract!Next

\* A time step ends: what is dropped with its cell was too late for it.
LEMMA AgendaExpire ==
  ASSUME Inductive, EndCell
  PROVE  Abstract!Next
<1> DEFINE h == sched_list
<1>0. IInv /\ OrderInv /\ StepInv
  BY DEF Inductive
<1>1. /\ UNCHANGED <<ins, ran, runnable, schedule_time>> /\ ~ins.on
      /\ pc = "del_thr" /\ pc' = "loop" /\ live' = live \ {h}
      /\ queue' = [queue EXCEPT ![h] = [r \in Region |-> <<>>]]
      /\ queue[h]["del_thr"] = <<>>
  BY DEF EndCell, Goto, flags, ghosts
<1>2. h \in live /\ at[h] = schedule_time
  BY <1>0, <1>1, CellFacts DEF IInv, AtHead, WorkPC
<1>3. \A c \in live' : c \in live /\ queue'[c] = queue[c]
  BY <1>0, <1>1, CellFacts
<1>4. \A c \in live : c \notin live' => c = h
  BY <1>1
<1>5. /\ queue[h]["rosync"] = <<>>
      /\ \A e \in EventsOf(queue[h]["start"]) : e.from = schedule_time
      /\ \A r \in ReadWrite : \A e \in EventsOf(queue[h][r]) : e.ro
  BY <1>0, <1>1, <1>2 DEF StepInv, Leftovers, ReadOnlyStable
<1> HIDE DEF h
<1>6. Pending' \subseteq Pending
  BY <1>1, <1>3, PendingIs
<1>7. ASSUME NEW e \in Pending \ Pending'
      PROVE  e.due = schedule_time /\ (e.ro \/ (e.kind = "start" /\ e.from = e.due))
  <2>1. PICK r \in Region : e \in EventsOf(queue[h][r])
    BY <1>1, <1>3, <1>4, PendingIs
  <2>2. e.due = schedule_time
    BY <1>0, <1>2, <2>1, CellFacts
  <2>3. CASE r = "start"
    <3>1. e.kind = "start"
      BY <1>0, <1>2, <2>1, <2>3 DEF OrderInv, InOrder, Belongs
    <3> QED  BY <1>5, <2>1, <2>2, <2>3, <3>1
  <2>4. CASE r \in ReadWrite
    BY <1>5, <2>1, <2>2, <2>4
  <2>5. r \notin {"rosync", "del_thr"}
    BY <1>1, <1>5, <2>1, EventsOfShort
  <2> QED  BY <2>3, <2>4, <2>5 DEF Region, ReadWrite
<1>8. (~runnable \/ pc \in EndPC)' = (~runnable \/ pc \in EndPC)
  BY <1>1 DEF EndPC
<1>9. Abstract!Expire
  BY <1>1, <1>6, <1>7, <1>8 DEF Abstract!Expire, Abstract!Late
<1> QED  BY <1>9 DEF Abstract!Next

LEMMA AgendaStep ==
  ASSUME Inductive, [Next]_vars
  PROVE  [Abstract!Next]_Abstract!vars
<1>0. IInv /\ OrderInv /\ StepInv
  BY DEF Inductive
<1>1. CASE StopIsFinish
  <2>1. /\ UNCHANGED <<live, ins, ran, schedule_time>>
        /\ pc = "stop_handler" /\ queue' = Cleared /\ pc' = "final"
    BY <1>1 DEF StopIsFinish, Leave, cells, ghosts
  <2>2. ~ins.on
    BY <1>0, <2>1, NotWalking DEF ClientPC
  <2> QED  BY <1>0, <2>1, <2>2, AgendaFinish DEF Finishing, EndPC
<1> QED
  BY <1>0, <1>1, AgendaClients, AgendaInsert, AgendaControls, AgendaTakes,
     AgendaAdvance, AgendaExpire
     DEF Next, MainThread, Simulate, Done

\* The delta-coded list of cells, with all of its lists, implements the agenda.
THEOREM Refinement == Spec => Implements
<1>1. Init => Abstract!Init
  <2> SUFFICES ASSUME Init PROVE Abstract!Init
    OBVIOUS
  <2>1. live = {} /\ ~ins.on /\ schedule_time = 0 /\ ran = {}
        /\ runnable = TRUE /\ pc = "compile"
    BY DEF Init, NoIns
  <2>2. \A e : e \notin Pending
    BY <2>1, PendingIs
  <2>3. Pending = {}
    BY <2>2
  <2>4. (~runnable \/ pc \in EndPC) = FALSE
    BY <2>1 DEF EndPC
  <2> QED  BY <2>1, <2>3, <2>4 DEF Abstract!Init
<1>2. Inductive /\ [Next]_vars => [Abstract!Next]_Abstract!vars
  BY AgendaStep
<1> QED
  BY <1>1, <1>2, ScheduleInductive, PTL DEF Spec, Implements, Abstract!Spec
=============================================================================
