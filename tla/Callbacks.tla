------------------------------ MODULE Callbacks -----------------------------
(***************************************************************************)
(* VPI callbacks (vvp/vpi_callback.cc): the objects that vpi_register_cb   *)
(* makes, the mark that vpi_remove_cb leaves, the four lists of simulator  *)
(* callbacks, the one-shot callbacks that go through the event queue, and  *)
(* the list of value change callbacks of a signal, which                   *)
(* run_vpi_callbacks walks while the callbacks themselves add to it, mark  *)
(* its members and, by putting a value, start another walk of it.          *)
(*                                                                         *)
(* Of the event queue the model keeps the current time and the regions     *)
(* (module Schedule is about the queue itself).  The code of a callback is *)
(* arbitrary: it registers, removes, puts values and returns.  A call of a *)
(* null pointer or a failed assertion ends the run with fault set.         *)
(***************************************************************************)
EXTENDS Integers, Sequences, SequencesExt

CONSTANTS Objects,      \* callback objects, never reused (bound)
          None,         \* the null pointer
          Signals,      \* signals with value change callbacks
          Reasons,      \* the reasons for which clients register
          MaxTime,      \* bound: the last simulation time
          MaxChanges,   \* bound: value changes of a signal
          MaxTasks,     \* bound: calls of system tasks
          Features      \* what clients do, of the three below

ObjectAssumption == None \notin Objects
BoundAssumption == {MaxTime, MaxChanges, MaxTasks} \subseteq Nat
FeatureAssumption == Features \subseteq
  {"nested",           \* put a value on a signal whose callbacks are running
   "remove_value",     \* remove value change callbacks
   "remove_prepost"}   \* remove callbacks of the four simulator lists

Prepost == {"EndOfCompile", "StartOfSimulation", "NextSimTime", "EndOfSimulation"}
Sync == {"ReadOnlySynch", "ReadWriteSynch", "AfterDelay", "AtStartOfSimTime",
         "AtEndOfSimTime"}
Value == {"ValueChange", "PartChange"}

ReasonAssumption == Reasons \subseteq Prepost \cup Sync \cup Value

VARIABLES
  obj,      \* the callback objects
  lists,    \* the four lists of simulator callbacks, newest first
  head,     \* vpi_callbacks_ of each signal
  val,      \* value of each signal: the bits of the part select, the others
  mode,     \* vpi_mode_flag
  stack,    \* activations of the functions that run callbacks
  phase,    \* where main() and schedule_simulate are
  now,      \* schedule_simtime()
  changes,  \* number of value changes of each signal
  tasks,    \* number of calls of system tasks
  fault     \* the assertion or null pointer that ended the run

vars == <<obj, lists, head, val, mode, stack, phase, now, changes, tasks, fault>>

-----------------------------------------------------------------------------
(* Objects and activations.                                                *)

\* next links the value change callbacks of a signal, due is the time at which the
\* queue has the event of a one-shot one, bits is value_bits_.  Ghosts: told is the
\* change of the signal that the callback has last heard of, want is the time that
\* the client meant, made and ran are the times of registration and call.
Blank == [state |-> "none", reason |-> "none", rtn |-> FALSE, sig |-> None,
          next |-> None, due |-> 0, bits |-> 0, told |-> 0, want |-> 0, made |-> 0,
          calls |-> 0, ran |-> 0]

\* An activation: of a list, of an event of the queue, of a walk over a signal's
\* callbacks or of a system task.  cur is the callback whose function is running.
Frame(at, name, c, saved) ==
  [at |-> at, name |-> name, cur |-> c, next |-> None, prev |-> None, save |-> saved]

Top == stack[Len(stack)]
SetTop(f) == Append(Front(stack), f)

Live(c) == obj[c].state = "live"

\* schedule_at_rosync
AtRosync == \E i \in 1..Len(stack) :
              stack[i].at = "event" /\ obj[stack[i].cur].reason = "ReadOnlySynch"

\* Client code is running: a system task, or the function of a callback.
InClient == /\ fault = "none"
            /\ stack # <<>>
            /\ Top.at = "task" \/ Top.cur # None

Idle == fault = "none" /\ stack = <<>>

Init ==
  /\ obj = [c \in Objects |-> Blank]
  /\ lists = [l \in Prepost |-> <<>>]
  /\ head = [s \in Signals |-> None]
  /\ val = [s \in Signals |-> [part |-> 0, other |-> 0]]
  /\ mode = "register"
  /\ stack = <<Frame("task", None, None, "none")>>
  /\ phase = "load"
  /\ now = 0
  /\ changes = [s \in Signals |-> 0]
  /\ tasks = 0
  /\ fault = "none"

-----------------------------------------------------------------------------
(* vpi_register_cb and vpi_remove_cb.                                      *)

New(c, r) == [Blank EXCEPT !.state = "live", !.reason = r, !.rtn = TRUE, !.made = now]

\* The next object that the allocator returns.
Fresh(c) == obj[c].state = "none"

\* make_value_change and value_part_callback: the object becomes the head of the
\* signal's list; one for a part select remembers the bits.
MakeValueChange(c, r, s) ==
  /\ r \in Value
  /\ obj' = [obj EXCEPT ![c] = [New(c, r) EXCEPT !.sig = s, !.next = head[s],
                                  !.bits = val[s].part, !.told = changes[s]]]
  /\ head' = [head EXCEPT ![s] = c]
  /\ UNCHANGED lists

\* cbAtStartOfSimTime and cbAtEndOfSimTime give a time, the others a delay.
Absolute == {"AtStartOfSimTime", "AtEndOfSimTime"}

\* The delay that is handed to the scheduler for the time t of the client.
DelayOf(r, t) == IF r \in Absolute THEN t - now ELSE t

\* make_sync, make_afterdelay, make_at_start_of_sim_time, make_at_end_of_sim_time.
\* A time in the past is an assertion that no client provokes.  A read-only callback
\* may ask only for read-only ones in its time step (the comment on run_rosync).
MakeSync(c, r, t) ==
  LET d == DelayOf(r, t) IN
  /\ r \in Sync
  /\ r \in Absolute => t >= now
  /\ now + d <= MaxTime
  /\ AtRosync /\ d = 0 => r = "ReadOnlySynch"
  /\ obj' = [obj EXCEPT ![c] = [New(c, r) EXCEPT !.due = now + d,
                                  !.want = IF r \in Absolute THEN t ELSE now + t]]
  /\ UNCHANGED <<lists, head>>

\* make_prepost
MakePrepost(c, r) ==
  /\ r \in Prepost
  /\ obj' = [obj EXCEPT ![c] = New(c, r)]
  /\ lists' = [lists EXCEPT ![r] = <<c>> \o @]
  /\ UNCHANGED head

Register ==
  /\ InClient
  /\ \E c \in Objects, r \in Reasons :
       /\ Fresh(c)
       /\ \/ \E s \in Signals : MakeValueChange(c, r, s)
          \/ \E t \in 0..MaxTime : MakeSync(c, r, t)
          \/ MakePrepost(c, r)
  /\ UNCHANGED <<val, mode, stack, phase, now, changes, tasks, fault>>

\* vpi_remove_cb of a handle that is still good.
RemoveCb(c) ==
  /\ InClient
  /\ Live(c) /\ obj[c].rtn
  /\ obj[c].reason \in Value => "remove_value" \in Features
  /\ obj[c].reason \in Prepost => "remove_prepost" \in Features
  /\ obj' = [obj EXCEPT ![c].rtn = FALSE]
  /\ UNCHANGED <<lists, head, val, mode, stack, phase, now, changes, tasks, fault>>

-----------------------------------------------------------------------------
(* Value changes and run_vpi_callbacks.                                    *)

\* The signal gets a value and its callbacks are run.
Change(s, v) ==
  /\ changes[s] < MaxChanges
  /\ val' = [val EXCEPT ![s] = v]
  /\ changes' = [changes EXCEPT ![s] = @ + 1]
  /\ stack' = Append(stack, [Frame("walk", s, None, mode) EXCEPT !.next = head[s]])
  /\ UNCHANGED <<obj, lists, head, mode, phase, now, tasks, fault>>

Values == [part : 0..1, other : 0..1]

\* vpi_put_value without a delay; in a read-only callback it is refused.
PutValue(s, v) ==
  /\ InClient
  /\ phase # "load"
  /\ ~AtRosync
  /\ "nested" \in Features \/ \A i \in 1..Len(stack) :
                                ~(stack[i].at = "walk" /\ stack[i].name = s)
  /\ Change(s, v)

\* A thread or a gate gives the signal a value.
Assign(s, v) == Idle /\ phase = "sim" /\ Change(s, v)

\* A mutant: the compare is with the initial bits.
ReadyOnce(c, s) == obj[c].reason = "PartChange" => obj[c].told = 0 /\ obj[c].bits # val[s].part

\* test_value_callback_ready
Ready(c, s) == obj[c].reason = "PartChange" => obj[c].bits # val[s].part

\* The loop of run_vpi_callbacks looks at the next callback.
Walking(s) == fault = "none" /\ stack # <<>> /\ Top.at = "walk" /\ Top.name = s
              /\ Top.cur = None

\* callback_execute
WalkCall(s) ==
  LET c == Top.next IN
  /\ Walking(s) /\ c # None
  /\ obj[c].rtn /\ Ready(c, s)
  /\ stack' = SetTop([Top EXCEPT !.cur = c, !.next = obj[c].next, !.save = mode])
  /\ mode' = "rwsync"
  /\ obj' = [obj EXCEPT ![c].bits = val[s].part, ![c].told = changes[s]]
  /\ UNCHANGED <<lists, head, val, phase, now, changes, tasks, fault>>

WalkSkip(s) ==
  LET c == Top.next IN
  /\ Walking(s) /\ c # None
  /\ obj[c].rtn /\ ~Ready(c, s)
  /\ stack' = SetTop([Top EXCEPT !.next = obj[c].next, !.prev = c])
  /\ obj' = [obj EXCEPT ![c].told = changes[s]]
  /\ UNCHANGED <<lists, head, val, mode, phase, now, changes, tasks, fault>>

Deleted(c) == [obj[c] EXCEPT !.state = "deleted", !.next = None]

\* A marked callback is taken out of the list and deleted.
WalkReap(s) ==
  LET c == Top.next p == Top.prev IN
  /\ Walking(s) /\ c # None
  /\ ~obj[c].rtn
  /\ stack' = SetTop([Top EXCEPT !.next = obj[c].next])
  /\ IF p = None
     THEN /\ head' = [head EXCEPT ![s] = obj[c].next]
          /\ obj' = [obj EXCEPT ![c] = Deleted(c)]
          /\ UNCHANGED fault
     ELSE /\ obj' = [obj EXCEPT ![p].next = obj[c].next, ![c] = Deleted(c)]
          /\ fault' = IF obj[p].next = c THEN fault ELSE "assert"
          /\ UNCHANGED head
  /\ UNCHANGED <<lists, val, mode, phase, now, changes, tasks>>

\* The function returns to callback_execute.
WalkReturn(s) ==
  /\ InClient
  /\ Top.at = "walk" /\ Top.name = s
  /\ stack' = SetTop([Top EXCEPT !.prev = Top.cur, !.cur = None])
  /\ mode' = Top.save
  /\ UNCHANGED <<obj, lists, head, val, phase, now, changes, tasks, fault>>

WalkEnd(s) ==
  /\ Walking(s) /\ Top.next = None
  /\ stack' = Front(stack)
  /\ UNCHANGED <<obj, lists, head, val, mode, phase, now, changes, tasks, fault>>

-----------------------------------------------------------------------------
(* System tasks, and the simulator's own lists.                            *)

\* Every function that runs callbacks or a task asserts that none is running.
Enter(f, m) ==
  /\ stack' = Append(stack, f)
  /\ mode' = m
  /\ fault' = IF mode = "none" THEN fault ELSE "assert"

\* vpip_execute_vpi_call
CallTask ==
  /\ Idle /\ phase = "sim"
  /\ tasks < MaxTasks
  /\ tasks' = tasks + 1
  /\ Enter(Frame("task", None, None, mode), "calltf")
  /\ UNCHANGED <<obj, lists, head, val, phase, now, changes>>

\* The end of the start-up routines, or of a calltf function.
TaskReturn ==
  /\ InClient /\ Top.at = "task"
  /\ stack' = <<>>
  /\ mode' = "none"
  /\ phase' = IF phase = "load" THEN "EndOfCompile" ELSE phase
  /\ UNCHANGED <<obj, lists, head, val, now, changes, tasks, fault>>

\* The list that the main program runs in each phase.
ListOf == [EndOfCompile |-> "EndOfCompile", StartOfSimulation |-> "StartOfSimulation",
           next |-> "NextSimTime", post |-> "EndOfSimulation"]
PhaseAfter == [EndOfCompile |-> "StartOfSimulation", StartOfSimulation |-> "sim",
               next |-> "start", post |-> "done"]

\* vpiEndOfCompile, vpiStartOfSim, vpiNextSimTime, vpiPostsim.
RunList ==
  /\ Idle /\ phase \in DOMAIN ListOf
  /\ Enter(Frame("list", ListOf[phase], None, mode),
           IF phase = "post" THEN "rosync" ELSE "rwsync")
  /\ UNCHANGED <<obj, lists, head, val, phase, now, changes, tasks>>

InList == fault = "none" /\ stack # <<>> /\ Top.at = "list" /\ Top.cur = None

\* Take the first callback of the list and call its function, null or not.
ListCall ==
  /\ InList
  /\ LET l == Top.name IN
     /\ lists[l] # <<>>
     /\ LET c == Head(lists[l]) IN
        /\ stack' = SetTop([Top EXCEPT !.cur = c])
        /\ obj' = [obj EXCEPT ![c].calls = @ + 1, ![c].ran = now]
        /\ fault' = IF obj[c].rtn THEN fault ELSE "null"
     /\ lists' = [lists EXCEPT ![l] = Tail(@)]
  /\ UNCHANGED <<head, val, mode, phase, now, changes, tasks>>

ListReturn ==
  /\ InClient /\ Top.at = "list"
  /\ obj' = [obj EXCEPT ![Top.cur] = Deleted(Top.cur)]
  /\ stack' = SetTop([Top EXCEPT !.cur = None])
  /\ UNCHANGED <<lists, head, val, mode, phase, now, changes, tasks, fault>>

ListEnd ==
  /\ InList /\ lists[Top.name] = <<>>
  /\ stack' = Front(stack)
  /\ mode' = "none"
  /\ phase' = PhaseAfter[phase]
  /\ UNCHANGED <<obj, lists, head, val, now, changes, tasks, fault>>

-----------------------------------------------------------------------------
(* One-shot callbacks in the event queue.                                  *)

Level == [AtStartOfSimTime |-> 1, AfterDelay |-> 2, ReadWriteSynch |-> 3,
          AtEndOfSimTime |-> 3, ReadOnlySynch |-> 4]

Pending == {c \in Objects : Live(c) /\ obj[c].reason \in Sync /\ obj[c].calls = 0}

\* Start events run in their own phase of a time step, the others after it.
Due(c) == /\ c \in Pending /\ obj[c].due = now
          /\ obj[c].reason = "AtStartOfSimTime" <=> phase = "start"

\* The scheduler reaches the event of c: nothing of an earlier region is left.
Reached(c) == /\ Idle /\ phase \in {"start", "sim"}
              /\ Due(c)
              /\ \A b \in Pending : Due(b) => Level[obj[c].reason] <= Level[obj[b].reason]

\* sync_cb::run_run
RunEvent(c) ==
  /\ Reached(c) /\ obj[c].rtn
  /\ Enter(Frame("event", None, c, mode),
           IF obj[c].reason = "ReadOnlySynch" THEN "rosync" ELSE "rwsync")
  /\ obj' = [obj EXCEPT ![c].calls = @ + 1, ![c].ran = now]
  /\ UNCHANGED <<lists, head, val, phase, now, changes, tasks>>

\* A callback that has been removed is only freed.
ReapEvent(c) ==
  /\ Reached(c) /\ ~obj[c].rtn
  /\ obj' = [obj EXCEPT ![c] = Deleted(c)]
  /\ UNCHANGED <<lists, head, val, mode, stack, phase, now, changes, tasks, fault>>

EventReturn ==
  /\ InClient /\ Top.at = "event"
  /\ obj' = [obj EXCEPT ![Top.cur] = Deleted(Top.cur)]
  /\ stack' = Front(stack)
  /\ mode' = "none"
  /\ UNCHANGED <<lists, head, val, phase, now, changes, tasks, fault>>

StartDone ==
  /\ Idle /\ phase = "start"
  /\ ~\E c \in Pending : Due(c)
  /\ phase' = "sim"
  /\ UNCHANGED <<obj, lists, head, val, mode, stack, now, changes, tasks, fault>>

\* The main loop goes to the next time step, of a callback or of something else.
NextStep(t) ==
  /\ Idle /\ phase = "sim"
  /\ ~\E c \in Pending : Due(c)
  /\ t > now /\ t <= MaxTime
  /\ \A c \in Pending : obj[c].due > now => t <= obj[c].due
  /\ now' = t
  /\ phase' = "next"
  /\ UNCHANGED <<obj, lists, head, val, mode, stack, changes, tasks, fault>>

\* The queue is empty, or $finish.
Finish ==
  /\ Idle /\ phase = "sim"
  /\ phase' = "post"
  /\ UNCHANGED <<obj, lists, head, val, mode, stack, now, changes, tasks, fault>>

Over == (fault # "none" \/ phase = "done") /\ UNCHANGED vars

\* What client code does on its own account.
Client ==
  \/ Register
  \/ \E c \in Objects : RemoveCb(c)
  \/ \E s \in Signals, v \in Values : PutValue(s, v) \/ Assign(s, v)
  \/ CallTask
  \/ Finish

\* What goes on by itself once client code returns.
Simulator ==
  \/ \E s \in Signals : \/ WalkCall(s) \/ WalkSkip(s) \/ WalkReap(s)
                        \/ WalkReturn(s) \/ WalkEnd(s)
  \/ TaskReturn \/ RunList \/ ListCall \/ ListReturn \/ ListEnd
  \/ \E c \in Objects : RunEvent(c) \/ ReapEvent(c)
  \/ EventReturn \/ StartDone
  \/ \E t \in 1..MaxTime : NextStep(t)

Next == Client \/ Simulator \/ Over

Spec == Init /\ [][Next]_vars

-----------------------------------------------------------------------------
(* Properties.                                                             *)

TypeOK ==
  /\ obj \in [Objects -> [state : {"none", "live", "deleted"},
                          reason : {"none"} \cup Prepost \cup Sync \cup Value,
                          rtn : BOOLEAN, sig : Signals \cup {None},
                          next : Objects \cup {None}, due : Nat, bits : 0..1,
                          told : Nat, want : Nat, made : Nat, calls : Nat, ran : Nat]]
  /\ lists \in [Prepost -> Seq(Objects)]
  /\ head \in [Signals -> Objects \cup {None}]
  /\ val \in [Signals -> Values]
  /\ mode \in {"none", "register", "calltf", "rwsync", "rosync"}
  /\ stack \in Seq([at : {"task", "list", "event", "walk"},
                    name : Signals \cup Prepost \cup {None},
                    cur : Objects \cup {None}, next : Objects \cup {None},
                    prev : Objects \cup {None},
                    save : {"none", "register", "calltf", "rwsync", "rosync"}])
  /\ phase \in {"load", "EndOfCompile", "StartOfSimulation", "next", "start", "sim",
                "post", "done"}
  /\ now \in 0..MaxTime
  /\ changes \in [Signals -> Nat]
  /\ tasks \in Nat
  /\ fault \in {"none", "assert", "null"}

\* No function runs through a null pointer and no assertion fails: the mode flag
\* is clear whenever a list, an event or a task begins, and prev points to cur
\* when run_vpi_callbacks takes a callback out.
NoFault == fault = "none"

\* Nothing refers to an object that has been deleted: neither a list, nor the
\* link of a live object, nor the local variables of a walk in progress.
NoDangling ==
  LET Good(c) == c = None \/ Live(c) IN
  /\ \A l \in Prepost : \A i \in 1..Len(lists[l]) : Live(lists[l][i])
  /\ \A s \in Signals : Good(head[s])
  /\ \A c \in Objects : Live(c) => Good(obj[c].next)
  /\ \A i \in 1..Len(stack) :
       Good(stack[i].cur) /\ Good(stack[i].next) /\ Good(stack[i].prev)

\* When no callback is running, every value change callback has been told of the
\* last change of its signal; one for a part select has been called unless the
\* part has the bits that it was last called with.
EveryChangeTold ==
  stack = <<>> =>
    \A c \in Objects : Live(c) /\ obj[c].rtn /\ obj[c].reason \in Value =>
      /\ obj[c].told = changes[obj[c].sig]
      /\ obj[c].reason = "PartChange" => obj[c].bits = val[obj[c].sig].part

\* The mode that client code sees is the mode of the innermost activation,
\* however deep walks are nested, and none is left behind.
ModeRestored ==
  mode = IF stack = <<>> THEN "none"
         ELSE CASE Top.at = "walk" -> IF Top.cur = None THEN Top.save ELSE "rwsync"
                [] Top.at = "task" -> IF phase = "load" THEN "register" ELSE "calltf"
                [] Top.at = "list" -> IF phase = "post" THEN "rosync" ELSE "rwsync"
                [] Top.at = "event" -> IF obj[Top.cur].reason = "ReadOnlySynch"
                                       THEN "rosync" ELSE "rwsync"

\* A one-shot callback is called once and exactly at the time it asked for.
OnTime ==
  \A c \in Objects : obj[c].calls > 0 =>
    /\ obj[c].calls = 1
    /\ obj[c].reason \in Sync => obj[c].ran = obj[c].want

\* "This causes the callback to quietly reap itself": no removed callback is called.
QuietReap == fault # "null"

\* assert(prev->next == cur) in run_vpi_callbacks
PrevLinked == fault # "assert"

\* A cbNextSimTime callback belongs to a later time than the one of its registration.
NextTime ==
  \A c \in Objects : obj[c].reason = "NextSimTime" /\ obj[c].calls > 0 =>
    obj[c].ran > obj[c].made
=============================================================================
