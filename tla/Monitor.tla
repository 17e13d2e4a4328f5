------------------------------ MODULE Monitor ------------------------------
(***************************************************************************)
(* $monitor, $monitoron, $monitoroff and $strobe of vpi/sys_display.c.     *)
(* One monitor exists at a time, in static variables: the items of the     *)
(* last $monitor call, a value change callback on each, and the flag that  *)
(* one line is due at the end of the time step.  A line is the values of   *)
(* its items when it is formatted.                                         *)
(***************************************************************************)
EXTENDS Integers, Sequences, FiniteSets, TLAPS

CONSTANTS Vars,        \* variables of the design
          Values,
          Lists,       \* argument lists: sets of variables
          MaxTime,     \* bound on the time steps
          MaxOps       \* bound on the statements of one step

VARIABLES val, now, ops, region,
          monitor_items,      \* monitor_info.items, {} before the first call
          watched,            \* variables that have a callback of the monitor
          monitor_scheduled, monitor_enabled,
          ro,                 \* read-only callbacks of this step, in order
          lines,              \* the lines the monitor printed in this step
          due                 \* what happened in this step that calls for a line

design == <<val, now, ops, region>>
monitor == <<monitor_items, watched, monitor_scheduled, monitor_enabled>>
vars == <<design, monitor, ro, lines, due>>

Init ==
    /\ val \in [Vars -> Values]
    /\ now = 0 /\ ops = 0 /\ region = "active"
    /\ monitor_items = {} /\ watched = {}
    /\ monitor_scheduled = FALSE /\ monitor_enabled = TRUE
    /\ ro = <<>> /\ lines = <<>> /\ due = FALSE

Statement == region = "active" /\ ops < MaxOps /\ ops' = ops + 1

(* monitor_cb_1, with the enable flag it sees. *)
monitor_cb_1(enabled) ==
    /\ monitor_scheduled' = (monitor_scheduled \/ enabled)
    /\ ro' = IF enabled /\ ~monitor_scheduled THEN Append(ro, "monitor_cb_2") ELSE ro

(* A statement changes a variable. *)
Change(x, v) ==
    /\ Statement
    /\ v # val[x]
    /\ val' = [val EXCEPT ![x] = v]
    /\ IF x \in watched
       THEN monitor_cb_1(monitor_enabled)
       ELSE UNCHANGED <<monitor_scheduled, ro>>
    /\ due' = (due \/ (x \in monitor_items /\ monitor_enabled))
    /\ UNCHANGED <<now, region, monitor_items, watched, monitor_enabled, lines>>

(* sys_monitor_calltf: the callbacks of the monitor before are removed, the
   new items get theirs, and a first line is due at the end of the step. *)
sys_monitor(items) ==
    /\ Statement
    /\ monitor_items' = items
    /\ watched' = items
    /\ monitor_cb_1(monitor_enabled)
    /\ due' = (due \/ monitor_enabled)
    /\ UNCHANGED <<val, now, region, monitor_enabled, lines>>

sys_monitoron ==
    /\ Statement
    /\ monitor_enabled' = TRUE
    /\ monitor_cb_1(TRUE)
    /\ due' = TRUE
    /\ UNCHANGED <<val, now, region, monitor_items, watched, lines>>

sys_monitoroff ==
    /\ Statement
    /\ monitor_enabled' = FALSE
    /\ UNCHANGED <<val, now, region, monitor_items, watched, monitor_scheduled,
                   ro, lines, due>>

(* $strobe: a line of its own at the end of the step. *)
sys_strobe ==
    /\ Statement
    /\ ro' = Append(ro, "strobe_cb")
    /\ UNCHANGED <<val, now, region, monitor, lines, due>>

----------------------------------------------------------------------------
(* The read-only region *)

(* Before the first $monitor the descriptor of the line is 0, which names no
   channel: nothing is printed. *)
Line == [x \in monitor_items |-> val[x]]

monitor_cb_2 ==
    /\ region = "rosync" /\ ro # <<>> /\ Head(ro) = "monitor_cb_2"
    /\ lines' = IF monitor_items = {} THEN lines ELSE Append(lines, Line)
    /\ monitor_scheduled' = FALSE
    /\ ro' = Tail(ro)
    /\ UNCHANGED <<design, monitor_items, watched, monitor_enabled, due>>

strobe_cb ==
    /\ region = "rosync" /\ ro # <<>> /\ Head(ro) = "strobe_cb"
    /\ ro' = Tail(ro)
    /\ UNCHANGED <<design, monitor, lines, due>>

EndOfActive ==
    /\ region = "active" /\ region' = "rosync"
    /\ UNCHANGED <<val, now, ops, monitor, ro, lines, due>>

Tick ==
    /\ region = "rosync" /\ ro = <<>> /\ now < MaxTime
    /\ now' = now + 1 /\ ops' = 0 /\ region' = "active"
    /\ lines' = <<>> /\ due' = FALSE
    /\ UNCHANGED <<val, monitor, ro>>

Next ==
    \/ \E x \in Vars, v \in Values : Change(x, v)
    \/ \E items \in Lists : sys_monitor(items)
    \/ sys_monitoron
    \/ sys_monitoroff
    \/ sys_strobe
    \/ monitor_cb_2
    \/ strobe_cb
    \/ EndOfActive
    \/ Tick

Spec == Init /\ [][Next]_vars

----------------------------------------------------------------------------
(* Properties *)

StepOver == region = "rosync" /\ ro = <<>>

(* A step in which a watched variable changed while the monitor was enabled,
   or in which the monitor was set or enabled, ends with exactly one line, a
   step without ends with none; the line shows the items of the monitor and
   their values as they are when the step is over, also when $monitor was
   called again, or $monitoroff, after the line became due. *)
OneLine ==
    StepOver => /\ Len(lines) = (IF due /\ monitor_items # {} THEN 1 ELSE 0)
                /\ \A i \in DOMAIN lines : lines[i] = Line

(* The flag says exactly whether a line of this step is still to come: a flag
   that survived its callback would silence the monitor for ever. *)
ScheduledExact ==
    monitor_scheduled = (\E i \in DOMAIN ro : ro[i] = "monitor_cb_2")

(* One read-only callback at most is the monitor's, and the flag knows of it. *)
RoCallbacks ==
    /\ ro \in Seq({"monitor_cb_2", "strobe_cb"})
    /\ monitor_scheduled \in BOOLEAN
    /\ ScheduledExact
    /\ \A i, j \in DOMAIN ro : ro[i] = "monitor_cb_2" /\ ro[j] = "monitor_cb_2" => i = j

(* While statements run, it is there exactly when a line is due; once it has
   run, the line is printed. *)
MonitorInv ==
    /\ RoCallbacks
    /\ region \in {"active", "rosync"} /\ monitor_enabled \in BOOLEAN /\ due \in BOOLEAN
    /\ watched = monitor_items
    /\ region = "active" => due = monitor_scheduled
    /\ monitor_scheduled => due
    /\ lines = IF due /\ ~monitor_scheduled /\ monitor_items # {} THEN <<Line>> ELSE <<>>

----------------------------------------------------------------------------
(* Proofs, for any variables, values, argument lists and numbers of steps and
   statements. *)

(* monitor_cb_1 queues a callback unless there is one already. *)
LEMMA QueuesOnce ==
  ASSUME RoCallbacks, NEW enabled \in BOOLEAN, monitor_cb_1(enabled)
  PROVE  RoCallbacks' /\ monitor_scheduled' = (monitor_scheduled \/ enabled)
<1>1. CASE enabled /\ ~monitor_scheduled
  <2>1. ro' = Append(ro, "monitor_cb_2") /\ monitor_scheduled' = TRUE
    BY <1>1 DEF monitor_cb_1
  <2>2. \A i \in DOMAIN ro : ro[i] # "monitor_cb_2"
    BY <1>1 DEF RoCallbacks, ScheduledExact
  <2>3. PICK r : r = ro'
    OBVIOUS
  <2>4. /\ r \in Seq({"monitor_cb_2", "strobe_cb"}) /\ Len(ro) \in Nat
        /\ DOMAIN r = 1 .. Len(ro) + 1
        /\ r[Len(ro) + 1] = "monitor_cb_2" /\ \A i \in 1 .. Len(ro) : r[i] # "monitor_cb_2"
    BY <2>1, <2>2, <2>3 DEF RoCallbacks
  <2>5. \E i \in DOMAIN r : r[i] = "monitor_cb_2"
    BY <2>4
  <2>6. \A i, j \in DOMAIN r : r[i] = "monitor_cb_2" /\ r[j] = "monitor_cb_2" => i = j
    BY <2>4
  <2>7. ScheduledExact'
    BY <2>1, <2>3, <2>5 DEF ScheduledExact
  <2> QED BY <1>1, <2>1, <2>3, <2>4, <2>6, <2>7 DEF RoCallbacks
<1>2. CASE ~(enabled /\ ~monitor_scheduled)
  <2>1. ro' = ro /\ monitor_scheduled' = (monitor_scheduled \/ enabled)
    BY <1>2 DEF monitor_cb_1
  <2>2. monitor_scheduled' = monitor_scheduled
    BY <1>2, <2>1 DEF RoCallbacks
  <2> QED BY <2>1, <2>2 DEF RoCallbacks, ScheduledExact
<1> QED BY <1>1, <1>2

(* A callback that runs leaves the list. *)
LEMMA RunsOnce ==
  ASSUME RoCallbacks, ro # <<>>, ro' = Tail(ro),
         monitor_scheduled' = IF Head(ro) = "monitor_cb_2" THEN FALSE ELSE monitor_scheduled
  PROVE  RoCallbacks'
<1>1. PICK r : r = ro'
  OBVIOUS
<1>2. /\ r \in Seq({"monitor_cb_2", "strobe_cb"}) /\ Len(ro) \in Nat \ {0}
      /\ DOMAIN r = 1 .. Len(ro) - 1 /\ DOMAIN ro = 1 .. Len(ro) /\ Head(ro) = ro[1]
      /\ \A i \in 1 .. Len(ro) - 1 : r[i] = ro[i + 1] /\ i + 1 \in 1 .. Len(ro)
  BY <1>1 DEF RoCallbacks
<1>3. \A i, j \in DOMAIN r : r[i] = "monitor_cb_2" /\ r[j] = "monitor_cb_2" => i = j
  <2> SUFFICES ASSUME NEW i \in DOMAIN r, NEW j \in DOMAIN r,
                      r[i] = "monitor_cb_2", r[j] = "monitor_cb_2"
               PROVE  i = j
    OBVIOUS
  <2>1. i + 1 = j + 1
    BY <1>2 DEF RoCallbacks
  <2> QED BY <1>2, <2>1
<1>4. monitor_scheduled' = (\E i \in DOMAIN r : r[i] = "monitor_cb_2")
  <2>1. CASE ro[1] = "monitor_cb_2"
    <3>1. ASSUME NEW i \in DOMAIN r, r[i] = "monitor_cb_2" PROVE FALSE
      <4>1. ro[i + 1] = "monitor_cb_2" /\ i + 1 \in DOMAIN ro /\ 1 \in DOMAIN ro /\ i + 1 # 1
        BY <1>2, <3>1
      <4> QED BY <2>1, <4>1 DEF RoCallbacks
    <3> QED BY <1>2, <2>1, <3>1
  <2>2. CASE ro[1] # "monitor_cb_2"
    <3>1. ASSUME NEW k \in DOMAIN ro, ro[k] = "monitor_cb_2"
          PROVE  \E i \in DOMAIN r : r[i] = "monitor_cb_2"
      <4>1. k - 1 \in DOMAIN r /\ (k - 1) + 1 = k
        BY <1>2, <2>2, <3>1
      <4> QED BY <1>2, <3>1, <4>1
    <3>2. ASSUME NEW i \in DOMAIN r, r[i] = "monitor_cb_2"
          PROVE  \E k \in DOMAIN ro : ro[k] = "monitor_cb_2"
      <4>1. i + 1 \in DOMAIN ro /\ ro[i + 1] = "monitor_cb_2"
        BY <1>2, <3>2
      <4> QED BY <4>1
    <3>3. monitor_scheduled' = (\E k \in DOMAIN ro : ro[k] = "monitor_cb_2")
      BY <1>2, <2>2 DEF RoCallbacks, ScheduledExact
    <3> QED BY <3>1, <3>2, <3>3
  <2> QED BY <2>1, <2>2
<1>5. monitor_scheduled' \in BOOLEAN
  BY DEF RoCallbacks
<1> QED BY <1>1, <1>2, <1>3, <1>4, <1>5 DEF RoCallbacks, ScheduledExact

(* While statements run nothing is printed. *)
LEMMA StatementKeeps ==
  ASSUME MonitorInv, region = "active", region' = region, lines' = lines, RoCallbacks',
         monitor_enabled' \in BOOLEAN, due' \in BOOLEAN, watched' = monitor_items',
         due' = monitor_scheduled'
  PROVE  MonitorInv'
<1>1. lines = <<>>
  BY DEF MonitorInv
<1> QED BY <1>1 DEF MonitorInv

(* Every step keeps the invariant. *)
LEMMA MonitorStep ==
  ASSUME MonitorInv, [Next]_vars
  PROVE  MonitorInv'
<1>0. /\ RoCallbacks /\ monitor_enabled \in BOOLEAN /\ due \in BOOLEAN /\ watched = monitor_items
      /\ monitor_scheduled \in BOOLEAN /\ (region = "active" => due = monitor_scheduled)
  BY DEF MonitorInv, RoCallbacks
<1>1. CASE \E x \in Vars, v \in Values : Change(x, v)
  <2>1. PICK x \in Vars, v \in Values : Change(x, v)
    BY <1>1
  <2>2. /\ region = "active" /\ region' = region /\ lines' = lines
        /\ monitor_enabled' = monitor_enabled
        /\ monitor_items' = monitor_items /\ watched' = watched
        /\ due' = (due \/ (x \in monitor_items /\ monitor_enabled))
    BY <2>1 DEF Change, Statement
  <2>3. CASE x \in watched
    <3>1. monitor_cb_1(monitor_enabled)
      BY <2>1, <2>3 DEF Change
    <3>2. RoCallbacks' /\ monitor_scheduled' = (monitor_scheduled \/ monitor_enabled)
      BY <1>0, <3>1, QueuesOnce
    <3>3. due' = monitor_scheduled' /\ due' \in BOOLEAN
      BY <1>0, <2>2, <2>3, <3>2
    <3> QED BY <1>0, <2>2, <3>2, <3>3, StatementKeeps
  <2>4. CASE x \notin watched
    <3>1. monitor_scheduled' = monitor_scheduled /\ ro' = ro
      BY <2>1, <2>4 DEF Change
    <3>2. RoCallbacks'
      BY <1>0, <3>1 DEF RoCallbacks, ScheduledExact
    <3>3. due' = monitor_scheduled' /\ due' \in BOOLEAN
      BY <1>0, <2>2, <2>4, <3>1
    <3> QED BY <1>0, <2>2, <3>2, <3>3, StatementKeeps
  <2> QED BY <2>3, <2>4
<1>2. CASE \E items \in Lists : sys_monitor(items)
  <2>1. PICK items \in Lists : sys_monitor(items)
    BY <1>2
  <2>2. /\ region = "active" /\ region' = region /\ lines' = lines
        /\ monitor_enabled' = monitor_enabled /\ monitor_items' = items /\ watched' = items
        /\ due' = (due \/ monitor_enabled) /\ monitor_cb_1(monitor_enabled)
    BY <2>1 DEF sys_monitor, Statement
  <2>3. RoCallbacks' /\ monitor_scheduled' = (monitor_scheduled \/ monitor_enabled)
    BY <1>0, <2>2, QueuesOnce
  <2>4. due' = monitor_scheduled' /\ due' \in BOOLEAN
    BY <1>0, <2>2, <2>3
  <2> QED BY <1>0, <2>2, <2>3, <2>4, StatementKeeps
<1>3. CASE sys_monitoron
  <2>1. /\ region = "active" /\ region' = region /\ lines' = lines
        /\ monitor_enabled' = TRUE /\ UNCHANGED <<monitor_items, watched>>
        /\ due' = TRUE /\ monitor_cb_1(TRUE)
    BY <1>3 DEF sys_monitoron, Statement
  <2>2. RoCallbacks' /\ monitor_scheduled' = (monitor_scheduled \/ TRUE)
    BY <1>0, <2>1, QueuesOnce
  <2> QED BY <1>0, <2>1, <2>2, StatementKeeps
<1>4. CASE sys_monitoroff
  <2>1. /\ region = "active" /\ monitor_enabled' = FALSE
        /\ UNCHANGED <<region, monitor_items, watched, monitor_scheduled, ro, lines, due>>
    BY <1>4 DEF sys_monitoroff, Statement
  <2>2. RoCallbacks'
    BY <1>0, <2>1 DEF RoCallbacks, ScheduledExact
  <2> QED BY <1>0, <2>1, <2>2, StatementKeeps
<1>5. CASE sys_strobe
  <2>1. /\ region = "active" /\ ro' = Append(ro, "strobe_cb")
        /\ UNCHANGED <<region, monitor_items, watched, monitor_scheduled, monitor_enabled,
                       lines, due>>
    BY <1>5 DEF sys_strobe, Statement, monitor
  <2>2. PICK r : r = ro'
    OBVIOUS
  <2>3. /\ r \in Seq({"monitor_cb_2", "strobe_cb"}) /\ Len(ro) \in Nat
        /\ DOMAIN r = 1 .. Len(ro) + 1 /\ DOMAIN ro = 1 .. Len(ro)
        /\ r[Len(ro) + 1] = "strobe_cb" /\ \A i \in 1 .. Len(ro) : r[i] = ro[i]
    BY <1>0, <2>1, <2>2 DEF RoCallbacks
  <2>4. \A i \in DOMAIN r : r[i] = "monitor_cb_2" => i \in DOMAIN ro /\ ro[i] = "monitor_cb_2"
    BY <2>3
  <2>5. \A i \in DOMAIN ro : ro[i] = "monitor_cb_2" => i \in DOMAIN r /\ r[i] = "monitor_cb_2"
    BY <2>3
  <2>6. ScheduledExact'
    BY <1>0, <2>1, <2>2, <2>4, <2>5 DEF RoCallbacks, ScheduledExact
  <2>7. \A i, j \in DOMAIN r : r[i] = "monitor_cb_2" /\ r[j] = "monitor_cb_2" => i = j
    BY <1>0, <2>4 DEF RoCallbacks
  <2>8. RoCallbacks'
    BY <1>0, <2>1, <2>2, <2>3, <2>6, <2>7 DEF RoCallbacks
  <2> QED BY <1>0, <2>1, <2>8, StatementKeeps
<1>6. CASE monitor_cb_2
  <2>1. /\ region = "rosync" /\ region' = region /\ ro # <<>> /\ Head(ro) = "monitor_cb_2"
        /\ lines' = (IF monitor_items = {} THEN lines ELSE Append(lines, Line))
        /\ monitor_scheduled' = FALSE /\ ro' = Tail(ro)
        /\ UNCHANGED <<val, monitor_items, watched, monitor_enabled, due>>
    BY <1>6 DEF monitor_cb_2, design
  <2>2. RoCallbacks'
    BY <1>0, <2>1, RunsOnce
  <2>3. monitor_scheduled
    <3>1. 1 \in DOMAIN ro /\ ro[1] = "monitor_cb_2"
      BY <1>0, <2>1 DEF RoCallbacks
    <3> QED BY <1>0, <3>1 DEF RoCallbacks, ScheduledExact
  <2>4. due = TRUE /\ lines = <<>>
    BY <1>0, <2>3 DEF MonitorInv
  <2>5. Line' = Line
    BY <2>1 DEF Line
  <2>6. lines' = IF due' /\ ~monitor_scheduled' /\ monitor_items' # {} THEN <<Line'>> ELSE <<>>
    BY <2>1, <2>4, <2>5
  <2> QED BY <1>0, <2>1, <2>2, <2>6 DEF MonitorInv
<1>7. CASE strobe_cb
  <2>1. /\ region = "rosync" /\ region' = region /\ ro # <<>> /\ Head(ro) = "strobe_cb"
        /\ ro' = Tail(ro)
        /\ UNCHANGED <<val, monitor_items, watched, monitor_scheduled, monitor_enabled, lines, due>>
    BY <1>7 DEF strobe_cb, design, monitor
  <2>2. RoCallbacks'
    BY <1>0, <2>1, RunsOnce
  <2>3. Line' = Line
    BY <2>1 DEF Line
  <2> QED BY <1>0, <2>1, <2>2, <2>3 DEF MonitorInv
<1>8. CASE EndOfActive
  <2>1. /\ region' = "rosync"
        /\ UNCHANGED <<val, monitor_items, watched, monitor_scheduled, monitor_enabled, ro,
                       lines, due>>
    BY <1>8 DEF EndOfActive, monitor
  <2>2. RoCallbacks' /\ Line' = Line
    BY <1>0, <2>1 DEF RoCallbacks, ScheduledExact, Line
  <2> QED BY <1>0, <2>1, <2>2 DEF MonitorInv
<1>9. CASE Tick
  <2>1. /\ region' = "active" /\ lines' = <<>> /\ due' = FALSE /\ ro = <<>>
        /\ UNCHANGED <<val, monitor_items, watched, monitor_scheduled, monitor_enabled, ro>>
    BY <1>9 DEF Tick, monitor
  <2>2. monitor_scheduled = FALSE
    BY <1>0, <2>1 DEF RoCallbacks, ScheduledExact
  <2>3. RoCallbacks'
    BY <1>0, <2>1 DEF RoCallbacks, ScheduledExact
  <2> QED BY <1>0, <2>1, <2>2, <2>3 DEF MonitorInv
<1>10. CASE UNCHANGED vars
  BY <1>10 DEF vars, design, monitor, MonitorInv, RoCallbacks, ScheduledExact, Line
<1> QED BY <1>1, <1>2, <1>3, <1>4, <1>5, <1>6, <1>7, <1>8, <1>9, <1>10 DEF Next

(* At the end of a step in which the monitor was set, enabled, or saw a change
   of one of its items while enabled, exactly one line has been printed, with
   the items and the values of that moment, and none in any other step; and no
   flag outlives its callback (monitor_cb_1 and monitor_cb_2 of
   sys_display.c). *)
THEOREM MonitorPrintsOnce == Spec => [](OneLine /\ ScheduledExact)
<1>1. Init => MonitorInv
  <2> SUFFICES ASSUME Init PROVE MonitorInv
    OBVIOUS
  <2>1. /\ region = "active" /\ monitor_items = {} /\ watched = {}
        /\ monitor_scheduled = FALSE /\ monitor_enabled = TRUE
        /\ ro = <<>> /\ lines = <<>> /\ due = FALSE
    BY DEF Init
  <2>2. ro \in Seq({"monitor_cb_2", "strobe_cb"}) /\ \A i \in DOMAIN ro : FALSE
    BY <2>1
  <2>3. ScheduledExact
    BY <2>1, <2>2, Zenon DEF ScheduledExact
  <2>4. RoCallbacks
    BY <2>1, <2>2, <2>3, Zenon DEF RoCallbacks
  <2> QED BY <2>1, <2>4 DEF MonitorInv
<1>2. MonitorInv /\ [Next]_vars => MonitorInv'
  BY MonitorStep
<1>3. MonitorInv => OneLine /\ ScheduledExact
  <2> SUFFICES ASSUME MonitorInv PROVE OneLine /\ ScheduledExact
    OBVIOUS
  <2>1. ScheduledExact
    BY DEF MonitorInv, RoCallbacks
  <2>2. ASSUME StepOver
        PROVE  /\ Len(lines) = (IF due /\ monitor_items # {} THEN 1 ELSE 0)
               /\ \A i \in DOMAIN lines : lines[i] = Line
    <3>1. ~monitor_scheduled
      BY <2>1, <2>2 DEF StepOver, ScheduledExact
    <3>2. lines = IF due /\ monitor_items # {} THEN <<Line>> ELSE <<>>
      BY <3>1 DEF MonitorInv
    <3> HIDE DEF Line
    <3> QED BY <3>2
  <2> QED BY <2>1, <2>2 DEF OneLine
<1> QED BY <1>1, <1>2, <1>3, PTL DEF Spec

============================================================================
