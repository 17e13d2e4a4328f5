-------------------------------- MODULE Vcd --------------------------------
(***************************************************************************)
(* The waveform dumper of vpi/sys_vcd.c: $dumpvars, $dumpon, $dumpoff,     *)
(* $dumpall, $dumplimit and $dumpfile, the value change callback of every  *)
(* dumped signal and the two read-only synchronisation callbacks that do   *)
(* the writing.                                                            *)
(*                                                                         *)
(* The dump file is kept as what a viewer has after reading it: `seen`,    *)
(* the last value recorded for a signal, and `stamp`, the last time stamp. *)
(* Its length counts records; every comparison of the code with the limit  *)
(* is made against a limit of at most MaxLimit, so the count stops one     *)
(* above that.  The order of the records of one checkpoint, their text     *)
(* and the names of the identifiers are left out.  Named events, whose     *)
(* record carries no value, are left out too.                              *)
(***************************************************************************)
EXTENDS Integers, FiniteSets, FiniteSetsExt, TLAPS

CONSTANTS Scopes,     \* the scopes of the design
          Within,     \* Within[c]: the scopes around c, nearest first, with c
          Signals,    \* nets and variables
          ScopeOf,    \* the scope of a signal
          Words,      \* the signals that are words of an array
          Automatic,  \* the signals of automatic scopes
          Nexus,      \* Nexus[s]: signals with the same one are aliases
          Values,     \* what a signal may hold
          X,          \* the record of a signal in a $dumpoff
          None,       \* nothing recorded yet
          MaxTime,    \* bound on the simulation time
          MaxLimit,   \* largest limit given to $dumplimit
          MaxChanges, \* bound on the changes of one time step
          Depths      \* first argument of $dumpvars

WordsAssumption == Words \subseteq Signals /\ Automatic \subseteq Signals

VARIABLES val,              \* the design: value of a nexus
          now, changes,     \* simulation time, changes made in this step
          region,           \* "active", "rosync" or "end"
          stopping,         \* schedule_finish was called
          file,             \* the dump file: "none", "open" or "closed"
          size, stamp, seen,
          vcd_tab, vcd_var, \* scopes and signals named so far
          declared,         \* the $var lines: how often a signal has one
          vcd_list,         \* nexuses with a vcd_info and a callback
          vcd_dmp_list,     \* the ones to write at the end of this step
          dumpvars_status, vcd_cur_time,
          dump_is_off, dump_limit, dump_is_full,
          ro                \* read-only callbacks registered in this step

design == <<val, now, changes, region, stopping>>
output == <<file, size, stamp, seen>>
tables == <<vcd_tab, vcd_var, declared, vcd_list>>
status == <<dumpvars_status, vcd_cur_time, dump_is_off, dump_limit, dump_is_full>>
vars == <<design, output, tables, vcd_dmp_list, status, ro>>

Nexuses == {Nexus[s] : s \in Signals}

Init ==
    /\ val \in [Nexuses -> Values]
    /\ now = 0 /\ changes = 0 /\ region = "active" /\ stopping = FALSE
    /\ file = "none" /\ size = 0 /\ stamp = -1
    /\ seen = [n \in Nexuses |-> None]
    /\ vcd_tab = {} /\ vcd_var = {}
    /\ declared = [s \in Signals |-> 0]
    /\ vcd_list = {} /\ vcd_dmp_list = {}
    /\ dumpvars_status = 0 /\ vcd_cur_time = 0
    /\ dump_is_off = FALSE /\ dump_limit = 0 /\ dump_is_full = FALSE
    /\ ro = {}

dump_header_pending == dumpvars_status # 2

(* The statements of the design may run. *)
Running == region = "active" /\ ~stopping

----------------------------------------------------------------------------
(* Writing.  A record is one unit of length. *)

Longer(n) == Min({size + n, MaxLimit + 1})

(* show_this_item and show_this_item_x, for a set of items. *)
show_item(items) == [n \in Nexuses |-> IF n \in items THEN val[n] ELSE seen[n]]

show_item_x(items) == [n \in Nexuses |-> IF n \in items THEN X ELSE seen[n]]

(* The part $dumpoff, $dumpon and $dumpall share: a stamp when the time has
   moved, then every item. *)
checkpoint(shown) ==
    /\ stamp' = IF now > vcd_cur_time THEN now ELSE stamp
    /\ vcd_cur_time' = IF now > vcd_cur_time THEN now ELSE vcd_cur_time
    /\ seen' = shown
    /\ size' = Longer(Cardinality(vcd_list) + 3)

----------------------------------------------------------------------------
(* $dumpvars *)

(* The scopes scan_item enters from scope c, `depth` levels deep. *)
Entered(c, depth) ==
    {e \in Scopes : \E i \in DOMAIN Within[e] : Within[e][i] = c /\ i <= depth}

(* The signals scan_item declares: those of the scopes it enters, but for the
   words of arrays, the automatic ones, the ones of a scope scanned before
   and the ones included by name.  vcd_names_search sees the table as it was
   sorted last, which is before this scan. *)
scan_scope(c, depth) ==
    {s \in Signals : /\ ScopeOf[s] \in Entered(c, depth) \ vcd_tab
                     /\ s \notin Words \cup Automatic \cup vcd_var}

(* A signal given by name is skipped when its scope, or itself, is there. *)
Included(s) == s \in vcd_var \/ (s \notin Words /\ ScopeOf[s] \in vcd_tab)

scan_signal(s) == IF s \in Automatic THEN {} ELSE {s}

Declare(sigs, lines) ==
    /\ declared' = [s \in Signals |-> declared[s] + IF s \in sigs THEN 1 ELSE 0]
    /\ vcd_list' = vcd_list \cup {Nexus[s] : s \in sigs}
    /\ size' = Longer(Cardinality(sigs) + lines)

(* sys_dumpvars_calltf with one argument.  Once the header is written the
   call is refused; before that a further call adds to the header. *)
install_dumpvars_callback ==
    /\ dumpvars_status # 2
    /\ dumpvars_status' = 1
    /\ ro' = ro \cup {"dumpvars_cb"}
    /\ file' = "open"

sys_dumpvars_scope(c, depth) ==
    /\ Running
    /\ install_dumpvars_callback
    /\ Declare(scan_scope(c, depth), 1)
    /\ vcd_tab' = vcd_tab \cup Entered(c, depth)
    /\ UNCHANGED <<design, stamp, seen, vcd_var, vcd_dmp_list, vcd_cur_time,
                   dump_is_off, dump_limit, dump_is_full>>

sys_dumpvars_signal(s) ==
    /\ Running
    /\ install_dumpvars_callback
    /\ IF Included(s) THEN Declare({}, 0) ELSE Declare(scan_signal(s), 1)
    /\ vcd_var' = IF Included(s) THEN vcd_var ELSE vcd_var \cup {s}
    /\ UNCHANGED <<design, stamp, seen, vcd_tab, vcd_dmp_list, vcd_cur_time,
                   dump_is_off, dump_limit, dump_is_full>>

(* open_dumpfile fails: an error message and a request to finish. *)
open_dumpfile_fails ==
    /\ Running
    /\ file = "none"
    /\ stopping' = TRUE
    /\ UNCHANGED <<val, now, changes, region, output, tables, vcd_dmp_list,
                   status, ro>>

----------------------------------------------------------------------------
(* The callbacks *)

(* variable_cb_1, called from the change of an item. *)
Ignored(n) == \/ n \notin vcd_list
              \/ dump_is_full \/ dump_is_off \/ dump_header_pending
              \/ n \in vcd_dmp_list

AtLimit == dump_limit > 0 /\ size > dump_limit

variable_cb_1(n) ==
    /\ dump_is_full' = (dump_is_full \/ (~Ignored(n) /\ AtLimit))
    /\ size' = IF ~Ignored(n) /\ AtLimit THEN Longer(1) ELSE size
    /\ vcd_dmp_list' = IF Ignored(n) \/ AtLimit THEN vcd_dmp_list
                       ELSE vcd_dmp_list \cup {n}
    /\ ro' = IF Ignored(n) \/ AtLimit \/ vcd_dmp_list # {} THEN ro
             ELSE ro \cup {"variable_cb_2"}
    /\ seen' = seen

(* A statement of the design changes a signal. *)
Change(n, v) ==
    /\ Running
    /\ changes < MaxChanges
    /\ v # val[n]
    /\ val' = [val EXCEPT ![n] = v]
    /\ changes' = changes + 1
    /\ variable_cb_1(n)
    /\ UNCHANGED <<now, region, stopping, file, stamp, tables, dumpvars_status,
                   vcd_cur_time, dump_is_off, dump_limit>>

variable_cb_2_Keep ==
    /\ "variable_cb_2" \in ro
    /\ ro' = ro \ {"variable_cb_2"}
    /\ stamp' = IF now # vcd_cur_time THEN now ELSE stamp
    /\ vcd_cur_time' = now
    /\ seen' = show_item(vcd_dmp_list)
    /\ size' = Longer(Cardinality(vcd_dmp_list) + 1)
    /\ UNCHANGED vcd_dmp_list

variable_cb_2 ==
    /\ "variable_cb_2" \in ro
    /\ ro' = ro \ {"variable_cb_2"}
    /\ stamp' = IF now # vcd_cur_time THEN now ELSE stamp
    /\ vcd_cur_time' = now
    /\ seen' = show_item(vcd_dmp_list)
    /\ size' = Longer(Cardinality(vcd_dmp_list) + 1)
    /\ vcd_dmp_list' = {}

dumpvars_cb ==
    /\ "dumpvars_cb" \in ro
    /\ ro' = ro \ {"dumpvars_cb"}
    /\ dumpvars_status = 1
    /\ dumpvars_status' = 2
    /\ vcd_cur_time' = now
    /\ stamp' = IF dump_is_off THEN stamp ELSE now
    /\ seen' = IF dump_is_off THEN seen ELSE show_item(vcd_list)
    /\ size' = Longer(1 + IF dump_is_off THEN 0 ELSE Cardinality(vcd_list) + 3)

(* The read-only region of a step runs what was registered. *)
RunVariableCb2 ==
    /\ region = "rosync"
    /\ variable_cb_2
    /\ UNCHANGED <<design, file, tables, dumpvars_status, dump_is_off,
                   dump_limit, dump_is_full>>

RunDumpvarsCb ==
    /\ region = "rosync"
    /\ dumpvars_cb
    /\ UNCHANGED <<design, file, tables, vcd_dmp_list, dump_is_off,
                   dump_limit, dump_is_full>>

----------------------------------------------------------------------------
(* The other tasks *)

Written == file = "open" /\ ~dump_header_pending

sys_dumpoff ==
    /\ Running
    /\ ~dump_is_off
    /\ dump_is_off' = TRUE
    /\ \/ Written /\ checkpoint(show_item_x(vcd_list))
       \/ ~Written /\ UNCHANGED <<stamp, vcd_cur_time, seen, size>>
    /\ UNCHANGED <<design, file, tables, vcd_dmp_list, dumpvars_status,
                   dump_limit, dump_is_full, ro>>

sys_dumpon ==
    /\ Running
    /\ dump_is_off
    /\ dump_is_off' = FALSE
    /\ \/ Written /\ checkpoint(show_item(vcd_list))
       \/ ~Written /\ UNCHANGED <<stamp, vcd_cur_time, seen, size>>
    /\ UNCHANGED <<design, file, tables, vcd_dmp_list, dumpvars_status,
                   dump_limit, dump_is_full, ro>>

sys_dumpall ==
    /\ Running
    /\ ~dump_is_off
    /\ Written
    /\ checkpoint(show_item(vcd_list))
    /\ UNCHANGED <<design, file, tables, vcd_dmp_list, dumpvars_status,
                   dump_is_off, dump_limit, dump_is_full, ro>>

sys_dumplimit(limit) ==
    /\ Running
    /\ dump_limit' = limit
    /\ UNCHANGED <<design, output, tables, vcd_dmp_list, dumpvars_status,
                   vcd_cur_time, dump_is_off, dump_is_full, ro>>

----------------------------------------------------------------------------
(* The scheduler around it *)

EndOfActive ==
    /\ Running
    /\ region' = "rosync"
    /\ UNCHANGED <<val, now, changes, stopping, output, tables, vcd_dmp_list,
                   status, ro>>

Tick ==
    /\ region = "rosync" /\ ro = {}
    /\ now < MaxTime
    /\ now' = now + 1 /\ changes' = 0 /\ region' = "active"
    /\ UNCHANGED <<val, stopping, output, tables, vcd_dmp_list, status, ro>>

(* $finish, from any statement of the step: the read-only callbacks of the
   step never run. *)
sys_finish ==
    /\ Running
    /\ stopping' = TRUE
    /\ UNCHANGED <<val, now, changes, region, output, tables, vcd_dmp_list,
                   status, ro>>

(* The end of the simulation: by $finish, or because nothing is left. *)
finish_cb ==
    /\ region # "end"
    /\ stopping \/ (region = "rosync" /\ ro = {} /\ now = MaxTime)
    /\ region' = "end"
    /\ IF file = "open"
       THEN /\ stamp' = IF ~dump_is_off /\ ~dump_is_full /\ now # vcd_cur_time
                        THEN now ELSE stamp
            /\ file' = "closed"
            /\ vcd_list' = {} /\ vcd_tab' = {} /\ vcd_var' = {}
       ELSE UNCHANGED <<stamp, file, vcd_list, vcd_tab, vcd_var>>
    /\ UNCHANGED <<val, now, changes, stopping, size, seen, declared,
                   vcd_dmp_list, status, ro>>

Next ==
    \/ \E c \in Scopes, depth \in Depths : sys_dumpvars_scope(c, depth)
    \/ \E s \in Signals : sys_dumpvars_signal(s)
    \/ open_dumpfile_fails
    \/ \E n \in Nexuses, v \in Values : Change(n, v)
    \/ RunVariableCb2
    \/ RunDumpvarsCb
    \/ sys_dumpoff
    \/ sys_dumpon
    \/ sys_dumpall
    \/ \E limit \in 0 .. MaxLimit : sys_dumplimit(limit)
    \/ EndOfActive
    \/ Tick
    \/ sys_finish
    \/ finish_cb

Spec == Init /\ [][Next]_vars

----------------------------------------------------------------------------
(* Properties *)

(* The type of every variable of the dumper. *)
TypeOK ==
    /\ val \in [Nexuses -> Values] /\ seen \in [Nexuses -> Values \cup {X, None}]
    /\ now \in 0 .. MaxTime /\ stamp \in -1 .. MaxTime /\ size \in 0 .. MaxLimit + 1
    /\ region \in {"active", "rosync", "end"} /\ file \in {"none", "open", "closed"}
    /\ vcd_tab \subseteq Scopes /\ vcd_var \subseteq Signals
    /\ vcd_list \subseteq Nexuses /\ vcd_dmp_list \subseteq Nexuses
    /\ declared \in [Signals -> Nat]
    /\ dumpvars_status \in 0 .. 2 /\ vcd_cur_time \in 0 .. MaxTime
    /\ dump_is_off \in BOOLEAN /\ dump_is_full \in BOOLEAN /\ dump_limit \in 0 .. MaxLimit
    /\ ro \subseteq {"dumpvars_cb", "variable_cb_2"}

(* Once the read-only callbacks of a step have run, and unless the dump is off
   or over its limit, a reader of the file has the value every dumped signal
   really has: no change is lost among the flag `scheduled`, the list of the
   step, the checkpoints in the middle of it and the header. *)
AsSeen ==
    (region = "rosync" /\ ro = {} /\ file = "open" /\ ~dump_is_off /\ ~dump_is_full)
        => \A s \in Signals : declared[s] > 0 => seen[Nexus[s]] = val[Nexus[s]]

(* A value enters the file under the time it was written at, and the stamps of
   the file only increase, whichever task or callback wrote the last one. *)
StampedStep ==
    /\ seen' # seen => stamp' = now
    /\ stamp' # stamp => stamp' > stamp

(* The list of the step and the callback that empties it go together: a list
   without its callback would never be written and would, through `scheduled`,
   silence its signals for good; a callback without a list would read through
   a null pointer.  Both are empty when the step is over. *)
ListHasCallback ==
    region # "end" =>
        /\ (vcd_dmp_list # {}) = ("variable_cb_2" \in ro)
        /\ region = "active" /\ changes = 0 => vcd_dmp_list = {}

(* A signal is declared at most once, and every signal asked for is there,
   however the calls of $dumpvars name scopes, signals inside them and
   array words, and in whichever order. *)
DeclaredOnce ==
    file = "open" =>
        \A s \in Signals :
            /\ declared[s] <= 1
            /\ (s \notin Automatic /\ Included(s)) = (declared[s] = 1)
            /\ declared[s] = 1 => Nexus[s] \in vcd_list

(* While the dump stays off its values do not move, but for the end of the
   step in which $dumpoff was called: changes made before that call are still
   on the list, and are written over the x's it recorded. *)
FrozenStep ==
    (dump_is_off /\ dump_is_off' /\ seen' # seen)
        => \A n \in Nexuses : seen'[n] # seen[n] => n \in vcd_dmp_list

(* Over the limit, the file grows no further by itself: after the rest of the
   step in which it was noticed only $dumpall, $dumpon and $dumpoff write. *)
QuietStep ==
    (dump_is_full /\ region = "active" /\ changes' # changes)
        => seen' = seen /\ size' = size /\ vcd_dmp_list' = vcd_dmp_list

(* What these rest on.  The variables the proofs look at: *)
Formed ==
    /\ val \in [Nexuses -> Values] /\ seen \in [Nexuses -> Values \cup {X, None}]
    /\ declared \in [Signals -> Nat]
    /\ now \in Nat /\ vcd_cur_time \in Nat /\ stamp \in Int /\ changes \in Nat
    /\ dump_is_off \in BOOLEAN /\ dump_is_full \in BOOLEAN /\ vcd_list \subseteq Nexuses
    /\ region \in {"active", "rosync", "end"}
    /\ region = "end" => file # "open"

(* The header: there is a file once $dumpvars was called, and a callback is
   going to write it until it is written; nothing is on the list before. *)
Header ==
    /\ \/ file = "none" /\ dumpvars_status = 0
       \/ file = "open" /\ dumpvars_status \in {1, 2}
    /\ dumpvars_status = 1 => "dumpvars_cb" \in ro
    /\ dumpvars_status # 2 => vcd_dmp_list = {}

(* A dumped signal is on the list of the step or has been seen. *)
Current ==
    (dumpvars_status = 2 /\ ~dump_is_off /\ ~dump_is_full)
        => \A n \in vcd_list : n \in vcd_dmp_list \/ seen[n] = val[n]

(* A time that needs no stamp any more has one, whenever something may write. *)
Stamps ==
    /\ stamp <= vcd_cur_time /\ vcd_cur_time <= now
    /\ (dumpvars_status = 2 /\ vcd_cur_time = now /\ (region = "active" \/ vcd_dmp_list # {}))
           => stamp = now

Declared ==
    \A s \in Signals :
        /\ declared[s] <= 1
        /\ s \notin Automatic /\ Included(s) <=> declared[s] = 1
        /\ declared[s] = 1 => Nexus[s] \in vcd_list

VcdInv ==
    /\ Formed
    /\ region # "end" => Header /\ ListHasCallback /\ Current /\ Stamps /\ Declared

----------------------------------------------------------------------------
(* Proofs, for any design, bounds and depths. *)

(* The type of every step. *)
LEMMA VcdFormed ==
  ASSUME VcdInv, [Next]_vars
  PROVE  Formed'
<1> USE DEF VcdInv, Formed
<1>1. ASSUME NEW c \in Scopes, NEW depth \in Depths, sys_dumpvars_scope(c, depth)
      PROVE  Formed'
  BY <1>1 DEF sys_dumpvars_scope, Running, Declare, install_dumpvars_callback, scan_scope,
     design, Nexuses
<1>2. ASSUME NEW s \in Signals, sys_dumpvars_signal(s)
      PROVE  Formed'
  BY <1>2 DEF sys_dumpvars_signal, Running, Declare, install_dumpvars_callback, scan_signal,
     design, Nexuses
<1>3. ASSUME NEW n \in Nexuses, NEW v \in Values, Change(n, v)
      PROVE  Formed'
  BY <1>3 DEF Change, Running, variable_cb_1, tables
<1>4. CASE RunVariableCb2
  BY <1>4 DEF RunVariableCb2, variable_cb_2, show_item, design, tables
<1>5. CASE RunDumpvarsCb
  BY <1>5 DEF RunDumpvarsCb, dumpvars_cb, show_item, design, tables
<1>6. CASE sys_dumpoff
  BY <1>6 DEF sys_dumpoff, Running, checkpoint, show_item_x, design, tables
<1>7. CASE sys_dumpon
  <2>1. UNCHANGED <<design, file, tables>> /\ dump_is_off' = FALSE /\ dump_is_full' = dump_is_full
    BY <1>7 DEF sys_dumpon
  <2>2. /\ seen' \in [Nexuses -> Values \cup {X, None}]
        /\ vcd_cur_time' \in Nat /\ stamp' \in Int
    BY <1>7 DEF sys_dumpon, checkpoint, show_item
  <2> QED BY <2>1, <2>2 DEF design, tables
<1>8. CASE sys_dumpall
  BY <1>8 DEF sys_dumpall, Running, checkpoint, show_item, design, tables
<1>9. CASE Tick
  BY <1>9 DEF Tick, output, tables, status
<1>10. CASE finish_cb
  BY <1>10 DEF finish_cb, status
<1>11. CASE EndOfActive \/ sys_finish \/ open_dumpfile_fails
  BY <1>11 DEF EndOfActive, sys_finish, open_dumpfile_fails, Running, output, tables, status
<1>12. CASE \E limit \in 0 .. MaxLimit : sys_dumplimit(limit)
  BY <1>12 DEF sys_dumplimit, Running, design, output, tables
<1>13. CASE UNCHANGED vars
  BY <1>13 DEF vars, design, output, tables, status
<1> QED BY <1>1, <1>2, <1>3, <1>4, <1>5, <1>6, <1>7, <1>8, <1>9, <1>10, <1>11, <1>12, <1>13
        DEF Next

(* Nothing happens after the end. *)
LEMMA VcdMoves ==
  ASSUME Next
  PROVE  region # "end"
  BY DEF Next, sys_dumpvars_scope, sys_dumpvars_signal, open_dumpfile_fails, Change, RunVariableCb2,
     RunDumpvarsCb, sys_dumpoff, sys_dumpon, sys_dumpall, sys_dumplimit, EndOfActive, Tick,
     sys_finish, finish_cb, Running

(* A scope is scanned: its signals are declared unless they are already. *)
LEMMA DeclaresScope ==
  ASSUME Formed, Declared, NEW c, NEW depth, sys_dumpvars_scope(c, depth)
  PROVE  Declared'
<1> SUFFICES ASSUME NEW s \in Signals
             PROVE  /\ declared'[s] <= 1
                    /\ s \notin Automatic /\ Included(s)' <=> declared'[s] = 1
                    /\ declared'[s] = 1 => Nexus[s] \in vcd_list'
  BY DEF Declared
<1>1. PICK z : z = scan_scope(c, depth)
  OBVIOUS
<1>2. /\ declared'[s] = declared[s] + IF s \in z THEN 1 ELSE 0
      /\ vcd_list' = vcd_list \cup {Nexus[t] : t \in z}
      /\ vcd_tab' = vcd_tab \cup Entered(c, depth) /\ vcd_var' = vcd_var
  BY <1>1 DEF sys_dumpvars_scope, Declare
<1>3. s \in z <=> /\ ScopeOf[s] \in Entered(c, depth) /\ ScopeOf[s] \notin vcd_tab
                  /\ s \notin Words /\ s \notin Automatic /\ s \notin vcd_var
  BY <1>1 DEF scan_scope
<1>4. Included(s)' <=> \/ s \in vcd_var
                      \/ /\ s \notin Words
                         /\ ScopeOf[s] \in vcd_tab \/ ScopeOf[s] \in Entered(c, depth)
  BY <1>2 DEF Included
<1>5. /\ declared[s] \in Nat /\ declared[s] <= 1
      /\ s \notin Automatic /\ Included(s) <=> declared[s] = 1
      /\ declared[s] = 1 => Nexus[s] \in vcd_list
  BY DEF Formed, Declared
<1>6. CASE s \in z
  <2>1. declared[s] = 0 /\ declared'[s] = 1
    BY <1>2, <1>3, <1>5, <1>6 DEF Included
  <2> QED BY <1>2, <1>3, <1>4, <1>6, <2>1
<1>7. CASE s \notin z
  <2>1. declared'[s] = declared[s]
    BY <1>2, <1>5, <1>7
  <2>2. s \notin Automatic => (Included(s)' <=> Included(s))
    BY <1>3, <1>4, <1>7 DEF Included
  <2> QED BY <1>2, <1>5, <2>1, <2>2
<1> QED BY <1>6, <1>7

(* A signal is named: it is declared unless it is already. *)
LEMMA DeclaresSignal ==
  ASSUME Formed, Declared, NEW t \in Signals, sys_dumpvars_signal(t)
  PROVE  Declared'
<1> SUFFICES ASSUME NEW s \in Signals
             PROVE  /\ declared'[s] <= 1
                    /\ s \notin Automatic /\ Included(s)' <=> declared'[s] = 1
                    /\ declared'[s] = 1 => Nexus[s] \in vcd_list'
  BY DEF Declared
<1>1. PICK z : z = IF Included(t) THEN {} ELSE scan_signal(t)
  OBVIOUS
<1>2. /\ declared'[s] = declared[s] + IF s \in z THEN 1 ELSE 0
      /\ vcd_list' = vcd_list \cup {Nexus[u] : u \in z}
      /\ vcd_var' = IF Included(t) THEN vcd_var ELSE vcd_var \cup {t}
      /\ vcd_tab' = vcd_tab
  BY <1>1 DEF sys_dumpvars_signal, Declare
<1>3. s \in z <=> s = t /\ ~Included(t) /\ t \notin Automatic
  BY <1>1 DEF scan_signal
<1>4. Included(s)' <=> Included(s) \/ (s = t /\ ~Included(t))
  BY <1>2 DEF Included
<1>5. /\ declared[s] \in Nat /\ declared[s] <= 1
      /\ s \notin Automatic /\ Included(s) <=> declared[s] = 1
      /\ declared[s] = 1 => Nexus[s] \in vcd_list
  BY DEF Formed, Declared
<1>6. CASE s \in z
  <2>1. declared[s] = 0 /\ declared'[s] = 1
    BY <1>2, <1>3, <1>5, <1>6
  <2> QED BY <1>2, <1>3, <1>4, <1>6, <2>1
<1>7. CASE s \notin z
  <2>1. declared'[s] = declared[s]
    BY <1>2, <1>5, <1>7
  <2>2. s \notin Automatic => (Included(s)' <=> Included(s))
    BY <1>3, <1>4, <1>7
  <2> QED BY <1>2, <1>5, <2>1, <2>2
<1> QED BY <1>6, <1>7

(* What every step does to the callbacks, the list of the step, the values and
   the stamps. *)
LEMMA VcdStep ==
  ASSUME VcdInv, [Next]_vars
  PROVE  VcdInv' /\ StampedStep
<1>0. Formed /\ Formed' /\ (Next => region # "end")
  BY VcdFormed, VcdMoves DEF VcdInv
<1>1. CASE UNCHANGED vars
  <2>1. UNCHANGED <<stamp, seen>>
    BY <1>1 DEF vars, output
  <2>2. VcdInv'
    BY <1>1 DEF VcdInv, vars, design, output, tables, status, Formed, Header, ListHasCallback,
       Current, Stamps, Declared, Included
  <2> QED BY <2>1, <2>2 DEF StampedStep
<1>2. SUFFICES ASSUME Next, Header, ListHasCallback, Current, Stamps, Declared
               PROVE  /\ region' # "end" => Header' /\ ListHasCallback' /\ Current' /\ Stamps' /\ Declared'
                      /\ StampedStep
  BY <1>0, <1>1 DEF VcdInv
<1>3. UNCHANGED tables => Declared'
  BY <1>2 DEF tables, Declared, Included
<1>4. ASSUME NEW c \in Scopes, NEW depth \in Depths, sys_dumpvars_scope(c, depth)
      PROVE  Header' /\ ListHasCallback' /\ Current' /\ Stamps' /\ Declared' /\ StampedStep
  <2>1. /\ dumpvars_status # 2 /\ dumpvars_status' = 1 /\ ro' = ro \cup {"dumpvars_cb"}
        /\ file' = "open" /\ UNCHANGED <<design, stamp, seen, vcd_dmp_list, vcd_cur_time>>
    BY <1>4 DEF sys_dumpvars_scope, install_dumpvars_callback
  <2>2. Declared'
    BY <1>0, <1>2, <1>4, DeclaresScope
  <2> QED BY <1>2, <2>1, <2>2 DEF Header, ListHasCallback, Current, Stamps, StampedStep, design
<1>5. ASSUME NEW s \in Signals, sys_dumpvars_signal(s)
      PROVE  Header' /\ ListHasCallback' /\ Current' /\ Stamps' /\ Declared' /\ StampedStep
  <2>1. /\ dumpvars_status # 2 /\ dumpvars_status' = 1 /\ ro' = ro \cup {"dumpvars_cb"}
        /\ file' = "open" /\ UNCHANGED <<design, stamp, seen, vcd_dmp_list, vcd_cur_time>>
    BY <1>5 DEF sys_dumpvars_signal, install_dumpvars_callback
  <2>2. Declared'
    BY <1>0, <1>2, <1>5, DeclaresSignal
  <2> QED BY <1>2, <2>1, <2>2 DEF Header, ListHasCallback, Current, Stamps, StampedStep, design
<1>6. ASSUME NEW n \in Nexuses, NEW v \in Values, Change(n, v)
      PROVE  Header' /\ ListHasCallback' /\ Current' /\ Stamps' /\ Declared' /\ StampedStep
  <2>1. /\ region = "active" /\ val' = [val EXCEPT ![n] = v] /\ changes' = changes + 1
        /\ UNCHANGED <<now, region, file, stamp, seen, tables, dumpvars_status, vcd_cur_time,
                       dump_is_off>>
    BY <1>6 DEF Change, Running, variable_cb_1
  <2>2. /\ dump_is_full' = (dump_is_full \/ (~Ignored(n) /\ AtLimit))
        /\ vcd_dmp_list' = IF Ignored(n) \/ AtLimit THEN vcd_dmp_list ELSE vcd_dmp_list \cup {n}
        /\ ro' = IF Ignored(n) \/ AtLimit \/ vcd_dmp_list # {} THEN ro
                 ELSE ro \cup {"variable_cb_2"}
    BY <1>6 DEF Change, variable_cb_1
  <2>3. Header'
    BY <1>2, <2>1, <2>2 DEF Header, Ignored, dump_header_pending
  <2>4. ListHasCallback'
    BY <1>0, <1>2, <2>1, <2>2 DEF ListHasCallback, Formed
  <2>5. Current'
    <3>1. \A m \in Nexuses : m # n => val'[m] = val[m]
      BY <1>0, <2>1 DEF Formed
    <3>2. vcd_list' = vcd_list /\ vcd_list \subseteq Nexuses
      BY <1>0, <2>1 DEF tables, Formed
    <3> SUFFICES ASSUME dumpvars_status = 2, ~dump_is_off, ~dump_is_full', NEW m \in vcd_list
                 PROVE  m \in vcd_dmp_list' \/ seen[m] = val'[m]
      BY <2>1, <3>2 DEF Current
    <3>3. ~dump_is_full /\ (Ignored(n) \/ ~AtLimit)
      BY <2>2
    <3>4. m \in vcd_dmp_list \/ seen[m] = val[m]
      BY <1>2, <3>3 DEF Current
    <3>5. CASE m = n
      BY <2>2, <3>3, <3>5 DEF Ignored, dump_header_pending
    <3>6. CASE m # n
      BY <2>2, <3>1, <3>2, <3>4, <3>6
    <3> QED BY <3>5, <3>6
  <2>6. Stamps'
    BY <1>2, <2>1 DEF Stamps
  <2> QED BY <1>3, <2>1, <2>3, <2>4, <2>5, <2>6 DEF StampedStep
<1>7. CASE RunVariableCb2
  <2>1. /\ region = "rosync" /\ "variable_cb_2" \in ro /\ ro' = ro \ {"variable_cb_2"}
        /\ stamp' = IF now # vcd_cur_time THEN now ELSE stamp
        /\ vcd_cur_time' = now /\ seen' = show_item(vcd_dmp_list) /\ vcd_dmp_list' = {}
        /\ UNCHANGED <<design, file, tables, dumpvars_status, dump_is_off, dump_is_full>>
    BY <1>7 DEF RunVariableCb2, variable_cb_2
  <2>2. vcd_dmp_list # {} /\ dumpvars_status = 2
    BY <1>2, <2>1 DEF ListHasCallback, Header
  <2>3. stamp' = now /\ (stamp' # stamp => stamp' > stamp)
    BY <1>0, <1>2, <2>1, <2>2 DEF Stamps, Formed
  <2>4. Header' /\ ListHasCallback'
    BY <1>2, <2>1 DEF Header, ListHasCallback, design
  <2>5. Current'
    BY <1>0, <1>2, <2>1 DEF Current, show_item, design, tables, Formed
  <2>6. Stamps'
    BY <1>0, <2>1, <2>3 DEF Stamps, design, Formed
  <2> QED BY <1>3, <2>1, <2>3, <2>4, <2>5, <2>6 DEF StampedStep
<1>8. CASE RunDumpvarsCb
  <2>1. /\ region = "rosync" /\ ro' = ro \ {"dumpvars_cb"} /\ dumpvars_status = 1
        /\ dumpvars_status' = 2 /\ vcd_cur_time' = now
        /\ stamp' = IF dump_is_off THEN stamp ELSE now
        /\ seen' = IF dump_is_off THEN seen ELSE show_item(vcd_list)
        /\ UNCHANGED <<design, file, tables, vcd_dmp_list, dump_is_off, dump_is_full>>
    BY <1>8 DEF RunDumpvarsCb, dumpvars_cb
  <2>2. Header' /\ ListHasCallback' /\ vcd_dmp_list = {}
    BY <1>2, <2>1 DEF Header, ListHasCallback, design
  <2>3. Current'
    BY <1>0, <2>1 DEF Current, show_item, design, tables, Formed
  <2>4. Stamps' /\ StampedStep
    BY <1>0, <1>2, <2>1, <2>2 DEF Stamps, StampedStep, design, Formed
  <2> QED BY <1>3, <2>1, <2>2, <2>3, <2>4
<1>9. ASSUME Written, region = "active",
             \/ checkpoint(show_item_x(vcd_list)) /\ dump_is_off'
             \/ checkpoint(show_item(vcd_list)),
             UNCHANGED <<design, file, tables, vcd_dmp_list, dumpvars_status, dump_is_full, ro>>
      PROVE  Header' /\ ListHasCallback' /\ Current' /\ Stamps' /\ Declared' /\ StampedStep
  <2>1. /\ dumpvars_status = 2
        /\ stamp' = IF now > vcd_cur_time THEN now ELSE stamp
        /\ vcd_cur_time' = IF now > vcd_cur_time THEN now ELSE vcd_cur_time
        /\ dump_is_off' \/ seen' = show_item(vcd_list)
    BY <1>9 DEF Written, dump_header_pending, checkpoint
  <2>2. stamp' = now /\ vcd_cur_time' = now /\ (stamp' # stamp => stamp' > stamp)
    BY <1>0, <1>2, <1>9, <2>1 DEF Stamps, Formed
  <2>3. Header' /\ ListHasCallback'
    BY <1>2, <1>9 DEF Header, ListHasCallback, design
  <2>4. Current'
    BY <1>0, <1>9, <2>1 DEF Current, show_item, design, tables, Formed
  <2>5. Stamps'
    BY <1>0, <1>9, <2>2 DEF Stamps, design, Formed
  <2> QED BY <1>3, <1>9, <2>2, <2>3, <2>4, <2>5 DEF StampedStep
<1>10. ASSUME ~Written, UNCHANGED <<stamp, vcd_cur_time, seen>>,
              UNCHANGED <<design, file, tables, vcd_dmp_list, dumpvars_status, dump_is_full, ro>>
       PROVE  Header' /\ ListHasCallback' /\ Current' /\ Stamps' /\ Declared' /\ StampedStep
  <2>1. dumpvars_status # 2
    BY <1>2, <1>10 DEF Written, dump_header_pending, Header
  <2> QED BY <1>2, <1>3, <1>10, <2>1
          DEF Header, ListHasCallback, Current, Stamps, StampedStep, design
<1>11. CASE sys_dumpoff
  BY <1>9, <1>10, <1>11 DEF sys_dumpoff, Running
<1>12. CASE sys_dumpon
  BY <1>9, <1>10, <1>12 DEF sys_dumpon, Running
<1>13. CASE sys_dumpall
  BY <1>9, <1>13 DEF sys_dumpall, Running
<1>14. CASE \/ open_dumpfile_fails \/ sys_finish \/ \E limit \in 0 .. MaxLimit : sys_dumplimit(limit)
  <2>1. UNCHANGED <<val, now, changes, region, output, tables, vcd_dmp_list, dumpvars_status,
                    vcd_cur_time, dump_is_off, dump_is_full, ro>>
    BY <1>14 DEF open_dumpfile_fails, sys_finish, sys_dumplimit, status, design
  <2>2. UNCHANGED <<stamp, seen, file, vcd_list>>
    BY <2>1 DEF output, tables
  <2> QED BY <1>2, <1>3, <2>1, <2>2 DEF Header, ListHasCallback, Current, Stamps, StampedStep
<1>15. CASE EndOfActive
  <2>1. /\ region = "active" /\ region' = "rosync"
        /\ UNCHANGED <<val, now, changes, output, tables, vcd_dmp_list, status, ro>>
    BY <1>15 DEF EndOfActive, Running
  <2>2. UNCHANGED <<stamp, seen, file, vcd_list>>
    BY <2>1 DEF output, tables
  <2> QED BY <1>2, <1>3, <2>1, <2>2
          DEF Header, ListHasCallback, Current, Stamps, StampedStep, status
<1>16. CASE Tick
  <2>1. /\ region = "rosync" /\ ro = {} /\ now' = now + 1
        /\ UNCHANGED <<val, output, tables, vcd_dmp_list, status, ro>>
    BY <1>16 DEF Tick
  <2>2. vcd_dmp_list = {}
    BY <1>2, <2>1 DEF ListHasCallback
  <2>3. Header' /\ ListHasCallback' /\ Current'
    BY <1>2, <2>1, <2>2 DEF Header, ListHasCallback, Current, output, tables, status
  <2>4. Stamps' /\ StampedStep
    BY <1>0, <1>2, <2>1 DEF Stamps, StampedStep, output, status, Formed
  <2> QED BY <1>3, <2>1, <2>3, <2>4
<1>17. CASE finish_cb
  <2>1. /\ region' = "end" /\ seen' = seen /\ stamp' \in {stamp, now}
        /\ stamp' # stamp => now # vcd_cur_time
    BY <1>17 DEF finish_cb
  <2> QED BY <1>0, <1>2, <2>1 DEF Stamps, StampedStep, Formed
<1> QED BY <1>2, <1>4, <1>5, <1>6, <1>7, <1>8, <1>11, <1>12, <1>13, <1>14, <1>15, <1>16, <1>17
        DEF Next

LEMMA VcdFirst ==
  ASSUME Init
  PROVE  VcdInv
<1>1. Formed
  <2>1. seen \in [Nexuses -> Values \cup {X, None}] /\ declared \in [Signals -> Nat]
    BY DEF Init
  <2>2. now \in Nat /\ vcd_cur_time \in Nat /\ stamp \in Int /\ changes \in Nat
    BY DEF Init
  <2>3. /\ dump_is_off \in BOOLEAN /\ dump_is_full \in BOOLEAN /\ vcd_list \subseteq Nexuses
        /\ val \in [Nexuses -> Values]
    BY DEF Init
  <2>4. region = "active"
    BY DEF Init
  <2> QED BY <2>1, <2>2, <2>3, <2>4 DEF Formed
<1> QED BY <1>1 DEF Init, VcdInv, Header, ListHasCallback, Current, Stamps, Declared, Included

(* Once the read-only callbacks of a step have run, a reader of the file has
   the value of every dumped signal, unless the dump is off or over its limit;
   and the list of the step goes with the callback that empties it
   (variable_cb_1, variable_cb_2 and dumpvars_cb of sys_vcd.c). *)
THEOREM DumpComplete == Spec => [](AsSeen /\ ListHasCallback)
<1>1. VcdInv => AsSeen /\ ListHasCallback
  <2> SUFFICES ASSUME VcdInv PROVE AsSeen /\ ListHasCallback
    OBVIOUS
  <2>1. ListHasCallback
    BY DEF VcdInv, ListHasCallback
  <2>2. ASSUME region = "rosync", ro = {}, file = "open", ~dump_is_off, ~dump_is_full,
               NEW s \in Signals, declared[s] > 0
        PROVE  seen[Nexus[s]] = val[Nexus[s]]
    <3>1. Header /\ Current /\ Declared /\ declared[s] \in Nat
      BY <2>2 DEF VcdInv, Formed
    <3>2. dumpvars_status = 2 /\ vcd_dmp_list = {}
      BY <2>1, <2>2, <3>1 DEF Header, ListHasCallback
    <3>3. Nexus[s] \in vcd_list
      BY <2>2, <3>1 DEF Declared
    <3> QED BY <2>2, <3>1, <3>2, <3>3 DEF Current
  <2> QED BY <2>1, <2>2 DEF AsSeen
<1>2. VcdInv /\ [Next]_vars => VcdInv'
  BY VcdStep
<1> QED BY <1>1, <1>2, VcdFirst, PTL DEF Spec

(* However the calls of $dumpvars name scopes and signals, a signal that is
   asked for is declared once (scan_item and vcd_names_search of sys_vcd.c). *)
THEOREM SignalsDeclared == Spec => []DeclaredOnce
<1>1. VcdInv => DeclaredOnce
  BY DEF VcdInv, Formed, Declared, DeclaredOnce
<1>2. VcdInv /\ [Next]_vars => VcdInv'
  BY VcdStep
<1> QED BY <1>1, <1>2, VcdFirst, PTL DEF Spec

(* A value enters the file under the time at which it was written, and stamps
   only increase, although each writer decides for itself whether the time
   needs a stamp (vcd_cur_time in sys_vcd.c). *)
THEOREM RecordsStamped == Spec => [][StampedStep]_vars
<1>1. VcdInv /\ [Next]_vars => VcdInv' /\ StampedStep
  BY VcdStep
<1> QED BY <1>1, VcdFirst, PTL DEF Spec

============================================================================
