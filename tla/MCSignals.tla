----------------------------- MODULE MCSignals -----------------------------
(***************************************************************************)
(* Instances of what hangs on a signal: VPI callbacks, event functors and  *)
(* event controls, force and continuous assign, arrays, functions called   *)
(* from nets.  They do not share state, so one of them runs at a time.     *)
(***************************************************************************)
EXTENDS Integers, Sequences, SequencesExt, TLC

CONSTANTS
  Components,   \* the components to run
  Unused,       \* value of the variables of the others
  None,         \* no object, no event control, no value
  NoAddr,       \* a port whose address is an input
  Ids           \* callback objects or event controls

VARIABLES
  part,         \* the component that runs
  \* Callbacks
  obj, lists, callbacks_head, callbacks_val, mode, callbacks_stack, phase,
  callbacks_now, callbacks_changes, tasks, fault,
  \* Event
  event_value, event_old, slot, event_last, ctl, threads, ready, event_stack,
  event_aborted, trig, ran, assigns,
  \* Filter
  filter_kind, filter_t, filter_src, filter_out, filter_aborted, want,
  \* Array
  words, ports, array_list, array_cb, array_stack,
  \* NetFunc
  netFunc_value, netFunc_out, thread_, netFunc_port, frame, netFunc_live, netFunc_free,
  context, netFunc_stack, copied, active, netFunc_changes, stops

callbacksVars == <<obj, lists, callbacks_head, callbacks_val, mode, callbacks_stack,
    phase, callbacks_now, callbacks_changes, tasks, fault>>
eventVars == <<event_value, event_old, slot, event_last, ctl, threads, ready,
    event_stack, event_aborted, trig, ran, assigns>>
filterVars == <<filter_kind, filter_t, filter_src, filter_out, filter_aborted, want>>
arrayVars == <<words, ports, array_list, array_cb, array_stack>>
netFuncVars == <<netFunc_value, netFunc_out, thread_, netFunc_port, frame, netFunc_live,
    netFunc_free, context, netFunc_stack, copied, active, netFunc_changes, stops>>
vars == <<part, callbacksVars, eventVars, filterVars, arrayVars, netFuncVars>>

AllReasons ==
  {"EndOfCompile", "StartOfSimulation", "NextSimTime", "EndOfSimulation", "ReadOnlySynch",
   "ReadWriteSynch", "AfterDelay", "AtStartOfSimTime", "AtEndOfSimTime", "ValueChange"}

(* In the first circuit event controls on the rising edge of the clock     *)
(* assign q, whose functor has event controls of its own, and an .event/or *)
(* is behind both.  In the second, those on each edge of the clock assign  *)
(* the clock.                                                              *)
SigAcyclic == {"clk", "q", "r"}
FunAcyclic == {"pos", "any", "or"}
KindAcyclic == ("pos" :> "posedge") @@ ("any" :> "edge") @@ ("or" :> "or")
FanAcyclic == ("clk" :> <<"pos">>) @@ ("q" :> <<"any">>) @@ ("r" :> <<>>)
              @@ ("pos" :> <<"or">>) @@ ("any" :> <<"or">>) @@ ("or" :> <<>>)
TargetAcyclic == ("pos" :> {"q"}) @@ ("any" :> {"r"}) @@ ("or" :> {"r"})

SigClock == {"clk"}
FunClock == {"pos", "neg"}
KindClock == ("pos" :> "posedge") @@ ("neg" :> "negedge")
FanClock == ("clk" :> <<"pos", "neg">>) @@ ("pos" :> <<>>) @@ ("neg" :> <<>>)
TargetClock == ("pos" :> {"clk"}) @@ ("neg" :> {"clk"})

ForceOps == {"write", "force", "flink", "release"}
AssignOps == {"write", "cassign", "clink", "deassign", "force"}

(* Callbacks on a word, on a part of it and on the whole array; two ports, *)
(* one of which has a fixed address.                                       *)
H(kind, address, bit) == [array |-> "mem", kind |-> kind, address |-> address, bit |-> bit]
Handles == {H("word", 1, 0), H("APV", 1, 1), H("memory", 0, 0)}
NoPortOf == [p \in {} |-> "mem"]
OfMem == [p \in {"p", "q"} |-> "mem"]
OneFixed == [p \in {"p", "q"} |-> IF p = "q" THEN 1 ELSE NoAddr]

(* f adds modulo three, g climbs to two, the system function negates.  Two *)
(* cores share f; in the chain they drive one another and the third.       *)
Got(a, p) == IF a[p] = None THEN 0 ELSE a[p]
ResultOf(h, a) ==
  CASE h = "f" -> (Got(a, 1) + Got(a, 2)) % 3
    [] h = "g" -> IF Got(a, 1) + Got(a, 2) >= 2 THEN 2 ELSE Got(a, 1) + Got(a, 2)
    [] h = "sys" -> 2 - Got(a, 1)
SharedFun == ("c1" :> "f") @@ ("c2" :> "f") @@ ("c3" :> "sys")
Chain == ("c1" :> <<<<"c2", 1>>, <<"c3", 1>>>>) @@ ("c2" :> <<<<"c3", 2>>>>) @@ ("c3" :> <<>>)
Apart == [c \in {"c1", "c2", "c3"} |-> <<>>]

(* An object or event control that is new is like any other. *)
Symmetry == Permutations(Ids)

----------------------------------------------------------------------------
(* The instances. *)

Told == INSTANCE Callbacks WITH Objects <- Ids, Signals <- {"s"},
    Reasons <- {"ValueChange", "PartChange"}, MaxTime <- 0, MaxChanges <- 3,
    MaxTasks <- 1, Features <- {"nested"}, head <- callbacks_head, val <- callbacks_val,
    stack <- callbacks_stack, now <- callbacks_now, changes <- callbacks_changes
Removed == INSTANCE Callbacks WITH Objects <- Ids, Signals <- {"s"},
    Reasons <- {"ValueChange", "PartChange"}, MaxTime <- 0, MaxChanges <- 3,
    MaxTasks <- 1, Features <- {"remove_value"}, head <- callbacks_head,
    val <- callbacks_val, stack <- callbacks_stack, now <- callbacks_now,
    changes <- callbacks_changes
OneShot == INSTANCE Callbacks WITH Objects <- {"a", "b"}, Signals <- {"s"},
    Reasons <- AllReasons, MaxTime <- 1, MaxChanges <- 1, MaxTasks <- 1, Features <- {},
    head <- callbacks_head, val <- callbacks_val, stack <- callbacks_stack,
    now <- callbacks_now, changes <- callbacks_changes

EventWalk == INSTANCE Event WITH Sig <- SigAcyclic, Fun <- FunAcyclic,
    Kind <- KindAcyclic, FanOut <- FanAcyclic, Targets <- TargetAcyclic,
    Ctl <- {"ctl", "two"}, Thread <- {}, Bit4 <- {"0", "1"}, MaxCount <- 2, MaxAssign <- 3, Nil <- None,
    value <- event_value, old <- event_old, last <- event_last, stack <- event_stack,
    aborted <- event_aborted
EventWake == INSTANCE Event WITH Sig <- SigAcyclic, Fun <- FunAcyclic,
    Kind <- KindAcyclic, FanOut <- FanAcyclic, Targets <- TargetAcyclic, Ctl <- {"ctl"},
    Thread <- {"t1", "t2"}, Bit4 <- {"0", "1"}, MaxCount <- 2, MaxAssign <- 4,
    Nil <- None, value <- event_value, old <- event_old, last <- event_last,
    stack <- event_stack, aborted <- event_aborted
EventClock == INSTANCE Event WITH Sig <- SigClock, Fun <- FunClock, Kind <- KindClock,
    FanOut <- FanClock, Targets <- TargetClock, Ctl <- Ids, Thread <- {},
    Bit4 <- {"0", "1"}, MaxCount <- 2, MaxAssign <- 4, Nil <- None,
    value <- event_value, old <- event_old, last <- event_last, stack <- event_stack,
    aborted <- event_aborted

Forced == INSTANCE Filter WITH W <- 2, Bits <- {"lo", "hi"}, InitBit <- "lo",
    Sources <- {"s1", "s2"}, Kinds <- {"reg", "net"}, Ops <- ForceOps,
    Disciplined <- TRUE, Overhang <- FALSE, kind <- filter_kind, t <- filter_t,
    src <- filter_src, out <- filter_out, aborted <- filter_aborted
Assigned == INSTANCE Filter WITH W <- 2, Bits <- {"lo", "hi"}, InitBit <- "lo",
    Sources <- {"s1"}, Kinds <- {"reg"}, Ops <- AssignOps, Disciplined <- FALSE,
    Overhang <- FALSE, kind <- filter_kind, t <- filter_t, src <- filter_src,
    out <- filter_out, aborted <- filter_aborted

ArrayPorts == INSTANCE Array WITH Size <- 2, Bit <- {0, 2}, X <- 2, NetArray <- FALSE,
    Port <- {"p", "q"}, PortOf <- OfMem, FixedAddr <- OneFixed, Handle <- {},
    MaxDepth <- 2, MaxCallbacks <- 0, Removal <- FALSE, list <- array_list,
    cb <- array_cb, stack <- array_stack
ArrayNets == INSTANCE Array WITH Size <- 2, Bit <- {0, 2}, X <- 2, NetArray <- TRUE,
    Port <- {"p", "q"}, PortOf <- OfMem, FixedAddr <- OneFixed, Handle <- {},
    MaxDepth <- 1, MaxCallbacks <- 0, Removal <- FALSE, list <- array_list,
    cb <- array_cb, stack <- array_stack
ArrayCalls == INSTANCE Array WITH Size <- 2, Bit <- {0, 2}, X <- 2, NetArray <- FALSE,
    Port <- {}, PortOf <- NoPortOf, FixedAddr <- NoPortOf, Handle <- Handles,
    MaxDepth <- 2, MaxCallbacks <- 2, Removal <- FALSE, list <- array_list,
    cb <- array_cb, stack <- array_stack
ArrayReap == INSTANCE Array WITH Size <- 2, Bit <- {0, 2}, X <- 2, NetArray <- FALSE,
    Port <- {}, PortOf <- NoPortOf, FixedAddr <- NoPortOf, Handle <- Handles,
    MaxDepth <- 1, MaxCallbacks <- 2, Removal <- TRUE, list <- array_list,
    cb <- array_cb, stack <- array_stack

Chained == INSTANCE NetFunc WITH Cores <- {"c1", "c2", "c3"}, Ports <- {1, 2},
    UserFuns <- {"f", "g"}, Automatic <- {}, Fun <- SharedFun, Feeds <- Chain,
    Values <- {0, 1, 2}, Result <- ResultOf, MaxChanges <- 4, MaxStops <- 0,
    MaxActive <- 5, Nil <- None, value <- netFunc_value, out <- netFunc_out,
    port <- netFunc_port, live <- netFunc_live, free <- netFunc_free,
    stack <- netFunc_stack, changes <- netFunc_changes
Stopping == INSTANCE NetFunc WITH Cores <- {"c1", "c2"}, Ports <- {1, 2},
    UserFuns <- {"f", "g"}, Automatic <- {"f"}, Fun <- SharedFun, Feeds <- Apart,
    Values <- {0, 1, 2}, Result <- ResultOf, MaxChanges <- 3, MaxStops <- 2,
    MaxActive <- 5, Nil <- None, value <- netFunc_value, out <- netFunc_out,
    port <- netFunc_port, live <- netFunc_live, free <- netFunc_free,
    stack <- netFunc_stack, changes <- netFunc_changes

ASSUME ConstantsOK ==
  /\ Told!ObjectAssumption
  /\ Told!BoundAssumption
  /\ Told!FeatureAssumption
  /\ Told!ReasonAssumption
  /\ Removed!ObjectAssumption
  /\ Removed!BoundAssumption
  /\ Removed!FeatureAssumption
  /\ Removed!ReasonAssumption
  /\ OneShot!ObjectAssumption
  /\ OneShot!BoundAssumption
  /\ OneShot!FeatureAssumption
  /\ OneShot!ReasonAssumption
  /\ EventWalk!EventAssumption
  /\ EventWake!EventAssumption
  /\ EventClock!EventAssumption
  /\ Forced!FilterAssumption
  /\ Assigned!FilterAssumption
  /\ ArrayPorts!ArrayAssumption
  /\ ArrayNets!ArrayAssumption
  /\ ArrayCalls!ArrayAssumption
  /\ ArrayReap!ArrayAssumption
  /\ Chained!FunsAssumption
  /\ Stopping!FunsAssumption

----------------------------------------------------------------------------
(* One component runs, the variables of the others stay idle. *)

CallbacksInit ==
  CASE part = "cb_value" -> Told!Init
    [] part = "cb_remove" -> Removed!Init
    [] part = "cb_oneshot" -> OneShot!Init
    [] OTHER -> /\ obj = Unused /\ lists = Unused /\ callbacks_head = Unused
                /\ callbacks_val = Unused /\ mode = Unused /\ callbacks_stack = Unused
                /\ phase = Unused /\ callbacks_now = Unused /\ callbacks_changes = Unused
                /\ tasks = Unused /\ fault = Unused

EventInit ==
  CASE part = "event_walk" -> EventWalk!Init
    [] part = "event_wake" -> EventWake!Init
    [] part = "event_clock" -> EventClock!Init
    [] OTHER -> /\ event_value = Unused /\ event_old = Unused /\ slot = Unused
                /\ event_last = Unused /\ ctl = Unused /\ threads = Unused /\ ready = Unused
                /\ event_stack = Unused /\ event_aborted = Unused /\ trig = Unused
                /\ ran = Unused /\ assigns = Unused

FilterInit ==
  CASE part = "force" -> Forced!Init
    [] part = "assign" -> Assigned!Init
    [] OTHER -> /\ filter_kind = Unused /\ filter_t = Unused /\ filter_src = Unused
                /\ filter_out = Unused /\ filter_aborted = Unused /\ want = Unused

ArrayInit ==
  CASE part = "array_ports" -> ArrayPorts!Init
    [] part = "array_nets" -> ArrayNets!Init
    [] part = "array_calls" -> ArrayCalls!Init
    [] part = "array_reap" -> ArrayReap!Init
    [] OTHER -> /\ words = Unused /\ ports = Unused /\ array_list = Unused
                /\ array_cb = Unused /\ array_stack = Unused

NetFuncInit ==
  CASE part = "func_settle" -> Chained!Init
    [] part = "func_auto" -> Stopping!Init
    [] OTHER -> /\ netFunc_value = Unused /\ netFunc_out = Unused /\ thread_ = Unused
                /\ netFunc_port = Unused /\ frame = Unused /\ netFunc_live = Unused
                /\ netFunc_free = Unused /\ context = Unused /\ netFunc_stack = Unused
                /\ copied = Unused /\ active = Unused /\ netFunc_changes = Unused
                /\ stops = Unused

Init ==
  /\ part \in Components
  /\ CallbacksInit
  /\ EventInit
  /\ FilterInit
  /\ ArrayInit
  /\ NetFuncInit

CallbacksNext ==
  /\ \/ part = "cb_value" /\ Told!Next
     \/ part = "cb_remove" /\ Removed!Next
     \/ part = "cb_oneshot" /\ OneShot!Next
  /\ UNCHANGED <<part, eventVars, filterVars, arrayVars, netFuncVars>>

EventNext ==
  /\ \/ part = "event_walk" /\ EventWalk!Next
     \/ part = "event_wake" /\ EventWake!Next
     \/ part = "event_clock" /\ EventClock!Next
  /\ UNCHANGED <<part, callbacksVars, filterVars, arrayVars, netFuncVars>>

FilterNext ==
  /\ \/ part = "force" /\ Forced!Next
     \/ part = "assign" /\ Assigned!Next
  /\ UNCHANGED <<part, callbacksVars, eventVars, arrayVars, netFuncVars>>

ArrayNext ==
  /\ \/ part = "array_ports" /\ ArrayPorts!Next
     \/ part = "array_nets" /\ ArrayNets!Next
     \/ part = "array_calls" /\ ArrayCalls!Next
     \/ part = "array_reap" /\ ArrayReap!Next
  /\ UNCHANGED <<part, callbacksVars, eventVars, filterVars, netFuncVars>>

NetFuncNext ==
  /\ \/ part = "func_settle" /\ Chained!Next
     \/ part = "func_auto" /\ Stopping!Next
  /\ UNCHANGED <<part, callbacksVars, eventVars, filterVars, arrayVars>>

Next ==
  \/ CallbacksNext
  \/ EventNext
  \/ FilterNext
  \/ ArrayNext
  \/ NetFuncNext

Spec == Init /\ [][Next]_vars

----------------------------------------------------------------------------
(* Properties. *)

(* When no callback is running, every value change callback has been told  *)
(* of the last change of its signal, also of one made from within a walk,  *)
(* and the mode that clients see is that of the innermost activation; a    *)
(* one-shot callback is called once and at the time it asked for           *)
(* (vpi_callback.cc).                                                      *)
ChangesTold ==
  /\ part = "cb_value" => Told!TypeOK /\ Told!EveryChangeTold /\ Told!ModeRestored
  /\ part = "cb_remove" => Removed!EveryChangeTold
  /\ part = "cb_oneshot" => OneShot!TypeOK /\ OneShot!ModeRestored /\ OneShot!OnTime

(* Nothing refers to a callback object that has been deleted, neither a    *)
(* list nor a walk in progress over it, no assertion on the links or the   *)
(* mode fails, and no event control is counted past zero                   *)
(* (vpi_callback.cc, array.cc, event.cc).                                  *)
NothingDangles ==
  /\ part = "cb_value" => Told!NoFault
  /\ part = "cb_remove" => Removed!NoFault /\ Removed!NoDangling
  /\ part = "cb_oneshot" => OneShot!NoFault /\ OneShot!NoDangling
  /\ part = "array_reap" => ArrayReap!NoDangling
  /\ part = "event_walk" => EventWalk!NoAbort

(* Between calls an edge functor remembers the value its signal has now, a *)
(* waiting thread has missed no trigger, every event control has seen each *)
(* trigger once, and the lists hold those still pending, whatever was      *)
(* assigned from within a walk; of two event controls that one trigger     *)
(* completes, the one scheduled first assigns first (event.cc).            *)
TriggersSeen ==
  /\ [](part = "event_walk" => EventWalk!TypeOK /\ EventWalk!ListSound /\ EventWalk!CountExact)
  /\ [](part = "event_wake" => EventWake!OldCurrent /\ EventWake!NoMissedTrigger)
  /\ [](part = "event_clock" => EventClock!ListSound /\ EventClock!OldCurrent)
  /\ [][part = "event_walk" => EventWalk!FirstRunsFirst]_vars

(* Every bit of a signal has the value that the statements executed ask    *)
(* for (force before assign before write), the fan out was sent what the   *)
(* signal has, each link feeds the signal exactly while its statement is   *)
(* in effect, a released variable keeps its value, and no assertion on the *)
(* width of a forced part fails (vvp_net_sig.cc, vthread.cc).              *)
ForcesAsAsked ==
  /\ [](part = "force" => /\ Forced!TypeOK /\ Forced!NoAbort
                          /\ Forced!AsAsked /\ Forced!InSync /\ Forced!LinksExact)
  /\ [](part = "assign" => Assigned!AsAsked /\ Assigned!InSync /\ Assigned!LinksExact)
  /\ [][part = "force" => Forced!KeepsReleased]_vars

(* At rest every read port has sent on the word its address selects and    *)
(* every callback knows the present value of the words it was registered   *)
(* on; one on a part is called only when its bits have changed (array.cc). *)
WordsCurrent ==
  /\ [](part = "array_ports" => ArrayPorts!PortsCurrent)
  /\ [](part = "array_nets" => ArrayNets!PortsCurrent)
  /\ [](part = "array_calls" => ArrayCalls!CallbacksCurrent)
  /\ [](part = "array_reap" => ArrayReap!CallbacksCurrent)
  /\ [][part = "array_calls" => ArrayCalls!CalledOnChange]_vars

(* With nothing left to run every net driven by a function has its value   *)
(* for the inputs of now; a core has one thread while it has one to end;   *)
(* a call that waits in $stop still reads the arguments of its own core,   *)
(* in a context of its own (ufunc.cc).                                     *)
FunctionsSettled ==
  /\ part = "func_settle" => Chained!TypeOK /\ Chained!Settled /\ Chained!OneThread
  /\ part = "func_auto" => Stopping!TypeOK /\ Stopping!OwnPorts /\ Stopping!ContextsApart
============================================================================
