----------------------------- MODULE MCServices -----------------------------
(***************************************************************************)
(* Instances of the services and the data structures.  Services are the    *)
(* loader, system tasks and the dumpers: the queues of $q_initialize and   *)
(* its kin, file descriptors and $fstrobe, $monitor, $dumpvars, the links  *)
(* between the statements of a program, and the work queue of the LXT2     *)
(* dumper.  Structures are the contexts of automatic scopes, the reference *)
(* counted objects, the symbol tables of vvp, and the nexus lists of the   *)
(* compiler.  They do not share state, so one of them runs at a time.      *)
(***************************************************************************)
EXTENDS Integers, Sequences, TLC

CONSTANTS
  Components,   \* the components to run
  Unused,       \* value of the variables of the others
  X,            \* an undefined value
  None,         \* nothing
  q1, q2,       \* names of queues
  j1, j2        \* their jobs

VARIABLES
  part,         \* the component that runs
  \* SysQueue
  base, sysQueue_now, reply, asked, log,
  \* Channels
  mcd_table, fd_table, channels_open, channels_made, strobes, channels_region,
  channels_now, channels_last,
  \* Monitor
  monitor_val, monitor_now, ops, monitor_region, monitor_items, watched,
  monitor_scheduled, monitor_enabled, monitor_ro, lines, due,
  \* Vcd
  vcd_val, vcd_now, vcd_changes, vcd_region, stopping, vcd_file, vcd_size, stamp, seen,
  vcd_tab, vcd_var, declared, vcd_list, vcd_dmp_list, dumpvars_status, vcd_cur_time,
  dump_is_off, dump_limit, dump_is_full, vcd_ro,
  \* Linker
  ref, unread, node, fanout, resolv_list, res, linker_phase, linker_last, nerrs, lnerrs,
  messages,
  \* WorkQueue
  work_queue, work_queue_next, work_queue_fill, current_batch_base, current_batch_alloc,
  current_batch_cnt, work_queue_next_time, sim, call, workQueue_phase, serial, shown,
  work, cur_time, run_flag, written, join,
  \* Context
  context_next, stacked, live_contexts, free_contexts, wt_context, rd_context,
  context_status, context_parent, in_function, running, context_calls, ncalls,
  context_access, aborted,
  \* Objects
  heap, var, objects_stack, strings, code, got, fail, views, past, abs, note,
  \* Symbols
  nodes, symbols_result,
  \* NetLink
  netLink_s, done, netLink_asked, drivers

sysQueueVars == <<base, sysQueue_now, reply, asked, log>>
channelsVars == <<mcd_table, fd_table, channels_open, channels_made, strobes,
    channels_region, channels_now, channels_last>>
monitorVars == <<monitor_val, monitor_now, ops, monitor_region, monitor_items, watched,
    monitor_scheduled, monitor_enabled, monitor_ro, lines, due>>
vcdVars == <<vcd_val, vcd_now, vcd_changes, vcd_region, stopping, vcd_file, vcd_size,
    stamp, seen, vcd_tab, vcd_var, declared, vcd_list, vcd_dmp_list, dumpvars_status,
    vcd_cur_time, dump_is_off, dump_limit, dump_is_full, vcd_ro>>
linkerVars == <<ref, unread, node, fanout, resolv_list, res, linker_phase, linker_last,
    nerrs, lnerrs, messages>>
workQueueVars == <<work_queue, work_queue_next, work_queue_fill, current_batch_base,
    current_batch_alloc, current_batch_cnt, work_queue_next_time, sim, call,
    workQueue_phase, serial, shown, work, cur_time, run_flag, written, join>>
contextVars == <<context_next, stacked, live_contexts, free_contexts, wt_context,
    rd_context, context_status, context_parent, in_function, running, context_calls,
    ncalls, context_access, aborted>>
objectsVars == <<heap, var, objects_stack, strings, code, got, fail, views, past, abs,
    note>>
symbolsVars == <<nodes, symbols_result>>
netLinkVars == <<netLink_s, done, netLink_asked, drivers>>
servicesVars == <<sysQueueVars, channelsVars, monitorVars, vcdVars, linkerVars,
    workQueueVars>>
structuresVars == <<contextVars, objectsVars, symbolsVars, netLinkVars>>
vars == <<part, servicesVars, structuresVars>>

AllCodes == {"length", "mean", "max_length", "shortest", "longest", "average"}

(* A module and one inside it, with two signals and the word of an array;  *)
(* in the second table the two signals are one net.                        *)
Nested == ("top" :> <<"top">>) @@ ("sub" :> <<"sub", "top">>)
ScopeOfSignal == ("a" :> "top") @@ ("b" :> "sub") @@ ("w" :> "top")
ThreeNets == ("a" :> 1) @@ ("b" :> 2) @@ ("w" :> 3)
Alias == ("a" :> 1) @@ ("b" :> 1) @@ ("w" :> 3)

----------------------------------------------------------------------------
(* The instances. *)

QueueOrder == INSTANCE SysQueue WITH Ids <- {q1}, Jobs <- {j1, j2},
    Kinds <- {"fifo", "lifo", "other"}, Lengths <- {0, 2, 3}, WordBits <- 2, Scale <- 1,
    Sizes <- {2}, Codes <- AllCodes, Steps <- {}, MaxTime <- 0, MaxAdds <- 5,
    now <- sysQueue_now
QueueNames == INSTANCE SysQueue WITH Ids <- {q1, q2}, Jobs <- {j1},
    Kinds <- {"fifo", "other"}, Lengths <- {0, 2}, WordBits <- 2, Scale <- 1,
    Sizes <- {2}, Codes <- {}, Steps <- {}, MaxTime <- 0, MaxAdds <- 3,
    now <- sysQueue_now
QueueStats == INSTANCE SysQueue WITH Ids <- {q1}, Jobs <- {j1}, Kinds <- {"lifo"},
    Lengths <- {3}, WordBits <- 2, Scale <- 2, Sizes <- {5}, Codes <- AllCodes,
    Steps <- {5, 7}, MaxTime <- 15, MaxAdds <- 3, now <- sysQueue_now

Tables == INSTANCE Channels WITH McdSize <- 3, FdIncr <- 3, FdLimit <- 6,
    Closed <- None, MaxStreams <- 9, MaxStrobes <- 0, MaxTime <- 0,
    open <- channels_open, made <- channels_made, region <- channels_region,
    now <- channels_now, last <- channels_last
Strobes == INSTANCE Channels WITH McdSize <- 3, FdIncr <- 3, FdLimit <- 6,
    Closed <- None, MaxStreams <- 5, MaxStrobes <- 2, MaxTime <- 1,
    open <- channels_open, made <- channels_made, region <- channels_region,
    now <- channels_now, last <- channels_last

Monitored == INSTANCE Monitor WITH Vars <- {1, 2}, Values <- {0, 1},
    Lists <- {{1}, {1, 2}, {2}}, MaxTime <- 2, MaxOps <- 4, val <- monitor_val,
    now <- monitor_now, region <- monitor_region, ro <- monitor_ro

Dump == INSTANCE Vcd WITH Scopes <- {"top", "sub"}, Within <- Nested,
    Signals <- {"a", "b"}, ScopeOf <- ScopeOfSignal, Words <- {}, Automatic <- {},
    Nexus <- ThreeNets, Values <- {0, 1}, MaxTime <- 2, MaxLimit <- 6, MaxChanges <- 2,
    Depths <- {1, 2}, val <- vcd_val, now <- vcd_now, changes <- vcd_changes,
    region <- vcd_region, file <- vcd_file, size <- vcd_size, ro <- vcd_ro
Declare == INSTANCE Vcd WITH Scopes <- {"top", "sub"}, Within <- Nested,
    Signals <- {"a", "b", "w"}, ScopeOf <- ScopeOfSignal, Words <- {"w"},
    Automatic <- {}, Nexus <- Alias, Values <- {0, 1}, MaxTime <- 1, MaxLimit <- 0,
    MaxChanges <- 1, Depths <- {1, 2}, val <- vcd_val, now <- vcd_now,
    changes <- vcd_changes, region <- vcd_region, file <- vcd_file, size <- vcd_size,
    ro <- vcd_ro

LinkChain == INSTANCE Linker WITH Gates <- {"g1"}, Nets <- {"n1", "n2", "n3"},
    Missing <- "missing", phase <- linker_phase, last <- linker_last
LinkLive == INSTANCE Linker WITH Gates <- {"g1"}, Nets <- {"n1", "n2"},
    Missing <- "missing", phase <- linker_phase, last <- linker_last
LinkGates == INSTANCE Linker WITH Gates <- {"g1", "g2"}, Nets <- {"n1", "n2"},
    Missing <- "missing", phase <- linker_phase, last <- linker_last

Dumper == INSTANCE WorkQueue WITH WORK_QUEUE_SIZE <- 4, WORK_QUEUE_BATCH_MIN <- 2,
    WORK_QUEUE_BATCH_MAX <- 3, MaxItems <- 6, MaxTime <- 1, phase <- workQueue_phase

Contexts == INSTANCE Context WITH Tasks <- {"t1"}, Functions <- {"f1"},
    Threads <- 1 .. 4, MaxContexts <- 4, MaxCalls <- 4, Index <- FALSE, Detach <- FALSE,
    next <- context_next, status <- context_status, parent <- context_parent,
    calls <- context_calls, access <- context_access

Counted == INSTANCE Objects WITH Arrays <- {"a"}, Handles <- {"c", "d"},
    VecQueues <- {}, StrQueues <- {"s"}, Val <- {"u"}, MaxObj <- 3, MaxLen <- 1,
    AdrBits <- 2, Index <- {}, Careful <- TRUE, Fronts <- {TRUE, FALSE}, Views <- FALSE,
    stack <- objects_stack
Dynamic == INSTANCE Objects WITH Arrays <- {"a", "b"}, Handles <- {}, VecQueues <- {},
    StrQueues <- {}, Val <- {"u"}, MaxObj <- 3, MaxLen <- 2, AdrBits <- 2,
    Index <- {0, 1}, Careful <- TRUE, Fronts <- {FALSE}, Views <- TRUE,
    stack <- objects_stack
Queued == INSTANCE Objects WITH Arrays <- {}, Handles <- {}, VecQueues <- {"q"},
    StrQueues <- {"s"}, Val <- {"u", "v"}, MaxObj <- 2, MaxLen <- 2, AdrBits <- 2,
    Index <- {0, 1}, Careful <- TRUE, Fronts <- {FALSE}, Views <- FALSE,
    stack <- objects_stack

Narrow == INSTANCE Symbols WITH leaf_width <- 2, node_width <- 3, Keys <- 1 .. 5,
    Values <- {"v"}, Null <- "null", result <- symbols_result
Wide == INSTANCE Symbols WITH leaf_width <- 3, node_width <- 4, Keys <- 1 .. 6,
    Values <- {"v"}, Null <- "null", result <- symbols_result

Lists == INSTANCE NetLink WITH Links <- 1 .. 4,
    KindOf <- <<"in", "wire", "gate", "k1">>, Spare <- <<>>, Passes <- FALSE,
    s <- netLink_s, asked <- netLink_asked
Guess == INSTANCE NetLink WITH Links <- 1 .. 4,
    KindOf <- <<"k0", "kz", "tri0", "gate">>, Spare <- <<>>, Passes <- FALSE,
    s <- netLink_s, asked <- netLink_asked
PostElab == INSTANCE NetLink WITH Links <- 1 .. 3, KindOf <- <<"in", "wire", "gate">>,
    Spare <- <<>>, Passes <- TRUE, s <- netLink_s, asked <- netLink_asked
Delayed == INSTANCE NetLink WITH Links <- 1 .. 7,
    KindOf <- <<"in", "wire", "gate", "in", "wire", "in", "gate">>,
    Spare <- <<5, 6, 7>>, Passes <- FALSE, s <- netLink_s, asked <- netLink_asked

ASSUME ConstantsOK ==
  /\ QueueOrder!SysQueueAssumption
  /\ QueueNames!SysQueueAssumption
  /\ QueueStats!SysQueueAssumption
  /\ Tables!SizesAssumption
  /\ Strobes!SizesAssumption
  /\ Dump!WordsAssumption
  /\ Declare!WordsAssumption
  /\ LinkChain!LinkerAssumption
  /\ LinkLive!LinkerAssumption
  /\ LinkGates!LinkerAssumption
  /\ Dumper!SizeAssumption
  /\ Contexts!ContextAssumption
  /\ Counted!ConstantsOK
  /\ Dynamic!ConstantsOK
  /\ Queued!ConstantsOK
  /\ Narrow!SymbolsAssumption
  /\ Wide!SymbolsAssumption
  /\ Lists!LinksOK
  /\ Guess!LinksOK
  /\ PostElab!LinksOK
  /\ Delayed!LinksOK

----------------------------------------------------------------------------
(* One component runs, the variables of the others stay idle. *)

SysQueueInit ==
  CASE part = "queue_order" -> QueueOrder!Init
    [] part = "queue_names" -> QueueNames!Init
    [] part = "queue_stats" -> QueueStats!Init
    [] OTHER -> /\ base = Unused /\ sysQueue_now = Unused /\ reply = Unused /\ asked = Unused
                /\ log = Unused

ChannelsInit ==
  CASE part = "channel_tables" -> Tables!Init
    [] part = "channel_lines" -> Strobes!Init
    [] OTHER -> /\ mcd_table = Unused /\ fd_table = Unused /\ channels_open = Unused
                /\ channels_made = Unused /\ strobes = Unused /\ channels_region = Unused
                /\ channels_now = Unused /\ channels_last = Unused

MonitorInit ==
  CASE part = "monitor" -> Monitored!Init
    [] OTHER -> /\ monitor_val = Unused /\ monitor_now = Unused /\ ops = Unused
                /\ monitor_region = Unused /\ monitor_items = Unused /\ watched = Unused
                /\ monitor_scheduled = Unused /\ monitor_enabled = Unused
                /\ monitor_ro = Unused /\ lines = Unused /\ due = Unused

VcdInit ==
  CASE part = "dump" -> Dump!Init
    [] part = "declare" -> Declare!Init
    [] OTHER -> /\ vcd_val = Unused /\ vcd_now = Unused /\ vcd_changes = Unused
                /\ vcd_region = Unused /\ stopping = Unused /\ vcd_file = Unused
                /\ vcd_size = Unused /\ stamp = Unused /\ seen = Unused /\ vcd_tab = Unused
                /\ vcd_var = Unused /\ declared = Unused /\ vcd_list = Unused
                /\ vcd_dmp_list = Unused /\ dumpvars_status = Unused
                /\ vcd_cur_time = Unused /\ dump_is_off = Unused /\ dump_limit = Unused
                /\ dump_is_full = Unused /\ vcd_ro = Unused

LinkerInit ==
  CASE part = "link_chain" -> LinkChain!Init
    [] part = "link_live" -> LinkLive!Init
    [] part = "link_gates" -> LinkGates!Init
    [] OTHER -> /\ ref = Unused /\ unread = Unused /\ node = Unused /\ fanout = Unused
                /\ resolv_list = Unused /\ res = Unused /\ linker_phase = Unused
                /\ linker_last = Unused /\ nerrs = Unused /\ lnerrs = Unused
                /\ messages = Unused

WorkQueueInit ==
  CASE part = "work" -> Dumper!Init
    [] OTHER -> /\ work_queue = Unused /\ work_queue_next = Unused
                /\ work_queue_fill = Unused /\ current_batch_base = Unused
                /\ current_batch_alloc = Unused /\ current_batch_cnt = Unused
                /\ work_queue_next_time = Unused /\ sim = Unused /\ call = Unused
                /\ workQueue_phase = Unused /\ serial = Unused /\ shown = Unused
                /\ work = Unused /\ cur_time = Unused /\ run_flag = Unused
                /\ written = Unused /\ join = Unused

ContextInit ==
  CASE part = "context" -> Contexts!Init
    [] OTHER -> /\ context_next = Unused /\ stacked = Unused /\ live_contexts = Unused
                /\ free_contexts = Unused /\ wt_context = Unused /\ rd_context = Unused
                /\ context_status = Unused /\ context_parent = Unused
                /\ in_function = Unused /\ running = Unused /\ context_calls = Unused
                /\ ncalls = Unused /\ context_access = Unused /\ aborted = Unused

ObjectsInit ==
  CASE part = "handles" -> Counted!Init
    [] part = "dynamic" -> Dynamic!Init
    [] part = "queues" -> Queued!Init
    [] OTHER -> /\ heap = Unused /\ var = Unused /\ objects_stack = Unused
                /\ strings = Unused /\ code = Unused /\ got = Unused /\ fail = Unused
                /\ views = Unused /\ past = Unused /\ abs = Unused /\ note = Unused

SymbolsInit ==
  CASE part = "symbols_narrow" -> Narrow!Init
    [] part = "symbols_wide" -> Wide!Init
    [] OTHER -> /\ nodes = Unused /\ symbols_result = Unused

NetLinkInit ==
  CASE part = "link_lists" -> Lists!Init
    [] part = "link_guess" -> Guess!Init
    [] part = "link_passes" -> PostElab!Init
    [] part = "link_delay" -> Delayed!Init
    [] OTHER -> /\ netLink_s = Unused /\ done = Unused /\ netLink_asked = Unused /\ drivers = Unused

Init ==
  /\ part \in Components
  /\ SysQueueInit
  /\ ChannelsInit
  /\ MonitorInit
  /\ VcdInit
  /\ LinkerInit
  /\ WorkQueueInit
  /\ ContextInit
  /\ ObjectsInit
  /\ SymbolsInit
  /\ NetLinkInit

SysQueueNext ==
  /\ \/ part = "queue_order" /\ QueueOrder!Next
     \/ part = "queue_names" /\ QueueNames!Next
     \/ part = "queue_stats" /\ QueueStats!Next
  /\ UNCHANGED <<part, structuresVars, channelsVars, monitorVars, vcdVars, linkerVars,
                 workQueueVars>>

ChannelsNext ==
  /\ \/ part = "channel_tables" /\ Tables!Next
     \/ part = "channel_lines" /\ Strobes!Next
  /\ UNCHANGED <<part, structuresVars, sysQueueVars, monitorVars, vcdVars, linkerVars,
                 workQueueVars>>

MonitorNext ==
  /\ \/ part = "monitor" /\ Monitored!Next
  /\ UNCHANGED <<part, structuresVars, sysQueueVars, channelsVars, vcdVars, linkerVars,
                 workQueueVars>>

VcdNext ==
  /\ \/ part = "dump" /\ Dump!Next
     \/ part = "declare" /\ Declare!Next
  /\ UNCHANGED <<part, structuresVars, sysQueueVars, channelsVars, monitorVars,
                 linkerVars, workQueueVars>>

LinkerNext ==
  /\ \/ part = "link_chain" /\ LinkChain!Next
     \/ part = "link_live" /\ LinkLive!Next
     \/ part = "link_gates" /\ LinkGates!Next
  /\ UNCHANGED <<part, structuresVars, sysQueueVars, channelsVars, monitorVars, vcdVars,
                 workQueueVars>>

WorkQueueNext ==
  /\ \/ part = "work" /\ Dumper!Next
  /\ UNCHANGED <<part, structuresVars, sysQueueVars, channelsVars, monitorVars, vcdVars,
                 linkerVars>>

ContextNext ==
  /\ \/ part = "context" /\ Contexts!Next
  /\ UNCHANGED <<part, servicesVars, objectsVars, symbolsVars, netLinkVars>>

ObjectsNext ==
  /\ \/ part = "handles" /\ Counted!Next
     \/ part = "dynamic" /\ Dynamic!Next
     \/ part = "queues" /\ Queued!Next
  /\ UNCHANGED <<part, servicesVars, contextVars, symbolsVars, netLinkVars>>

SymbolsNext ==
  /\ \/ part = "symbols_narrow" /\ Narrow!Next
     \/ part = "symbols_wide" /\ Wide!Next
  /\ UNCHANGED <<part, servicesVars, contextVars, objectsVars, netLinkVars>>

NetLinkNext ==
  /\ \/ part = "link_lists" /\ Lists!Next
     \/ part = "link_guess" /\ Guess!Next
     \/ part = "link_passes" /\ PostElab!Next
     \/ part = "link_delay" /\ Delayed!Next
  /\ UNCHANGED <<part, servicesVars, contextVars, objectsVars, symbolsVars>>

Next ==
  \/ SysQueueNext
  \/ ChannelsNext
  \/ MonitorNext
  \/ VcdNext
  \/ LinkerNext
  \/ WorkQueueNext
  \/ ContextNext
  \/ ObjectsNext
  \/ SymbolsNext
  \/ NetLinkNext

Spec == Init /\ [][Next]_vars

(* The loader runs to its end by itself, and the operating system gives    *)
(* each of the two threads of the dumper its turn.                         *)
SimSteps ==
  /\ part = "work" /\ Dumper!SimStep
  /\ UNCHANGED <<part, structuresVars, sysQueueVars, channelsVars, monitorVars, vcdVars,
                 linkerVars>>
WorkSteps ==
  /\ part = "work" /\ Dumper!WorkStep
  /\ UNCHANGED <<part, structuresVars, sysQueueVars, channelsVars, monitorVars, vcdVars,
                 linkerVars>>
FairSpec == Spec /\ WF_vars(LinkerNext) /\ WF_vars(SimSteps) /\ WF_vars(WorkSteps)

----------------------------------------------------------------------------
(* Properties. *)

(* The vector of circular buffers behind the $q_ tasks implements named    *)
(* bounded queues, through wrap around, duplicate names and the cleanup at *)
(* the end of simulation; the statistics of $q_exam are there when they    *)
(* should and are those of the history of the queue, though the sum of the *)
(* waits is longer than a time, and the long division of that sum is exact *)
(* for every sum whose average fits (sys_queue.c).                         *)
QueuesAsPromised ==
  /\ part = "queue_order" => QueueOrder!Abstract!Init
  /\ part = "queue_names" => QueueNames!Abstract!Init
  /\ [][part = "queue_order" => [QueueOrder!Abstract!Next]_(QueueOrder!Abstract!vars)]_vars
  /\ [][part = "queue_names" => [QueueNames!Abstract!Next]_(QueueNames!Abstract!vars)]_vars
  /\ [](part = "queue_order" => QueueOrder!TypeOK)
  /\ [](part = "queue_names" => QueueNames!TypeOK)
  /\ [](part = "queue_stats" => QueueStats!TypeOK /\ QueueStats!TimesRight /\ QueueStats!LengthsRight)
  /\ part = "queue_stats" => QueueStats!AverageExact

(* Every open stream has one descriptor, those of the process stay where   *)
(* the code expects them, and one that is open keeps its stream; a line    *)
(* reaches all streams of its descriptor or none, also when a file was     *)
(* closed before $fstrobe writes, and every stream it was meant for that   *)
(* is open, also when the slot of another was opened again; a step in      *)
(* which a watched variable                                                *)
(* changed, or the monitor was set or enabled, ends with one line of the   *)
(* values at its end, and no flag survives its callback to silence the     *)
(* monitor (vpi_mcd.cc, sys_display.c).  ChannelsInv, AimInv and           *)
(* MonitorInv are what the proofs of Channels and Monitor rest on.         *)
LinesWritten ==
  /\ [](part = "channel_tables" => Tables!TypeOK /\ Tables!OneDescriptor
                                   /\ Tables!StandardKept /\ Tables!ChannelsInv)
  /\ [][part = "channel_tables" => Tables!StableDescriptors]_vars
  /\ [](part = "channel_lines" => Strobes!WholeLine /\ Strobes!ReachesOpen
                                  /\ Strobes!AimInv)
  /\ [](part = "monitor" => Monitored!OneLine /\ Monitored!ScheduledExact
                            /\ Monitored!MonitorInv)

(* Once a step is over a reader of the dump file has the value of every    *)
(* dumped signal, at the right time: no change is lost among the list of   *)
(* the step, its callback, checkpoints, limits and the header; a signal is *)
(* declared once however scopes and signals are named (sys_vcd.c).  VcdInv *)
(* is what the proofs of Vcd rest on.                                      *)
DumpAsSeen ==
  /\ [](part = "dump" => Dump!TypeOK /\ Dump!AsSeen /\ Dump!ListHasCallback /\ Dump!VcdInv)
  /\ [](part = "declare" => Declare!DeclaredOnce /\ Declare!VcdInv)
  /\ [][part = "dump" => Dump!StampedStep /\ Dump!FrozenStep /\ Dump!QuietStep]_vars

(* Whatever the order of the statements of a program, every input is       *)
(* linked to the gate that its reference leads to, once, and exactly the   *)
(* references that lead nowhere are reported (compile.cc).                 *)
AllLinked ==
  /\ part = "link_chain" => LinkChain!ErrorsExact
  /\ part = "link_gates" => LinkGates!AllLinked /\ LinkGates!ErrorsExact

(* Whatever the threads do between the locks, the ring with its open batch *)
(* is a mailbox: no message is lost, repeated, overtaken, overwritten      *)
(* while the worker looks at it, or written under the time of another; a   *)
(* batch has room, a sync drains, the closed file is whole (vcd_priv2.cc). *)
WorkIsMailbox ==
  /\ part = "work" => Dumper!Mail!Init
  /\ [][part = "work" => [Dumper!Mail!Next]_(Dumper!Mail!vars) /\ Dumper!DrainsStep]_vars
  /\ [](part = "work" => Dumper!Inv /\ Dumper!BatchHasRoom /\ Dumper!ClosedWhole)

(* What a batch has released is carried out, and no call of the simulator  *)
(* thread waits for ever: not for room, not for the queue to be empty, not *)
(* for the end of the worker (vcd_priv2.cc).  Chains and cycles of         *)
(* references do not keep the loader busy for ever (compile_cleanup).      *)
WorkGoesOn ==
  /\ \A n \in 1 .. 5 :
       (part = "work" /\ shown >= n /\ workQueue_phase = "open")
         ~> (part = "work" /\ written.n >= n)
  /\ (part = "work" /\ sim # "idle") ~> (part = "work" /\ sim = "idle")
  /\ part = "link_live" ~> (part = "link_live" /\ linker_phase = "done")

(* Every access of a variable of an automatic scope goes to the instance   *)
(* of the call it belongs to; a live context belongs to one call in        *)
(* progress, no context is lost or listed twice, and after its calls a     *)
(* thread has the contexts it began with (vthread.cc, vvp_net.h).          *)
ContextsOwned ==
  part = "context" => /\ Contexts!NoAbort /\ Contexts!OwnInstance /\ Contexts!LiveExact
                      /\ Contexts!ListsDisjoint /\ Contexts!StacksRestored

(* Between any two opcodes the count of an object is the number of         *)
(* references to it, and what nothing reaches any more is gone unless      *)
(* class instances hold it in a circle; a = new[n](b) leaves an array of   *)
(* its own in a, with the first words of what b was, also when b is a; a   *)
(* queue holds what pushes, pops and deletes say                           *)
(* (vvp_object.h, vvp_darray.cc, vthread.cc).                              *)
ObjectsExact ==
  /\ part = "handles" => Counted!NoAbort /\ Counted!RefExact /\ Counted!OnlyCyclesStay
  /\ part = "dynamic" => Dynamic!NoAbort /\ Dynamic!ResizeExact
  /\ part = "queues" => Queued!NoAbort /\ Queued!QueueExact

(* The B-tree of a symbol table, through every split of its nodes, is a    *)
(* map that enters each key once, and stays balanced and in order          *)
(* (symbols.cc).                                                           *)
SymbolsAreMaps ==
  /\ part = "symbols_narrow" => Narrow!Map!Init
  /\ part = "symbols_wide" => Wide!Map!Init
  /\ [][part = "symbols_narrow" => [Narrow!Map!Next]_(Narrow!Map!vars)]_vars
  /\ [][part = "symbols_wide" => [Wide!Map!Next]_(Wide!Map!vars)]_vars
  /\ [](part = "symbols_narrow" => Narrow!WellFormed)
  /\ [](part = "symbols_wide" => Wide!WellFormed)

(* The circular lists of a nexus are a partition of the pins that changes  *)
(* by joining two nets or taking a pin off; the nexus is found from every  *)
(* link, also by the marks left after elaboration; a guess of the driven   *)
(* value is dropped whenever the net changes; and a delay is inserted      *)
(* behind the driver (net_link.cc, net_nex_input.cc).                      *)
NetsPartition ==
  /\ [](part = "link_lists" => Lists!Rings)
  /\ [](part = "link_guess" => Guess!GuessRight)
  /\ [](part = "link_delay" => Delayed!DelayInserted)
  /\ [][part = "link_lists" => Lists!NetsMove]_vars
  /\ [][part = "link_passes" => PostElab!AnswerRight]_vars
============================================================================
