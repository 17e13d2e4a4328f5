# EpicSim in TLA+

A verification project for EpicSim, the Verilog simulator in this repository. A
design is compiled by `ivl` into a vvp program, text that the code generator
`tgt-vvp` writes, and executed by `vvp`. The logic that makes a simulation right
or wrong is in vvp: an event queue with the regions of the Verilog standard,
threads that fork, join, wait and are disabled, and a network of functors that
pass values on. The project models these, the services around them (loader, VPI
callbacks, files, queues, dumpers) and the parts of the compiler that compute
numbers and join nets. It checks them with TLC and proves the main facts about
the event queue with TLAPS.

## 1. The system

| Part | State | Operations | Interacts with |
|---|---|---|---|
| Scheduler (`vvp/schedule.cc`) | `sched_list`, a list of `event_time_s` cells that hold the delay after the cell before them and seven circular lists; the initialization and final lists; the runnable, stop and single step flags | `schedule_*` insert; `schedule_simulate` drains; `schedule_finish`, `schedule_stop`, signal handlers | calls the `run_run` of an event, which calls back into all of `schedule_*` |
| Interactive stop (`vvp/stop.cc`) | `interact_flag`, `stop_is_finish` | `stop_handler`, the cont, step and finish commands | called by the main loop, sets its flags |
| Threads (`vvp/vthread.cc`) | `vthread_s`: flags, children, detached children, task children, parent, scope, `wait_next`; stacks and contexts | the opcodes | `schedule_vthread`, event functors, scopes |
| Events (`vvp/event.cc`) | wait lists, `evctl` lists, last values | trigger on an edge or by `%event`, `.event/or` | wakes up threads, makes assignments |
| VPI callbacks (`vvp/vpi_callback.cc`) | lists per reason, callback objects, the mode flag | register, remove, run | scheduler, value changes |
| Delays (`vvp/delay.cc`) | the list of pending values | receive, run | scheduler |
| Signals and filters (`vvp/vvp_net_sig.cc`, `vvp/vvp_net.cc`) | value, assign and force masks, links | receive, force, release, assign, deassign | functor network |
| Arrays (`vvp/array.cc`) | words, read ports, callbacks | write, address change, register, remove | functor network, VPI |
| Functors (`logic`, `dff`, `npmos`, `part`, `resolv`, `udp`, `arith`, ...) | inputs, a pending flag | receive, run | scheduler, functor network |
| Islands (`vvp/vvp_island.cc`, `vvp/island_tran.cc`) | ports, branches, marks | receive, run the island | functor network |
| Functions (`%callf`, `ufunc`, `sfunc`) | child threads, contexts, port variables | call, return | threads, functor network |
| Objects (`vvp/vvp_darray.cc`, `vvp/class_type.cc`) | counted objects, object stacks | new, store, load, copy, push, pop | threads |
| Loader (`vvp/compile.cc`, `vvp/symbols.cc`) | symbol trees, resolution list | one function per statement, the final passes | everything |
| VPI tasks (`vpi/`) | descriptors, the monitor, queues, dump lists, a work thread | system tasks, callbacks | VPI, files |
| Compiler (`ivl`) | constants, links and nexus objects, the design | passes | text files |
| `ivlpp`, `vhdlpp`, `tgt-vvp`, `driver` | macros, text | passes | text files |

What is hard here:

* Only a waveform dumper has a second thread, and UNIX signals arrive at any time;
  otherwise nothing runs in parallel, but everything re-enters. An event that
  executes inserts into the list that is being drained; a thread that ends
  schedules, reaps and deletes others while its own opcode runs; a callback
  changes the signal whose callbacks are being called; an assignment triggers the
  event whose controls are being walked.
* Order is the specification: events of a time step run in the order of their
  regions, `push` goes in front, read-only callbacks come last.
* Object lifetimes are managed by hand, by flags, marks and counts.
* A transition that is withdrawn, or a step that another one overtook, leaves
  its event in the scheduler; the code has to recognise a stale one.
* Wake-ups can be lost: a thread in `%join` or `%wait/fork` is resumed only by
  the child that ends or is disabled.
* Values are computed several times: incrementally in a functor, at once in a
  process, before the simulation by the compiler, with machine words or with
  arrays of them. All have to agree.

`PROJECT.json` lists the hazards at their lines, each with the properties that
would catch it.

## 2. Modules

| Module | Models | Abstract specification |
|---|---|---|
| `Schedule` | `schedule.cc`, the parts of `stop.cc` and `vpi_callback.cc` that drive it | `Agenda`: a time and a set of events with due times |
| `Vthread` | life cycle opcodes of `vthread.cc`, wait lists of `event.cc`, the code that `vvp_process.c` emits for forks, blocks, tasks, disable | |
| `Context` | contexts of automatic scopes: `%alloc`, `%free`, `%fork`, `%join`, `%callf` | |
| `Callbacks` | `vpi_callback.cc` | |
| `Event` | `event.cc`: edge and or functors, wait lists, event controls | |
| `Filter` | `vvp_net_sig.cc`, filters of `vvp_net.cc`, the force and assign opcodes | |
| `Array` | `array.cc` | |
| `NetFunc` | `ufunc.cc`, `sfunc.cc`, `%exec_ufunc`, `%reap_ufunc` | |
| `Delay` | `vvp_delay_t` and `vvp_fun_delay` of `delay.cc` | `Inertial`: an input, an output, one transition in flight |
| `Modpath` | `vvp_fun_modpath` and its sources | |
| `Gate`, `Flop`, `Mos`, `Part` | `logic.cc`; `dff.cc`, `latch.cc`; `npmos.cc`; `part.cc`, `concat.cc`, `reduce.cc`, `substitute.cc`, `extend.cc` | |
| `Udp` | `udp.cc`: compilation of a table, the instance | |
| `Strength`, `Resolv` | `vvp_scalar_t`, `resolv.cc` | |
| `Island` | `vvp_island.cc`, `island_tran.cc` | |
| `Words`, `Arith`, `Compare`, `Divide` | `arith.cc`, the vectors of `vvp_net.cc`, the arithmetic opcodes of `vthread.cc` | IEEE 1364 over the integers, as operators |
| `Verinum`, `ConstFold` | `verinum.cc`, `eval_tree.cc` of the compiler | the meaning of an expression, as an operator |
| `NetLink` | `net_link.cc`, `link_const.cc`, the insertion of net delays | a partition of the links |
| `Objects` | dynamic arrays, queues, class instances and the opcodes on them | |
| `Symbols` | `symbols.cc`, a B-tree | `SymbolMap`: a map |
| `Linker` | references between statements: `compile.cc`, `words.cc` | |
| `SysQueue` | `sys_queue.c` | `JobQueue`: named bounded queues |
| `Channels`, `Monitor` | `vpi_mcd.cc`, `sys_fileio.c`, `sys_display.c` | |
| `Vcd` | `sys_vcd.c` | |
| `WorkQueue` | `vcd_priv2.cc`, the two threads of `sys_lxt2.c` | `Mailbox` |
| `ScheduleProofs`, `VthreadProofs`, `WorkQueueProofs` | theorems about `Schedule`, `Vthread`, `WorkQueue` | |

`SysQueue`, `Delay`, `Monitor`, `Channels` and `Vcd` have their theorems and proofs at their end.

`Schedule` and `Vthread` are given to TLC as they are, with their configurations. The
others are instantiated by the `MC` modules: `MCSignals`, `MCFunctors`, `MCNumbers`
and `MCServices` each collect the components of one layer or two.
These have a component per *instance* of a module (a module may have several,
with other constants). Components share no state in a run: `Init` chooses the
component that is going to run (`part`), its variables get the values of its own
`Init`, those of the others the constant `Unused`, and `Next` is that of the
chosen one. The state space is the sum, not the product, of the instances.
`Components` says which may be chosen. A property of such a module names for
each component what it promises (`part = "force" => Forced!AsAsked`).
`ConstantsOK` collects the assumptions of the modules on their constants.

How state and actions correspond to the code, for the larger modules:

**Schedule.** The cells are objects of a set `Cells` with the fields `next`,
`delay` and `queue` (one sequence per region: a circular list with a tail pointer
is a sequence, oldest event first). `schedule_event_` is not one step: an
activation `ins` holds the local variables `ctim`, `prev` and the remaining
`delay`, and one action stands for each branch (`InsertFirst`, `InsertFront`,
`InsertWalk`, `InsertBetween`, `InsertHere`, `InsertLast`). `pc` is the place in
`schedule_simulate`. In a state of `ClientPC` client code is executing (an
event's `run_run`, a callback, the debugger's prompt) and may make any number of
calls: schedule an event of any region after any delay, push, add to the
initialization list while that is possible, `$finish`, `$stop`. A `Signal` is
possible at every step while the handlers are installed, which is why the test of
the stop flag, its reset and the handler are three actions. Ghosts: `at`, the
absolute time of a cell; the number, due time, origin of an event; `ran`; `term`.

**Vthread.** `thr` is the set of thread objects; `active` the active region of
the queue, a sequence of lists of threads linked by `wait_next`; `rest` what
`vthread_run` has yet to execute of such a list; `sleeping` the threads in a
delay; `waiters` the wait lists. A thread executes an arbitrary program,
statement by statement. A fork statement is the opcode sequence that
`show_stmt_fork` emits; named blocks and task calls are forks of one branch in a
scope of their own. `%disable` is a loop over the threads of the scope with a
recursion of `do_disable` on an explicit stack; `std::set` orders threads by
address, so every choice of an element is nondeterministic. Assertions are not
assumed: an action computes them into `aborted`. Threads are not reused, so that
a stale pointer to a deleted one can be seen.

**Walks.** `Callbacks`, `Event`, `Array`, `NetFunc` keep the C++ call stack in a
variable `stack`, one frame per walk with the pointers that the code holds across
a call. Between two members of a walk arbitrary client code runs, which may start
another walk of the same list. The lists are kept as the code keeps them, with
`next` fields and, in `Event`, with `last` as the address of a slot.

**Functors.** A functor has the values last received, what it has in the
scheduler, and what it has sent. An input changes in any order, in parts
and while a run is pending. The properties compare, at rest, what was sent with a
direct definition of the function. `Delay` has the list of transitions and, apart from it,
the scheduler's events, of which more exist than transitions; times are distances
from now. `Udp` compiles tables of characters into masks with `int` and `long` of
few bits. `Resolv` has the flattened quaternary tree, `Island` the three passes of
a run and the sending port by port.

**Numbers.** A machine word has `CPU_WORD_BITS` bits (2 or 4 in the instances,
64 in the code), an `int` `IntBits`, and all operations are modulo these.
The code paths are chosen by comparing widths with these, as in the code.
`Divide` has one step per digit and per correction. `ConstFold` tells constants
from expressions whose value the compiler must not look at.

**WorkQueue.** What a thread does under the mutex is one step; a wait on a
condition releases it and may end spuriously. `work_queue_fill` is read without
the mutex in one place of the code, and so in the model.

## 3. Runs that pass

**schedule_order** (`Schedule`: 3 cells, 3 events, delays 0..2). `Inductive`: the list
is linked, strictly sorted and its deltas exact, also in the middle of an insertion;
the lists of a cell are in the order of execution; nothing but the two known
exceptions is left over in a step. `RunAtDue`: an event runs at its due time. `ReadOnlyStable`: no read-write event
is pending when read-only callbacks run. `OrderKept`: nothing overtakes an event of
an earlier region, and a pushed thread runs next. `Implements`: `Schedule`
implements `Agenda`.

**schedule_live** (2 cells, 2 events, delays 0..1, one `$finish` or `$stop`, one
signal, fairness). `TermNotLost`: after SIGTERM the simulation is over, or the stop
flag is up until the handler has seen it. `Terminates`: the main loop leaves.

**vthread_fork** (`Vthread`: 4 threads, a named block, a task, an event, forks of
up to two branches). `ThreadsSound`: no assertion fails, parent and child agree,
nothing refers to a deleted thread, the flags are exact; and the inductive invariant of
the proofs (`Sound` and `Exact`). `NoLostWakeup`: every
suspended thread has something that is going to resume it. `JoinWaits`: no `%join`
is passed while its branches run. `NoLeak`: a thread that has ended is freed.

**signals** (`MCSignals`). `ChangesTold`: every value change callback has been told of
the last change, those made inside a walk too; one-shot callbacks run once, on
time. `NothingDangles`: no list and no walk refers to a deleted callback object.
`TriggersSeen`: no waiting thread or event control misses a trigger or counts one
twice. `ForcesAsAsked`: every bit has the value that the statements ask for, and
the links feed it exactly while their statements are in effect. `WordsCurrent`: ports
and callbacks of an array have its present words. `FunctionsSettled`: nets driven
by functions have the function of their inputs; calls that wait keep their own
arguments.

**functors** (`MCFunctors`). `OutputsFollow`: gates, flip-flops, latches and switches
show, at rest, the function of what they were last sent. `PartsCarried`: the same of
functors behind a wire that is driven, forced and released in parts.
`PrimitivesAsTabled`: compiled tables give what the rows say. `DriversResolved`: the
tree of a resolver gives what all drivers give in any order. `IslandsSettled`: an
island at rest has the resolution of everything its switches conduct.
`DelaysInertial`: `Delay` implements `Inertial`. `DelaysEnd`: every transition in
flight has its event, and with none left the output is the input. `PathsChosen`: a
module path's delay is that of the sources that woke up last.

**numbers** (`MCNumbers`). `NetValues`, `ProcessValues`: nets and processes compute what
IEEE 1364 says, on either side of the word width. `Quotients`: the long division keeps
`input-a = bp * result + ap` and ends with the quotient. `FoldKeepsMeaning`: constant
evaluation never changes the meaning of an expression. `Lossless`: numbers without
a width are exact integers through any sequence of operations.

**structures** (`MCServices` with `MCStructures.cfg`). `ContextsOwned`: every access to an automatic variable is
to the instance of the call that makes it, and live, free and stacked contexts
stay apart. `ObjectsExact`: the counts are the references, nothing is used after
it was freed, the queues and arrays have the contents that their statements say.
`SymbolsAreMaps`: `Symbols` implements `SymbolMap`. `NetsPartition`: circular lists
of links are always the nets that the connections made, the remembered constant is the right one,
and an inserted delay is between the driver and the rest.

**services** (`MCServices`). `AllLinked`: every input is linked to the gate its reference
leads to, and exactly the dangling references are reported. `QueuesAsPromised`:
`SysQueue` implements `JobQueue`, the statistics are those of the history.
`LinesWritten`: descriptors are stable, a line reaches all of its files that are open, the monitor
prints one line for each step with a change. `DumpAsSeen`: a reader of the dump has
the value of every signal at every time.

**services_live** (`MCServices` with fairness). `WorkIsMailbox`: `WorkQueue` implements
`Mailbox`, and the inductive invariant of that proof holds. `WorkGoesOn`: neither thread waits for ever, and the passes of the loader end.

### Bounds

Three events and three cells are the least with which an insertion has to walk
past a cell and then split the next one; delays up to 2 give the three outcomes of
each comparison. Four threads allow a parent with two branches of which one forks
again, a detached child next to a joined one, and three generations; a
thread executes any number of statements; while a thread waits for an event, one of the
four is left unborn (`Small`). Three callback objects or event controls on one clock are the
least with which a walk has one before, at and behind its position; three changes give a walk
in a walk in a walk. Five drivers make a resolver of two levels. The B-tree has
leaves of two and nodes of three, and five keys split the root twice; the second
instance has other widths. Arithmetic is exhaustive: all operands at widths below,
equal to, one above and two and more times the word. The ring of the work queue has
4 places for 6 messages, so that it fills and wraps. Counters named `Max...` bound
lengths of runs; each is a constant of its module. Cells, threads other
than the initial one, and callback objects are interchangeable, and are symmetry
sets in runs without temporal properties that need states apart (no liveness).

### What instances leave out

Constants restrict some instances to programs for which the code does what is
asked. Section 4 says what goes wrong without the restriction.

* `Vthread.Features`: no disable of a scope with a detached thread, no detaching fork in a task.
* `Callbacks.Features`: removal and nested walks not together; no removal of
  end-of-compile, start, next-time and end-of-simulation callbacks.
* `Context`: `Index` and `Detach` off; threads are not disabled.
* `Filter`: a linked force is released before the next (`Disciplined`), parts stay
  inside the signal (`Overhang`); the instance with assigns has no release, and its assertions are not checked.
* `Array`: nested writes and removals in different instances, no ports on an alias.
* `NetFunc`: no core feeds itself, and `$stop` only in automatic functions.
* `Delay.Racing`: no new input while a transition due now has not run.
* `Gate`: and/or gates have two inputs, and no first input is z except that of the multiplexer.
* `Flop.Steady`: enable and clear change while the clock is inactive. `Mos`: no rcmos.
* `Part`: functors that fill a partial vector with z are behind partly driven wires only.
* `Island.InCallback`: callbacks do not release; no enable driven by the island itself.
* `Resolv`: more than one driver, none of an ambiguous strength.
* `Udp`: fewer ports than an `int` has bits. `Divide`: divisors of one word, or with the top bit set.
* `Arith`: signed power with negative exponents within `int` only; shifts by the width
  of a word as on x86 and ARM. Unsized numbers: nothing below zero for unsigned ones, no division.
* `Objects`: no nil array and no empty queue are read (`Careful`), indices are known,
  no `push_front` of strings when contents are compared.
* `NetLink`: one driver on a delayed net.

### Fairness and deadlock

vvp's main loop is one thread without blocking operations outside of the debugger;
`WF_vars(MainThread)` says that it keeps running. That includes that client code
returns, which the code cannot guarantee (`forever;` hangs vvp): in the model client
code makes at most `MaxEvents` + `MaxControls` calls. Signals have no fairness. For the
work queue, weak fairness of each thread is what the operating system gives; a
spurious end of a wait has none. The loader is a loop of its own.

Deadlock is checked in the runs of `Schedule`, whose only final state is `done`. The
others allow it: a simulation in which all threads wait for events, a functor
that has used up its changes, or a finished computation, has nothing left to do.

## 4. Where code and documentation disagree

Three runs show a violation:

| Run | Property | The code |
|---|---|---|
| `vthread_disable_join` | `JoinWaits`: a `%join` suspends "until the child ends" (`opcodes.txt`) | `do_disable` of a detached thread wakes up a parent that joins another child |
| `gate_three` | `AllInputsUsed`: "combining up to four inputs down to one output" (`README.txt`) | and/or gates whose first two inputs have one width ignore the others |
| `divide_wide` | `WideQuotients`: "input-a = bp * result + ap" (`vthread.cc`) | an estimated digit whose product does not fit the array stays too big |

The following came up in the same way while modelling. The property is defined in
the module named, and the setting of its constants is the one with which TLC finds it
violated; no configuration is kept for them.

| Where | Property and setting | What the code does |
|---|---|---|
| `schedule.cc:598` | `Schedule!FinishAbandons` | callbacks for the start of the time step run after `$finish`: "all remaining events abandoned" (`schedule.h`) |
| `schedule.cc:1053` | `Schedule!InitBeforeStart` | the init list, drained "before the simulation as a whole starts", accepts events until after the StartOfSim callbacks |
| `vthread.cc:2300` | `Vthread!WaitForkEnds`, `disable_detached` | a disabled detached child stays among the detached children: `%wait/fork` sleeps for ever |
| `vthread.cc:2987` | `Vthread!NoAbort`, `detach_in_task` | branches of an unnamed fork in a task count as task calls |
| `vpi_callback.cc:548` | `Callbacks!QuietReap`, `remove_prepost` | a removed cbNextSimTime is called through a null pointer |
| `vpi_callback.cc:753` | `Callbacks!PrevLinked`, `nested` and `remove_value` | a nested walk deletes the object that the outer walk goes on with |
| `vpi_callback.cc:545` | `Callbacks!NextTime` | a cbNextSimTime registered by another one runs at the current time |
| `delay.cc:195` | `Delay!MostRecent`, `Racing` | the new value is compared with the oldest transition, "the most recent event" is meant |
| `delay.cc:458` | `Delay!Settled`, `Racing`, real | a value due now is neither cleaned nor followed by the new one |
| `delay.cc:648` | `Modpath!NoAbort`, `Width` 2 | bits that rise and fall together with different delays fail an assertion |
| `event.cc:63` | `Event!NoAbort`, an event control that assigns its own signal | it is met again with a count of zero |
| `vthread.cc:2867` | `Filter!AsAsked`, not `Disciplined` | a plain force leaves the link of an earlier one |
| `vvp_net_sig.cc:847` | `Filter!KeepsReleased`, assign and force together | a released variable falls back to the assigned value and tells nobody |
| `vthread.cc:2904` | `Filter!NoAbort`, `Overhang` | the value is not cut with its mask |
| `vvp_net_sig.cc:284` | `Filter!NoAbort`, deassign of a part without an assign | an assertion on the empty mask |
| `sys_queue.c:754` | `SysQueue!OverflowSaturates`, signed variables of 33 to 63 bits | a wrong mask for "the maximum positive value" |
| `ufunc.cc:132`, `:155` | `NetFunc!Settled`, a core that feeds itself, or `$stop` | a new input is stored and the function not called again |
| `vthread.cc:5892` | `NetFunc!OwnPorts`, static function with `$stop` | a second core overwrites the port variables of the first |
| `sys_display.c:1374` | `Channels!StrobeGoesWhereAsked` | `$fstrobe` writes to the file that took the descriptor of a closed one |
| `udp.cc:304` | `Udp!AsTheTableSays`, as many ports as an `int` has bits | the mask of an edge row uses the int 1 |
| `vvp_net.cc:3355` | `Resolv!OrderFree`, drivers of ambiguous strength | the result depends on the shape of the tree |
| `resolv.cc:152` | `Resolv!CountsDrivers`, one driver and a pull | the pull is counted |
| `island_tran.cc:203` | `Island!Settled`, an enable driven by the island | the switch keeps the state before the run |
| `vvp_island.cc:199` | `Island!Settled`, `InCallback` | a nested run sends values of the outer one |
| `array.cc:1417` | `Array!PortsCurrent`, a port on an alias | words that change do not reach it |
| `array.cc:1347` | `Array!CallbacksCurrent`, kind `Avar` | a callback on `mem[i]` is entered for word 0 |
| `logic.cc:124` | `Gate!Settled`, `FirstZ` | a buffer whose first input is z is never run |
| `dff.cc:73` | `Flop!Follows`, not `Steady` | a clock that moves while gated is not recorded |
| `dff.cc:92` | `Flop!Follows`, `Async` with z | z is also the mark of a flip-flop without output |
| `npmos.cc:212` | `Mos!Conducts`, `RCMOS` | the p gate's values with strengths are dropped |
| `vvp_net_sig.cc:862` | `Part!Carries`, release of a part before `substitute`, `extend` | the rest of the vector is taken for undriven |
| `part.cc:280`, `vvp_net.cc:3082` | `Part!Carries` of `part_var`, `Part!NoAbort` of `repeat`, partly driven wire | x for z; an assertion |
| `sys_lxt2.c:447` | `WorkQueue!JoinedOnce` | the work thread is joined twice |
| `vthread.cc:2441` | `Divide!OneTooBig` | the estimate "may be 1 too big", and can be by half its range |
| `arith.cc:643` | `Compare!EqxUnknown` | casex in nets gives 0 or 1, the comment says x |
| `vthread.cc:1621` | `Compare!SameEq` | `%cmp/s` and `%cmp/u` differ in eq, documented as equal |
| `vvp_net.cc:2647` | `Arith!NoWidthLimit`, more than a word, divisor 1 | the quotient is 0 |
| `vvp_net.cc:2026` | `Arith!NetTable`, base above `int`, negative exponent | 0 instead of the table's value |
| `vthread.cc:4377` | `Arith!ProcessTable`, unsigned base, signed exponent | the base is read as signed |
| `vthread.cc:3317` | `Context!OwnInstance`, `Index` | an index is read from the callee's context |
| `vthread.cc:3368` | `Context!NoAbort`, `Detach` | join_none in an automatic task fails an assertion |
| `vvp_object.h:101` | `Objects!NoGarbage` | cycles are never freed: "garbage collection automatic" |
| `vthread.cc:3451` | `Objects!NoAbort`, not `Careful` | nil arrays and empty queues fail assertions |
| `vthread.cc:5394` | `Objects!QueueExact`, `Fronts` with strings | `push_front` of strings is not done |
| `vthread.cc:5206` | `Objects!IndexMeant`, `Index` with `Unknown` | an unknown index writes word 0 |
| `vpi_darray.cc:248` | `Objects!WordHandles`, `Views` | handles beyond the words that were allocated |
| `net_link.cc:328` | `NetLink!DelayInserted`, two drivers | only one of them is moved behind the delay |

## 5. Proofs

All proofs are about the modules that TLC runs, and every inductive invariant
is also checked by TLC in a run of its module. The constants are arbitrary but for the named assumptions.

### The scheduler

`ScheduleProofs`, for every set of cells and every value of the bounds
(`NullAssumption`: the null pointer is not a cell; `BoundAssumption`: bounds are
natural numbers):

* `ScheduleInvariant`, `ScheduleInductive`: `Spec => []IInv`, `Spec => []Inductive`;
* `TypeCorrect`, `ListCorrect`: `Spec => []TypeOK`, `Spec => []DeltaList`;
* `ExecutionTimes`: `Spec => []RunAtDue`;
* `ReadOnlySynch`: `Spec => []ReadOnlyStable`;
* `TerminationSeen`: `Spec => []TermNotLost`;
* `PushedFirst`, `ExecutionOrder`: `Spec => []PushFirst`, `Spec => OrderKept`;
* `Refinement`: `Spec => Implements`, that is `Abstract!Spec`.

The argument. What should hold is that an event runs at its due time, but the
code never stores absolute times: it holds only if the sum of the deltas up to a
cell is the time at which its events are due. Sums over a linked list need an
induction, so the ghost `at` carries the sum, and `Linked` and `Deltas` state
locally, for a cell and its successor, that `at` of the successor is `at` plus
its delay, that the delay is positive, that no two cells point to the same one,
and that the first cell is relative to `schedule_time`. This is not inductive
during an insertion: `Walk` ties the local variables of `schedule_event_` to the
list (the remaining delay plus the time of `prev` is the due time, `prev` points
to `ctim`), `AtHead` says that a time step in hand is the first cell with delay 0,
and `EventTime` says that each event is in the cell of its due time. `IInv` is
their conjunction. There is one lemma per group of actions.

`Inductive` adds three parts. `OrderInv`: events are numbered by the calls that
scheduled them, and the lists of every cell are in the order of execution, with
the pushed events in front; the moves of a whole list to the active region need
that the active list is empty at that point. From it `RunInOrder` follows as a
property of the one step that executes an event. `StepInv`: what is left in a time
step that ends was created by a read-only callback, or is for the start of
a step that had begun; and every cell in the future has an event, so that time
never moves to an empty step. `TermKnown`: after a termination signal every stop is
a finish, which makes `TermNotLost` inductive across the three steps in which
the stop flag is tested, cleared and handled.

The refinement maps the pending events of the agenda to those of all lists and of the
insertion under way, `now` to `schedule_time`, `finishing` to the cleared
`schedule_runnable` or the end of the loop. A step of an insertion is a stutter: the
event is pending from the call. The cells freed at the end of a time step are an
`Expire`, for which `StepInv` gives the reason, and the move to the next cell is a step
of time to the earliest event, for which `Linked` and `FutureFull` are needed.

### Threads

`VthreadProofs`, for every finite set of threads, all blocks, tasks, events and
bounds (`ThreadAssumption`, `ScopeAssumption`, `ForkAssumption`), in programs that
disable no scope in which a thread is detached (`"disable_detached" \notin Features`;
without it `NoLostWakeup` and `NoLeak` are false, section 4):

* `ThreadInvariant`: `Spec => []IInv`;
* `FamiliesAgree`: `Spec => []Family`;
* `NoWakeupIsLost`: `Spec => []NoLostWakeup`;
* `NothingLeaks`: `Spec => []NoLeak`.

The second part of the module, under the same hypothesis:

* `ExactInvariant`: `Spec => [](IInv /\ (~aborted => Exact))`;
* `FlagsAreRight`: `Spec => []FlagsExact`;
* `NothingDangles`: `Spec => []NoDangling`;
* `JoinsWait`: `Spec => []JoinWaits`;
* `ThreadsAreSound`, if there is also no detaching fork in a task
  (`"detach_in_task" \notin Features`): `Spec => []ThreadsSound`, of which `NoAbort` is a part.

`IInv` is `Sound` until an `assert()` fails, after which the model does nothing: the code
relies on its assertions (`vthread_reap` deletes what it is told to). That none fails, so
that the theorems hold without that proviso, is the last theorem. `detach_in_task` is allowed in the others; with it
the assertion of `%join/detach` does fail (section 4).

Why the parts of `Sound` are needed. `NoLostWakeup` is not inductive: a thread in a
`%join` counts on a child that has not ended, and `do_disable` marks children as ended
long before it wakes up anybody. `Woken` therefore admits one more reason, a parent
that joins the thread with which the `%disable` began; a thread further up the
stack has a parent that has itself been disabled. This needs to know what the
stack is: `Disabled` says that each activation is for a child of the one below,
that they are different threads, all alive and ended, and what the caller is
about to reap. That a child is not on the stack already, and that reaping a
thread does not reach itself through its parent, is `Rooted`: in every set of
threads there is one whose parent is outside, which is a way to say that the
families have no cycles that is kept by steps that change a parent
without an induction over paths. `Ended` says that a thread that has ended has no
children unless it is on the stack, which makes `NoLeak` follow and `Reap`, which
moves children to their grandparent, a step that never has to. `Departed` and
`Referred` say that what is reaped has left and that only created threads are
referred to, `TaskChildren` that a task that runs is a child, without which
a `%join` could wait for a child that is no longer there.

`Exact` is what the assertions need on top. `vthread_mark_scheduled` asserts that the
thread is not scheduled, `vthread_run` that it is, and `vthread_reap` frees an object
at once if neither flag is up: all of this is right only if the flags are the truth
about the lists. `Placed` says so, and that no list holds a thread twice, which moving whole
lists (a wait list to the active region, the rest of a region to the front) needs in order to keep it.
`Suspended` says that a thread sleeps for one reason: a thread in a `%join` that was also on
a wait list would be scheduled twice. `Statement` counts: the children of a thread, with
the forks still to come, are as many as the joins and detaches still to come. From it follow the
assertion of `%end` that no child is left, that a `%join` finds a child, and, with the number of those that have
ended, `JoinWaits`.

A step of do_join or vthread_reap writes to a thread, its parent and all its detached
children. `ReapEffect`, `JoinEffect` and `ReleaseEffect` say once what these operators do to
each record; `ReapsKeep` and `ReapsAwake` say what follows for families and for sleepers; the
lemma of each opcode then has to connect the two.

### The work queue

`WorkQueueProofs`, for every ring that is longer than `WORK_QUEUE_BATCH_MIN`, every size of
batch and all bounds (`SizeAssumption`):

* `QueueInvariant`: the invariant `Inv`;
* `QueueIsMailbox`: the safety part of `WorkQueue` implements `Mailbox`;
* `RoomAndEnd`, `SyncDrains`: the assertion of `grab_item`, and that a sync and the
  end of the dump find the queue empty.

The mailbox has the messages that were sent and not yet carried out. In the ring these
are the ones the worker may see, less one between the moment it is carried out and the
moment it is popped, followed by the open batch, which the worker may not see yet
(`Pending`). Steps that only move the border between the two are stutters. `Ring` says that
fill and batch never add up to more than the ring, so that the simulator thread does not write
where the worker reads; `Place` and `Held` where each thread is in its call while the other one
runs; `Life` how the dump ends.

### Propagation delays

`Delay`, for every width, kind of net and set of delays (`DelayAssumption`: times are natural
numbers with a largest one):

* `DelayInvariant`: `Spec => []DInv`, `DelaySettles`: `Spec => [](NoLostEvent /\ Settled /\ MostRecent)`,
  `DelayIsInertial`: `Spec => A!Spec` with `Inertial`, each if `Racing = FALSE`, that is if no input
  arrives while a transition that is due has not run; `Settled` and `MostRecent` are false without
  it (section 4);
* `MinDelayRight`: `Spec => []MinDelayExact`, racing inputs included.

The functor cannot take an event back from the scheduler: it forgets the transition, and the
event runs and finds nothing due. So the events are a bag of which the list is a part, and the
question is which of them still mean something. `InFlight` says that the list has at most one
transition, that it leads to the present input, and that an event is at its time; `Arrived`
that without one the output has caught up. The list is longer only within a step, between
`clean_pulse_events_` and the insertion. With these the refinement is direct: the transition in flight is that
of `Inertial`, an event that finds nothing due is a stutter.

### Queues of the system tasks

`SysQueue`, for any names, sizes and numbers of queues (`SysQueueAssumption`):

* `QueuesImplement`: `Spec => Abstract!Spec` with `JobQueue`.

`JobQueue` says which items come out, what every call answers, the lengths that `$q_exam`
reports, and when it has a time statistic: a mean distance from the second item on, a shortest
wait once an item was removed, a longest wait while there is an item. It leaves open
what the times are and whether they fit in the caller's variable; that is model-checked
(`TimesRight`). A failed allocation is in neither module: `ivl_alloc.h` replaces `malloc` and
`realloc` by macros that end the process, so that the code for it in `create_queue` is never reached.

The invariant is `Vector`: no two queues have one name, the head of each is inside its buffer,
there are no more elements than places and never were more than `max_len`. The items of the abstract queue are the places from
the head on, modulo the length (`Wrap`). `WrapOnce` and `WrapNext` are the arithmetic: different
elements are at different places, so that adding one overwrites none, and moving the head
shifts the numbering by one. `Items` of a queue after `add_to_queue` and `remove_from_queue` are
then those of before with one appended, or without the first or the last.

### Channels and the monitor

`Channels`, for tables of every size (`SizesAssumption`):

* `DescriptorsOwned`: `Spec => [](OneDescriptor /\ StandardKept)`;
* `DescriptorsStable`: `Spec => [][StableDescriptors]_vars`;
* `LinesWhole`: `Spec => []WholeLine`;
* `LinesReachOpen`: `Spec => []ReachesOpen`.

`OneDescriptor` counts the descriptors of a stream, which is not a convenient invariant. `Owned`
says instead that the tables are injective, share only the standard output, and that what is
open is in one of them; `Standard` is needed because a close skips channel 0 and the first three files by their
number, and what must be kept is the stream. `WholeLine` rests on both: a descriptor that is
valid has a different stream for each of its channels, at the call and at the end of the step, so that as many
are written to as were named (`Request`), though they need not be the same ones
(`StrobeGoesWhereAsked`, section 4). `ReachesOpen` says how far they may differ: only where a stream
has been closed since. `Aim` is its inductive form, for the strobes that wait; it needs
`StableDescriptors`, and that a new stream is none of those that a strobe was called for.

`Monitor`, for any variables, values and argument lists: `MonitorPrintsOnce`,
`Spec => [](OneLine /\ ScheduledExact)`. `MonitorInv` says that the flag is up exactly while one
callback is queued, that while statements run a line is due exactly when the flag is up, that
the value change callbacks are on the items of the present monitor, and what has been printed.

### The waveform dumper

`Vcd`, for any design, depths and bounds:

* `DumpComplete`: `Spec => [](AsSeen /\ ListHasCallback)`;
* `SignalsDeclared`: `Spec => []DeclaredOnce`;
* `RecordsStamped`: `Spec => [][StampedStep]_vars`.

`AsSeen` speaks of the end of a step. In between, `Current` says that a dumped signal is on the list of
the step or was recorded with the value it has, and `Header` that a file whose header is not written has a
callback that will write it, and no list before. `Stamps` is about `vcd_cur_time`, which the
code compares with the time in three different ways: when they are equal the stamp is in the file, but for
one case, a header written while the dump is off; there nothing else can be written in
the same step, because the list was empty before the header. `Declared` is `DeclaredOnce`
for a file that is not open yet as well.

### Only model-checked

Liveness under fairness (`Terminates`, `WorkGoesOn`) is out of the prover's reach. `Island` and
`Symbols` use recursive operators, which it does not handle, and what the arithmetic computes
for every width is an induction over data, as are the sums behind the statistics of `SysQueue`. The properties
of the remaining modules have not been attempted.

## 6. Not modelled

The map of `PROJECT.json` names the lines behind each definition, 7.3 % of
the repository's 195,705 lines. The rest:

* The compiler apart from its numbers and nets: parser, elaboration, synthesis,
  the other passes. They are sequential translations of large trees; a property
  of them would be that the program they write means what the source means, and
  the state for that is all of Verilog.
* The code generator apart from the sequences that `Vthread`, `Context`,
  `Objects`, `Compare` and `Arith` execute; the preprocessor, a lexer with a macro
  table; the VHDL front end, a translator; the command line drivers.
* The VPI object model: access functions and formatting of values. System
  tasks that only format, read files or compute a number.
* The writers of dump formats (`fstapi.c`, `lxt_write.c`, `lxt2_write.c`), vendored
  compression code; the `$dump` tasks of the other formats repeat those of VCD.
* Real arithmetic; casts between reals and vectors; strings.
* Opcodes that move values between stacks; copies of functor state in automatic contexts;
  part selects of event controls; delayed forces.
* The slab allocator and the debug counters. Overflow of the 64 bit simulation time:
  times are natural numbers.

## 7. What is left

1. Theorems: `Balanced` of `Divide`; the walks of `Callbacks` and `Event`,
   whose stacks of C++ frames need an invariant like that of `do_disable`.
2. Disable together with automatic contexts, in one module with `Vthread`.
3. Selects and part assignments of `vvp_vector4_t`; the sensitivity list that the compiler
   gives to `always @*`.
4. The macro table of the preprocessor.
