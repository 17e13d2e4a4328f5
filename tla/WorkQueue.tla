----------------------------- MODULE WorkQueue -----------------------------
(***************************************************************************)
(* The work queue between the simulator thread and the dumper thread of    *)
(* the LXT2 dumper: vpi/vcd_priv2.cc, with the two threads that use it,    *)
(* the $dump tasks and lxt2_thread of vpi/sys_lxt2.c.                      *)
(*                                                                         *)
(* `sim` and `work` are where the two threads are.  What a thread does     *)
(* between lock and unlock of work_queue_mutex is one step: the only       *)
(* variable the other thread reads without the mutex is work_queue_fill,   *)
(* which such a section writes once.  pthread_cond_wait releases the mutex *)
(* ("minfree", "is_empty", "notempty" of the waiting thread) and, after a  *)
(* signal or for no reason at all (Spurious), goes back to the lock.       *)
(* Loads are taken in program order, as the x86 hosts of the simulator     *)
(* keep them.                                                              *)
(*                                                                         *)
(* A message carries a serial number in place of symbol and value.         *)
(***************************************************************************)
EXTENDS Integers, Sequences

CONSTANTS WORK_QUEUE_SIZE, WORK_QUEUE_BATCH_MIN, WORK_QUEUE_BATCH_MAX,
          MaxItems,   \* bound on the messages of a run
          MaxTime     \* bound on the simulation time

SizeAssumption ==
    /\ WORK_QUEUE_SIZE \in Nat /\ WORK_QUEUE_BATCH_MAX \in Nat \ {0}
    /\ WORK_QUEUE_BATCH_MIN \in 1 .. WORK_QUEUE_SIZE - 1
    /\ MaxItems \in Nat /\ MaxItems >= 2 /\ MaxTime \in Nat

VARIABLES work_queue, work_queue_next, work_queue_fill,   \* the shared ring
          current_batch_base, current_batch_alloc, current_batch_cnt,
          work_queue_next_time,
          sim, call,       \* simulator thread: place, message being sent
          phase,           \* life of the dump file
          serial, shown,   \* messages sent, and those released to the worker
          work, cur_time,  \* work thread: place and its copy of the time
          run_flag,
          written,         \* what the worker put into the file last
          join             \* state of work_thread for pthread_join

queue == <<work_queue, work_queue_next, work_queue_fill>>
batch == <<current_batch_base, current_batch_alloc, current_batch_cnt>>
simulator == <<work_queue_next_time, sim, call, phase, serial, shown>>
worker == <<work, cur_time, run_flag, written>>
vars == <<queue, batch, simulator, worker, join>>

Kinds == {"emit", "flush", "terminate"}
Blank == [kind |-> "none", n |-> 0, time |-> 0]

Init ==
    /\ work_queue = [i \in 0 .. WORK_QUEUE_SIZE - 1 |-> Blank]
    /\ work_queue_next = 0 /\ work_queue_fill = 0
    /\ current_batch_base = 0 /\ current_batch_alloc = 0 /\ current_batch_cnt = 0
    /\ work_queue_next_time = 0
    /\ sim = "idle" /\ call = "none" /\ phase = "none"
    /\ serial = 0 /\ shown = 0
    /\ work = "none" /\ cur_time = 0 /\ run_flag = TRUE /\ written = Blank
    /\ join = "none"

(* An index that has run past the end of the ring by less than its length. *)
Wrap(i) == IF i >= WORK_QUEUE_SIZE THEN i - WORK_QUEUE_SIZE ELSE i

Signalled(place, cond) == IF place = cond THEN "lock" ELSE place

----------------------------------------------------------------------------
(* The simulator thread *)

(* The tasks and callbacks of sys_lxt2.c.  open_dumpfile starts the worker. *)
open_dumpfile ==
    /\ sim = "idle" /\ phase = "none"
    /\ phase' = "open"
    /\ work' = "peek" /\ join' = "joinable"
    /\ UNCHANGED <<queue, batch, work_queue_next_time, sim, call, serial, shown,
                   cur_time, run_flag, written>>

vcd_work_set_time ==
    /\ sim = "idle" /\ phase = "open"
    /\ work_queue_next_time < MaxTime
    /\ work_queue_next_time' = work_queue_next_time + 1
    /\ UNCHANGED <<queue, batch, sim, call, phase, serial, shown, worker, join>>

Begin(kind) ==
    /\ call' = kind
    /\ sim' = IF current_batch_alloc = 0 THEN "lock" ELSE "write"
    /\ UNCHANGED <<queue, batch, work_queue_next_time, serial, shown, worker, join>>

(* vcd_work_emit_bits, _double, _dumpon, _dumpoff ("emit") and _flush.  The
   last two messages are kept for the calls of vcd_work_terminate. *)
vcd_work_send(kind) ==
    /\ sim = "idle" /\ phase = "open"
    /\ serial < MaxItems - 2
    /\ Begin(kind)
    /\ UNCHANGED phase

(* finish_cb, the callback of the end of the simulation. *)
finish_cb ==
    /\ sim = "idle" /\ phase = "open"
    /\ phase' = "finished"
    /\ Begin("terminate")

(* close_dumpfile, at exit: after finish_cb, or without it when the program
   leaves through exit. *)
close_dumpfile ==
    /\ sim = "idle" /\ phase \in {"open", "finished"}
    /\ phase' = "closing"
    /\ Begin("terminate")

(* grab_item: the wait for room, and the batch that is taken when there is. *)
Room == WORK_QUEUE_SIZE - work_queue_fill >= WORK_QUEUE_BATCH_MIN

Alloc == IF WORK_QUEUE_SIZE - work_queue_fill > WORK_QUEUE_BATCH_MAX
         THEN WORK_QUEUE_BATCH_MAX
         ELSE WORK_QUEUE_SIZE - work_queue_fill

Base_First == Wrap(work_queue_fill)

Base == Wrap(work_queue_next + work_queue_fill)

grab_item ==
    /\ sim = "lock" /\ call # "sync"
    /\ \/ /\ ~Room
          /\ sim' = "minfree"
          /\ UNCHANGED batch
       \/ /\ Room
          /\ sim' = "write"
          /\ current_batch_base' = Base
          /\ current_batch_alloc' = Alloc
          /\ current_batch_cnt' = 0
    /\ UNCHANGED <<queue, work_queue_next_time, call, phase, serial, shown,
                   worker, join>>

(* The rest of grab_item, the message, and unlock_item up to end_batch. *)
Full == current_batch_cnt + 1 = current_batch_alloc

Flushed(kind) == kind \in {"flush", "terminate"}

Write ==
    /\ sim = "write"
    /\ LET cur == Wrap(current_batch_base + current_batch_cnt)
       IN  work_queue' = [work_queue EXCEPT ![cur] =
               [kind |-> call, n |-> serial + 1, time |-> work_queue_next_time]]
    /\ serial' = serial + 1
    /\ current_batch_cnt' = current_batch_cnt + 1
    /\ sim' = IF Full \/ Flushed(call) THEN "end_batch"
              ELSE IF call = "terminate" THEN "join" ELSE "idle"
    /\ UNCHANGED <<work_queue_next, work_queue_fill, current_batch_base,
                   current_batch_alloc, work_queue_next_time, call, phase,
                   shown, worker, join>>

(* end_batch, and where its caller goes on. *)
WakeWorker_Last == work_queue_fill = 0 /\ current_batch_cnt > 1

WakeWorker == work_queue_fill = 0 /\ current_batch_cnt > 0

end_batch ==
    /\ sim = "end_batch"
    /\ work_queue_fill' = work_queue_fill + current_batch_cnt
    /\ current_batch_alloc' = 0 /\ current_batch_cnt' = 0
    /\ work' = IF WakeWorker THEN Signalled(work, "notempty") ELSE work
    /\ shown' = serial
    /\ sim' = CASE call = "terminate" -> "join"
                [] call = "sync" -> "sync"
                [] OTHER -> "idle"
    /\ UNCHANGED <<work_queue, work_queue_next, current_batch_base,
                   work_queue_next_time, call, phase, serial, cur_time, run_flag,
                   written, join>>

(* vcd_work_sync: the open batch goes out first.  The fill is read without
   the mutex, and only with it when it is not 0. *)
vcd_work_sync ==
    /\ sim = "idle" /\ phase = "open"
    /\ call' = "sync"
    /\ sim' = IF current_batch_alloc > 0 THEN "end_batch" ELSE "sync"
    /\ UNCHANGED <<queue, batch, work_queue_next_time, phase, serial, shown,
                   worker, join>>

SyncRead ==
    /\ sim = "sync"
    /\ sim' = IF work_queue_fill > 0 THEN "lock" ELSE "idle"
    /\ UNCHANGED <<queue, batch, work_queue_next_time, call, phase, serial, shown,
                   worker, join>>

SyncWait ==
    /\ sim = "lock" /\ call = "sync"
    /\ sim' = IF work_queue_fill > 0 THEN "is_empty" ELSE "idle"
    /\ UNCHANGED <<queue, batch, work_queue_next_time, call, phase, serial, shown,
                   worker, join>>

(* pthread_join at the end of vcd_work_terminate: it waits for the end of the
   thread.  A second join of the same thread is undefined; it returns with an
   error here.  close_dumpfile then closes the file. *)
pthread_join ==
    /\ sim = "join"
    /\ work = "ended"
    /\ join' = IF join = "joinable" THEN "joined" ELSE "undefined"
    /\ sim' = "idle"
    /\ phase' = IF phase = "closing" THEN "closed" ELSE phase
    /\ UNCHANGED <<queue, batch, work_queue_next_time, call, serial, shown, worker>>

----------------------------------------------------------------------------
(* The work thread *)

(* vcd_work_thread_peek *)
Peek ==
    /\ work = "peek"
    /\ work' = IF work_queue_fill = 0 THEN "lock" ELSE "time"
    /\ UNCHANGED <<queue, batch, simulator, cur_time, run_flag, written, join>>

PeekWait ==
    /\ work = "lock"
    /\ work' = IF work_queue_fill = 0 THEN "notempty" ELSE "time"
    /\ UNCHANGED <<queue, batch, simulator, cur_time, run_flag, written, join>>

(* lxt2_thread with the cell it peeked at: first the time, then the rest. *)
Cell == work_queue[work_queue_next]

ThreadTime ==
    /\ work = "time"
    /\ cur_time' = Cell.time
    /\ work' = "type"
    /\ UNCHANGED <<queue, batch, simulator, run_flag, written, join>>

ThreadType ==
    /\ work = "type"
    /\ written' = [Cell EXCEPT !.time = cur_time]
    /\ run_flag' = (Cell.kind # "terminate")
    /\ work' = "pop"
    /\ UNCHANGED <<queue, batch, simulator, cur_time, join>>

(* vcd_work_thread_pop, and the loop of lxt2_thread. *)
WakeSimulator(place, fill) ==
    IF fill = WORK_QUEUE_SIZE - WORK_QUEUE_BATCH_MIN
    THEN Signalled(place, "minfree")
    ELSE IF fill = 0 THEN Signalled(place, "is_empty")
    ELSE place

vcd_work_thread_pop ==
    /\ work = "pop"
    /\ work_queue_fill' = work_queue_fill - 1
    /\ work_queue_next' = Wrap(work_queue_next + 1)
    /\ sim' = WakeSimulator(sim, work_queue_fill - 1)
    /\ work' = IF run_flag THEN "peek" ELSE "ended"
    /\ UNCHANGED <<work_queue, batch, work_queue_next_time, call, phase, serial,
                   shown, cur_time, run_flag, written, join>>

----------------------------------------------------------------------------
(* pthread_cond_wait may return without a signal. *)
Spurious ==
    /\ \/ sim \in {"minfree", "is_empty"} /\ sim' = "lock" /\ UNCHANGED work
       \/ work = "notempty" /\ work' = "lock" /\ UNCHANGED sim
    /\ UNCHANGED <<queue, batch, work_queue_next_time, call, phase, serial, shown,
                   cur_time, run_flag, written, join>>

SimStep == grab_item \/ Write \/ end_batch \/ SyncRead \/ SyncWait \/ pthread_join

WorkStep == Peek \/ PeekWait \/ ThreadTime \/ ThreadType \/ vcd_work_thread_pop

Calls ==
    \/ open_dumpfile
    \/ vcd_work_set_time
    \/ \E kind \in {"emit", "flush"} : vcd_work_send(kind)
    \/ vcd_work_sync
    \/ finish_cb
    \/ close_dumpfile

Next == Calls \/ SimStep \/ WorkStep \/ Spurious

(* Both threads run on; the simulator need not call anything, and a wait need
   not end without a signal. *)
Spec == Init /\ [][Next]_vars /\ WF_vars(SimStep) /\ WF_vars(WorkStep)

----------------------------------------------------------------------------
(* Properties *)

(* The type of every variable of the queue and the two threads. *)
TypeOK ==
    /\ work_queue_next \in 0 .. WORK_QUEUE_SIZE - 1
    /\ work_queue_fill \in 0 .. WORK_QUEUE_SIZE
    /\ current_batch_base \in 0 .. WORK_QUEUE_SIZE - 1
    /\ current_batch_alloc \in 0 .. WORK_QUEUE_BATCH_MAX
    /\ current_batch_cnt \in 0 .. WORK_QUEUE_BATCH_MAX
    /\ sim \in {"idle", "lock", "minfree", "is_empty", "write", "end_batch",
                "sync", "join"}
    /\ work \in {"none", "peek", "lock", "notempty", "time", "type", "pop", "ended"}
    /\ phase \in {"none", "open", "finished", "closing", "closed"}
    /\ join \in {"none", "joinable", "joined", "undefined"}

(* The ring: the open batch lies behind what the worker may see and does not
   reach around to it, and it has room unless it is about to be closed. *)
Ring ==
    /\ work_queue_fill + current_batch_alloc <= WORK_QUEUE_SIZE
    /\ current_batch_cnt <= current_batch_alloc
    /\ current_batch_alloc > 0 =>
         /\ current_batch_base = Wrap(work_queue_next + work_queue_fill)
         /\ sim # "end_batch" => current_batch_cnt < current_batch_alloc

(* The simulator thread is where the call it is in leads, and waits only
   without an open batch. *)
Place ==
    /\ call \in Kinds \cup {"none", "sync"}
    /\ sim \in {"is_empty", "sync"} => call = "sync"
    /\ sim \in {"minfree", "write", "join"} => call \in Kinds
    /\ sim \in {"lock", "end_batch"} => call \in Kinds \cup {"sync"}
    /\ sim \in {"lock", "minfree", "is_empty", "sync"} => current_batch_alloc = 0
    /\ sim = "write" => current_batch_alloc > 0

(* The worker holds the message it peeked at until it has popped it, and ends
   with the message that tells it to. *)
Message == [kind : Kinds \cup {"none"}, n : Nat, time : Nat]
Held ==
    /\ work_queue \in [0 .. WORK_QUEUE_SIZE - 1 -> Message]
    /\ written \in Message /\ cur_time \in Nat /\ run_flag \in BOOLEAN
    /\ work \in {"time", "type", "pop"} => work_queue_fill > 0
    /\ work = "type" => cur_time = Cell.time
    /\ run_flag <=> written.kind # "terminate"
    /\ work = "ended" => ~run_flag

(* The messages still to be sent fit the bound. *)
Reserve == IF phase \in {"none", "open"} THEN 2 ELSE IF phase = "finished" THEN 1 ELSE 0
Sending == sim = "write" \/ (sim \in {"lock", "minfree"} /\ call # "sync")
Sent ==
    /\ serial \in Nat /\ work_queue_next_time \in 0 .. MaxTime
    /\ serial + Reserve + (IF Sending THEN 1 ELSE 0) <= MaxItems

(* The end of the dump: from finish_cb on the simulator thread leaves a call
   only with the worker gone. *)
Life ==
    /\ phase = "none" => sim = "idle" /\ work = "none"
    /\ phase \in {"finished", "closing"} /\ sim # "idle" => call = "terminate"
    /\ phase = "finished" /\ sim = "idle" => work = "ended"
    /\ phase = "closing" => sim # "idle"
    /\ phase = "closed" => work = "ended" /\ sim = "idle"

(* Together the inductive invariant of the queue and its two threads. *)
Inv == TypeOK /\ Ring /\ Place /\ Held /\ Sent /\ Life

(* The messages that were sent and not yet carried out: those the worker may
   see, less the one it is done with, and those of the open batch. *)
First == work_queue_next + IF work = "pop" THEN 1 ELSE 0

Count == work_queue_next + work_queue_fill + current_batch_cnt - First

Pending == [i \in 1 .. Count |-> work_queue[Wrap(First + i - 1)]]

Mail == INSTANCE Mailbox
    WITH Messages <- [kind : Kinds, n : 1 .. MaxItems, time : 0 .. MaxTime],
         None <- Blank, pending <- Pending, written <- written

(* grab_item's assertion: an open batch has room for one message more. *)
BatchHasRoom ==
    sim = "write" =>
        /\ current_batch_cnt < current_batch_alloc
        /\ work_queue_fill + current_batch_alloc <= WORK_QUEUE_SIZE

(* When vcd_work_sync returns the worker has carried out all that was sent. *)
DrainsStep ==
    call = "sync" /\ sim \in {"sync", "lock"} /\ sim' = "idle" => Pending = <<>>

(* Every message is in the file when the file is closed, and the worker is
   gone by then. *)
ClosedWhole ==
    /\ phase \in {"finished", "closed"} /\ sim = "idle" => written.kind = "terminate"
    /\ phase = "closed" => work = "ended"

(* The work thread is joined once (vcd_priv.h: "terminate the work thread
   (gracefully)"). *)
JoinedOnce == join # "undefined"
============================================================================
