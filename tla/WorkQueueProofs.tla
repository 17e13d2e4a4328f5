-------------------------- MODULE WorkQueueProofs --------------------------
(***************************************************************************)
(* The work queue of the LXT2 dumper implements Mailbox, for every ring    *)
(* that is longer than WORK_QUEUE_BATCH_MIN, every size of batch and every *)
(* bound on the messages and the time (SizeAssumption).                    *)
(*                                                                         *)
(* The invariant Inv first, one lemma per action; then what a step does to *)
(* the messages that were sent and not carried out.                        *)
(***************************************************************************)
EXTENDS WorkQueue, TLAPS

USE DEF queue, batch, simulator, worker, vars

(* The empty ring and the two threads before the dump file is opened. *)
LEMMA InvInit ==
  ASSUME SizeAssumption, Init
  PROVE  Inv
  BY DEF SizeAssumption, Init, Inv, TypeOK, Ring, Place, Held, Sent, Life,
     Message, Kinds, Blank, Reserve, Sending

(* open_dumpfile starts the worker. *)
LEMMA Inv_open_dumpfile ==
  ASSUME SizeAssumption, Inv, open_dumpfile
  PROVE  Inv'
<1>1. TypeOK'
  BY DEF Inv, TypeOK, open_dumpfile
<1>2. Ring'
  BY DEF Inv, Ring, Place, open_dumpfile
<1>3. Place'
  BY DEF Inv, Place, Ring, open_dumpfile
<1>4. Held'
  BY DEF Inv, Held, open_dumpfile, Cell
<1>5. Sent'
  BY DEF Inv, Sent, Place, Life, Reserve, Sending, open_dumpfile
<1>6. Life'
  BY DEF Inv, Life, Place, Held, open_dumpfile
<1> QED BY <1>1, <1>2, <1>3, <1>4, <1>5, <1>6 DEF Inv

(* vcd_work_set_time moves the time of the messages to come. *)
LEMMA Inv_vcd_work_set_time ==
  ASSUME SizeAssumption, Inv, vcd_work_set_time
  PROVE  Inv'
<1>1. TypeOK'
  BY DEF Inv, TypeOK, vcd_work_set_time
<1>2. Ring'
  BY DEF Inv, Ring, Place, vcd_work_set_time
<1>3. Place'
  BY DEF Inv, Place, Ring, vcd_work_set_time
<1>4. Held'
  BY DEF Inv, Held, vcd_work_set_time, Cell
<1>5. Sent'
  BY DEF Inv, SizeAssumption, Sent, Place, Life, Reserve, Sending,
     vcd_work_set_time
<1>6. Life'
  BY DEF Inv, Life, Place, vcd_work_set_time
<1> QED BY <1>1, <1>2, <1>3, <1>4, <1>5, <1>6 DEF Inv

(* A value, dumpon, dumpoff or flush message goes to the open batch or waits
   for one. *)
LEMMA Inv_send ==
  ASSUME SizeAssumption, Inv, NEW kind \in {"emit", "flush"}, vcd_work_send(kind)
  PROVE  Inv'
<1>1. TypeOK'
  BY DEF Inv, TypeOK, vcd_work_send, Begin
<1>2. Ring'
  BY DEF Inv, Ring, Place, vcd_work_send, Begin
<1>3. Place'
  BY DEF Inv, TypeOK, Place, Kinds, vcd_work_send, Begin
<1>4. Held'
  BY DEF Inv, Held, vcd_work_send, Begin, Cell
<1>5. Sent'
  BY DEF Inv, SizeAssumption, Sent, Place, Life, Reserve, Sending,
     vcd_work_send, Begin
<1>6. Life'
  BY DEF Inv, Life, Place, vcd_work_send, Begin
<1> QED BY <1>1, <1>2, <1>3, <1>4, <1>5, <1>6 DEF Inv

(* vcd_work_sync goes to end_batch when a batch is open. *)
LEMMA Inv_vcd_work_sync ==
  ASSUME SizeAssumption, Inv, vcd_work_sync
  PROVE  Inv'
<1>1. TypeOK'
  BY DEF Inv, TypeOK, vcd_work_sync
<1>2. Ring'
  BY DEF Inv, Ring, Place, vcd_work_sync
<1>3. Place'
  BY DEF Inv, TypeOK, Place, Kinds, vcd_work_sync
<1>4. Held'
  BY DEF Inv, Held, vcd_work_sync, Cell
<1>5. Sent'
  BY DEF Inv, Sent, Place, Life, Reserve, Sending, vcd_work_sync
<1>6. Life'
  BY DEF Inv, Life, Place, vcd_work_sync
<1> QED BY <1>1, <1>2, <1>3, <1>4, <1>5, <1>6 DEF Inv

(* finish_cb sends the first terminate. *)
LEMMA Inv_finish_cb ==
  ASSUME SizeAssumption, Inv, finish_cb
  PROVE  Inv'
<1>1. TypeOK'
  BY DEF Inv, TypeOK, finish_cb, Begin
<1>2. Ring'
  BY DEF Inv, Ring, Place, finish_cb, Begin
<1>3. Place'
  BY DEF Inv, TypeOK, Place, Kinds, finish_cb, Begin
<1>4. Held'
  BY DEF Inv, Held, finish_cb, Begin, Cell
<1>5. Sent'
  BY DEF Inv, SizeAssumption, Sent, Place, Life, Reserve, Sending, finish_cb,
     Begin
<1>6. Life'
  BY DEF Inv, Life, Place, finish_cb, Begin
<1> QED BY <1>1, <1>2, <1>3, <1>4, <1>5, <1>6 DEF Inv

(* close_dumpfile sends the last terminate. *)
LEMMA Inv_close_dumpfile ==
  ASSUME SizeAssumption, Inv, close_dumpfile
  PROVE  Inv'
<1>1. TypeOK'
  BY DEF Inv, TypeOK, close_dumpfile, Begin
<1>2. Ring'
  BY DEF Inv, Ring, Place, close_dumpfile, Begin
<1>3. Place'
  BY DEF Inv, TypeOK, Place, Kinds, close_dumpfile, Begin
<1>4. Held'
  BY DEF Inv, Held, close_dumpfile, Begin, Cell
<1>5. Sent'
  BY DEF Inv, SizeAssumption, Sent, Place, Life, Reserve, Sending,
     close_dumpfile, Begin
<1>6. Life'
  BY DEF Inv, Life, Place, close_dumpfile, Begin
<1> QED BY <1>1, <1>2, <1>3, <1>4, <1>5, <1>6 DEF Inv

(* grab_item takes the room behind what the worker may see. *)
LEMMA Inv_grab_item ==
  ASSUME SizeAssumption, Inv, grab_item
  PROVE  Inv'
<1>1. TypeOK'
  BY DEF Inv, SizeAssumption, TypeOK, Ring, Place, grab_item, Room, Alloc,
     Base, Wrap
<1>2. Ring'
  BY DEF Inv, SizeAssumption, TypeOK, Ring, Place, Wrap, grab_item, Room,
     Alloc, Base
<1>3. Place'
  BY DEF Inv, SizeAssumption, TypeOK, Ring, Place, Kinds, grab_item, Room,
     Alloc, Base, Wrap
<1>4. Held'
  BY DEF Inv, TypeOK, Held, Ring, grab_item, Room, Alloc, Base, Wrap, Cell
<1>5. Sent'
  BY DEF Inv, SizeAssumption, Sent, Life, Place, TypeOK, Reserve, Sending,
     grab_item, Room, Alloc, Base, Wrap
<1>6. Life'
  BY DEF Inv, Life, Place, Held, TypeOK, Kinds, grab_item, Room, Alloc, Base,
     Wrap
<1> QED BY <1>1, <1>2, <1>3, <1>4, <1>5, <1>6 DEF Inv

(* The message goes to a cell of the open batch, never the one the worker
   reads. *)
LEMMA Inv_Write ==
  ASSUME SizeAssumption, Inv, Write
  PROVE  Inv'
<1>1. TypeOK'
  BY DEF Inv, SizeAssumption, TypeOK, Ring, Place, Write, Full, Flushed, Wrap
<1>2. Ring'
  BY DEF Inv, SizeAssumption, TypeOK, Ring, Place, Wrap, Write, Full, Flushed
<1>3. Place'
  BY DEF Inv, SizeAssumption, TypeOK, Ring, Place, Kinds, Write, Full,
     Flushed, Wrap
<1>4. Held'
  <2> DEFINE cur == Wrap(current_batch_base + current_batch_cnt)
             m == [kind |-> call, n |-> serial + 1, time |-> work_queue_next_time]
  <2>1. m \in Message
    BY DEF Inv, Place, Sent, Kinds, Message, Write
  <2>2. /\ cur \in 0 .. WORK_QUEUE_SIZE - 1
        /\ work_queue_fill > 0 => cur # work_queue_next
    BY DEF SizeAssumption, Inv, TypeOK, Ring, Place, Wrap, Write
  <2>3. /\ work_queue' = [work_queue EXCEPT ![cur] = m]
        /\ UNCHANGED <<work_queue_next, work_queue_fill, worker>>
    BY DEF Write
  <2> HIDE DEF cur, m
  <2> QED BY <2>1, <2>2, <2>3 DEF Inv, Held, TypeOK, Cell
<1>5. Sent'
  BY DEF Inv, SizeAssumption, Sent, Life, Place, TypeOK, Reserve, Sending,
     Write, Full, Flushed, Wrap
<1>6. Life'
  BY DEF Inv, Life, Place, Held, TypeOK, Kinds, Write, Full, Flushed, Wrap
<1> QED BY <1>1, <1>2, <1>3, <1>4, <1>5, <1>6 DEF Inv

(* end_batch hands the batch to the worker. *)
LEMMA Inv_end_batch ==
  ASSUME SizeAssumption, Inv, end_batch
  PROVE  Inv'
<1>1. TypeOK'
  BY DEF Inv, SizeAssumption, TypeOK, Ring, Place, end_batch, Wrap,
     WakeWorker, Signalled
<1>2. Ring'
  BY DEF Inv, SizeAssumption, TypeOK, Ring, Place, Wrap, end_batch,
     WakeWorker, Signalled
<1>3. Place'
  BY DEF Inv, SizeAssumption, TypeOK, Ring, Place, Kinds, end_batch, Wrap,
     WakeWorker, Signalled
<1>4. Held'
  BY DEF Inv, TypeOK, Held, Ring, end_batch, Wrap, WakeWorker, Signalled, Cell
<1>5. Sent'
  BY DEF Inv, SizeAssumption, Sent, Life, Place, TypeOK, Reserve, Sending,
     end_batch, Wrap, WakeWorker, Signalled
<1>6. Life'
  BY DEF Inv, Life, Place, Held, TypeOK, Kinds, end_batch, Wrap, WakeWorker,
     Signalled
<1> QED BY <1>1, <1>2, <1>3, <1>4, <1>5, <1>6 DEF Inv

(* vcd_work_sync looks at the fill without the mutex. *)
LEMMA Inv_SyncRead ==
  ASSUME SizeAssumption, Inv, SyncRead
  PROVE  Inv'
<1>1. TypeOK'
  BY DEF Inv, TypeOK, SyncRead
<1>2. Ring'
  BY DEF Inv, Ring, Place, SyncRead
<1>3. Place'
  BY DEF Inv, Place, Ring, SyncRead
<1>4. Held'
  BY DEF Inv, Held, SyncRead, Cell
<1>5. Sent'
  BY DEF Inv, Sent, Place, Life, Reserve, Sending, SyncRead
<1>6. Life'
  BY DEF Inv, Life, Place, SyncRead
<1> QED BY <1>1, <1>2, <1>3, <1>4, <1>5, <1>6 DEF Inv

(* vcd_work_sync looks again with it. *)
LEMMA Inv_SyncWait ==
  ASSUME SizeAssumption, Inv, SyncWait
  PROVE  Inv'
<1>1. TypeOK'
  BY DEF Inv, TypeOK, SyncWait
<1>2. Ring'
  BY DEF Inv, Ring, Place, SyncWait
<1>3. Place'
  BY DEF Inv, Place, Ring, SyncWait
<1>4. Held'
  BY DEF Inv, Held, SyncWait, Cell
<1>5. Sent'
  BY DEF Inv, Sent, Place, Life, Reserve, Sending, SyncWait
<1>6. Life'
  BY DEF Inv, Life, Place, SyncWait
<1> QED BY <1>1, <1>2, <1>3, <1>4, <1>5, <1>6 DEF Inv

(* pthread_join returns with the worker gone. *)
LEMMA Inv_pthread_join ==
  ASSUME SizeAssumption, Inv, pthread_join
  PROVE  Inv'
<1>1. TypeOK'
  BY DEF Inv, TypeOK, pthread_join
<1>2. Ring'
  BY DEF Inv, Ring, Place, pthread_join
<1>3. Place'
  BY DEF Inv, Place, Ring, pthread_join
<1>4. Held'
  BY DEF Inv, Held, pthread_join, Cell
<1>5. Sent'
  BY DEF Inv, SizeAssumption, Sent, Place, Life, Reserve, Sending,
     pthread_join
<1>6. Life'
  BY DEF Inv, Life, Place, Held, pthread_join
<1> QED BY <1>1, <1>2, <1>3, <1>4, <1>5, <1>6 DEF Inv

(* vcd_work_thread_peek looks at the fill without the mutex. *)
LEMMA Inv_Peek ==
  ASSUME SizeAssumption, Inv, Peek
  PROVE  Inv'
<1>1. TypeOK'
  BY DEF Inv, TypeOK, Peek
<1>2. Ring'
  BY DEF Inv, Ring, Place, Peek
<1>3. Place'
  BY DEF Inv, Place, Ring, Peek
<1>4. Held'
  BY DEF Inv, TypeOK, Held, Peek, Cell
<1>5. Sent'
  BY DEF Inv, Sent, Place, Life, Reserve, Sending, Peek
<1>6. Life'
  BY DEF Inv, Life, Place, Peek
<1> QED BY <1>1, <1>2, <1>3, <1>4, <1>5, <1>6 DEF Inv

(* vcd_work_thread_peek looks again with it. *)
LEMMA Inv_PeekWait ==
  ASSUME SizeAssumption, Inv, PeekWait
  PROVE  Inv'
<1>1. TypeOK'
  BY DEF Inv, TypeOK, PeekWait
<1>2. Ring'
  BY DEF Inv, Ring, Place, PeekWait
<1>3. Place'
  BY DEF Inv, Place, Ring, PeekWait
<1>4. Held'
  BY DEF Inv, TypeOK, Held, PeekWait, Cell
<1>5. Sent'
  BY DEF Inv, Sent, Place, Life, Reserve, Sending, PeekWait
<1>6. Life'
  BY DEF Inv, Life, Place, PeekWait
<1> QED BY <1>1, <1>2, <1>3, <1>4, <1>5, <1>6 DEF Inv

(* lxt2_thread takes the time of the cell. *)
LEMMA Inv_ThreadTime ==
  ASSUME SizeAssumption, Inv, ThreadTime
  PROVE  Inv'
<1>1. TypeOK'
  BY DEF Inv, TypeOK, ThreadTime
<1>2. Ring'
  BY DEF Inv, Ring, Place, ThreadTime
<1>3. Place'
  BY DEF Inv, Place, Ring, ThreadTime
<1>4. Held'
  BY DEF Inv, TypeOK, Held, ThreadTime, Cell, Message
<1>5. Sent'
  BY DEF Inv, Sent, Place, Life, Reserve, Sending, ThreadTime
<1>6. Life'
  BY DEF Inv, Life, Place, ThreadTime
<1> QED BY <1>1, <1>2, <1>3, <1>4, <1>5, <1>6 DEF Inv

(* lxt2_thread carries the cell out. *)
LEMMA Inv_ThreadType ==
  ASSUME SizeAssumption, Inv, ThreadType
  PROVE  Inv'
<1>1. TypeOK'
  BY DEF Inv, TypeOK, ThreadType
<1>2. Ring'
  BY DEF Inv, Ring, Place, ThreadType
<1>3. Place'
  BY DEF Inv, Place, Ring, ThreadType
<1>4. Held'
  BY DEF Inv, TypeOK, Held, ThreadType, Cell, Message
<1>5. Sent'
  BY DEF Inv, Sent, Place, Life, Reserve, Sending, ThreadType
<1>6. Life'
  BY DEF Inv, Life, Place, ThreadType
<1> QED BY <1>1, <1>2, <1>3, <1>4, <1>5, <1>6 DEF Inv

(* vcd_work_thread_pop gives the cell back and may wake the simulator
   thread. *)
LEMMA Inv_vcd_work_thread_pop ==
  ASSUME SizeAssumption, Inv, vcd_work_thread_pop
  PROVE  Inv'
<1>1. TypeOK'
  BY DEF Inv, SizeAssumption, TypeOK, Ring, Place, vcd_work_thread_pop, Held,
     Wrap, WakeSimulator, Signalled
<1>2. Ring'
  BY DEF Inv, SizeAssumption, TypeOK, Ring, Place, Wrap, vcd_work_thread_pop,
     Held, WakeSimulator, Signalled
<1>3. Place'
  BY DEF Inv, SizeAssumption, TypeOK, Ring, Place, Kinds, vcd_work_thread_pop,
     Held, Wrap, WakeSimulator, Signalled
<1>4. Held'
  BY DEF Inv, TypeOK, Held, Ring, vcd_work_thread_pop, Wrap, WakeSimulator,
     Signalled, Cell
<1>5. Sent'
  BY DEF Inv, SizeAssumption, Sent, Life, Place, TypeOK, Reserve, Sending,
     vcd_work_thread_pop, Held, Wrap, WakeSimulator, Signalled
<1>6. Life'
  BY DEF Inv, Life, Place, Held, TypeOK, Kinds, vcd_work_thread_pop, Wrap,
     WakeSimulator, Signalled
<1> QED BY <1>1, <1>2, <1>3, <1>4, <1>5, <1>6 DEF Inv

(* A wait that ends without a signal. *)
LEMMA Inv_Spurious ==
  ASSUME SizeAssumption, Inv, Spurious
  PROVE  Inv'
<1>1. TypeOK'
  BY DEF Inv, TypeOK, Spurious
<1>2. Ring'
  BY DEF Inv, Ring, Place, Spurious
<1>3. Place'
  BY DEF Inv, Place, Ring, Spurious
<1>4. Held'
  BY DEF Inv, Held, Spurious, Cell
<1>5. Sent'
  BY DEF Inv, Sent, Place, Reserve, Sending, Spurious
<1>6. Life'
  BY DEF Inv, Life, Place, Spurious
<1> QED BY <1>1, <1>2, <1>3, <1>4, <1>5, <1>6 DEF Inv

(* Every step of either thread keeps the invariant. *)
LEMMA InvNext ==
  ASSUME SizeAssumption, Inv, [Next]_vars
  PROVE  Inv'
<1>1. CASE Calls
  <2>1. ASSUME NEW kind \in {"emit", "flush"}, vcd_work_send(kind) PROVE Inv'
    BY <2>1, Inv_send
  <2> QED BY <1>1, <2>1, Inv_open_dumpfile, Inv_vcd_work_set_time, Inv_vcd_work_sync,
             Inv_finish_cb, Inv_close_dumpfile DEF Calls
<1>2. CASE SimStep
  BY <1>2, Inv_grab_item, Inv_Write, Inv_end_batch, Inv_SyncRead,
     Inv_SyncWait,
     Inv_pthread_join DEF SimStep
<1>3. CASE WorkStep
  BY <1>3, Inv_Peek, Inv_PeekWait, Inv_ThreadTime, Inv_ThreadType,
     Inv_vcd_work_thread_pop DEF WorkStep
<1>4. CASE Spurious
  BY <1>4, Inv_Spurious
<1>5. CASE UNCHANGED vars
  BY <1>5 DEF Inv, TypeOK, Ring, Place, Held, Sent, Life, Cell, Reserve,
     Sending
<1> QED BY <1>1, <1>2, <1>3, <1>4, <1>5 DEF Next

(* The ring, the places of the two threads and the messages they hold stay
   as Inv says, for every size of ring and batch. *)
THEOREM QueueInvariant ==
  ASSUME SizeAssumption
  PROVE  Spec => []Inv
<1>1. Init => Inv
  BY InvInit
<1>2. Inv /\ [Next]_vars => Inv'
  BY InvNext
<1> QED BY <1>1, <1>2, PTL DEF Spec

(* The write of a message appends it to the messages not carried out. *)
LEMMA Sends ==
  ASSUME SizeAssumption, Inv, Write
  PROVE  \E m \in [kind : Kinds, n : 1 .. MaxItems, time : 0 .. MaxTime] : Mail!Send(m)
<1> DEFINE m == [kind |-> call, n |-> serial + 1, time |-> work_queue_next_time]
           cur == Wrap(current_batch_base + current_batch_cnt)
           P == Pending
           Q == Pending'
<1>1. m \in [kind : Kinds, n : 1 .. MaxItems, time : 0 .. MaxTime]
  BY DEF SizeAssumption, Inv, TypeOK, Place, Sent, Reserve, Sending, Write,
     Kinds
<1>2. /\ work_queue' = [work_queue EXCEPT ![cur] = m]
      /\ First' = First
      /\ Count' = Count + 1
      /\ UNCHANGED written
  BY DEF SizeAssumption, Inv, TypeOK, Ring, Held, Write, First, Count
<1>3. /\ Count \in Nat /\ First \in Nat
      /\ cur = Wrap(First + Count)
      /\ cur \in 0 .. WORK_QUEUE_SIZE - 1
      /\ \A i \in 1 .. Count : /\ Wrap(First + i - 1) \in 0 .. WORK_QUEUE_SIZE - 1
                               /\ Wrap(First + i - 1) # cur
  BY DEF SizeAssumption, Inv, TypeOK, Ring, Held, Place, Write, First, Count,
     Wrap
<1>4. work_queue' = [work_queue EXCEPT ![cur] = m]
  BY <1>2
<1>5. DOMAIN work_queue = 0 .. WORK_QUEUE_SIZE - 1
  BY DEF Inv, Held
<1> HIDE DEF m, cur
<1>6. P = [i \in 1 .. Count |-> work_queue[Wrap(First + i - 1)]]
  BY DEF Pending
<1>7. Q = [i \in 1 .. Count + 1 |-> work_queue'[Wrap(First + i - 1)]]
  BY <1>2 DEF Pending, Wrap
<1>8. Q = Append(P, m)
  <2>1. Append(P, m) = [i \in 1 .. Count + 1 |-> IF i <= Count THEN P[i] ELSE m]
    BY <1>3, <1>6
  <2>2. ASSUME NEW i \in 1 .. Count + 1
        PROVE  work_queue'[Wrap(First + i - 1)] = IF i <= Count THEN P[i] ELSE m
    <3>1. CASE i <= Count
      BY <3>1, <1>3, <1>4, <1>5, <1>6
    <3>2. CASE i = Count + 1
      <4>1. First + i - 1 = First + Count
        BY <3>2, <1>3
      <4> QED BY <4>1, <3>2, <1>3, <1>4, <1>5
    <3> QED BY <3>1, <3>2, <1>3
  <2> HIDE DEF P, Q
  <2> QED BY <2>1, <2>2, <1>7
<1> QED BY <1>1, <1>2, <1>8 DEF Mail!Send

(* lxt2_thread carries out the first of them, at the time it was sent with.
   *)
LEMMA CarriesOut ==
  ASSUME SizeAssumption, Inv, ThreadType
  PROVE  Mail!CarryOut
<1> DEFINE P == Pending
           Q == Pending'
<1>1. /\ Count \in Nat \ {0} /\ Count' = Count - 1
      /\ First = work_queue_next /\ First' = First + 1 /\ First \in 0 .. WORK_QUEUE_SIZE - 1
      /\ UNCHANGED work_queue
  <2>1. /\ work = "type" /\ work' = "pop"
        /\ UNCHANGED <<work_queue, work_queue_next, work_queue_fill, current_batch_cnt>>
        /\ work_queue_next \in 0 .. WORK_QUEUE_SIZE - 1
        /\ work_queue_fill \in Nat /\ work_queue_fill > 0 /\ current_batch_cnt \in Nat
    BY DEF SizeAssumption, Inv, TypeOK, Held, ThreadType
  <2> QED BY <2>1 DEF SizeAssumption, First, Count
<1>2. P = [i \in 1 .. Count |-> work_queue[Wrap(First + i - 1)]]
  BY DEF Pending
<1>3. Q = [i \in 1 .. Count - 1 |-> work_queue[Wrap(First + 1 + i - 1)]]
  BY <1>1 DEF Pending, Wrap
<1>4. written' = P[1]
  <2>1. Wrap(First + 1 - 1) = work_queue_next
    BY <1>1 DEF Wrap, SizeAssumption
  <2>2. P[1] = Cell
    BY <1>1, <1>2, <2>1 DEF Cell
  <2>3. Cell \in Message
    BY DEF Inv, TypeOK, Held, Cell
  <2>4. written' = [Cell EXCEPT !.time = Cell.time]
    BY DEF Inv, Held, ThreadType
  <2> QED BY <2>2, <2>3, <2>4 DEF Message
<1> HIDE DEF P, Q
<1>5. P # <<>> /\ Head(P) = P[1]
  BY <1>1, <1>2
<1>6. Tail(P) = [i \in 1 .. Count - 1 |-> P[i + 1]]
  BY <1>1, <1>2
<1>7. ASSUME NEW i \in 1 .. Count - 1
      PROVE  work_queue[Wrap(First + 1 + i - 1)] = P[i + 1]
  <2>1. First + 1 + i - 1 = First + (i + 1) - 1 /\ i + 1 \in 1 .. Count
    BY <1>1
  <2> QED BY <2>1, <1>2
<1>8. Q = Tail(P)
  BY <1>3, <1>6, <1>7
<1> QED BY <1>4, <1>5, <1>8 DEF Mail!CarryOut, P, Q
(* vcd_work_thread_pop, also at the end of the ring, leaves the messages not
   carried out as they are. *)
LEMMA Pops ==
  ASSUME SizeAssumption, Inv, vcd_work_thread_pop
  PROVE  UNCHANGED <<Pending, written>>
<1>1. /\ work = "pop" /\ work' # "pop"
      /\ work_queue_next' = Wrap(work_queue_next + 1)
      /\ work_queue_fill' = work_queue_fill - 1
      /\ UNCHANGED <<work_queue, current_batch_cnt, written>>
  BY DEF vcd_work_thread_pop
<1>2. /\ work_queue_next \in 0 .. WORK_QUEUE_SIZE - 1
      /\ work_queue_fill \in 1 .. WORK_QUEUE_SIZE /\ current_batch_cnt \in Nat
      /\ work_queue_fill + current_batch_cnt <= WORK_QUEUE_SIZE
      /\ WORK_QUEUE_SIZE \in Nat
  BY <1>1 DEF SizeAssumption, Inv, TypeOK, Ring, Held
<1>3. /\ First = work_queue_next + 1 /\ First' = Wrap(First)
      /\ First \in 1 .. WORK_QUEUE_SIZE
      /\ Count' = Count /\ Count \in Nat /\ Count < WORK_QUEUE_SIZE
  BY <1>1, <1>2 DEF First, Count, Wrap
<1>4. \A i \in 1 .. Count : Wrap(Wrap(First) + i - 1) = Wrap(First + i - 1)
  BY <1>2, <1>3 DEF Wrap
<1>5. Pending' = [i \in 1 .. Count |-> work_queue[Wrap(Wrap(First) + i - 1)]]
  BY <1>1, <1>3 DEF Pending, Wrap
<1> QED BY <1>1, <1>4, <1>5 DEF Pending

(* The messages not carried out depend on the ring, the batch and whether
   the worker is about to pop. *)
LEMMA Unmoved ==
  ASSUME UNCHANGED <<work_queue, work_queue_next, work_queue_fill, current_batch_cnt>>,
         work = "pop" <=> work' = "pop"
  PROVE  UNCHANGED Pending
  BY DEF Pending, First, Count, Wrap

(* Opening and closing a batch moves messages between batch and ring, and
   none is lost. *)
LEMMA Batches ==
  ASSUME SizeAssumption, Inv, grab_item \/ end_batch
  PROVE  UNCHANGED <<Pending, written>>
<1>1. UNCHANGED <<work_queue, work_queue_next, written>> /\ (work = "pop" <=> work' = "pop")
  BY DEF grab_item, end_batch, Signalled
<1>2. /\ work_queue_next \in Nat /\ work_queue_fill \in Nat /\ current_batch_cnt \in Nat
      /\ work_queue_fill' + current_batch_cnt' = work_queue_fill + current_batch_cnt
      /\ work_queue_fill' \in Nat /\ current_batch_cnt' \in Nat
  BY DEF SizeAssumption, Inv, TypeOK, Ring, Place, grab_item, end_batch
<1>3. First' = First /\ First \in Nat
  BY <1>1, <1>2 DEF First
<1>4. Count' = Count
  <2>1. Count = work_queue_next + (work_queue_fill + current_batch_cnt) - First
    BY <1>2, <1>3 DEF Count
  <2>2. Count' = work_queue_next' + (work_queue_fill' + current_batch_cnt') - First'
    BY <1>1, <1>2, <1>3 DEF Count
  <2> QED BY <1>1, <1>2, <1>3, <2>1, <2>2
<1> QED BY <1>1, <1>3, <1>4 DEF Pending, Wrap

(* Only Write and ThreadType change what is sent and what is carried out. *)
LEMMA Others ==
  ASSUME SizeAssumption, Inv, [Next]_vars, ~Write, ~ThreadType
  PROVE  UNCHANGED <<Pending, written>>
<1>1. CASE Calls
  BY <1>1, Unmoved DEF Calls, open_dumpfile, vcd_work_set_time, vcd_work_send,
     Begin,
     vcd_work_sync, finish_cb, close_dumpfile, Inv, Life
<1>2. CASE grab_item \/ end_batch
  BY <1>2, Batches
<1>3. CASE SyncRead \/ SyncWait \/ pthread_join
  BY <1>3, Unmoved DEF SyncRead, SyncWait, pthread_join
<1>4. CASE Peek \/ PeekWait \/ ThreadTime
  BY <1>4, Unmoved DEF Peek, PeekWait, ThreadTime
<1>5. CASE vcd_work_thread_pop
  BY <1>5, Pops
<1>6. CASE Spurious
  BY <1>6, Unmoved DEF Spurious
<1>7. CASE UNCHANGED vars
  BY <1>7, Unmoved
<1> QED BY <1>1, <1>2, <1>3, <1>4, <1>5, <1>6, <1>7 DEF Next, SimStep, WorkStep

(* The work queue implements Mailbox: the messages of the $dump tasks reach
   the file once each, in order and with the time they were sent with,
   however the two threads interleave and wherever the ring wraps. *)
THEOREM QueueIsMailbox ==
  ASSUME SizeAssumption
  PROVE  Spec => Mail!Spec
<1>1. Init => Mail!Init
  BY DEF SizeAssumption, Init, Mail!Init, Pending, First, Count
<1>2. Inv /\ [Next]_vars => [Mail!Next]_(Mail!vars)
  BY Sends, CarriesOut, Others DEF Mail!Next, Mail!vars
<1> QED BY <1>1, <1>2, QueueInvariant, PTL DEF Spec, Mail!Spec

(* grab_item's assertion holds, and when finish_cb or close_dumpfile returns
   the worker has carried out the terminate message. *)
THEOREM RoomAndEnd ==
  ASSUME SizeAssumption
  PROVE  Spec => [](BatchHasRoom /\ ClosedWhole)
<1>1. Inv => BatchHasRoom /\ ClosedWhole
  BY DEF Inv, TypeOK, Ring, Place, Held, Life, BatchHasRoom, ClosedWhole
<1> QED BY <1>1, QueueInvariant, PTL

(* vcd_work_sync returns only when all that was sent has been carried out.
   *)
THEOREM SyncDrains ==
  ASSUME SizeAssumption
  PROVE  Spec => [][DrainsStep]_vars
<1>1. ASSUME Inv, [Next]_vars, call = "sync", sim \in {"sync", "lock"}, sim' = "idle"
      PROVE  Pending = <<>>
  <2>1. work_queue_fill = 0
    BY <1>1 DEF Next, Calls, SimStep, WorkStep, Inv, TypeOK, Place,
       open_dumpfile, vcd_work_set_time, vcd_work_send, Begin, vcd_work_sync, finish_cb,
       close_dumpfile, grab_item, Write, end_batch, SyncRead, SyncWait, pthread_join,
       Peek, PeekWait, ThreadTime, ThreadType, vcd_work_thread_pop, WakeSimulator,
       Signalled, Spurious
  <2>2. /\ current_batch_cnt = 0 /\ work # "pop" /\ work_queue_next \in Nat
    BY <1>1, <2>1 DEF SizeAssumption, Inv, TypeOK, Ring, Place, Held
  <2>3. Count = 0
    BY <2>1, <2>2 DEF Count, First
  <2> QED BY <2>3 DEF Pending
<1>2. Inv /\ [Next]_vars => DrainsStep
  BY <1>1 DEF DrainsStep
<1> QED BY <1>2, QueueInvariant, PTL DEF Spec
============================================================================
