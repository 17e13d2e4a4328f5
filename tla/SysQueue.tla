------------------------------ MODULE SysQueue ------------------------------
(***************************************************************************)
(* The abstract queues of the VPI library ($q_initialize, $q_add,          *)
(* $q_remove, $q_full, $q_exam): a vector of queue records, each with a    *)
(* circular buffer and the counters from which $q_exam computes its        *)
(* statistics.                                                             *)
(*                                                                         *)
(* A 32 bit word of the code has WordBits bits here and a 64 bit time has  *)
(* twice as many; waiting times are added up in a pair of times, high and  *)
(* low.  X is a value with an X or Z bit.  An allocation does not fail:    *)
(* malloc and realloc of ivl_alloc.h end the process instead, so that      *)
(* create_queue never returns 1.                                           *)
(***************************************************************************)
EXTENDS Integers, Sequences, FiniteSets, SequencesExt, FiniteSetsExt, SequenceTheorems,
        TLAPS

CONSTANTS Ids, Jobs, Kinds, Lengths, X,
          WordBits,     \* bits of a VPI word
          Scale,        \* simulation ticks per unit of the calling module
          Sizes,        \* sizes of the variables given to $q_exam
          Codes,        \* statistics that are asked for
          Steps,        \* bound: how far time may advance at once
          MaxTime,      \* bound: last simulation time
          MaxAdds       \* bound: items ever added to a queue

TimeMax == 2 ^ (2 * WordBits)      \* UINT64_MAX + 1

SysQueueAssumption ==
    /\ WordBits \in Nat \ {0} /\ Scale \in Nat \ {0}
    /\ MaxTime \in 0 .. TimeMax - 1
    /\ Sizes \subseteq WordBits .. 3 * WordBits
    /\ Lengths \subseteq Int /\ Steps \subseteq Nat \ {0} /\ X \notin Ids
    /\ Codes \subseteq {"length", "mean", "max_length", "shortest", "longest", "average"}

VARIABLES base,     \* the queues
          now,      \* simulation time
          reply,    \* what the last call returned
          asked,    \* what the last $q_exam was asked for, or X
          log       \* per queue: times of all adds, and all waits that ended

vars == <<base, now, reply, asked, log>>

-----------------------------------------------------------------------------
(* Waiting times.                                                          *)

add_to_wait_time(sum, c) ==
    [high |-> sum.high + (IF (TimeMax - 1) - sum.low < c THEN 1 ELSE 0),
     low |-> (sum.low + c) % TimeMax]

\* One turn of the long division: shift until a bit of the result is found.
Shifted[bit \in -1 .. 2 * WordBits, high \in 0 .. TimeMax - 1,
        low \in 0 .. TimeMax - 1, carry \in BOOLEAN, total \in 1 .. TimeMax - 1] ==
    IF bit < 0 \/ high >= total \/ carry
    THEN [bit |-> bit, high |-> high, low |-> low]
    ELSE Shifted[bit - 1,
                 ((2 * high) % TimeMax) + (IF 2 * low >= TimeMax THEN 1 ELSE 0),
                 (2 * low) % TimeMax,
                 2 * high >= TimeMax,
                 total]

Divide[bit \in -1 .. 2 * WordBits, high \in 0 .. TimeMax - 1,
       low \in 0 .. TimeMax - 1, total \in 1 .. TimeMax - 1] ==
    LET s == Shifted[bit, high, low, FALSE, total]
    IN  IF s.bit < 0 THEN 0
        ELSE 2 ^ s.bit
             + (IF s.bit > 0
                THEN Divide[s.bit, (s.high - total) % TimeMax, s.low, total]
                ELSE 0)

calc_average_wait_time(sum, total) ==
    IF sum.high = 0 THEN sum.low \div total
    ELSE Divide[2 * WordBits, sum.high, sum.low, total]

-----------------------------------------------------------------------------
(* One queue.                                                              *)

New(id, kind, length) ==
    [id |-> id, kind |-> kind, length |-> length, head |-> 0, elems |-> 0,
     queue |-> [i \in 0 .. length - 1 |-> [job |-> X, time |-> 0]],
     max_len |-> 0, shortest |-> TimeMax - 1, first |-> 0, latest |-> 0,
     wait |-> [high |-> 0, low |-> 0], adds |-> 0, have_shortest |-> FALSE]

Loc(q, k) == IF q.kind = "lifo" THEN k
             ELSE IF q.head + k >= q.length THEN q.head + k - q.length
             ELSE q.head + k

add_to_queue(q, job) ==
    [q EXCEPT !.elems = @ + 1,
              !.queue[Loc(q, q.elems)] = [job |-> job, time |-> now],
              !.max_len = IF @ = q.elems THEN @ + 1 ELSE @,
              !.adds = @ + 1,
              !.first = IF q.adds = 0 THEN now ELSE @,
              !.latest = now]

\* The slot that $q_remove takes.
Victim(q) == IF q.kind = "lifo" THEN q.elems - 1 ELSE q.head

remove_from_queue_NoWrap(q) ==
    LET w == now - q.queue[Victim(q)].time
    IN  [q EXCEPT !.elems = @ - 1,
                  !.head = IF q.kind = "fifo" /\ @ + 1 < q.length THEN @ + 1 ELSE @,
                  !.shortest = IF w < @ THEN w ELSE @,
                  !.have_shortest = TRUE,
                  !.wait = add_to_wait_time(@, w)]

remove_from_queue(q) ==
    LET w == now - q.queue[Victim(q)].time
    IN  [q EXCEPT !.elems = @ - 1,
                  !.head = IF q.kind = "lifo" THEN @
                           ELSE IF @ + 1 = q.length THEN 0 ELSE @ + 1,
                  !.shortest = IF w < @ THEN w ELSE @,
                  !.have_shortest = TRUE,
                  !.wait = add_to_wait_time(@, w)]

get_longest_queue_time(q) == now - q.queue[q.head].time

get_mean_interarrival_time(q) == (q.latest - q.first) \div (q.adds - 1)

\* The walk over the elements starts at head for both kinds.
get_average_wait_time(q) ==
    LET Next1(loc) == IF loc + 1 = q.length THEN 0 ELSE loc + 1
        Step(s, k) == [loc |-> Next1(s.loc),
                       sum |-> add_to_wait_time(s.sum, now - q.queue[s.loc].time)]
    IN  calc_average_wait_time(
          FoldLeft(Step, [loc |-> q.head, sum |-> q.wait],
                   [k \in 1 .. q.elems |-> k]).sum,
          q.adds)

\* The time in units of the module, rounded, as the bits of the variable.
Rounded(time) ==
    time \div Scale
    + (IF Scale > 1 /\ time % Scale >= Scale \div 2 THEN 1 ELSE 0)

TooBig(size, signed, time) ==
    size < 2 * WordBits /\ time >= 2 ^ (size - (IF signed THEN 1 ELSE 0))

\* What is written when the time does not fit; words above it are cut.
Saturated(size, signed) ==
    LET WordMax == 2 ^ WordBits - 1
        top == WordMax - WordMax \div 2 ^ (size - WordBits)
        bits == IF size = WordBits
                THEN (IF signed THEN WordMax \div 2 ELSE WordMax)
                ELSE (IF signed THEN top ELSE WordMax) * 2 ^ WordBits + WordMax
    IN  bits % 2 ^ size

fill_variable_with_scaled_time(size, signed, time) ==
    IF TooBig(size, signed, Rounded(time))
    THEN [status |-> "value_overflowed", value |-> Saturated(size, signed)]
    ELSE [status |-> "ok", value |-> Rounded(time)]

-----------------------------------------------------------------------------
(* The tasks and the function.                                             *)

\* get_id_index: the position of a queue, or 0.
Index(id) == LET S == {i \in 1 .. Len(base) : base[i].id = id}
             IN  IF S = {} THEN 0 ELSE Min(S)

Answer(op, status, value) == reply' = [op |-> op, status |-> status, value |-> value]

Init == /\ base = <<>> /\ now = 0 /\ asked = X
        /\ reply = [op |-> "none", status |-> "none", value |-> X]
        /\ log = [id \in Ids |-> [adds |-> <<>>, waits |-> <<>>, most |-> 0]]

q_initialize(id, kind, length) ==
    /\ IF id = X THEN Answer("initialize", "undefined_id", X) /\ UNCHANGED base
       ELSE IF kind \notin {"fifo", "lifo"}
       THEN Answer("initialize", "unsupported_type", X) /\ UNCHANGED base
       ELSE IF length <= 0 THEN Answer("initialize", "invalid_length", X) /\ UNCHANGED base
       ELSE IF Index(id) > 0 THEN Answer("initialize", "duplicate_id", X) /\ UNCHANGED base
       ELSE Answer("initialize", "ok", X) /\ base' = Append(base, New(id, kind, length))
    /\ asked' = X
    /\ UNCHANGED <<now, log>>

q_add(id, job) ==
    LET n == Index(id)
    IN  /\ IF n = 0 THEN Answer("add", "undefined_id", X) /\ UNCHANGED <<base, log>>
           ELSE IF base[n].elems = base[n].length
           THEN Answer("add", "full", X) /\ UNCHANGED <<base, log>>
           ELSE /\ base[n].adds < MaxAdds
                /\ base' = [base EXCEPT ![n] = add_to_queue(@, job)]
                /\ log' = [log EXCEPT ![id].adds = Append(@, now),
                                      ![id].most = Max({@, base[n].elems + 1})]
                /\ Answer("add", "ok", X)
        /\ asked' = X
        /\ UNCHANGED now

q_remove(id) ==
    LET n == Index(id)
        slot == base[n].queue[Victim(base[n])]
    IN  /\ IF n = 0 THEN Answer("remove", "undefined_id", X) /\ UNCHANGED <<base, log>>
           ELSE IF base[n].elems = 0
           THEN Answer("remove", "empty", X) /\ UNCHANGED <<base, log>>
           ELSE /\ base' = [base EXCEPT ![n] = remove_from_queue(@)]
                /\ log' = [log EXCEPT ![id].waits = Append(@, now - slot.time)]
                /\ Answer("remove", "ok", slot.job)
        /\ asked' = X
        /\ UNCHANGED now

q_full(id) ==
    LET n == Index(id)
    IN  /\ IF n = 0 THEN Answer("full", "undefined_id", X)
           ELSE Answer("full", "ok", IF base[n].elems >= base[n].length THEN 1 ELSE 0)
        /\ asked' = X
        /\ UNCHANGED <<base, now, log>>

Statistic(q, code, size, signed) ==
    LET none == [status |-> "no_statistics", value |-> X]
        Time(have, t) == IF have THEN fill_variable_with_scaled_time(size, signed, t)
                         ELSE none
    IN  CASE code = "length" -> [status |-> "ok", value |-> q.elems]
          [] code = "mean" -> IF q.adds < 2 THEN none
                              ELSE Time(TRUE, get_mean_interarrival_time(q))
          [] code = "max_length" -> [status |-> "ok", value |-> q.max_len]
          [] code = "shortest" -> Time(q.have_shortest, q.shortest)
          [] code = "longest" -> IF q.elems = 0 THEN none
                                 ELSE Time(TRUE, get_longest_queue_time(q))
          [] code = "average" -> IF q.adds = 0 THEN none
                                 ELSE Time(TRUE, get_average_wait_time(q))

q_exam(id, code, size, signed) ==
    LET n == Index(id)
    IN  /\ IF n = 0 THEN Answer("exam", "undefined_id", X)
           ELSE IF code = X THEN Answer("exam", "undefined_stat_code", X)
           ELSE LET r == Statistic(base[n], code, size, signed)
                IN  Answer("exam", r.status, r.value)
        /\ asked' = IF n = 0 \/ code = X THEN X
                    ELSE [id |-> id, code |-> code, size |-> size, signed |-> signed]
        /\ UNCHANGED <<base, now, log>>

\* cbEndOfSimulation.
cleanup_queue ==
    /\ base # <<>>
    /\ base' = <<>>
    /\ log' = [id \in Ids |-> [adds |-> <<>>, waits |-> <<>>, most |-> 0]]
    /\ asked' = X
    /\ UNCHANGED <<now, reply>>

Tick(d) == now + d <= MaxTime /\ now' = now + d /\ asked' = X /\ UNCHANGED <<base, reply, log>>

Next ==
    \/ \E id \in Ids \cup {X}, k \in Kinds, n \in Lengths : q_initialize(id, k, n)
    \/ \E id \in Ids \cup {X}, j \in Jobs : q_add(id, j)
    \/ \E id \in Ids \cup {X} : q_remove(id)
    \/ \E id \in Ids \cup {X} : q_full(id)
    \/ \E id \in Ids \cup {X}, c \in Codes \cup {X}, size \in Sizes, signed \in BOOLEAN :
          q_exam(id, c, size, signed)
    \/ cleanup_queue
    \/ \E d \in Steps : Tick(d)

Spec == Init /\ [][Next]_vars

-----------------------------------------------------------------------------

\* The fields of a queue record.
Fields == {"id", "kind", "length", "head", "elems", "queue", "max_len", "shortest", "first",
           "latest", "wait", "adds", "have_shortest"}

\* What a record of the vector is.
Formed(q) ==
  /\ DOMAIN q = Fields
  /\ q.id \in Ids /\ q.kind \in {"fifo", "lifo"} /\ q.length \in Nat \ {0}
  /\ q.head \in 0 .. q.length - 1 /\ q.elems \in 0 .. q.length
  /\ (q.kind = "lifo" => q.head = 0)
  /\ DOMAIN q.queue = 0 .. q.length - 1
  /\ \A i \in 0 .. q.length - 1 : q.queue[i].job \in Jobs \cup {X}
  /\ q.max_len \in q.elems .. q.length /\ q.adds \in Nat /\ q.have_shortest \in BOOLEAN

\* Every queue has a name of its own.
Records(b) ==
  /\ \A i \in 1 .. Len(b) : Formed(b[i])
  /\ \A i, j \in 1 .. Len(b) : b[i].id = b[j].id => i = j

TypeOK ==
    /\ now \in 0 .. MaxTime
    /\ Records(base)
    /\ \A i \in 1 .. Len(base) : base[i].wait.low \in 0 .. TimeMax - 1

\* The items of a queue, oldest first.
Items(q) == [k \in 1 .. q.elems |-> q.queue[Loc(q, k - 1)]]

Abstract == INSTANCE JobQueue WITH
    queues <- [id \in {base[i].id : i \in 1 .. Len(base)} |->
                 LET q == base[Index(id)]
                 IN  [kind |-> q.kind, length |-> q.length,
                      items |-> [k \in 1 .. q.elems |-> Items(q)[k].job],
                      adds |-> q.adds, most |-> q.max_len, served |-> q.have_shortest]]

Total(id) ==
    LET q == base[Index(id)]
        going == [k \in 1 .. q.elems |-> now - Items(q)[k].time]
    IN  FoldLeft(+, 0, log[id].waits) + FoldLeft(+, 0, going)

(***************************************************************************)
(* The time statistics are those of the history of the queue: the mean     *)
(* distance between adds, the shortest wait that ended, the longest wait   *)
(* that goes on, and the mean wait of all items added, in the caller's     *)
(* time units.  The sum of the waits is longer than a time and is divided  *)
(* bit by bit.                                                             *)
(***************************************************************************)
TimesRight ==
    asked # X /\ reply.status \in {"ok", "value_overflowed"} =>
      LET q == base[Index(asked.id)]
          l == log[asked.id]
          gaps == Len(l.adds) - 1
          truth == CASE asked.code = "mean" -> (Last(l.adds) - Head(l.adds)) \div gaps
                    [] asked.code = "shortest" -> Min(Range(l.waits))
                    [] asked.code = "longest" ->
                         Max({now - Items(q)[k].time : k \in 1 .. q.elems})
                    [] asked.code = "average" -> Total(asked.id) \div Len(l.adds)
                    [] OTHER -> 0
          room == 2 ^ (asked.size - (IF asked.signed THEN 1 ELSE 0))
      IN  asked.code \in {"mean", "shortest", "longest", "average"} =>
            IF Rounded(truth) < room \/ asked.size >= 2 * WordBits
            THEN reply.status = "ok" /\ reply.value = Rounded(truth)
            ELSE reply.status = "value_overflowed"

(***************************************************************************)
(* The lengths reported are the number of items now and the most there     *)
(* ever were.                                                              *)
(***************************************************************************)
LengthsRight ==
    asked # X =>
      /\ asked.code = "length" =>
            reply.value = Len(log[asked.id].adds) - Len(log[asked.id].waits)
      /\ asked.code = "max_length" => reply.value = log[asked.id].most

(***************************************************************************)
(* The long division gives the quotient for every sum whose average fits,  *)
(* also where the shifted remainder does not fit in a word.                *)
(***************************************************************************)
AverageExact ==
    \A total \in 1 .. TimeMax - 1, low \in 0 .. TimeMax - 1 :
       \A high \in 0 .. total - 1 :
          calc_average_wait_time([high |-> high, low |-> low], total)
             = (high * TimeMax + low) \div total

(***************************************************************************)
(* A time that does not fit is answered with the largest positive value    *)
(* of the variable.                                                        *)
(***************************************************************************)
OverflowSaturates ==
    asked # X /\ reply.status = "value_overflowed" =>
      reply.value = 2 ^ (asked.size - (IF asked.signed THEN 1 ELSE 0)) - 1

-----------------------------------------------------------------------------
(***************************************************************************)
(* The proof that this module implements JobQueue.  The invariant says of  *)
(* the vector that its records are in form and their names distinct.  What *)
(* a record holds is read off its circular buffer place by place: an item  *)
(* that is added goes to a slot that none of the others has, and when the  *)
(* oldest leaves, head moves so that the others keep their order.          *)
(***************************************************************************)

\* Append and the removal of one element, place by place.
LEMMA AppendIs ==
  ASSUME NEW S, NEW s \in Seq(S), NEW t \in Seq(S), NEW j \in S, Len(t) = Len(s) + 1,
         t[Len(t)] = j, \A k \in 1 .. Len(s) : t[k] = s[k]
  PROVE  t = Append(s, j)
<1>1. /\ Append(s, j) \in Seq(S) /\ Len(Append(s, j)) = Len(t)
      /\ \A k \in 1 .. Len(t) : Append(s, j)[k] = t[k]
  OBVIOUS
<1> QED BY <1>1, SeqEqual

\* One of a sequence is taken out.
LEMMA CutIs ==
  ASSUME NEW S, NEW s \in Seq(S), NEW t \in Seq(S), NEW m \in 1 .. Len(s),
         Len(t) = Len(s) - 1,
         \A k \in 1 .. Len(t) : t[k] = IF k < m THEN s[k] ELSE s[k + 1]
  PROVE  t = SubSeq(s, 1, m - 1) \o SubSeq(s, m + 1, Len(s))
<1>1. PICK n \in Nat : n = Len(s)
  OBVIOUS
<1>2. PICK a : a = SubSeq(s, 1, m - 1)
  OBVIOUS
<1>3. PICK b : b = SubSeq(s, m + 1, n)
  OBVIOUS
<1>4. \A k \in 1 .. n : s[k] \in S
  BY <1>1
<1>5. /\ a \in Seq(S) /\ Len(a) = IF 1 <= m - 1 THEN (m - 1) - 1 + 1 ELSE 0
      /\ \A k \in 1 .. (m - 1) - 1 + 1 : a[k] = s[1 + k - 1]
  <2>1. 1 \in Int /\ m - 1 \in Int /\ \A k \in 1 .. m - 1 : s[k] \in S
    BY <1>1, <1>4
  <2> QED BY <1>2, <2>1, SubSeqProperties
<1>6. /\ b \in Seq(S) /\ Len(b) = IF m + 1 <= n THEN n - (m + 1) + 1 ELSE 0
      /\ \A k \in 1 .. n - (m + 1) + 1 : b[k] = s[m + 1 + k - 1]
  <2>1. m + 1 \in Int /\ n \in Int /\ \A k \in m + 1 .. n : s[k] \in S
    BY <1>1, <1>4
  <2> QED BY <1>3, <2>1, SubSeqProperties
<1>7. Len(a) = m - 1 /\ Len(b) = n - m
  BY <1>1, <1>5, <1>6
<1>8. /\ a \o b \in Seq(S) /\ Len(a \o b) = Len(a) + Len(b)
      /\ \A k \in 1 .. Len(a) + Len(b) :
           (a \o b)[k] = IF k <= Len(a) THEN a[k] ELSE b[k - Len(a)]
  BY <1>5, <1>6, ConcatProperties
<1>9. ASSUME NEW k \in 1 .. Len(t)
      PROVE  (a \o b)[k] = t[k]
  <2>0. k \in 1 .. Len(a) + Len(b) /\ (k <= Len(a) <=> k < m)
    BY <1>1, <1>7
  <2>1. CASE k < m
    <3>1. k \in 1 .. (m - 1) - 1 + 1 /\ 1 + k - 1 = k
      BY <2>1
    <3>2. a[k] = s[k]
      BY <1>5, <3>1
    <3> QED BY <2>0, <2>1, <3>2, <1>8
  <2>2. CASE ~(k < m)
    <3>1. k - Len(a) \in 1 .. n - (m + 1) + 1 /\ m + 1 + (k - Len(a)) - 1 = k + 1
      BY <1>1, <1>7, <2>2
    <3>2. b[k - Len(a)] = s[k + 1]
      BY <1>6, <3>1
    <3> QED BY <2>0, <2>2, <3>2, <1>8
  <2> QED BY <2>1, <2>2
<1>10. Len(a \o b) = Len(t)
  BY <1>1, <1>7, <1>8
<1>11. t = a \o b
  BY <1>8, <1>9, <1>10, SeqEqual
<1> QED BY <1>1, <1>2, <1>3, <1>11

\* The queue that a record stands for.
Held(q) == [k \in 1 .. q.elems |-> Items(q)[k].job]

\* add_to_queue fills the slot behind the last item.
LEMMA AddFields ==
  ASSUME NEW q, Formed(q), NEW job, NEW r, r = add_to_queue(q, job)
  PROVE  /\ DOMAIN r = Fields /\ r.id = q.id /\ r.kind = q.kind /\ r.length = q.length
         /\ r.head = q.head /\ r.elems = q.elems + 1
         /\ r.queue = [q.queue EXCEPT ![Loc(q, q.elems)] = [job |-> job, time |-> now]]
         /\ r.max_len = (IF q.max_len = q.elems THEN q.max_len + 1 ELSE q.max_len)
         /\ r.adds = q.adds + 1 /\ r.have_shortest = q.have_shortest
  BY DEF Formed, Fields, add_to_queue

\* A record keeps its name, its kind and its length.
LEMMA AddKeeps ==
  ASSUME NEW q, Formed(q), NEW job, NEW r, r = add_to_queue(q, job)
  PROVE  r.id = q.id /\ r.kind = q.kind /\ r.length = q.length
  BY DEF Formed, Fields, add_to_queue

\* remove_from_queue moves head past the oldest of a fifo.
LEMMA RemoveFields ==
  ASSUME NEW q, Formed(q), NEW r, r = remove_from_queue(q)
  PROVE  /\ DOMAIN r = Fields /\ r.id = q.id /\ r.kind = q.kind /\ r.length = q.length
         /\ r.head = IF q.kind = "lifo" THEN q.head
                     ELSE IF q.head + 1 = q.length THEN 0 ELSE q.head + 1
         /\ r.elems = q.elems - 1 /\ r.queue = q.queue
         /\ r.max_len = q.max_len /\ r.adds = q.adds /\ r.have_shortest = TRUE
  BY DEF Formed, Fields, remove_from_queue

\* A record keeps these here too.
LEMMA RemoveKeeps ==
  ASSUME NEW q, Formed(q), NEW r, r = remove_from_queue(q)
  PROVE  r.id = q.id /\ r.kind = q.kind /\ r.length = q.length
  BY DEF Formed, Fields, remove_from_queue

\* A new record is empty and in form.
LEMMA NewFields ==
  ASSUME NEW id \in Ids, NEW kind \in {"fifo", "lifo"}, NEW length \in Nat \ {0},
         NEW r, r = New(id, kind, length)
  PROVE  /\ Formed(r) /\ r.id = id /\ r.kind = kind /\ r.length = length
         /\ r.elems = 0 /\ r.max_len = 0 /\ r.adds = 0 /\ r.have_shortest = FALSE
  BY DEF Formed, Fields, New

\* The slot of the circular buffer that is k places behind head.
Wrap(h, l, k) == IF h + k >= l THEN h + k - l ELSE h + k

\* It is a slot of the buffer.
LEMMA WrapIn ==
  ASSUME NEW l \in Nat, NEW h \in 0 .. l - 1, NEW k \in 0 .. l - 1
  PROVE  Wrap(h, l, k) \in 0 .. l - 1
  BY DEF Wrap

\* Two places have two slots.
LEMMA WrapOnce ==
  ASSUME NEW l \in Nat, NEW h \in 0 .. l - 1, NEW k \in 0 .. l - 1, NEW e \in 0 .. l - 1, k # e
  PROVE  Wrap(h, l, k) # Wrap(h, l, e)
  BY DEF Wrap

\* The next place is the slot that comes first once head has moved.
LEMMA WrapNext ==
  ASSUME NEW l \in Nat, NEW h \in 0 .. l - 1, NEW k \in 1 .. l - 1,
         NEW g, g = IF h + 1 = l THEN 0 ELSE h + 1
  PROVE  Wrap(g, l, k - 1) = Wrap(h, l, k)
  BY DEF Wrap

\* Loc in these terms: a lifo does not wrap.
LEMMA LocIs ==
  ASSUME NEW q, NEW k
  PROVE  Loc(q, k) = IF q.kind = "lifo" THEN k ELSE Wrap(q.head, q.length, k)
  BY DEF Loc, Wrap

\* Two items have two slots.
LEMMA LocSlots ==
  ASSUME NEW q, Formed(q), NEW k \in 0 .. q.length - 1
  PROVE  /\ Loc(q, k) \in 0 .. q.length - 1
         /\ \A e \in 0 .. q.length - 1 : k # e => Loc(q, k) # Loc(q, e)
<1>1. q.length \in Nat /\ q.head \in 0 .. q.length - 1
  BY DEF Formed
<1>2. Loc(q, k) \in 0 .. q.length - 1
  BY <1>1, LocIs, WrapIn
<1>3. ASSUME NEW e \in 0 .. q.length - 1, k # e
      PROVE  Loc(q, k) # Loc(q, e)
  BY <1>1, <1>3, LocIs, WrapOnce
<1> QED BY <1>2, <1>3

\* What a queue holds, place by place.
LEMMA HeldAt ==
  ASSUME NEW q, Formed(q)
  PROVE  /\ Held(q) \in Seq(Jobs \cup {X}) /\ Len(Held(q)) = q.elems
         /\ \A k \in 1 .. q.elems : Held(q)[k] = q.queue[Loc(q, k - 1)].job
<1>1. q.elems \in Nat /\ q.elems <= q.length /\ q.length \in Nat
  BY DEF Formed
<1>2. ASSUME NEW k \in 1 .. q.elems
      PROVE  q.queue[Loc(q, k - 1)].job \in Jobs \cup {X}
  <2>1. k - 1 \in 0 .. q.length - 1
    BY <1>1
  <2>2. Loc(q, k - 1) \in 0 .. q.length - 1
    BY <2>1, LocSlots
  <2> QED BY <2>2 DEF Formed
<1>3. Held(q) = [k \in 1 .. q.elems |-> q.queue[Loc(q, k - 1)].job]
  BY DEF Held, Items
<1>4. Held(q) \in [1 .. q.elems -> Jobs \cup {X}]
  BY <1>2, <1>3
<1>5. Held(q) \in Seq(Jobs \cup {X})
  BY <1>1, <1>4, SeqDef, Zenon
<1>6. Len(Held(q)) = q.elems
  <2>1. DOMAIN Held(q) = 1 .. q.elems
    BY <1>4
  <2>2. DOMAIN Held(q) = 1 .. Len(Held(q)) /\ Len(Held(q)) \in Nat
    BY <1>5, LenProperties
  <2> QED BY <1>1, <2>1, <2>2
<1> QED BY <1>3, <1>5, <1>6

\* $q_add: the job is behind the others, and none of them is overwritten.
LEMMA AddHeld ==
  ASSUME NEW q, Formed(q), q.elems # q.length, NEW job \in Jobs,
         NEW r, r = add_to_queue(q, job)
  PROVE  Formed(r) /\ Held(r) = Append(Held(q), job)
<1> DEFINE slot == [job |-> job, time |-> now]
<1>1. /\ DOMAIN r = Fields /\ r.id = q.id /\ r.kind = q.kind /\ r.length = q.length
      /\ r.head = q.head /\ r.elems = q.elems + 1
      /\ r.queue = [q.queue EXCEPT ![Loc(q, q.elems)] = slot]
      /\ r.max_len = (IF q.max_len = q.elems THEN q.max_len + 1 ELSE q.max_len)
      /\ r.adds = q.adds + 1 /\ r.have_shortest = q.have_shortest
  BY AddFields
<1>2. /\ q.elems \in Nat /\ q.length \in Nat /\ q.elems < q.length
      /\ DOMAIN q.queue = 0 .. q.length - 1
      /\ q.max_len \in q.elems .. q.length /\ q.adds \in Nat
  BY DEF Formed
<1>3. Loc(q, q.elems) \in 0 .. q.length - 1
  <2>1. q.elems \in 0 .. q.length - 1
    BY <1>2
  <2> QED BY <2>1, LocSlots
<1>4. slot.job = job
  OBVIOUS
<1> HIDE DEF slot
<1>5. /\ DOMAIN r.queue = 0 .. q.length - 1 /\ r.queue[Loc(q, q.elems)] = slot
      /\ \A i \in 0 .. q.length - 1 : i # Loc(q, q.elems) => r.queue[i] = q.queue[i]
  BY <1>1, <1>2, <1>3
<1>6. Formed(r)
  <2>1. \A i \in 0 .. q.length - 1 : r.queue[i].job \in Jobs \cup {X}
    BY <1>4, <1>5 DEF Formed
  <2>2. /\ r.elems \in 0 .. r.length /\ r.max_len \in r.elems .. r.length
        /\ r.adds \in Nat
    BY <1>1, <1>2
  <2> QED BY <1>1, <1>5, <2>1, <2>2 DEF Formed
<1>7. \A k : Loc(r, k) = Loc(q, k)
  BY <1>1 DEF Loc
<1>8. ASSUME NEW k \in 1 .. q.elems
      PROVE  Held(r)[k] = Held(q)[k]
  <2>1. /\ k - 1 \in 0 .. q.length - 1 /\ q.elems \in 0 .. q.length - 1
        /\ k - 1 # q.elems /\ k \in 1 .. r.elems
    BY <1>1, <1>2
  <2>2. Loc(q, k - 1) # Loc(q, q.elems) /\ Loc(q, k - 1) \in 0 .. q.length - 1
    BY <2>1, LocSlots
  <2>3. Held(r)[k] = r.queue[Loc(q, k - 1)].job
    BY <1>6, <1>7, <2>1, HeldAt
  <2>4. Held(q)[k] = q.queue[Loc(q, k - 1)].job
    BY HeldAt
  <2> QED BY <1>5, <2>2, <2>3, <2>4
<1>9. Held(r)[r.elems] = job
  <2>1. r.elems \in 1 .. r.elems /\ r.elems - 1 = q.elems
    BY <1>1, <1>2
  <2>2. Held(r)[r.elems] = r.queue[Loc(q, q.elems)].job
    BY <1>6, <1>7, <2>1, HeldAt
  <2> QED BY <1>4, <1>5, <2>2
<1>10. /\ Held(r) \in Seq(Jobs \cup {X}) /\ Len(Held(r)) = r.elems
       /\ Held(q) \in Seq(Jobs \cup {X}) /\ Len(Held(q)) = q.elems
  BY <1>6, HeldAt
<1>11. job \in Jobs \cup {X} /\ Len(Held(r)) = Len(Held(q)) + 1
  BY <1>1, <1>10
<1> QED BY <1>6, <1>8, <1>9, <1>10, <1>11, AppendIs

\* $q_remove: the job that leaves is the first of a fifo, the last of a lifo.
LEMMA RemoveHeld ==
  ASSUME NEW q, Formed(q), q.elems # 0, NEW r, r = remove_from_queue(q),
         NEW out, out = IF q.kind = "fifo" THEN 1 ELSE Len(Held(q))
  PROVE  /\ Formed(r) /\ q.queue[Victim(q)].job = Held(q)[out]
         /\ Held(r) = SubSeq(Held(q), 1, out - 1) \o SubSeq(Held(q), out + 1, Len(Held(q)))
<1>1. /\ DOMAIN r = Fields /\ r.id = q.id /\ r.kind = q.kind /\ r.length = q.length
      /\ r.head = IF q.kind = "lifo" THEN q.head
                  ELSE IF q.head + 1 = q.length THEN 0 ELSE q.head + 1
      /\ r.elems = q.elems - 1 /\ r.queue = q.queue
      /\ r.max_len = q.max_len /\ r.adds = q.adds /\ r.have_shortest = TRUE
  BY RemoveFields
<1>2. /\ q.elems \in Nat /\ q.length \in Nat /\ q.elems <= q.length /\ q.elems > 0
      /\ q.head \in 0 .. q.length - 1 /\ (q.kind = "lifo" => q.head = 0)
      /\ q.kind \in {"fifo", "lifo"} /\ q.max_len \in q.elems .. q.length
  BY DEF Formed
<1>3. Formed(r)
  <2>1. r.elems \in 0 .. r.length /\ r.max_len \in r.elems .. r.length
    BY <1>1, <1>2
  <2>2. r.head \in 0 .. r.length - 1 /\ (r.kind = "lifo" => r.head = 0)
    BY <1>1, <1>2
  <2> QED BY <1>1, <2>1, <2>2 DEF Formed
<1>4. /\ Held(r) \in Seq(Jobs \cup {X}) /\ Len(Held(r)) = q.elems - 1
      /\ Held(q) \in Seq(Jobs \cup {X}) /\ Len(Held(q)) = q.elems
  BY <1>1, <1>3, HeldAt
<1>5. /\ \A k \in 1 .. q.elems - 1 : Held(r)[k] = q.queue[Loc(r, k - 1)].job
      /\ \A k \in 1 .. q.elems : Held(q)[k] = q.queue[Loc(q, k - 1)].job
  BY <1>1, <1>3, HeldAt
<1>6. out \in 1 .. Len(Held(q)) /\ Len(Held(r)) = Len(Held(q)) - 1
  BY <1>2, <1>4
<1>7. Loc(q, out - 1) = Victim(q)
  <2>1. CASE q.kind = "fifo"
    BY <1>2, <2>1 DEF Loc, Victim
  <2>2. CASE q.kind = "lifo"
    BY <1>2, <1>4, <2>2 DEF Loc, Victim
  <2> QED BY <1>2, <2>1, <2>2
<1>8. q.queue[Victim(q)].job = Held(q)[out]
  BY <1>4, <1>5, <1>6, <1>7
<1>9. ASSUME NEW k \in 1 .. Len(Held(r))
      PROVE  Held(r)[k] = IF k < out THEN Held(q)[k] ELSE Held(q)[k + 1]
  <2>0. /\ k \in 1 .. q.elems - 1 /\ k \in 1 .. q.elems /\ k + 1 \in 1 .. q.elems
        /\ (k + 1) - 1 = k /\ k \in 1 .. q.length - 1
    BY <1>2, <1>4
  <2>1. CASE q.kind = "fifo"
    <3>1. Loc(r, k - 1) = Loc(q, k)
      BY <1>1, <1>2, <2>0, <2>1, LocIs, WrapNext
    <3>2. ~(k < out)
      BY <2>0, <2>1
    <3>3. Held(q)[k + 1] = q.queue[Loc(q, k)].job
      BY <1>5, <2>0
    <3> QED BY <1>5, <2>0, <3>1, <3>2, <3>3
  <2>2. CASE q.kind = "lifo"
    <3>1. Loc(r, k - 1) = Loc(q, k - 1)
      BY <1>1, <2>2 DEF Loc
    <3>2. k < out
      BY <1>4, <2>0, <2>2
    <3> QED BY <1>5, <2>0, <3>1, <3>2
  <2> QED BY <1>2, <2>1, <2>2
<1>10. Held(r) = SubSeq(Held(q), 1, out - 1) \o SubSeq(Held(q), out + 1, Len(Held(q)))
  BY <1>4, <1>6, <1>9, CutIs
<1> QED BY <1>3, <1>8, <1>10

-----------------------------------------------------------------------------
(* The vector.                                                             *)

\* The vector is a sequence of such records.
Vector(b) == (\E S : b \in Seq(S)) /\ Records(b)

\* get_id_index, the names in use, and the queues that the vector stands for.
IndexOf(b, id) ==
  LET S == {i \in 1 .. Len(b) : b[i].id = id} IN IF S = {} THEN 0 ELSE Min(S)

Names(b) == {b[i].id : i \in 1 .. Len(b)}

Queue(q) ==
  [kind |-> q.kind, length |-> q.length, items |-> Held(q),
   adds |-> q.adds, most |-> q.max_len, served |-> q.have_shortest]

MapOf(b) == [id \in Names(b) |-> Queue(b[IndexOf(b, id)])]

\* get_id_index finds the queue of the name.
LEMMA IndexFinds ==
  ASSUME NEW b, Vector(b), NEW id
  PROVE  /\ id \in Names(b) => IndexOf(b, id) \in 1 .. Len(b) /\ b[IndexOf(b, id)].id = id
         /\ id \notin Names(b) => IndexOf(b, id) = 0
<1> DEFINE S == {i \in 1 .. Len(b) : b[i].id = id}
<1>0. Len(b) \in Nat
  BY DEF Vector, Records
<1>1. CASE id \in Names(b)
  <2>1. PICK i \in 1 .. Len(b) : b[i].id = id
    BY <1>1 DEF Names
  <2>2. S = {i}
    BY <2>1 DEF Vector, Records
  <2>3. Min({i}) = i
    BY <1>0, <2>1 DEF Min
  <2>4. IndexOf(b, id) = i
    BY <2>2, <2>3 DEF IndexOf
  <2> QED BY <1>1, <2>1, <2>4
<1>2. CASE id \notin Names(b)
  <2>1. S = {}
    BY <1>2 DEF Names
  <2> QED BY <1>2, <2>1 DEF IndexOf
<1> QED BY <1>1, <1>2

\* Each record of the vector stands for the queue of its name.
LEMMA MapAt ==
  ASSUME NEW b, Vector(b)
  PROVE  /\ DOMAIN MapOf(b) = Names(b)
         /\ \A i \in 1 .. Len(b) : b[i].id \in Names(b) /\ MapOf(b)[b[i].id] = Queue(b[i])
<1>1. DOMAIN MapOf(b) = Names(b)
  BY DEF MapOf
<1>2. ASSUME NEW i \in 1 .. Len(b)
      PROVE  b[i].id \in Names(b) /\ MapOf(b)[b[i].id] = Queue(b[i])
  <2>1. b[i].id \in Names(b)
    BY DEF Names
  <2>2. IndexOf(b, b[i].id) = i
    BY <2>1, IndexFinds DEF Vector, Records
  <2> QED BY <2>1, <2>2 DEF MapOf
<1> QED BY <1>1, <1>2

Changed(b, r, c) == MapOf(c) = [MapOf(b) EXCEPT ![r.id] = Queue(r)]

\* One queue is changed, and keeps its name.
LEMMA ChangeOne ==
  ASSUME NEW b, Vector(b), NEW n \in 1 .. Len(b), NEW r, Formed(r), r.id = b[n].id,
         NEW c, c = [b EXCEPT ![n] = r]
  PROVE  Vector(c) /\ Changed(b, r, c)
<1>1. PICK S : b \in Seq(S)
  BY DEF Vector, Records
<1>2. /\ Len(b) \in Nat /\ Len(c) = Len(b) /\ c \in Seq(S \cup {r}) /\ c[n] = r
      /\ \A i \in 1 .. Len(b) : i # n => c[i] = b[i]
  BY <1>1
<1>3. \A i \in 1 .. Len(b) : c[i].id = b[i].id
  BY <1>2
<1>4. Vector(c)
  <2>1. \A i \in 1 .. Len(c) : Formed(c[i])
    BY <1>2 DEF Vector, Records
  <2>2. \A i, j \in 1 .. Len(c) : c[i].id = c[j].id => i = j
    BY <1>2, <1>3 DEF Vector, Records
  <2> QED BY <1>2, <2>1, <2>2 DEF Vector, Records
<1>5. Names(c) = Names(b)
  BY <1>2, <1>3 DEF Names
<1>6. ASSUME NEW id \in Names(b)
      PROVE  Queue(c[IndexOf(c, id)]) = IF id = r.id THEN Queue(r) ELSE MapOf(b)[id]
  <2>1. PICK i \in 1 .. Len(b) : b[i].id = id
    BY DEF Names
  <2>2. IndexOf(c, id) = i
    <3>1. PICK k : k = IndexOf(c, id)
      OBVIOUS
    <3>2. k \in 1 .. Len(b) /\ c[k].id = id
      <4>1. id \in Names(c)
        BY <1>5
      <4>2. k \in 1 .. Len(c) /\ c[k].id = id
        BY <1>4, <3>1, <4>1, IndexFinds
      <4> QED BY <1>2, <4>2
    <3>3. b[k].id = b[i].id
      BY <1>3, <2>1, <3>2
    <3> QED BY <2>1, <3>1, <3>2, <3>3 DEF Vector, Records
  <2>3. id = r.id <=> i = n
    BY <2>1 DEF Vector, Records
  <2> QED BY <1>2, <2>1, <2>2, <2>3, MapAt
<1>7. MapOf(c) = [MapOf(b) EXCEPT ![r.id] = Queue(r)]
  BY <1>5, <1>6, MapAt DEF MapOf
<1> QED BY <1>4, <1>7 DEF Changed

Added(b, r, c) ==
  MapOf(c) = [id \in DOMAIN MapOf(b) \cup {r.id} |->
                IF id = r.id THEN Queue(r) ELSE MapOf(b)[id]]

\* A queue is added behind the others.
LEMMA AddOne ==
  ASSUME NEW b, Vector(b), NEW r, Formed(r), r.id \notin Names(b), NEW c, c = Append(b, r)
  PROVE  Vector(c) /\ Added(b, r, c)
<1>1. PICK S : b \in Seq(S)
  BY DEF Vector, Records
<1>2. /\ Len(b) \in Nat /\ Len(c) = Len(b) + 1 /\ c \in Seq(S \cup {r}) /\ c[Len(b) + 1] = r
      /\ \A i \in 1 .. Len(b) : c[i] = b[i]
      /\ \A i \in 1 .. Len(c) : i \in 1 .. Len(b) \/ i = Len(b) + 1
      /\ \A i \in 1 .. Len(b) : i \in 1 .. Len(c)
      /\ Len(b) + 1 \in 1 .. Len(c)
  BY <1>1
<1>3. \A i \in 1 .. Len(b) : b[i].id # r.id
  BY DEF Names
<1>4. Vector(c)
  <2>1. \A i \in 1 .. Len(c) : Formed(c[i])
    BY <1>2 DEF Vector, Records
  <2>2. \A i, j \in 1 .. Len(c) : c[i].id = c[j].id => i = j
    BY <1>2, <1>3 DEF Vector, Records
  <2> QED BY <1>2, <2>1, <2>2 DEF Vector, Records
<1>5. Names(c) = Names(b) \cup {r.id}
  BY <1>2 DEF Names
<1>6. ASSUME NEW id \in Names(c)
      PROVE  Queue(c[IndexOf(c, id)]) = IF id = r.id THEN Queue(r) ELSE MapOf(b)[id]
  <2>0. IndexOf(c, id) \in 1 .. Len(c) /\ c[IndexOf(c, id)].id = id
    BY <1>4, IndexFinds
  <2>1. CASE id = r.id
    <3>1. c[IndexOf(c, id)] = r
      BY <1>2, <1>3, <2>0, <2>1
    <3> QED BY <2>1, <3>1
  <2>2. CASE id # r.id
    <3>1. PICK i \in 1 .. Len(b) : i = IndexOf(c, id)
      BY <1>2, <2>0, <2>2
    <3>2. b[i].id = id /\ c[IndexOf(c, id)] = b[i]
      BY <1>2, <2>0, <3>1
    <3> QED BY <2>2, <3>2, MapAt
  <2> QED BY <2>1, <2>2
<1>7. DOMAIN MapOf(b) \cup {r.id} = Names(c)
  BY <1>5, MapAt
<1>8. MapOf(c) = [id \in Names(c) |-> IF id = r.id THEN Queue(r) ELSE MapOf(b)[id]]
  BY <1>6 DEF MapOf
<1> QED BY <1>4, <1>7, <1>8 DEF Added

-----------------------------------------------------------------------------
(* The tasks.                                                              *)

\* The queues of JobQueue are those of the vector, before and after a step.
LEMMA Mapped ==
  /\ MapOf(base) = [id \in {base[i].id : i \in 1 .. Len(base)} |->
                      LET q == base[Index(id)]
                      IN  [kind |-> q.kind, length |-> q.length,
                           items |-> [k \in 1 .. q.elems |-> Items(q)[k].job],
                           adds |-> q.adds, most |-> q.max_len,
                           served |-> q.have_shortest]]
  /\ MapOf(base') = [id \in {base'[i].id : i \in 1 .. Len(base')} |->
                      LET q == base'[Index(id)']
                      IN  [kind |-> q.kind, length |-> q.length,
                           items |-> [k \in 1 .. q.elems |-> Items(q)[k].job],
                           adds |-> q.adds, most |-> q.max_len,
                           served |-> q.have_shortest]]
<1>1. \A id : IndexOf(base, id) = Index(id) /\ IndexOf(base', id) = Index(id)'
  BY DEF IndexOf, Index
<1> QED BY <1>1 DEF MapOf, Names, Queue, Held

\* A record is the record of its fields.
LEMMA AllFields ==
  ASSUME NEW r, r = [f \in {"kind", "length", "items", "adds", "most", "served"} |-> r[f]]
  PROVE  r = [kind |-> r.kind, length |-> r.length, items |-> r.items, adds |-> r.adds,
              most |-> r.most, served |-> r.served]
  OBVIOUS

\* The queue with one more job, and with one less.
LEMMA QueueGrown ==
  ASSUME NEW q, Formed(q), q.elems # q.length, NEW job \in Jobs,
         NEW r, r = add_to_queue(q, job)
  PROVE  Queue(r) = Abstract!Grown(Queue(q), job)
<1>1. /\ r.kind = q.kind /\ r.length = q.length /\ r.adds = q.adds + 1
      /\ r.have_shortest = q.have_shortest
      /\ r.max_len = (IF q.max_len = q.elems THEN q.max_len + 1 ELSE q.max_len)
  BY DEF Formed, Fields, add_to_queue
<1>2. Held(r) = Append(Held(q), job) /\ Len(Held(q)) = q.elems
  BY AddHeld, HeldAt
<1>3. r.max_len = (IF Len(Held(q)) < q.max_len THEN q.max_len ELSE Len(Held(q)) + 1)
  <2>1. q.max_len \in Int /\ q.elems \in Int /\ q.elems <= q.max_len
    BY DEF Formed
  <2> QED BY <1>1, <1>2, <2>1
<1>4. Queue(r) = [kind |-> q.kind, length |-> q.length, items |-> Append(Held(q), job),
                  adds |-> q.adds + 1,
                  most |-> (IF Len(Held(q)) < q.max_len THEN q.max_len ELSE Len(Held(q)) + 1),
                  served |-> q.have_shortest]
  BY <1>1, <1>2, <1>3 DEF Queue
<1>5. /\ Queue(q).items = Held(q) /\ Queue(q).adds = q.adds /\ Queue(q).most = q.max_len
  BY DEF Queue
<1>6. PICK u : u = [Queue(q) EXCEPT
                      !.items = Append(Held(q), job), !.adds = q.adds + 1,
                      !.most = (IF Len(Held(q)) < q.max_len THEN q.max_len
                                ELSE Len(Held(q)) + 1)]
  OBVIOUS
<1>7. Abstract!Grown(Queue(q), job) = u
  BY <1>5, <1>6 DEF Abstract!Grown
<1>8. /\ u.kind = q.kind /\ u.length = q.length /\ u.items = Append(Held(q), job)
      /\ u.adds = q.adds + 1 /\ u.served = q.have_shortest
      /\ u.most = (IF Len(Held(q)) < q.max_len THEN q.max_len ELSE Len(Held(q)) + 1)
      /\ u = [f \in {"kind", "length", "items", "adds", "most", "served"} |-> u[f]]
  BY <1>6 DEF Queue
<1> QED BY <1>4, <1>7, <1>8, AllFields

LEMMA QueueShrunk ==
  ASSUME NEW q, Formed(q), q.elems # 0, NEW r, r = remove_from_queue(q)
  PROVE  /\ Queue(r) = Abstract!Shrunk(Queue(q))
         /\ q.queue[Victim(q)].job = Held(q)[Abstract!Out(Queue(q))]
<1>1. PICK out : out = IF q.kind = "fifo" THEN 1 ELSE Len(Held(q))
  OBVIOUS
<1>2. out = Abstract!Out(Queue(q))
  BY <1>1 DEF Abstract!Out, Queue
<1>3. /\ q.queue[Victim(q)].job = Held(q)[out]
      /\ Held(r) = SubSeq(Held(q), 1, out - 1) \o SubSeq(Held(q), out + 1, Len(Held(q)))
  BY <1>1, RemoveHeld
<1>4. /\ r.kind = q.kind /\ r.length = q.length /\ r.adds = q.adds
      /\ r.max_len = q.max_len /\ r.have_shortest = TRUE
  BY DEF Formed, Fields, remove_from_queue
<1>5. Queue(r) = [kind |-> q.kind, length |-> q.length,
                  items |-> SubSeq(Held(q), 1, out - 1)
                              \o SubSeq(Held(q), out + 1, Len(Held(q))),
                  adds |-> q.adds, most |-> q.max_len, served |-> TRUE]
  BY <1>3, <1>4 DEF Queue
<1>6. Queue(q).items = Held(q)
  BY DEF Queue
<1>7. PICK u : u = [Queue(q) EXCEPT
                      !.items = SubSeq(Held(q), 1, out - 1)
                                  \o SubSeq(Held(q), out + 1, Len(Held(q))),
                      !.served = TRUE]
  OBVIOUS
<1>8. Abstract!Shrunk(Queue(q)) = u
  BY <1>2, <1>6, <1>7 DEF Abstract!Shrunk
<1>9. /\ u.kind = q.kind /\ u.length = q.length
      /\ u.items = SubSeq(Held(q), 1, out - 1) \o SubSeq(Held(q), out + 1, Len(Held(q)))
      /\ u.adds = q.adds /\ u.most = q.max_len /\ u.served = TRUE
      /\ u = [f \in {"kind", "length", "items", "adds", "most", "served"} |-> u[f]]
  BY <1>7 DEF Queue
<1>10. u = Queue(r)
  BY <1>5, <1>9, AllFields
<1> QED BY <1>2, <1>3, <1>8, <1>10

\* $q_initialize.
LEMMA InitializeStep ==
  ASSUME SysQueueAssumption, Vector(base), NEW id \in Ids \cup {X}, NEW kind \in Kinds,
         NEW length \in Lengths, q_initialize(id, kind, length)
  PROVE  Vector(base') /\ Abstract!Initialize(id, kind, length)
<1>1. Index(id) = IndexOf(base, id)
  BY DEF Index, IndexOf
<1>2. length \in Int /\ X \notin Ids
  BY DEF SysQueueAssumption
<1>3. DOMAIN MapOf(base) = Names(base)
  BY MapAt
<1>4. Index(id) > 0 <=> id \in DOMAIN MapOf(base)
  <2>1. Len(base) \in Nat
    BY DEF Vector, Records
  <2> QED BY <1>1, <1>3, <2>1, IndexFinds
<1>5. CASE base' = base
  <2>1. \/ id = X /\ Answer("initialize", "undefined_id", X)
        \/ id # X /\ kind \notin {"fifo", "lifo"} /\ Answer("initialize", "unsupported_type", X)
        \/ id # X /\ length <= 0 /\ Answer("initialize", "invalid_length", X)
        \/ id \in DOMAIN MapOf(base) /\ Answer("initialize", "duplicate_id", X)
    BY <1>4, <1>5 DEF q_initialize
  <2>2. MapOf(base') = MapOf(base)
    BY <1>5
  <2> QED BY <1>5, <2>1, <2>2, Mapped DEF Abstract!Initialize, Abstract!Answer, Answer
<1>6. CASE base' # base
  <2>1. /\ id # X /\ kind \in {"fifo", "lifo"} /\ ~(length <= 0) /\ ~(Index(id) > 0)
        /\ Answer("initialize", "ok", X) /\ base' = Append(base, New(id, kind, length))
    BY <1>6 DEF q_initialize
  <2>2. PICK r : r = New(id, kind, length)
    OBVIOUS
  <2>3. id \in Ids /\ length \in Nat \ {0} /\ length > 0
    BY <1>2, <2>1
  <2>4. /\ Formed(r) /\ r.id = id /\ r.kind = kind /\ r.length = length
        /\ r.elems = 0 /\ r.max_len = 0 /\ r.adds = 0 /\ r.have_shortest = FALSE
    <3>1. Formed(r)
      BY <2>1, <2>2, <2>3, NewFields
    <3> QED BY <2>2, <3>1 DEF New
  <2>5. Held(r) = <<>>
    <3>1. Held(r) \in Seq(Jobs \cup {X}) /\ Len(Held(r)) = 0
      BY <2>4, HeldAt
    <3> QED BY <3>1
  <2>6. /\ Vector(base')
        /\ MapOf(base') = [i \in DOMAIN MapOf(base) \cup {id} |->
                              IF i = id THEN Queue(r) ELSE MapOf(base)[i]]
    <3>1. r.id \notin Names(base) /\ base' = Append(base, r)
      BY <1>3, <1>4, <2>1, <2>2, <2>4
    <3>2. Vector(base') /\ Added(base, r, base')
      BY <2>4, <3>1, AddOne
    <3> QED BY <2>4, <3>2 DEF Added
  <2>7. Queue(r) = Abstract!Empty(kind, length)
    BY <2>4, <2>5 DEF Queue, Abstract!Empty
  <2>8. id \notin DOMAIN MapOf(base)
    BY <1>4, <2>1
  <2> QED BY <2>1, <2>3, <2>6, <2>7, <2>8, Mapped
          DEF Abstract!Initialize, Abstract!Answer, Answer
<1> QED BY <1>5, <1>6

\* $q_add.
LEMMA AddStep ==
  ASSUME Vector(base), NEW id, NEW job \in Jobs, q_add(id, job)
  PROVE  Vector(base') /\ Abstract!Add(id, job)
<1>1. PICK n : n = Index(id)
  OBVIOUS
<1>2. n = IndexOf(base, id)
  BY <1>1 DEF Index, IndexOf
<1>3. DOMAIN MapOf(base) = Names(base) /\ Len(base) \in Nat
  BY MapAt DEF Vector, Records
<1>4. CASE n = 0
  <2>1. id \notin DOMAIN MapOf(base)
    <3>1. ASSUME id \in Names(base) PROVE FALSE
      <4>1. n \in 1 .. Len(base)
        BY <1>2, <3>1, IndexFinds
      <4> QED BY <1>3, <1>4, <4>1
    <3> QED BY <1>3, <3>1
  <2>2. base' = base /\ Answer("add", "undefined_id", X)
    BY <1>1, <1>4 DEF q_add
  <2> QED BY <2>1, <2>2, Mapped DEF Abstract!Add, Abstract!Answer, Answer
<1>5. CASE n # 0
  <2>1. id \in DOMAIN MapOf(base) /\ n \in 1 .. Len(base) /\ base[n].id = id
    BY <1>2, <1>3, <1>5, IndexFinds
  <2>2. MapOf(base)[id] = Queue(base[n]) /\ Formed(base[n])
    BY <2>1, MapAt DEF Vector, Records
  <2>3. /\ MapOf(base)[id].length = base[n].length /\ MapOf(base)[id].items = Held(base[n])
        /\ MapOf(base)[id].kind = base[n].kind /\ Len(Held(base[n])) = base[n].elems
    BY <2>2, HeldAt DEF Queue
  <2>4. CASE base[n].elems = base[n].length
    <3>1. base' = base /\ Answer("add", "full", X)
      BY <1>1, <1>5, <2>4 DEF q_add
    <3>2. Len(MapOf(base)[id].items) = MapOf(base)[id].length
      BY <2>3, <2>4
    <3> QED BY <2>1, <3>1, <3>2, Mapped
            DEF Abstract!Add, Abstract!Answer, Abstract!Full, Answer
  <2>5. CASE base[n].elems # base[n].length
    <3>0. PICK q : q = base[n]
      OBVIOUS
    <3>1. PICK r : r = add_to_queue(q, job)
      OBVIOUS
    <3>2. base' = [base EXCEPT ![n] = r] /\ Answer("add", "ok", X)
      BY <1>1, <1>5, <2>5, <3>0, <3>1 DEF q_add
    <3>9. Formed(q) /\ q.elems # q.length /\ q.id = id
      BY <2>1, <2>2, <2>5, <3>0
    <3>3. Formed(r) /\ Held(r) = Append(Held(q), job)
      BY <3>9, <3>1, AddHeld
    <3>4. r.id = q.id /\ r.kind = q.kind /\ r.length = q.length
      BY <3>9, <3>1, AddKeeps
    <3>5. Vector(base') /\ MapOf(base') = [MapOf(base) EXCEPT ![id] = Queue(r)]
      <4>1. r.id = base[n].id /\ r.id = id
        BY <3>0, <3>9, <3>4
      <4>2. Vector(base') /\ Changed(base, r, base')
        BY <2>1, <3>2, <3>3, <4>1, ChangeOne
      <4> QED BY <4>1, <4>2 DEF Changed
    <3>6. Queue(r) = Abstract!Grown(MapOf(base)[id], job)
      BY <2>2, <3>0, <3>1, <3>9, QueueGrown
    <3>7. MapOf(base') = [MapOf(base) EXCEPT ![id] = Abstract!Grown(@, job)]
      BY <3>5, <3>6
    <3>8. Len(MapOf(base)[id].items) # MapOf(base)[id].length
      BY <2>3, <2>5
    <3> QED BY <2>1, <3>2, <3>5, <3>7, <3>8, Mapped
            DEF Abstract!Add, Abstract!Answer, Abstract!Full, Answer
  <2> QED BY <2>4, <2>5
<1> QED BY <1>4, <1>5

\* $q_remove.
LEMMA RemoveStep ==
  ASSUME Vector(base), NEW id, q_remove(id)
  PROVE  Vector(base') /\ Abstract!Remove(id)
<1>1. PICK n : n = Index(id)
  OBVIOUS
<1>2. n = IndexOf(base, id)
  BY <1>1 DEF Index, IndexOf
<1>3. DOMAIN MapOf(base) = Names(base) /\ Len(base) \in Nat
  BY MapAt DEF Vector, Records
<1>4. CASE n = 0
  <2>1. id \notin DOMAIN MapOf(base)
    <3>1. ASSUME id \in Names(base) PROVE FALSE
      <4>1. n \in 1 .. Len(base)
        BY <1>2, <3>1, IndexFinds
      <4> QED BY <1>3, <1>4, <4>1
    <3> QED BY <1>3, <3>1
  <2>2. base' = base /\ Answer("remove", "undefined_id", X)
    BY <1>1, <1>4 DEF q_remove
  <2> QED BY <2>1, <2>2, Mapped DEF Abstract!Remove, Abstract!Answer, Answer
<1>5. CASE n # 0
  <2>1. id \in DOMAIN MapOf(base) /\ n \in 1 .. Len(base) /\ base[n].id = id
    BY <1>2, <1>3, <1>5, IndexFinds
  <2>2. PICK q : q = base[n]
    OBVIOUS
  <2>3. MapOf(base)[id] = Queue(q) /\ Formed(q) /\ q.id = id
    BY <2>1, <2>2, MapAt DEF Vector, Records
  <2>4. /\ Queue(q).items = Held(q) /\ Queue(q).kind = q.kind
        /\ Held(q) \in Seq(Jobs \cup {X}) /\ Len(Held(q)) = q.elems
    BY <2>3, HeldAt DEF Queue
  <2>5. CASE q.elems = 0
    <3>1. base' = base /\ Answer("remove", "empty", X)
      BY <1>1, <1>5, <2>2, <2>5 DEF q_remove
    <3>2. MapOf(base)[id].items = <<>>
      BY <2>3, <2>4, <2>5
    <3> QED BY <2>1, <3>1, <3>2, Mapped DEF Abstract!Remove, Abstract!Answer, Answer
  <2>6. CASE q.elems # 0
    <3>1. PICK r : r = remove_from_queue(q)
      OBVIOUS
    <3>2. /\ base' = [base EXCEPT ![n] = r]
          /\ Answer("remove", "ok", q.queue[Victim(q)].job)
      BY <1>1, <1>5, <2>2, <2>6, <3>1 DEF q_remove
    <3>3. Formed(r) /\ r.id = id
      <4>1. PICK out : out = IF q.kind = "fifo" THEN 1 ELSE Len(Held(q))
        OBVIOUS
      <4> QED BY <2>3, <2>6, <3>1, <4>1, RemoveHeld, RemoveKeeps
    <3>4. Vector(base') /\ MapOf(base') = [MapOf(base) EXCEPT ![id] = Queue(r)]
      <4>1. r.id = base[n].id
        BY <2>2, <2>3, <3>3
      <4>2. Vector(base') /\ Changed(base, r, base')
        BY <2>1, <3>2, <3>3, <4>1, ChangeOne
      <4> QED BY <3>3, <4>2 DEF Changed
    <3>5. /\ Queue(r) = Abstract!Shrunk(MapOf(base)[id])
          /\ q.queue[Victim(q)].job = MapOf(base)[id].items[Abstract!Out(MapOf(base)[id])]
      BY <2>3, <2>4, <2>6, <3>1, QueueShrunk
    <3>6. MapOf(base') = [MapOf(base) EXCEPT ![id] = Abstract!Shrunk(@)]
      BY <3>4, <3>5
    <3>7. MapOf(base)[id].items # <<>>
      BY <2>3, <2>4, <2>6
    <3> QED BY <2>1, <3>2, <3>4, <3>5, <3>6, <3>7, Mapped
            DEF Abstract!Remove, Abstract!Answer, Answer
  <2> QED BY <2>5, <2>6
<1> QED BY <1>4, <1>5

\* $q_full.
LEMMA FullStep ==
  ASSUME Vector(base), NEW id, q_full(id)
  PROVE  Vector(base') /\ Abstract!IsFull(id)
<1>1. PICK n : n = Index(id)
  OBVIOUS
<1>2. n = IndexOf(base, id)
  BY <1>1 DEF Index, IndexOf
<1>3. DOMAIN MapOf(base) = Names(base) /\ Len(base) \in Nat /\ base' = base
  BY MapAt DEF Vector, Records, q_full
<1>4. CASE n = 0
  <2>1. id \notin DOMAIN MapOf(base)
    <3>1. ASSUME id \in Names(base) PROVE FALSE
      <4>1. n \in 1 .. Len(base)
        BY <1>2, <3>1, IndexFinds
      <4> QED BY <1>3, <1>4, <4>1
    <3> QED BY <1>3, <3>1
  <2>2. Answer("full", "undefined_id", X)
    BY <1>1, <1>4 DEF q_full
  <2> QED BY <1>3, <2>1, <2>2, Mapped DEF Abstract!IsFull, Abstract!Answer, Answer
<1>5. CASE n # 0
  <2>1. id \in DOMAIN MapOf(base) /\ n \in 1 .. Len(base) /\ base[n].id = id
    BY <1>2, <1>3, <1>5, IndexFinds
  <2>2. PICK q : q = base[n]
    OBVIOUS
  <2>3. MapOf(base)[id] = Queue(q) /\ Formed(q)
    BY <2>1, <2>2, MapAt DEF Vector, Records
  <2>4. /\ Queue(q).items = Held(q) /\ Queue(q).length = q.length
        /\ Len(Held(q)) = q.elems
    BY <2>3, HeldAt DEF Queue
  <2>5. q.elems >= q.length <=> Abstract!Full(MapOf(base)[id])
    BY <2>3, <2>4 DEF Abstract!Full, Formed
  <2>6. Answer("full", "ok", IF q.elems >= q.length THEN 1 ELSE 0)
    BY <1>1, <1>5, <2>2 DEF q_full
  <2>7. reply' = [op |-> "full", status |-> "ok",
                  value |-> (IF Abstract!Full(MapOf(base)[id]) THEN 1 ELSE 0)]
    BY <2>5, <2>6 DEF Answer
  <2> QED BY <1>3, <2>1, <2>7, Mapped DEF Abstract!IsFull, Abstract!Answer
<1> QED BY <1>4, <1>5

\* The statistic is there when the queue has it.
LEMMA StatisticIs ==
  ASSUME SysQueueAssumption, NEW q, Formed(q), NEW code \in Codes, NEW size, NEW signed,
         NEW r, r = Statistic(q, code, size, signed),
         reply' = [op |-> "exam", status |-> r.status, value |-> r.value]
  PROVE  Abstract!Report(Queue(q), code)
<1> DEFINE Time(t) == fill_variable_with_scaled_time(size, signed, t)
<1>1. code \in {"length", "mean", "max_length", "shortest", "longest", "average"}
  BY DEF SysQueueAssumption
<1>2. \A t : Time(t).status \in {"ok", "value_overflowed"}
  BY DEF fill_variable_with_scaled_time
<1>3. q.adds \in Nat /\ q.elems \in Nat /\ q.have_shortest \in BOOLEAN
  BY DEF Formed
<1>4. Len(Held(q)) = q.elems /\ (Held(q) # <<>> <=> q.elems # 0)
  BY <1>3, HeldAt
<1>5. /\ Queue(q).items = Held(q) /\ Queue(q).adds = q.adds
      /\ Queue(q).most = q.max_len /\ Queue(q).served = q.have_shortest
  BY DEF Queue
<1> HIDE DEF Time
<1>6. CASE code = "length"
  BY <1>4, <1>5, <1>6 DEF Statistic, Abstract!Report, Abstract!Answer
<1>7. CASE code = "max_length"
  BY <1>5, <1>7 DEF Statistic, Abstract!Report, Abstract!Answer
<1>8. CASE code = "mean"
  BY <1>2, <1>3, <1>5, <1>8
     DEF Statistic, Time, Abstract!Report, Abstract!Answer, Abstract!HasStatistic
<1>9. CASE code = "shortest"
  BY <1>2, <1>3, <1>5, <1>9
     DEF Statistic, Time, Abstract!Report, Abstract!Answer, Abstract!HasStatistic
<1>10. CASE code = "longest"
  BY <1>2, <1>4, <1>5, <1>10
     DEF Statistic, Time, Abstract!Report, Abstract!Answer, Abstract!HasStatistic
<1>11. CASE code = "average"
  BY <1>2, <1>3, <1>5, <1>11
     DEF Statistic, Time, Abstract!Report, Abstract!Answer, Abstract!HasStatistic
<1> QED BY <1>1, <1>6, <1>7, <1>8, <1>9, <1>10, <1>11

\* $q_exam.
LEMMA ExamStep ==
  ASSUME SysQueueAssumption, Vector(base), NEW id, NEW code \in Codes \cup {X},
         NEW size, NEW signed, q_exam(id, code, size, signed)
  PROVE  Vector(base') /\ Abstract!Exam(id, code)
<1>1. PICK n : n = Index(id)
  OBVIOUS
<1>2. n = IndexOf(base, id)
  BY <1>1 DEF Index, IndexOf
<1>3. DOMAIN MapOf(base) = Names(base) /\ Len(base) \in Nat /\ base' = base
  BY MapAt DEF Vector, Records, q_exam
<1>4. CASE n = 0
  <2>1. id \notin DOMAIN MapOf(base)
    <3>1. ASSUME id \in Names(base) PROVE FALSE
      <4>1. n \in 1 .. Len(base)
        BY <1>2, <3>1, IndexFinds
      <4> QED BY <1>3, <1>4, <4>1
    <3> QED BY <1>3, <3>1
  <2>2. Answer("exam", "undefined_id", X)
    BY <1>1, <1>4 DEF q_exam
  <2> QED BY <1>3, <2>1, <2>2, Mapped DEF Abstract!Exam, Abstract!Answer, Answer
<1>5. CASE n # 0
  <2>1. id \in DOMAIN MapOf(base) /\ n \in 1 .. Len(base) /\ base[n].id = id
    BY <1>2, <1>3, <1>5, IndexFinds
  <2>2. PICK q : q = base[n]
    OBVIOUS
  <2>3. MapOf(base)[id] = Queue(q) /\ Formed(q)
    BY <2>1, <2>2, MapAt DEF Vector, Records
  <2>4. CASE code = X
    <3>1. Answer("exam", "undefined_stat_code", X)
      BY <1>1, <1>5, <2>4 DEF q_exam
    <3> QED BY <1>3, <2>1, <2>4, <3>1, Mapped DEF Abstract!Exam, Abstract!Answer, Answer
  <2>5. CASE code # X
    <3>1. PICK r : r = Statistic(q, code, size, signed)
      OBVIOUS
    <3>2. Answer("exam", r.status, r.value)
      BY <1>1, <1>5, <2>2, <2>5, <3>1 DEF q_exam
    <3>3. reply' = [op |-> "exam", status |-> r.status, value |-> r.value]
      BY <3>2 DEF Answer
    <3>4. Abstract!Report(MapOf(base)[id], code)
      BY <2>3, <2>5, <3>1, <3>3, StatisticIs
    <3> QED BY <1>3, <2>1, <2>5, <3>4, Mapped DEF Abstract!Exam
  <2> QED BY <2>4, <2>5
<1> QED BY <1>4, <1>5

\* An empty vector stands for no queues.
LEMMA NoQueues == Vector(<<>>) /\ MapOf(<<>>) = <<>>
<1>1. Vector(<<>>)
  BY DEF Vector, Records
<1>2. Names(<<>>) = {}
  BY DEF Names
<1>3. PICK f : f = MapOf(<<>>)
  OBVIOUS
<1>4. f \in [1 .. 0 -> {}] /\ DOMAIN f = 1 .. 0
  BY <1>2, <1>3 DEF MapOf
<1>5. f \in Seq({})
  BY <1>4, SeqDef
<1>6. f = <<>>
  BY <1>5
<1> QED BY <1>1, <1>3, <1>6

\* The end of the simulation.
LEMMA CleanupStep ==
  ASSUME cleanup_queue
  PROVE  Vector(base') /\ Abstract!Cleanup
<1>1. base' = <<>> /\ reply' = reply
  BY DEF cleanup_queue
<1>2. Vector(base') /\ MapOf(base') = <<>>
  BY <1>1, NoQueues
<1> QED BY <1>1, <1>2, Mapped DEF Abstract!Cleanup

\* A step that leaves the vector and the reply alone.
LEMMA QuietStep ==
  ASSUME Vector(base), base' = base, reply' = reply
  PROVE  Vector(base') /\ UNCHANGED Abstract!vars
  BY Mapped DEF Abstract!vars

\* Every step of the vector is a step of the queues or changes none of them.
LEMMA EveryStep ==
  ASSUME SysQueueAssumption, Vector(base), [Next]_vars
  PROVE  Vector(base') /\ [Abstract!Next]_(Abstract!vars)
<1>1. CASE \E id \in Ids \cup {X}, k \in Kinds, n \in Lengths : q_initialize(id, k, n)
  BY <1>1, InitializeStep DEF Abstract!Next
<1>2. CASE \E id \in Ids \cup {X}, j \in Jobs : q_add(id, j)
  BY <1>2, AddStep DEF Abstract!Next
<1>3. CASE \E id \in Ids \cup {X} : q_remove(id)
  BY <1>3, RemoveStep DEF Abstract!Next
<1>4. CASE \E id \in Ids \cup {X} : q_full(id)
  BY <1>4, FullStep DEF Abstract!Next
<1>5. CASE \E id \in Ids \cup {X}, c \in Codes \cup {X}, size \in Sizes, signed \in BOOLEAN :
              q_exam(id, c, size, signed)
  BY <1>5, ExamStep DEF Abstract!Next
<1>6. CASE cleanup_queue
  BY <1>6, CleanupStep DEF Abstract!Next
<1>7. CASE \E d \in Steps : Tick(d)
  <2>1. base' = base /\ reply' = reply
    BY <1>7 DEF Tick
  <2> QED BY <2>1, QuietStep
<1>8. CASE UNCHANGED vars
  <2>1. base' = base /\ reply' = reply
    BY <1>8 DEF vars
  <2> QED BY <2>1, QuietStep
<1> QED BY <1>1, <1>2, <1>3, <1>4, <1>5, <1>6, <1>7, <1>8 DEF Next

(***************************************************************************)
(* The tasks on the vector of circular buffers (sys_queue.c) do what       *)
(* JobQueue promises, for any number of queues of any length: every item   *)
(* comes out once and in the order of its queue's kind, through wrap       *)
(* around, full and empty queues, duplicate and unknown names and the      *)
(* cleanup at the end of simulation, and every call answers with the       *)
(* status that the queues call for.  $q_exam answers with the lengths, and *)
(* has a time statistic exactly when the history of the queue has one;     *)
(* whether that time fits and what it is the theorem leaves open.          *)
(***************************************************************************)
THEOREM QueuesImplement == SysQueueAssumption => (Spec => Abstract!Spec)
<1> SUFFICES ASSUME SysQueueAssumption
             PROVE  Spec => Abstract!Spec
  OBVIOUS
<1>1. Init => Vector(base) /\ Abstract!Init
  BY NoQueues, Mapped DEF Init, Abstract!Init
<1>2. Vector(base) /\ [Next]_vars => Vector(base)' /\ [Abstract!Next]_(Abstract!vars)
  BY EveryStep
<1> QED BY <1>1, <1>2, PTL DEF Spec, Abstract!Spec

=============================================================================
