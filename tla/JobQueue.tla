------------------------------ MODULE JobQueue ------------------------------
(***************************************************************************)
(* What the $q_ tasks promise: named queues of a fixed capacity, each      *)
(* first in first out or last in first out, whose items come out as the    *)
(* kind says, and a status for every call.  A queue also remembers what    *)
(* $q_exam needs to know of its past: the number of items ever added, the  *)
(* most it has held, and whether one has been removed.  The values of the  *)
(* time statistics are left open here.                                     *)
(***************************************************************************)
EXTENDS Integers, Sequences

CONSTANTS Ids, Jobs, Kinds, Lengths, Codes, X

VARIABLES queues,   \* partial function from Ids to queues
          reply     \* status and result of the last call

vars == <<queues, reply>>

Answer(op, status, value) == reply' = [op |-> op, status |-> status, value |-> value]

Empty(kind, length) ==
    [kind |-> kind, length |-> length, items |-> <<>>, adds |-> 0, most |-> 0,
     served |-> FALSE]

Full(q) == Len(q.items) = q.length

Init == queues = <<>> /\ reply = [op |-> "none", status |-> "none", value |-> X]

Initialize(id, kind, length) ==
    \/ /\ \/ id = X /\ Answer("initialize", "undefined_id", X)
          \/ id # X /\ kind \notin {"fifo", "lifo"} /\ Answer("initialize", "unsupported_type", X)
          \/ id # X /\ length <= 0 /\ Answer("initialize", "invalid_length", X)
          \/ id \in DOMAIN queues /\ Answer("initialize", "duplicate_id", X)
       /\ UNCHANGED queues
    \/ /\ id # X /\ id \notin DOMAIN queues /\ length > 0 /\ kind \in {"fifo", "lifo"}
       /\ queues' = [i \in DOMAIN queues \cup {id} |->
                        IF i = id THEN Empty(kind, length) ELSE queues[i]]
       /\ Answer("initialize", "ok", X)

Grown(q, job) ==
    [q EXCEPT !.items = Append(@, job),
              !.adds = @ + 1,
              !.most = IF Len(q.items) < @ THEN @ ELSE Len(q.items) + 1]

Add(id, job) ==
    \/ id \notin DOMAIN queues /\ Answer("add", "undefined_id", X) /\ UNCHANGED queues
    \/ id \in DOMAIN queues /\ Full(queues[id]) /\ Answer("add", "full", X) /\ UNCHANGED queues
    \/ /\ id \in DOMAIN queues /\ ~Full(queues[id])
       /\ queues' = [queues EXCEPT ![id] = Grown(@, job)]
       /\ Answer("add", "ok", X)

Out(q) == IF q.kind = "fifo" THEN 1 ELSE Len(q.items)

Shrunk(q) ==
    [q EXCEPT !.items = SubSeq(@, 1, Out(q) - 1) \o SubSeq(@, Out(q) + 1, Len(@)),
              !.served = TRUE]

Remove(id) ==
    \/ id \notin DOMAIN queues /\ Answer("remove", "undefined_id", X) /\ UNCHANGED queues
    \/ id \in DOMAIN queues /\ queues[id].items = <<>> /\ Answer("remove", "empty", X) /\ UNCHANGED queues
    \/ /\ id \in DOMAIN queues /\ queues[id].items # <<>>
       /\ queues' = [queues EXCEPT ![id] = Shrunk(@)]
       /\ Answer("remove", "ok", queues[id].items[Out(queues[id])])

IsFull(id) ==
    /\ \/ id \notin DOMAIN queues /\ Answer("full", "undefined_id", X)
       \/ id \in DOMAIN queues /\ Answer("full", "ok", IF Full(queues[id]) THEN 1 ELSE 0)
    /\ UNCHANGED queues

\* A queue has each statistic from some point of its life on.
HasStatistic(q, code) ==
    /\ code = "mean" => q.adds >= 2
    /\ code = "shortest" => q.served
    /\ code = "longest" => q.items # <<>>
    /\ code = "average" => q.adds >= 1

\* A length is exact; a time may be too big for the caller's variable.
Report(q, code) ==
    \/ code = "length" /\ Answer("exam", "ok", Len(q.items))
    \/ code = "max_length" /\ Answer("exam", "ok", q.most)
    \/ ~HasStatistic(q, code) /\ Answer("exam", "no_statistics", X)
    \/ /\ code \notin {"length", "max_length"} /\ HasStatistic(q, code)
       /\ reply'.op = "exam" /\ reply'.status \in {"ok", "value_overflowed"}

Exam(id, code) ==
    /\ \/ id \notin DOMAIN queues /\ Answer("exam", "undefined_id", X)
       \/ /\ id \in DOMAIN queues /\ code = X
          /\ Answer("exam", "undefined_stat_code", X)
       \/ id \in DOMAIN queues /\ code # X /\ Report(queues[id], code)
    /\ UNCHANGED queues

\* The end of the simulation frees all queues.
Cleanup == queues' = <<>> /\ UNCHANGED reply

Next ==
    \/ \E id \in Ids \cup {X}, k \in Kinds, n \in Lengths : Initialize(id, k, n)
    \/ \E id \in Ids \cup {X}, j \in Jobs : Add(id, j)
    \/ \E id \in Ids \cup {X} : Remove(id) \/ IsFull(id)
    \/ \E id \in Ids \cup {X}, c \in Codes \cup {X} : Exam(id, c)
    \/ Cleanup

Spec == Init /\ [][Next]_vars
=============================================================================
