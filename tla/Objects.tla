------------------------------ MODULE Objects ------------------------------
(***************************************************************************)
(* The objects of SystemVerilog in the simulator: dynamic arrays, queues   *)
(* and class instances, the counted references to them, and the opcodes    *)
(* that move references between variables, properties and the object stack *)
(* of a thread (vvp_object.h, vvp_darray.cc, class_type.cc, vthread.cc),   *)
(* run in the sequences that the code generator draws for the statements   *)
(* about them (eval_object.c, stmt_assign.c).  A statement does not yield, *)
(* so that the statements of several threads follow one another.           *)
(*                                                                         *)
(* A class has two properties of object type: a class handle (next) and a  *)
(* dynamic array (items).  Words of arrays and queues are values of Val;   *)
(* the words of real and string arrays take the same paths.                *)
(***************************************************************************)
EXTENDS Integers, Sequences, FiniteSets, SequencesExt

CONSTANTS
  Arrays, Handles,    \* variables: dynamic arrays, class handles
  VecQueues, StrQueues, \* variables: queues of vectors, queues of strings
  Val,                \* values of a word
  MaxObj,             \* number of objects alive at a time
  MaxLen,             \* length of an array or queue
  AdrBits,            \* width of the unsigned address of a word
  Index,              \* values that an index expression takes, Unknown included
  Careful,            \* TRUE: programs use no nil array, nil handle or empty queue
  Fronts,             \* kinds of queue that programs push to the front of
  Views               \* TRUE: a VPI client looks at the words of the arrays

Unknown == -99        \* an index with x or z bits
Unwritten == "x"      \* a word that was never written
nil == 0
Obj == 1..MaxObj
Queues == VecQueues \union StrQueues
Vars == Arrays \union Handles \union Queues

ConstantsOK == MaxObj > 0 /\ MaxLen > 0 /\ Unwritten \notin Val

VARIABLES
  heap,     \* object -> its type, reference count and words
  var,      \* value_ of each variable
  stack,    \* the object stack of the thread
  strings,  \* its string stack
  code,     \* the opcodes of the statement that are left
  got,      \* the value that the last load or pop pushed
  fail,     \* what ended the simulator, "" while it runs
  views,    \* number of vals_words that were made for an array, -1: none
  past,     \* TRUE: a word handle behind the end of vals_words was used
  abs,      \* ghost: queue -> what the statements say it holds
  note      \* ghost: what the last statement has to produce

vars == <<heap, var, stack, strings, code, got, fail, views, past, abs, note>>

Free == [type |-> "free", cnt |-> 0, words |-> <<>>]
FreeObjs == {o \in Obj : heap[o].type = "free"}
Refs(r) == IF r.type = "cobject" THEN r.words ELSE <<>>

Init ==
  /\ heap = [o \in Obj |-> Free]
  /\ var = [v \in Vars |-> nil]
  /\ stack = <<>> /\ strings = <<>> /\ code = <<>>
  /\ got = Unwritten /\ fail = ""
  /\ views = [a \in Arrays |-> -1] /\ past = FALSE
  /\ abs = [q \in Queues |-> <<>>]
  /\ note = [kind |-> "none"]

(***************************************************************************)
(* Counted references.                                                     *)
(***************************************************************************)

(* A reference to r is made. *)
Retain(h, r) == IF r = nil THEN h ELSE [h EXCEPT ![r].cnt = @ + 1]

(* A reference to r goes away: with the last one the object is destroyed,   *)
(* and with it the references that its properties hold.                    *)
RECURSIVE Release(_, _)
Release(h, r) ==
  IF r = nil THEN h
  ELSE LET less == [h EXCEPT ![r].cnt = @ - 1] IN
       IF less[r].cnt > 0 THEN less
       ELSE [FoldLeft(Release, less, Refs(h[r])) EXCEPT ![r] = Free]

(* A reference changes from old to tgt; the new one is counted first. *)
Reset(h, old, tgt) == Release(Retain(h, tgt), old)

(* An object with the words w, for the reference that the caller keeps. *)
Make(h, o, type, w) == [h EXCEPT ![o] = [type |-> type, cnt |-> 1, words |-> w]]
NewObj == CHOOSE o \in FreeObjs : \A p \in FreeObjs : o <= p

Top == stack[Len(stack)]
Under == stack[Len(stack) - 1]

(***************************************************************************)
(* The opcodes.                                                            *)
(***************************************************************************)

Op(name) == [op |-> name]
OpV(name, v) == [op |-> name, v |-> v]
OpVI(name, v, i) == [op |-> name, v |-> v, i |-> i]
OpVIX(name, v, i, x) == [op |-> name, v |-> v, i |-> i, x |-> x]

At(name) == fail = "" /\ code # <<>> /\ Head(code).op = name
Arg == Head(code)

Fails(why) ==
  /\ fail' = why
  /\ code' = <<>>
  /\ UNCHANGED <<heap, var, stack, strings, got, views, past, abs, note>>

Moves(h, s) ==
  /\ heap' = h
  /\ stack' = s
  /\ code' = Tail(code)
  /\ UNCHANGED <<var, strings, got, fail, views, past, abs, note>>

of_NEW_DARRAY ==
  /\ At("new/darray")
  /\ Moves(Make(heap, NewObj, "darray", [i \in 1..Arg.i |-> Unwritten]), Append(stack, NewObj))

of_NEW_COBJ ==
  /\ At("new/cobj")
  /\ Moves(Make(heap, NewObj, "cobject", <<nil, nil>>), Append(stack, NewObj))

of_NULL == At("null") /\ Moves(heap, Append(stack, nil))

of_LOAD_OBJ ==
  /\ At("load/obj")
  /\ Moves(Retain(heap, var[Arg.v]), Append(stack, var[Arg.v]))

recv_object_Move(v, val) ==
  IF var[v] = val THEN heap ELSE Release(heap, var[v])

(* The value received by a variable (recv_object) when the stack's own     *)
(* reference to val has become that of a local of the opcode.              *)
recv_object(v, val) ==
  Release(IF var[v] = val THEN heap ELSE Reset(heap, var[v], val), val)

of_STORE_OBJ ==
  /\ At("store/obj")
  /\ heap' = recv_object(Arg.v, Top)
  /\ var' = [var EXCEPT ![Arg.v] = Top]
  /\ stack' = Front(stack)
  /\ code' = Tail(code)
  /\ UNCHANGED <<strings, got, fail, views, past, abs, note>>

of_DELETE_OBJ ==
  /\ At("delete/obj")
  /\ heap' = Reset(heap, var[Arg.v], nil)
  /\ var' = [var EXCEPT ![Arg.v] = nil]
  /\ code' = Tail(code)
  /\ UNCHANGED <<stack, strings, got, fail, views, past, abs, note>>

(* shallow_copy of an array: the words that both have. *)
CopyWords(to, from) ==
  [i \in 1..Len(to) |-> IF i <= Len(from) THEN from[i] ELSE to[i]]

(* An object property j of object o is assigned r. *)
Assigned(h, o, j, r) == [Reset(h, h[o].words[j], r) EXCEPT ![o].words[j] = r]

(* shallow_copy of a class instance, property by property. *)
CopyProps(h, to, from) ==
  FoldLeft(LAMBDA acc, j : Assigned(acc, to, j, h[from].words[j]), h, <<1, 2>>)

of_SCOPY ==
  /\ At("scopy")
  /\ IF Top = nil \/ Under = nil THEN Fails("scopy")
     ELSE Moves(Release(IF heap[Under].type = "cobject" THEN CopyProps(heap, Under, Top)
                        ELSE [heap EXCEPT ![Under].words = CopyWords(@, heap[Top].words)], Top),
                Front(stack))

PropOf == IF Arg.v = "next" THEN 1 ELSE 2

of_PROP_OBJ ==
  /\ At("prop/obj")
  /\ IF Top = nil THEN Fails("prop/obj")
     ELSE LET r == heap[Top].words[PropOf] IN Moves(Retain(heap, r), Append(stack, r))

of_STORE_PROP_OBJ ==
  /\ At("store/prop/obj")
  /\ IF Under = nil THEN Fails("store/prop/obj")
     ELSE Moves(Release(Assigned(heap, Under, PropOf, Top), Top), Front(stack))

(* %pop/obj cnt, skip, with cnt = 1 and skip 0 or 1. *)
Popped(cnt, skip) ==
  [h |-> Release(heap, stack[Len(stack) - skip]), s |-> RemoveAt(stack, Len(stack) - skip)]

of_POP_OBJ == At("pop/obj") /\ LET p == Popped(1, Arg.i) IN Moves(p.h, p.s)

(* The address of a word: index register 3, 0 when the index is unknown,    *)
(* cut to the width of the parameter adr.                                  *)
Adr(i) == IF i = Unknown THEN 0 ELSE i % 2^AdrBits

set_word(h, o, i, x) ==
  IF Adr(i) >= Len(h[o].words) THEN h ELSE [h EXCEPT ![o].words[Adr(i) + 1] = x]

get_word(h, o, i) ==
  IF Adr(i) >= Len(h[o].words) THEN Unwritten ELSE h[o].words[Adr(i) + 1]

of_STORE_DAR ==
  /\ At("store/dar")
  /\ IF var[Arg.v] = nil THEN Fails("store/dar")
     ELSE Moves(set_word(heap, var[Arg.v], Arg.i, Arg.x), stack)

of_LOAD_DAR ==
  /\ At("load/dar")
  /\ IF var[Arg.v] = nil THEN Fails("load/dar")
     ELSE /\ got' = get_word(heap, var[Arg.v], Arg.i)
          /\ code' = Tail(code)
          /\ UNCHANGED <<heap, var, stack, strings, fail, views, past, abs, note>>

(* The queue of a variable, allocated when the variable is nil: the heap    *)
(* and the object.                                                         *)
get_queue_object(q) ==
  IF var[q] # nil THEN [h |-> heap, o |-> var[q]]
  ELSE [h |-> Make(heap, NewObj, "queue", <<>>), o |-> NewObj]

Queued(q, h, o) ==
  /\ heap' = h
  /\ var' = [var EXCEPT ![q] = o]
  /\ code' = Tail(code)
  /\ UNCHANGED <<stack, fail, views, past, abs, note>>

of_STORE_QB ==
  /\ At("store/qb")
  /\ LET g == get_queue_object(Arg.v) IN
       Queued(Arg.v, [g.h EXCEPT ![g.o].words = Append(@, Arg.x)], g.o)
  /\ UNCHANGED <<strings, got>>

PushFront(q, x) == LET g == get_queue_object(q) IN [g.h EXCEPT ![g.o].words = <<x>> \o @]

of_STORE_QF_V ==
  /\ At("store/qf/v")
  /\ Queued(Arg.v, PushFront(Arg.v, Arg.x), get_queue_object(Arg.v).o)
  /\ UNCHANGED <<strings, got>>

(* %store/qf/str writes a message; the string stays on its stack. *)
of_STORE_QF_STR ==
  /\ At("store/qf/str")
  /\ strings' = Append(strings, Arg.x)
  /\ code' = Tail(code)
  /\ UNCHANGED <<heap, var, stack, got, fail, views, past, abs, note>>

PopBack(w) == [value |-> w[Len(w)], rest |-> Front(w)]
PopFront(w) == [value |-> Head(w), rest |-> Tail(w)]

(* The four pops: three check the size, that of a string from the front     *)
(* pops a list that is empty.                                              *)
of_QPOP(op, P(_)) ==
  /\ At(op)
  /\ LET g == get_queue_object(Arg.v)
         w == g.h[g.o].words IN
       IF w = <<>> THEN Fails(op)
       ELSE /\ Queued(Arg.v, [g.h EXCEPT ![g.o].words = P(w).rest], g.o)
            /\ got' = P(w).value
            /\ UNCHANGED strings

of_QPOP_B == of_QPOP("qpop/b", PopBack)
of_QPOP_F == of_QPOP("qpop/f", PopFront)

(***************************************************************************)
(* Statements: the opcodes that the code generator draws.                  *)
(***************************************************************************)

eval_darray_new(n) == <<OpVI("new/darray", "", n)>>
eval_object_signal(v) == <<OpV("load/obj", v)>>
eval_object_property(c, p) ==
  <<OpV("load/obj", c), OpV("prop/obj", p), OpVI("pop/obj", "", 1)>>

Extends(o) == IF o = nil THEN TRUE ELSE Len(heap[o].words) < MaxLen
Usable(v) == ~Careful \/ var[v] # nil

ArrayExpr ==
  {eval_darray_new(n) : n \in 1..MaxLen}
    \union {eval_object_signal(b) : b \in Arrays}
    \union {eval_object_property(c, "items") : c \in {c \in Handles : Usable(c)}}

HandleExpr ==
  {<<Op("new/cobj")>>, <<Op("null")>>}
    \union {eval_object_signal(c) : c \in Handles}
    \union {eval_object_property(c, "next") : c \in {c \in Handles : Usable(c)}}
    \union {<<Op("new/cobj"), OpV("load/obj", c), Op("scopy")>> : c \in {c \in Handles : Usable(c)}}

Allocates(e) == \E i \in 1..Len(e) : e[i].op \in {"new/darray", "new/cobj"}

Begin(c) ==
  /\ fail = "" /\ code = <<>> /\ strings = <<>>
  /\ code' = c
  /\ got' = Unwritten
  /\ UNCHANGED <<heap, var, stack, strings, fail, views, past>>

Plain(c) == Begin(c) /\ note' = [kind |-> "none"] /\ UNCHANGED abs

show_stmt_assign_sig_darray(a, e) ==
  /\ Allocates(e) => FreeObjs # {}
  /\ Plain(e \o <<OpV("store/obj", a)>>)

(* a = new[n](b) *)
AssignResized(a, b, n) ==
  /\ FreeObjs # {} /\ Usable(b)
  /\ Begin(eval_darray_new(n) \o eval_object_signal(b) \o <<Op("scopy"), OpV("store/obj", a)>>)
  /\ note' = [kind |-> "resize", v |-> a, n |-> n,
              from |-> IF var[b] = nil THEN <<>> ELSE heap[var[b]].words]
  /\ UNCHANGED abs

AssignWord(a, i, x) ==
  /\ Usable(a)
  /\ Begin(<<OpVIX("store/dar", a, i, x)>>)
  /\ note' = [kind |-> "word", v |-> a, i |-> i, x |-> x,
              from |-> IF var[a] = nil THEN <<>> ELSE heap[var[a]].words]
  /\ UNCHANGED abs

ReadWord(a, i) ==
  /\ Usable(a)
  /\ Begin(<<OpVI("load/dar", a, i)>>)
  /\ note' = [kind |-> "read", i |-> i,
              from |-> IF var[a] = nil THEN <<>> ELSE heap[var[a]].words]
  /\ UNCHANGED abs

show_stmt_assign_sig_cobject(c, e) ==
  /\ Allocates(e) => FreeObjs # {}
  /\ Plain(e \o <<OpV("store/obj", c)>>)

AssignProperty(c, p, e) ==
  /\ Usable(c)
  /\ Allocates(e) => FreeObjs # {}
  /\ Plain(eval_object_signal(c) \o e \o <<OpV("store/prop/obj", p), OpVI("pop/obj", "", 0)>>)

show_delete_method(v) ==
  /\ Begin(<<OpV("delete/obj", v)>>)
  /\ note' = [kind |-> "none"]
  /\ abs' = IF v \in Queues THEN [abs EXCEPT ![v] = <<>>] ELSE abs

show_push_frontback_method(q, front, x) ==
  /\ var[q] = nil => FreeObjs # {}
  /\ Extends(var[q])
  /\ Begin(<<OpVIX(CASE ~front -> "store/qb"
                     [] front /\ q \in VecQueues -> "store/qf/v"
                     [] OTHER -> "store/qf/str", q, 0, x)>>)
  /\ note' = [kind |-> "none"]
  /\ abs' = [abs EXCEPT ![q] = IF front THEN <<x>> \o @ ELSE Append(@, x)]

draw_darray_pop(q, op) ==
  /\ var[q] = nil => FreeObjs # {}
  /\ Careful => abs[q] # <<>>
  /\ Begin(<<OpV(op, q)>>)
  /\ LET w == abs[q]
         k == IF op = "qpop/b" THEN Len(w) ELSE 1 IN
       /\ note' = [kind |-> "pop", x |-> IF w = <<>> THEN Unwritten ELSE w[k]]
       /\ abs' = [abs EXCEPT ![q] = IF w = <<>> THEN w ELSE RemoveAt(w, k)]

(* vpi_handle_by_index on an array: the records of its words are made once. *)
vpi_index(a, i) ==
  LET size == IF var[a] = nil THEN 0 ELSE Len(heap[var[a]].words)
      made == IF views[a] < 0 THEN size ELSE views[a] IN
    /\ Views /\ fail = "" /\ code = <<>>
    /\ i < size
    /\ views' = [views EXCEPT ![a] = made]
    /\ past' = (past \/ i >= made)
    /\ UNCHANGED <<heap, var, stack, strings, code, got, fail, abs, note>>

Statement ==
  \/ \E a \in Arrays, e \in ArrayExpr : show_stmt_assign_sig_darray(a, e)
  \/ \E a, b \in Arrays, n \in 1..MaxLen : AssignResized(a, b, n)
  \/ \E a \in Arrays, i \in Index, x \in Val : AssignWord(a, i, x)
  \/ \E a \in Arrays, i \in Index : ReadWord(a, i)
  \/ \E c \in Handles, e \in HandleExpr : show_stmt_assign_sig_cobject(c, e)
  \/ \E c \in Handles, e \in HandleExpr : AssignProperty(c, "next", e)
  \/ \E c \in Handles, e \in ArrayExpr : AssignProperty(c, "items", e)
  \/ \E v \in Arrays \union Queues : show_delete_method(v)
  \/ \E q \in Queues, front \in BOOLEAN, x \in Val :
       /\ front => (q \in StrQueues) \in Fronts
       /\ show_push_frontback_method(q, front, x)
  \/ \E q \in Queues, op \in {"qpop/b", "qpop/f"} : draw_darray_pop(q, op)
  \/ \E a \in Arrays, i \in 0..MaxLen - 1 : vpi_index(a, i)

Next ==
  \/ Statement
  \/ of_NEW_DARRAY \/ of_NEW_COBJ \/ of_NULL
  \/ of_LOAD_OBJ \/ of_STORE_OBJ \/ of_DELETE_OBJ
  \/ of_SCOPY \/ of_PROP_OBJ \/ of_STORE_PROP_OBJ \/ of_POP_OBJ
  \/ of_STORE_DAR \/ of_LOAD_DAR
  \/ of_STORE_QB \/ of_STORE_QF_V \/ of_STORE_QF_STR
  \/ of_QPOP_B \/ of_QPOP_F

Spec == Init /\ [][Next]_vars

(***************************************************************************)
(* Properties.                                                             *)
(***************************************************************************)

Live == {o \in Obj : heap[o].type # "free"}

Occurrences(s, o) == Cardinality({i \in 1..Len(s) : s[i] = o})

RECURSIVE Total(_, _)
Total(S, o) ==
  IF S = {} THEN 0
  ELSE LET p == CHOOSE p \in S : TRUE IN Occurrences(Refs(heap[p]), o) + Total(S \ {p}, o)

(* The count of every object is the number of references to it from the    *)
(* variables, the stack and the properties of live objects, between any    *)
(* two opcodes: neither an early deletion nor a lost object (reset,        *)
(* pop_object and shallow_copy move references in several steps).          *)
RefExact ==
  \A o \in Obj :
    heap[o].cnt = Cardinality({v \in Vars : var[v] = o}) + Occurrences(stack, o) + Total(Live, o)

Pointing(o) == {p \in Live : \E i \in 1..Len(Refs(heap[p])) : Refs(heap[p])[i] = o}

(* What can be reached from a set of objects through properties. *)
RECURSIVE Reach(_)
Reach(S) ==
  LET more == S \union {o \in Live : Pointing(o) \cap S # {}} IN IF more = S THEN S ELSE Reach(more)

Held == {o \in Live : (\E v \in Vars : var[v] = o) \/ Occurrences(stack, o) > 0}
OnCycle(o) == o \in Reach({p \in Live : o \in Pointing(p)})

(* An object that no variable reaches is still there only because class    *)
(* instances that refer to one another in a circle hold it: reference      *)
(* counts free everything else at once (reset, instance_delete).           *)
OnlyCyclesStay ==
  \A o \in Live \ Reach(Held) : \E p \in Live \ Reach(Held) : OnCycle(p) /\ o \in Reach({p})

(* Between statements the queues hold what the pushes, pops and deletes    *)
(* say, the value of a pop is the right one, and the stacks are empty      *)
(* (get_queue_object, push and pop of both ends).                          *)
QueueExact ==
  (code = <<>> /\ fail = "") =>
    /\ \A q \in Queues : abs[q] = (IF var[q] = nil THEN <<>> ELSE heap[var[q]].words)
    /\ note.kind = "pop" => got = note.x
    /\ stack = <<>> /\ strings = <<>>

(* a = new[n](b) leaves a new array in a, that nothing else refers to, with *)
(* the first words of what b was and the others unwritten, also when b is a *)
(* itself and the old array goes away.                                     *)
ResizeExact ==
  (code = <<>> /\ fail = "" /\ note.kind = "resize") =>
    LET o == var[note.v] IN
      /\ Cardinality({v \in Vars : var[v] = o}) = 1 /\ Total(Live, o) = 0
      /\ Len(heap[o].words) = note.n
      /\ \A i \in 1..note.n :
           heap[o].words[i] = IF i <= Len(note.from) THEN note.from[i] ELSE Unwritten

(* "This makes garbage collection automatic" (vvp_object.h): an object that *)
(* nothing reaches is gone.                                                *)
NoGarbage == Live = Reach(Held)

(* The assertions about nil arrays, nil handles and empty queues hold. *)
NoAbort == fail = ""

(* A word is written and read at the index that the program gives, and an  *)
(* index with unknown bits, or beyond the array, has no word.              *)
IndexMeant ==
  (code = <<>> /\ fail = "") =>
    /\ note.kind = "word" =>
         heap[var[note.v]].words =
           [i \in 1..Len(note.from) |-> IF i - 1 = note.i THEN note.x ELSE note.from[i]]
    /\ note.kind = "read" =>
         got = IF note.i \in 0..Len(note.from) - 1 THEN note.from[note.i + 1] ELSE Unwritten

(* A handle of a word of an array is one of the records made for it. *)
WordHandles == ~past
============================================================================
