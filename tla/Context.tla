------------------------------ MODULE Context ------------------------------
(***************************************************************************)
(* Contexts of automatic tasks and functions in vvp/vthread.cc.  A call    *)
(* allocates a context for the variables of the scope, and every access    *)
(* of a variable goes through the write or the read context of the running *)
(* thread.  Both are stacks, linked through a slot of the contexts, and    *)
(* the live and the free contexts of a scope are lists linked through      *)
(* another slot.                                                           *)
(*                                                                         *)
(* The threads run what the compiler emits for a call: %alloc, the copies  *)
(* of the arguments in, %fork and %join or %callf, the copies of the       *)
(* results out, %free.  calls[t] is the place of t in the calls it makes.  *)
(* Threads give way at delays and joins; a thread that is disabled is the  *)
(* subject of Vthread.                                                     *)
(***************************************************************************)
EXTENDS Integers, Sequences, SequencesExt, FiniteSets

CONSTANTS Tasks, Functions,   \* automatic scopes
          Threads,            \* 1 .. n, 1 runs an initial block of a static scope
          MaxContexts,        \* bound on the contexts of all scopes
          MaxCalls,           \* bound on the calls made
          Index,              \* results may be copied to words selected by automatic variables
          Detach              \* automatic scopes may contain fork ... join_none

ContextAssumption ==
    /\ Tasks \cap Functions = {}
    /\ Threads = 1 .. Cardinality(Threads) /\ Threads # {}
    /\ {MaxContexts, MaxCalls} \subseteq Nat
    /\ {Index, Detach} \subseteq BOOLEAN

Scopes == Tasks \cup Functions
Contexts == 1 .. MaxContexts
Null == 0

VARIABLES next, stacked,         \* the slots 0 and 1 of each context
          live_contexts,         \* first of each scope
          free_contexts,
          wt_context, rd_context,
          status,                \* of a thread: none, ready, joining, ended
          parent,
          in_function,
          running,               \* the running thread, 0 between two
          calls,                 \* [kind, ctx, scope, left], innermost last
          ncalls,
          access,                \* the last access of a variable: its context, and the one used
          aborted                \* an assertion has failed

lists == <<next, live_contexts, free_contexts>>
stacks == <<stacked, wt_context, rd_context>>
tree == <<status, parent, in_function>>
vars == <<lists, stacks, tree, running, calls, ncalls, access, aborted>>

Init ==
    /\ next = [c \in Contexts |-> Null] /\ stacked = next
    /\ live_contexts = [s \in Scopes |-> Null] /\ free_contexts = live_contexts
    /\ wt_context = [t \in Threads |-> Null] /\ rd_context = wt_context
    /\ status = [t \in Threads |-> IF t = 1 THEN "ready" ELSE "none"]
    /\ parent = [t \in Threads |-> Null]
    /\ in_function = [t \in Threads |-> FALSE]
    /\ running = 1
    /\ calls = [t \in Threads |-> <<>>]
    /\ ncalls = 0
    /\ access = <<Null, Null>>
    /\ aborted = FALSE

----------------------------------------------------------------------------
(* The place of a thread in its code *)
Runs(t) == running = t /\ ~aborted
Outside(t) == calls[t] = <<>>
At(t, kind) == calls[t] # <<>> /\ Last(calls[t]).kind = kind
Children(t) == {c \in Threads : parent[c] = t /\ status[c] # "none"}
NewThread == CHOOSE c \in Threads : status[c] = "none"

(* The context a thread was started with, which has its own variables. *)
RECURSIVE Own(_)
Own(t) ==
    LET p == parent[t]
    IN  IF p = Null THEN Null
        ELSE IF Last(calls[p]).kind = "block" THEN Own(p) ELSE Last(calls[p]).ctx

----------------------------------------------------------------------------
(* Contexts *)
Used == {c \in Contexts : \E t \in Threads, i \in 1 .. MaxCalls :
             i <= Len(calls[t]) /\ calls[t][i].ctx = c}

RECURSIVE Walk(_, _)
Walk(c, n) == IF c = Null \/ n = 0 THEN <<>> ELSE <<c>> \o Walk(next[c], n - 1)
Listed(head) == Walk(head, MaxContexts + 1)

Fresh == {c \in Contexts : \A s \in Scopes :
             c \notin ToSet(Listed(live_contexts[s])) \cup ToSet(Listed(free_contexts[s]))}

Least(S) == CHOOSE c \in S : \A d \in S : c <= d

vthread_alloc_context(s, c) ==
    /\ IF free_contexts[s] # Null
       THEN /\ c = free_contexts[s]
            /\ free_contexts' = [free_contexts EXCEPT ![s] = next[c]]
       ELSE /\ Fresh # {} /\ c = Least(Fresh)
            /\ UNCHANGED free_contexts
    /\ next' = [next EXCEPT ![c] = live_contexts[s]]
    /\ live_contexts' = [live_contexts EXCEPT ![s] = c]

vthread_free_context(c, s) ==
    /\ IF c = live_contexts[s]
       THEN /\ live_contexts' = [live_contexts EXCEPT ![s] = next[c]]
            /\ next' = [next EXCEPT ![c] = free_contexts[s]]
       ELSE LET before == CHOOSE d \in ToSet(Listed(live_contexts[s])) : next[d] = c
            IN  /\ next' = [next EXCEPT ![before] = next[c], ![c] = free_contexts[s]]
                /\ UNCHANGED live_contexts
    /\ free_contexts' = [free_contexts EXCEPT ![s] = c]

----------------------------------------------------------------------------
(* %alloc.  A function is called from a statement, while the arguments of
   another call are evaluated, or to select the word a result goes to. *)
Selecting(t) == Index /\ At(t, "out") /\ Last(calls[t]).scope \in Tasks

Callable(t) ==
    IF Outside(t) THEN IF in_function[t] THEN Functions ELSE Scopes
    ELSE IF At(t, "args") \/ Selecting(t) THEN Functions ELSE {}

of_ALLOC(t) ==
    /\ Runs(t) /\ ncalls < MaxCalls
    /\ \E s \in Callable(t), c \in Contexts :
          /\ vthread_alloc_context(s, c)
          /\ stacked' = [stacked EXCEPT ![c] = wt_context[t]]
          /\ wt_context' = [wt_context EXCEPT ![t] = c]
          /\ calls' = [calls EXCEPT ![t] = Append(@, [kind |-> "args", ctx |-> c, scope |-> s, left |-> 0])]
    /\ ncalls' = ncalls + 1
    /\ UNCHANGED <<rd_context, tree, running, access, aborted>>

Start(t, kids, function) ==
    /\ wt_context' = [c \in Threads |-> IF c \in kids THEN wt_context[t] ELSE wt_context[c]]
    /\ rd_context' = [c \in Threads |-> IF c \in kids THEN wt_context[t] ELSE rd_context[c]]
    /\ parent' = [c \in Threads |-> IF c \in kids THEN t ELSE parent[c]]
    /\ in_function' = [c \in Threads |-> IF c \in kids THEN function ELSE in_function[c]]

(* %fork and %join of a task, whose thread has not run when the join looks;
   %callf, which runs the thread of the function at once. *)
Call(t) ==
    /\ Runs(t) /\ At(t, "args")
    /\ \E c \in Threads : status[c] = "none"
    /\ LET c == NewThread
           f == Last(calls[t]).scope \in Functions
       IN  /\ Start(t, {c}, f)
           /\ status' = [status EXCEPT ![c] = "ready", ![t] = "joining"]
           /\ running' = IF f THEN c ELSE Null
    /\ calls' = [calls EXCEPT ![t][Len(calls[t])].kind = "body"]
    /\ UNCHANGED <<lists, stacked, ncalls, access, aborted>>

(* The threads of a block share the contexts of the thread that runs it.  A
   function may only have a sequential block, whose thread runs at once. *)
Fork(t) ==
    /\ Runs(t) /\ Outside(t) /\ ncalls < MaxCalls
    /\ \E kids \in SUBSET {c \in Threads : status[c] = "none"} :
          /\ Cardinality(kids) \in IF in_function[t] THEN {1} ELSE {1, 2}
          /\ Start(t, kids, in_function[t])
          /\ status' = [c \in Threads |-> IF c \in kids THEN "ready" ELSE status[c]]
          /\ running' = IF in_function[t] THEN Least(kids) ELSE t
          /\ calls' = [calls EXCEPT ![t] = <<[kind |-> "block", ctx |-> Null, scope |-> Null,
                                              left |-> Cardinality(kids)]>>]
    /\ ncalls' = ncalls + 1
    /\ UNCHANGED <<lists, stacked, access, aborted>>

----------------------------------------------------------------------------
(* do_join: the context of a task or function goes from the write stack to the
   read stack of the thread that called it. *)
do_join_Always(t, c) ==
    LET ctx == wt_context[t]
    IN  IF wt_context[c] # Null
        THEN /\ wt_context' = [wt_context EXCEPT ![t] = stacked[ctx], ![c] = Null]
             /\ stacked' = [stacked EXCEPT ![ctx] = rd_context[t]]
             /\ rd_context' = [rd_context EXCEPT ![t] = ctx, ![c] = Null]
        ELSE /\ wt_context' = [wt_context EXCEPT ![c] = Null]
             /\ rd_context' = [rd_context EXCEPT ![c] = Null]
             /\ UNCHANGED stacked

do_join(t, c) ==
    LET ctx == wt_context[t]
    IN  IF wt_context[c] # Null /\ wt_context[t] # rd_context[t]
        THEN /\ wt_context' = [wt_context EXCEPT ![t] = stacked[ctx], ![c] = Null]
             /\ stacked' = [stacked EXCEPT ![ctx] = rd_context[t]]
             /\ rd_context' = [rd_context EXCEPT ![t] = ctx, ![c] = Null]
        ELSE /\ wt_context' = [wt_context EXCEPT ![c] = Null]
             /\ rd_context' = [rd_context EXCEPT ![c] = Null]
             /\ UNCHANGED stacked

Joined(t) ==
    LET last == Last(calls[t])
    IN  IF last.kind = "body" THEN [calls EXCEPT ![t][Len(calls[t])].kind = "out"]
        ELSE IF last.left = 1 THEN [calls EXCEPT ![t] = Front(@)]
        ELSE [calls EXCEPT ![t][Len(calls[t])].left = @ - 1]

(* %join of the threads of a block: one that has ended, or wait. *)
of_JOIN(t) ==
    /\ Runs(t) /\ At(t, "block")
    /\ LET ended == {c \in Children(t) : status[c] = "ended"}
       IN  IF ended = {}
           THEN /\ status' = [status EXCEPT ![t] = "joining"]
                /\ running' = Null
                /\ UNCHANGED <<stacks, calls, parent>>
           ELSE \E c \in ended :
                  /\ do_join(t, c)
                  /\ status' = [status EXCEPT ![c] = "none"]
                  /\ parent' = [parent EXCEPT ![c] = Null]
                  /\ calls' = Joined(t)
                  /\ UNCHANGED running
    /\ UNCHANGED <<lists, in_function, ncalls, access, aborted>>

(* %join/detach after fork ... join_none, with its assertion. *)
of_JOIN_DETACH(t) ==
    /\ Runs(t) /\ At(t, "block") /\ ~in_function[t]
    /\ Detach \/ Own(t) = Null
    /\ Cardinality(Children(t)) = Last(calls[t]).left
    /\ \A c \in Children(t) : status[c] = "ready"
    /\ aborted' = \E c \in Children(t) : wt_context[c] # Null /\ wt_context[c] = wt_context[t]
    /\ parent' = [c \in Threads |-> IF c \in Children(t) THEN Null ELSE parent[c]]
    /\ calls' = [calls EXCEPT ![t] = <<>>]
    /\ UNCHANGED <<lists, stacks, status, in_function, running, ncalls, access>>

of_END(t) ==
    /\ Runs(t) /\ Outside(t)
    /\ LET p == parent[t]
       IN  IF p # Null /\ status[p] = "joining"
           THEN /\ do_join(p, t)
                /\ status' = [status EXCEPT ![t] = "none", ![p] = "ready"]
                /\ parent' = [parent EXCEPT ![t] = Null]
                /\ calls' = Joined(p)
                /\ running' = IF in_function[t] THEN p ELSE Null
           ELSE /\ status' = [status EXCEPT ![t] = IF p = Null THEN "none" ELSE "ended"]
                /\ running' = IF in_function[t] THEN p ELSE Null
                /\ UNCHANGED <<stacks, parent, calls>>
    /\ UNCHANGED <<lists, in_function, ncalls, access, aborted>>

of_FREE(t) ==
    /\ Runs(t) /\ At(t, "out")
    /\ LET c == rd_context[t]
       IN  /\ rd_context' = [rd_context EXCEPT ![t] = stacked[c]]
           /\ vthread_free_context(c, Last(calls[t]).scope)
    /\ calls' = [calls EXCEPT ![t] = Front(@)]
    /\ UNCHANGED <<stacked, wt_context, tree, running, ncalls, access, aborted>>

(* A delay ends the turn of a thread, and the scheduler takes another. *)
Delay(t) ==
    /\ Runs(t) /\ Outside(t) /\ ~in_function[t]
    /\ running' = Null
    /\ UNCHANGED <<lists, stacks, tree, calls, ncalls, access, aborted>>

vthread_run(t) ==
    /\ running = Null /\ status[t] = "ready" /\ ~aborted
    /\ running' = t
    /\ UNCHANGED <<lists, stacks, tree, calls, ncalls, access, aborted>>

----------------------------------------------------------------------------
(* Accesses: a statement reads and writes the variables of its own scope; the
   copies in read those and write the ports of the callee; the copies out read
   the ports and write the own variables. *)
Reads(t) ==
    (IF (Outside(t) \/ At(t, "args") \/ Selecting(t)) THEN {Own(t)} ELSE {})
        \cup IF At(t, "out") THEN {Last(calls[t]).ctx} ELSE {}

(* A function called for an argument leaves its result on the stack: what the
   own variables are written from is a statement or the result of a task. *)
Writes(t) ==
    CASE At(t, "args") -> {Last(calls[t]).ctx}
      [] Outside(t) -> {Own(t)}
      [] At(t, "out") /\ Len(calls[t]) = 1 -> {Own(t)}
      [] OTHER -> {}

Access(t) ==
    /\ Runs(t)
    /\ \/ \E c \in Reads(t) \ {Null} : access' = <<c, rd_context[t]>>
       \/ \E c \in Writes(t) \ {Null} : access' = <<c, wt_context[t]>>
    /\ UNCHANGED <<lists, stacks, tree, running, calls, ncalls, aborted>>

Next ==
    \E t \in Threads :
        \/ of_ALLOC(t) \/ Call(t) \/ Fork(t) \/ of_JOIN(t) \/ of_JOIN_DETACH(t)
        \/ of_END(t) \/ of_FREE(t) \/ Delay(t) \/ vthread_run(t) \/ Access(t)

Spec == Init /\ [][Next]_vars

----------------------------------------------------------------------------
(* Properties *)

(* Every access of a variable of an automatic scope goes to the instance of the
   call it belongs to. *)
OwnInstance == access[1] = access[2]

(* A live context belongs to one call in progress, and every context of a call
   in progress is live: none is used after it is freed, none is lost. *)
Owners(c) == {<<t, i>> \in Threads \X (1 .. MaxCalls) : i <= Len(calls[t]) /\ calls[t][i].ctx = c}

LiveExact ==
    /\ \A s \in Scopes :
          ToSet(Listed(live_contexts[s])) =
              {c \in Used : \E t \in Threads, i \in 1 .. MaxCalls :
                   i <= Len(calls[t]) /\ calls[t][i].ctx = c /\ calls[t][i].scope = s}
    /\ \A c \in Contexts : Cardinality(Owners(c)) <= 1

(* The lists of all scopes hold no context twice, and so have an end. *)
ListsDisjoint ==
    LET total == FoldSet(LAMBDA s, n : n + Len(Listed(live_contexts[s])) + Len(Listed(free_contexts[s])),
                         0, Scopes)
        all == UNION {ToSet(Listed(live_contexts[s])) \cup ToSet(Listed(free_contexts[s])) : s \in Scopes}
    IN  total = Cardinality(all)

(* Once a thread has made all its calls its contexts are those it began with. *)
StacksRestored ==
    \A t \in Threads :
        status[t] \in {"ready", "ended"} /\ Outside(t) =>
            wt_context[t] = Own(t) /\ rd_context[t] = Own(t)

(* The assertion of %join/detach. *)
NoAbort == ~aborted
============================================================================
