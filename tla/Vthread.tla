------------------------------ MODULE Vthread -------------------------------
(***************************************************************************)
(* The life of vvp threads (vvp/vthread.cc): %fork, %join, %join/detach,   *)
(* %end, %disable, %disable/fork, %wait, %wait/fork, %delay, %event, the   *)
(* zombies they leave and the places that refer to a thread: its parent,   *)
(* its scope, the wait list of an event, the event queue, the list that    *)
(* vthread_run works through.                                              *)
(*                                                                         *)
(* A thread executes the statements of an arbitrary program, in the code   *)
(* that tgt-vvp emits for them: a fork statement is n %fork, then the      *)
(* %join instructions and at most one %join/detach.  Of the event queue    *)
(* the model keeps the order of the active region; a thread in a %delay    *)
(* resumes at some point when nothing is active.  Functions (%callf),      *)
(* automatic contexts and values are left out.                             *)
(*                                                                         *)
(* A failed assert() of the code is the end of the run, with aborted set.  *)
(* A thread object is never reused, so that a reference to a deleted one   *)
(* can be seen.                                                            *)
(***************************************************************************)
EXTENDS Integers, Sequences, FiniteSets

CONSTANTS Threads,          \* the thread objects that may ever exist (bound)
          Initial,          \* the initial and always threads of the design
          None,             \* the null pointer
          Blocks, Tasks,    \* the named blocks and the tasks of the design
          Module,           \* the scope that holds them
          Outer,            \* the scope in which each named block is written
          Events,           \* named events
          MaxFork,          \* bound: branches of a fork statement
          Features          \* constructs the program uses, of the two below

ASSUME ThreadAssumption == /\ None \notin Threads /\ Initial \subseteq Threads
                           /\ IsFiniteSet(Threads)
ASSUME ScopeAssumption == /\ Module \notin Blocks \cup Tasks
                          /\ Blocks \cap Tasks = {}
                          /\ Outer \in [Blocks -> Blocks \cup Tasks \cup {Module}]
ASSUME ForkAssumption == MaxFork \in Nat /\ Features \subseteq
  {"disable_detached",    \* %disable of the scope of a detached thread
   "detach_in_task"}      \* join_any or join_none of an unnamed fork in a task

Scopes == Blocks \cup Tasks \cup {Module}

VARIABLES
  thr,        \* the thread objects
  active,     \* the active region: lists of threads linked by wait_next
  sleeping,   \* threads that are in a %delay
  waiters,    \* the wait list of each event
  running,    \* the thread that vthread_run executes, or None
  rest,       \* the threads that vthread_run has yet to execute
  dis,        \* the %disable or %disable/fork in progress
  aborted     \* an assert() has failed

vars == <<thr, active, sleeping, waiters, running, rest, dis, aborted>>

-----------------------------------------------------------------------------
(* Threads.                                                                *)

\* The opcodes of a fork statement that are still to come.  jmp is the %jmp
\* between the %fork and the %join of a named block.
NoCode == [forks |-> 0, scope |-> Module, jmp |-> FALSE, joins |-> 0, detach |-> 0]

\* vthread_new.  code, kids and joined are about the fork statement that the
\* thread executes: the opcodes still to come and, as ghosts, the threads it
\* has created and the number of %join it has executed.
NewThread(s) ==
  [status |-> "live", parent |-> None, scope |-> s, in_scope |-> TRUE,
   children |-> {}, detached_children |-> {}, task_func_children |-> {},
   i_am_joining |-> FALSE, i_am_detached |-> FALSE, i_am_waiting |-> FALSE,
   i_have_ended |-> FALSE, waiting_for_event |-> FALSE, is_scheduled |-> FALSE,
   code |-> NoCode, kids |-> {}, joined |-> 0]

Unborn == [NewThread(Module) EXCEPT !.status = "unborn", !.in_scope = FALSE]

\* A %disable: the activations of do_disable, the thread of the last one to
\* return when its caller is going to reap it, and whether it was the running one.
NoDisable == [on |-> FALSE, fork |-> FALSE, scope |-> Module, stack |-> <<>>,
              ret |-> None, self |-> FALSE]

\* scope->threads
InScope(T, s) == {t \in Threads : T[t].in_scope /\ T[t].scope = s}

\* The set of the parent that the thread is in.
Siblings(T, t) == IF T[t].i_am_detached THEN T[T[t].parent].detached_children
                  ELSE T[T[t].parent].children

\* A mutant: a thread on the wait list of an event is deleted.
ReapWaiting(T, t) ==
  LET R == [T EXCEPT ![t].parent = None, ![t].in_scope = FALSE,
                     ![t].status = IF T[t].is_scheduled THEN "reaped" ELSE "deleted"]
      p == T[t].parent
  IN [u \in Threads |->
        CASE u \in T[t].detached_children ->
               [R[u] EXCEPT !.parent = None, !.i_am_detached = FALSE]
          [] u = p -> [R[u] EXCEPT !.children = @ \ {t},
                                   !.detached_children = @ \ {t}]
          [] OTHER -> R[u]]

\* vthread_reap: the thread leaves its family and its scope and, unless the
\* event queue or an event refers to it, is deleted.
Reap(T, t) ==
  LET unused == ~T[t].is_scheduled /\ ~T[t].waiting_for_event
      gone == [T[t] EXCEPT !.parent = None, !.in_scope = FALSE,
                           !.status = IF unused THEN "deleted" ELSE "reaped"]
  IN [u \in Threads |->
        CASE u = t -> gone
          [] u \in T[t].children -> [T[u] EXCEPT !.parent = T[t].parent]
          [] u \in T[t].detached_children ->
               [T[u] EXCEPT !.parent = None, !.i_am_detached = FALSE]
          [] u = T[t].parent ->
               IF T[t].i_am_detached
               THEN [T[u] EXCEPT !.detached_children = @ \ {t}]
               ELSE [T[u] EXCEPT !.children = @ \ {t}]
          [] OTHER -> T[u]]

\* The assertions of vthread_reap.
Reapable(T, t) ==
  /\ T[t].parent # None => t \in Siblings(T, t)
  /\ ~T[t].is_scheduled /\ ~T[t].waiting_for_event => T[t].children = {}
  /\ \A u \in T[t].children \cup T[t].detached_children : T[u].parent = t
  /\ \A u \in T[t].detached_children : T[u].i_am_detached

\* test_joinable: while a task runs, it is the one to join.
Joinable(T, p, t) ==
  T[p].task_func_children = {} \/ t \in T[p].task_func_children

\* do_join, without the contexts.
DoJoin(T, p, t) ==
  Reap([T EXCEPT ![p].task_func_children = @ \ {t}], t)

\* schedule_vthread marks the thread; each caller asserts that it was not.
Scheduled(T, t) == [T EXCEPT ![t].is_scheduled = TRUE]
PushFront(t) == <<<<t>>>> \o active

\* Every order of a set of threads, each one an entry of the active region.
Orders(S) ==
  {[i \in DOMAIN f |-> <<f[i]>>] :
     f \in {g \in [1..Cardinality(S) -> S] : \A t \in S : \E i \in DOMAIN g : g[i] = t}}

Init ==
  /\ thr = [t \in Threads |->
              IF t \in Initial
              THEN [NewThread(Module) EXCEPT !.is_scheduled = TRUE]
              ELSE Unborn]
  /\ active \in Orders(Initial)
  /\ sleeping = {} /\ waiters = [e \in Events |-> <<>>]
  /\ running = None /\ rest = <<>>
  /\ dis = NoDisable /\ aborted = FALSE

-----------------------------------------------------------------------------
(* vthread_run.                                                            *)

Idle == running = None /\ ~dis.on /\ ~aborted

\* The event queue hands the next list of threads to vthread_run.
Dispatch ==
  /\ Idle /\ rest = <<>> /\ active # <<>>
  /\ rest' = Head(active) /\ active' = Tail(active)
  /\ UNCHANGED <<thr, sleeping, waiters, running, dis, aborted>>

\* The next thread of the list resumes.
Resume ==
  /\ Idle /\ rest # <<>>
  /\ LET t == Head(rest) IN
       /\ ~thr[t].i_have_ended
       /\ thr' = [thr EXCEPT ![t].is_scheduled = FALSE]
       /\ running' = t
       /\ aborted' = ~thr[t].is_scheduled
  /\ rest' = Tail(rest)
  /\ UNCHANGED <<active, sleeping, waiters, dis>>

\* A mutant: of_ZOMBIE does not delete the thread.
ZombieKept ==
  /\ Idle /\ rest # <<>> /\ thr[Head(rest)].i_have_ended
  /\ thr' = [thr EXCEPT ![Head(rest)].is_scheduled = FALSE]
  /\ rest' = Tail(rest)
  /\ UNCHANGED <<active, sleeping, waiters, running, dis, aborted>>

\* of_ZOMBIE: a thread that has ended resumes to be deleted, unless a parent
\* will reap it.
Zombie ==
  /\ Idle /\ rest # <<>>
  /\ LET t == Head(rest) IN
       /\ thr[t].i_have_ended
       /\ thr' = [thr EXCEPT ![t].is_scheduled = FALSE,
                             ![t].status =
                                 IF thr[t].parent = None /\ thr[t].children = {}
                                 THEN "deleted" ELSE @]
       /\ aborted' = ~thr[t].is_scheduled
  /\ rest' = Tail(rest)
  /\ UNCHANGED <<active, sleeping, waiters, running, dis>>

\* The delays of some threads are over.
Elapse ==
  /\ Idle /\ rest = <<>> /\ active = <<>>
  /\ \E S \in SUBSET sleeping \ {{}} :
       sleeping' = sleeping \ S /\ active' \in Orders(S)
  /\ UNCHANGED <<thr, waiters, running, rest, dis, aborted>>

\* Thread t executes an opcode.
Runs(t) == running = t /\ ~dis.on /\ ~aborted

\* It is between two statements.
AtStatement(t) ==
  /\ Runs(t)
  /\ thr[t].code.forks = 0 /\ thr[t].code.joins = 0 /\ thr[t].code.detach = 0

-----------------------------------------------------------------------------
(* fork ... join, join_any and join_none, named blocks and task calls.     *)

\* The code of a statement that creates n threads in scope s and continues
\* when j of them have ended.  A named fork of one branch is taken for a named
\* block.
BeginFork(t, s, n, j) ==
  /\ AtStatement(t)
  /\ s \in Blocks \cup Tasks \cup {thr[t].scope}
  /\ s \in Blocks /\ s # thr[t].scope => Outer[s] = thr[t].scope
  /\ s \in Tasks /\ s # thr[t].scope => n = 1 /\ j = 1
  /\ j \in {0, 1, n}
  /\ s \in Tasks /\ j < n => "detach_in_task" \in Features
  /\ Cardinality({u \in Threads : thr[u].status = "unborn"}) >= n
  /\ thr' = [thr EXCEPT ![t].code = [forks |-> n, scope |-> s, joins |-> j, detach |-> n - j,
                                     jmp |-> s \in Blocks \ {thr[t].scope}
                                             /\ n = 1 /\ j = 1],
                        ![t].kids = {}, ![t].joined = 0]
  /\ UNCHANGED <<active, sleeping, waiters, running, rest, dis, aborted>>

Fork(t) ==
  /\ Runs(t) /\ thr[t].code.forks > 0
  /\ \E u \in Threads :
       /\ thr[u].status = "unborn"
       /\ thr' = [thr EXCEPT
            ![u] = [NewThread(thr[t].code.scope) EXCEPT !.parent = t,
                                                        !.is_scheduled = TRUE],
            ![t] = [thr[t] EXCEPT
                      !.children = @ \cup {u},
                      !.task_func_children =
                          IF thr[t].code.scope \in Tasks THEN @ \cup {u} ELSE @,
                      !.code.forks = @ - 1,
                      !.kids = @ \cup {u}]]
       /\ active' = PushFront(u)
  /\ UNCHANGED <<sleeping, waiters, running, rest, dis, aborted>>

\* A mutant: %join takes a child that has not ended.
JoinAnyChild(t) ==
  /\ Runs(t) /\ thr[t].code.forks = 0 /\ thr[t].code.joins > 0
  /\ \E u \in thr[t].children :
       /\ Joinable(thr, t, u)
       /\ thr' = [DoJoin(thr, t, u) EXCEPT ![t].code.joins = @ - 1,
                                           ![t].joined = @ + 1]
       /\ aborted' = (thr[t].i_am_joining \/ ~Reapable(thr, u))
  /\ UNCHANGED <<active, sleeping, waiters, running, rest, dis>>

\* %join when a child has ended already: the oldest in the order of the set.
JoinZombie(t) ==
  /\ Runs(t) /\ thr[t].code.forks = 0 /\ thr[t].code.joins > 0
  /\ \E u \in thr[t].children :
       /\ thr[u].i_have_ended /\ Joinable(thr, t, u)
       /\ thr' = [DoJoin(thr, t, u) EXCEPT ![t].code.joins = @ - 1,
                                           ![t].code.jmp = FALSE,
                                           ![t].joined = @ + 1]
       /\ aborted' = (thr[t].i_am_joining \/ ~Reapable(thr, u))
  /\ UNCHANGED <<active, sleeping, waiters, running, rest, dis>>

\* %join otherwise: the thread sleeps until a child wakes it up.
JoinWait(t) ==
  /\ Runs(t) /\ thr[t].code.forks = 0 /\ thr[t].code.joins > 0
  /\ \A u \in thr[t].children : ~(thr[u].i_have_ended /\ Joinable(thr, t, u))
  /\ thr' = [thr EXCEPT ![t].i_am_joining = TRUE, ![t].code.joins = @ - 1,
                        ![t].code.jmp = FALSE, ![t].joined = @ + 1]
  /\ aborted' = (thr[t].i_am_joining \/ thr[t].children = {})
  /\ running' = None
  /\ UNCHANGED <<active, sleeping, waiters, rest, dis>>

\* %join/detach: children that have ended are reaped, the others detached.
JoinDetach(t) ==
  /\ Runs(t)
  /\ thr[t].code.forks = 0 /\ thr[t].code.joins = 0 /\ thr[t].code.detach > 0
  /\ LET dead == {u \in thr[t].children : thr[u].i_have_ended}
         alive == thr[t].children \ dead
         unused(u) == ~thr[u].is_scheduled /\ ~thr[u].waiting_for_event
     IN
       /\ thr' = [u \in Threads |->
            CASE u = t -> [thr[t] EXCEPT !.children = {},
                                         !.detached_children = @ \cup alive,
                                         !.code.detach = 0]
              [] u \in dead ->
                   [thr[u] EXCEPT !.parent = None, !.in_scope = FALSE,
                                  !.status = IF unused(u) THEN "deleted"
                                             ELSE "reaped"]
              [] u \in alive -> [thr[u] EXCEPT !.i_am_detached = TRUE]
              [] \E d \in dead : u \in thr[d].detached_children ->
                   [thr[u] EXCEPT !.parent = None, !.i_am_detached = FALSE]
              [] OTHER -> thr[u]]
       /\ aborted' = ~(/\ thr[t].task_func_children = {}
                       /\ Cardinality(thr[t].children) = thr[t].code.detach
                       /\ \A u \in dead : Reapable(thr, u))
  /\ UNCHANGED <<active, sleeping, waiters, running, rest, dis>>

\* What %end leaves of the thread's own detached children.
Released(T, t) ==
  [u \in Threads |->
     CASE u = t -> [T[t] EXCEPT !.i_have_ended = TRUE, !.detached_children = {}]
       [] u \in T[t].detached_children ->
            [T[u] EXCEPT !.parent = None, !.i_am_detached = FALSE]
       [] OTHER -> T[u]]

EndAsserts(t) ==
  /\ ~thr[t].waiting_for_event /\ thr[t].children = {}
  /\ \A u \in thr[t].detached_children : thr[u].parent = t /\ thr[u].i_am_detached

\* %end of a child that its parent is waiting for in a %join.
EndJoined(t) ==
  /\ AtStatement(t)
  /\ LET p == thr[t].parent IN
       /\ p # None /\ ~thr[t].i_am_detached
       /\ thr[p].i_am_joining /\ Joinable(thr, p, t)
       /\ thr' = DoJoin([Scheduled(Released(thr, t), p)
                           EXCEPT ![p].i_am_joining = FALSE], p, t)
       /\ active' = PushFront(p)
       /\ aborted' = ~(EndAsserts(t) /\ ~thr[p].is_scheduled
                       /\ Reapable(Released(thr, t), t))
  /\ running' = None
  /\ UNCHANGED <<sleeping, waiters, rest, dis>>

\* %end of a child whose parent is elsewhere, or waits for a task: a zombie.
EndZombie(t) ==
  /\ AtStatement(t)
  /\ LET p == thr[t].parent IN
       /\ p # None /\ ~thr[t].i_am_detached
       /\ ~(thr[p].i_am_joining /\ Joinable(thr, p, t))
  /\ thr' = Released(thr, t)
  /\ aborted' = ~EndAsserts(t)
  /\ running' = None
  /\ UNCHANGED <<active, sleeping, waiters, rest, dis>>

\* A mutant: the last detached child does not wake the parent up.
EndDetachedSilent(t) ==
  /\ AtStatement(t) /\ thr[t].i_am_detached
  /\ thr' = Reap(Released(thr, t), t)
  /\ running' = None
  /\ UNCHANGED <<active, sleeping, waiters, rest, dis, aborted>>

\* %end of a detached child: the last one wakes up a %wait/fork.
EndDetached(t) ==
  /\ AtStatement(t) /\ thr[t].i_am_detached
  /\ LET p == thr[t].parent
         T == [Released(thr, t) EXCEPT ![p].detached_children = @ \ {t},
                                       ![t].i_am_detached = FALSE,
                                       ![t].parent = None]
         wake == thr[p].i_am_waiting /\ T[p].detached_children = {}
         W == IF wake THEN [Scheduled(T, p) EXCEPT ![p].i_am_waiting = FALSE]
              ELSE T
     IN
       /\ thr' = Reap(W, t)
       /\ active' = IF wake THEN PushFront(p) ELSE active
       /\ aborted' = ~(/\ EndAsserts(t) /\ t \in thr[p].detached_children
                       /\ wake => ~thr[p].is_scheduled
                       /\ Reapable(W, t))
  /\ running' = None
  /\ UNCHANGED <<sleeping, waiters, rest, dis>>

\* %end of a thread that has no parent.
EndAlone(t) ==
  /\ AtStatement(t) /\ thr[t].parent = None
  /\ thr' = Reap(Released(thr, t), t)
  /\ aborted' = ~(EndAsserts(t) /\ Reapable(Released(thr, t), t))
  /\ running' = None
  /\ UNCHANGED <<active, sleeping, waiters, rest, dis>>

-----------------------------------------------------------------------------
(* Suspension: %delay, %wait, %event, %wait/fork and the %jmp of a stop.   *)

Delay(t) ==
  /\ AtStatement(t)
  /\ sleeping' = sleeping \cup {t}
  /\ thr' = Scheduled(thr, t)
  /\ aborted' = thr[t].is_scheduled
  /\ running' = None
  /\ UNCHANGED <<active, waiters, rest, dis>>

\* A %jmp when the simulation has been stopped: that of a loop, or the one
\* between the %fork and the %join of a named block.
Yield(t) ==
  /\ Runs(t)
  /\ AtStatement(t) \/ (thr[t].code.forks = 0 /\ thr[t].code.jmp)
  /\ active' = Append(active, <<t>>)
  /\ thr' = [Scheduled(thr, t) EXCEPT ![t].code.jmp = FALSE]
  /\ aborted' = thr[t].is_scheduled
  /\ running' = None
  /\ UNCHANGED <<sleeping, waiters, rest, dis>>

Wait(t, e) ==
  /\ AtStatement(t)
  /\ waiters' = [waiters EXCEPT ![e] = <<t>> \o @]
  /\ thr' = [thr EXCEPT ![t].waiting_for_event = TRUE]
  /\ aborted' = thr[t].waiting_for_event
  /\ running' = None
  /\ UNCHANGED <<active, sleeping, rest, dis>>

\* run_waiting_threads_ and vthread_schedule_list: the whole list is one entry
\* of the active region.
Trigger(t, e) ==
  /\ AtStatement(t) /\ waiters[e] # <<>>
  /\ LET woken == {waiters[e][i] : i \in DOMAIN waiters[e]} IN
       /\ thr' = [u \in Threads |->
            IF u \in woken THEN [thr[u] EXCEPT !.waiting_for_event = FALSE,
                                               !.is_scheduled = TRUE]
            ELSE thr[u]]
       /\ aborted' = ~(\A u \in woken : thr[u].waiting_for_event
                                        /\ ~thr[u].is_scheduled)
  /\ active' = Append(active, waiters[e])
  /\ waiters' = [waiters EXCEPT ![e] = <<>>]
  /\ UNCHANGED <<sleeping, running, rest, dis>>

\* %wait/fork goes on at once when there is no detached child.
WaitFork(t) ==
  /\ AtStatement(t) /\ thr[t].detached_children # {}
  /\ thr' = [thr EXCEPT ![t].i_am_waiting = TRUE]
  /\ aborted' = ~(/\ ~thr[t].i_am_joining /\ ~thr[t].i_am_waiting
                  /\ thr[t].children = {})
  /\ running' = None
  /\ UNCHANGED <<active, sleeping, waiters, rest, dis>>

-----------------------------------------------------------------------------
(* %disable and %disable/fork, one activation of do_disable at a time.     *)

\* The first lines of do_disable.
Off(T, t) == [T EXCEPT ![t].in_scope = FALSE, ![t].i_have_ended = TRUE]

Top == dis.stack[Len(dis.stack)]

\* What is still to be disabled.
Targets == IF dis.fork THEN thr[running].detached_children
           ELSE InScope(thr, dis.scope)

Disable(t, s) ==
  /\ AtStatement(t) /\ s \in Blocks \cup Tasks
  /\ \/ "disable_detached" \in Features
     \/ \A u \in InScope(thr, s) : ~thr[u].i_am_detached
  /\ dis' = [NoDisable EXCEPT !.on = TRUE, !.scope = s]
  /\ UNCHANGED <<thr, active, sleeping, waiters, running, rest, aborted>>

DisableFork(t) ==
  /\ AtStatement(t)
  /\ dis' = [NoDisable EXCEPT !.on = TRUE, !.fork = TRUE]
  /\ aborted' = ~(~thr[t].i_am_joining /\ thr[t].children = {})
  /\ UNCHANGED <<thr, active, sleeping, waiters, running, rest>>

\* The loops of of_DISABLE and of_DISABLE_FORK call do_disable.
DisableNext ==
  /\ dis.on /\ dis.stack = <<>> /\ dis.ret = None /\ ~aborted
  /\ \E u \in Targets :
       /\ thr' = Off(thr, u)
       /\ dis' = [dis EXCEPT !.stack = <<u>>, !.self = @ \/ u = running]
  /\ UNCHANGED <<active, sleeping, waiters, running, rest, aborted>>

Activation == dis.on /\ dis.stack # <<>> /\ dis.ret = None /\ ~aborted

\* do_disable calls itself for a child.
DisableChild ==
  /\ Activation
  /\ \E u \in thr[Top].children :
       /\ thr' = Off([thr EXCEPT ![Top].i_am_joining = FALSE], u)
       /\ dis' = [dis EXCEPT !.stack = Append(@, u), !.self = @ \/ u = running]
       /\ aborted' = (thr[u].parent # Top)
  /\ UNCHANGED <<active, sleeping, waiters, running, rest>>

\* The activation returns: to do_disable or of_DISABLE_FORK, which reap the
\* thread, or to of_DISABLE, which does not.
Returned ==
  [dis EXCEPT !.stack = SubSeq(@, 1, Len(@) - 1),
              !.ret = IF dis.fork \/ Len(dis.stack) > 1 THEN Top ELSE None]

\* The children are gone: a parent in a %join is woken up and joins the thread,
\* any other parent finds it later, and without a parent it is reaped.
DisableWake ==
  /\ Activation /\ thr[Top].children = {}
  /\ LET p == thr[Top].parent IN
       /\ p # None
       /\ thr[p].i_am_joining /\ Joinable(thr, p, Top)
       /\ LET T == [thr EXCEPT ![p].i_am_joining = FALSE]
              W == IF T[p].i_have_ended THEN T ELSE Scheduled(T, p)
          IN thr' = DoJoin(W, p, Top)
       /\ active' = IF thr[p].i_have_ended THEN active ELSE PushFront(p)
       /\ aborted' = ~(/\ ~thr[p].i_have_ended => ~thr[p].is_scheduled
                       /\ Reapable(thr, Top))
  /\ dis' = Returned
  /\ UNCHANGED <<sleeping, waiters, running, rest>>

DisableLeave ==
  /\ Activation /\ thr[Top].children = {}
  /\ LET p == thr[Top].parent IN
       /\ p # None
       /\ ~(thr[p].i_am_joining /\ Joinable(thr, p, Top))
  /\ dis' = Returned
  /\ UNCHANGED <<thr, active, sleeping, waiters, running, rest, aborted>>

DisableAlone ==
  /\ Activation /\ thr[Top].children = {}
  /\ thr[Top].parent = None
  /\ thr' = Reap(thr, Top)
  /\ aborted' = ~Reapable(thr, Top)
  /\ dis' = Returned
  /\ UNCHANGED <<active, sleeping, waiters, running, rest>>

\* The caller reaps the thread.  of_DISABLE_FORK asserts that it is another one.
DisableReap ==
  /\ dis.on /\ dis.ret # None /\ ~aborted
  /\ thr' = Reap(thr, dis.ret)
  /\ aborted' = (~Reapable(thr, dis.ret) \/ (dis.fork /\ dis.self))
  /\ dis' = [dis EXCEPT !.ret = None]
  /\ UNCHANGED <<active, sleeping, waiters, running, rest>>

\* The opcode is done; a thread that has disabled itself does not go on.
DisableDone ==
  /\ dis.on /\ ~aborted
  /\ dis.stack = <<>> /\ dis.ret = None /\ Targets = {}
  /\ dis' = NoDisable
  /\ running' = IF dis.self THEN None ELSE running
  /\ UNCHANGED <<thr, active, sleeping, waiters, rest, aborted>>

-----------------------------------------------------------------------------

Opcode(t) ==
  \/ \E s \in Scopes, n \in 1..MaxFork, j \in 0..MaxFork : BeginFork(t, s, n, j)
  \/ Fork(t) \/ JoinZombie(t) \/ JoinWait(t) \/ JoinDetach(t)
  \/ EndJoined(t) \/ EndZombie(t) \/ EndDetached(t) \/ EndAlone(t)
  \/ Delay(t) \/ Yield(t) \/ WaitFork(t)
  \/ \E e \in Events : Wait(t, e) \/ Trigger(t, e)
  \/ \E s \in Scopes : Disable(t, s)
  \/ DisableFork(t)

Disabling ==
  \/ DisableNext \/ DisableChild \/ DisableReap \/ DisableWake \/ DisableLeave
  \/ DisableAlone \/ DisableDone

Next ==
  \/ Dispatch \/ Resume \/ Zombie \/ Elapse
  \/ \E t \in Threads : Opcode(t)
  \/ Disabling

Spec == Init /\ [][Next]_vars

-----------------------------------------------------------------------------
(* Properties.                                                             *)

Live(t) == thr[t].status = "live"

\* The places of t in a family of lists of threads.
Places(A, t) ==
  UNION {{<<i, j>> : j \in {k \in DOMAIN A[i] : A[i][k] = t}} : i \in DOMAIN A}

\* The entries of the event queue and of vthread_run's list that hold t.
Entries(t) ==
  Places(active, t) \cup {<<0, j>> : j \in {k \in DOMAIN rest : rest[k] = t}}
  \cup {<<-1, 0>> : u \in sleeping \cap {t}}

\* The places of t on the wait lists.
Waits(t) == Places(waiters, t)

\* The opcodes of a fork statement.
CodeType ==
  [forks : 0..MaxFork, scope : Scopes, jmp : BOOLEAN,
   joins : 0..MaxFork, detach : 0..MaxFork]

ThreadType ==
  [status : {"unborn", "live", "reaped", "deleted"}, parent : Threads \cup {None},
   scope : Scopes, in_scope : BOOLEAN, children : SUBSET Threads,
   detached_children : SUBSET Threads, task_func_children : SUBSET Threads,
   i_am_joining : BOOLEAN, i_am_detached : BOOLEAN, i_am_waiting : BOOLEAN,
   i_have_ended : BOOLEAN, waiting_for_event : BOOLEAN, is_scheduled : BOOLEAN,
   code : CodeType, kids : SUBSET Threads, joined : 0..MaxFork]

\* The type of the state.
TypeOK ==
  /\ thr \in [Threads -> ThreadType]
  /\ active \in Seq(Seq(Threads)) /\ rest \in Seq(Threads)
  /\ sleeping \subseteq Threads /\ waiters \in [Events -> Seq(Threads)]
  /\ running \in Threads \cup {None}
  /\ dis \in [on : BOOLEAN, fork : BOOLEAN, scope : Scopes,
              stack : Seq(Threads), ret : Threads \cup {None}, self : BOOLEAN]
  /\ aborted \in BOOLEAN

\* None of the assert() of the thread opcodes, of vthread_run, vthread_reap and
\* vthread_mark_scheduled ever fails.
NoAbort == ~aborted

\* The family tree is consistent: a thread and its parent agree on who is a
\* child and who is a detached child, through every fork, join, end, disable.
Family ==
  ~aborted =>
  \A t \in Threads : Live(t) =>
    /\ \A u \in thr[t].children : thr[u].parent = t /\ ~thr[u].i_am_detached
    /\ \A u \in thr[t].detached_children :
         thr[u].parent = t /\ thr[u].i_am_detached
    /\ thr[t].parent # None => t \in Siblings(thr, t)
    /\ thr[t].i_am_detached => thr[t].parent # None

\* A thread that has been reaped is not referred to by its family, its scope or
\* vthread_run; and once deleted, by no event and no entry of the event queue.
NoDangling ==
  ~aborted =>
  \A t \in Threads : ~Live(t) =>
    /\ \A u \in Threads : Live(u) =>
         /\ thr[u].parent # t
         /\ t \notin thr[u].children \cup thr[u].detached_children
         /\ t \in thr[u].task_func_children => thr[u].i_have_ended
    /\ ~thr[t].in_scope
    /\ running = t => dis.on
    /\ dis.ret # t /\ \A i \in DOMAIN dis.stack : dis.stack[i] # t
    /\ thr[t].status = "deleted" => Entries(t) = {} /\ Waits(t) = {}

\* The flags that vthread_reap trusts when it deletes a thread are right:
\* is_scheduled says that one entry of the queue refers to the thread, and
\* waiting_for_event that one wait list does; and it is never both.
FlagsExact ==
  ~aborted =>
  \A t \in Threads :
    /\ Cardinality(Entries(t)) = IF thr[t].is_scheduled THEN 1 ELSE 0
    /\ Cardinality(Waits(t)) = IF thr[t].waiting_for_event THEN 1 ELSE 0
    /\ ~(thr[t].is_scheduled /\ thr[t].waiting_for_event)

\* Something is going to resume t: the queue, an event, or the end of a child
\* that its %join or %wait/fork waits for.
WillResume(t) ==
  \/ thr[t].is_scheduled \/ thr[t].waiting_for_event
  \/ /\ thr[t].i_am_joining
     /\ \E u \in thr[t].children : ~thr[u].i_have_ended /\ Joinable(thr, t, u)
  \/ /\ thr[t].i_am_waiting
     /\ \E u \in thr[t].detached_children : ~thr[u].i_have_ended

\* No wake-up is lost: between two opcodes every thread that has not ended and
\* is not running is going to be resumed, whichever of its children end or are
\* disabled, in whichever order.
NoLostWakeup ==
  ~dis.on /\ ~aborted =>
  \A t \in Threads :
    Live(t) /\ ~thr[t].i_have_ended /\ t # running => WillResume(t)

\* A %join is not passed early: a thread that is past n %join of a fork
\* statement sees n of the threads of that statement ended.
JoinWaits ==
  ~aborted =>
  \A t \in Threads :
    Live(t) /\ ~thr[t].i_have_ended /\ ~thr[t].i_am_joining =>
    Cardinality({u \in thr[t].kids : thr[u].i_have_ended}) >= thr[t].joined

\* A thread that has ended is deleted in the end: while its object is still
\* there, a parent that has not ended is going to reap it, or it has been reaped
\* and is going to pass through of_ZOMBIE.
NoLeak ==
  ~dis.on /\ ~aborted =>
  \A t \in Threads :
    /\ Live(t) /\ thr[t].i_have_ended =>
         /\ thr[t].parent # None /\ ~thr[thr[t].parent].i_have_ended
         /\ t \in thr[thr[t].parent].children
    /\ thr[t].status = "reaped" => thr[t].is_scheduled \/ thr[t].waiting_for_event

\* "The last detached child is responsible for restarting the parent when it
\* finishes": what opcodes.txt says of %wait/fork.
WaitForkEnds ==
  ~dis.on /\ ~aborted =>
  \A t \in Threads :
    Live(t) /\ thr[t].i_am_waiting /\ ~thr[t].i_have_ended =>
    \E u \in thr[t].detached_children : ~thr[u].i_have_ended

-----------------------------------------------------------------------------
(* The inductive invariant behind Family, NoLostWakeup and NoLeak, in      *)
(* programs that disable no scope of a detached thread.                    *)

\* The threads that do_disable is at work on.
Stacked(t) == \E i \in DOMAIN dis.stack : dis.stack[i] = t

\* The opcodes of a fork statement never exceed the bound.
Counted == \A t \in Threads : thr[t].joined + thr[t].code.joins <= MaxFork

\* A thread that has been reaped has ended, has left its family and its scope,
\* and is referred to as long as it is not deleted; a parent is alive.
Departed ==
  \A t \in Threads :
    /\ ~Live(t) => thr[t].parent = None /\ thr[t].children = {} /\ ~thr[t].in_scope
    /\ thr[t].status \in {"reaped", "deleted"} => thr[t].i_have_ended
    /\ thr[t].status = "reaped" => thr[t].is_scheduled \/ thr[t].waiting_for_event
    /\ thr[t].parent # None => Live(thr[t].parent)

\* What the queue, the events and vthread_run refer to has been created.
Born == {t \in Threads : thr[t].status # "unborn"}

Referred ==
  /\ active \in Seq(Seq(Born)) /\ rest \in Seq(Born) /\ sleeping \subseteq Born
  /\ waiters \in [Events -> Seq(Born)] /\ running \in Born \cup {None}

\* No thread is its own ancestor: in every set of threads there is one whose
\* parent is not in it.
Rooted ==
  \A S \in SUBSET Threads : S # {} => \E t \in S : thr[t].parent \notin S

\* A thread that has ended has no children, unless do_disable is about to
\* disable them, and is left to its parent.
Ended ==
  \A t \in Threads : thr[t].i_have_ended =>
    /\ Stacked(t) \/ thr[t].children = {}
    /\ Live(t) => \/ Stacked(t) \/ t = dis.ret
                  \/ thr[t].parent # None /\ ~thr[t].i_am_detached

\* The tasks that run are children.
TaskChildren ==
  \A t \in Threads :
    ~thr[t].i_have_ended => thr[t].task_func_children \subseteq thr[t].children

\* The activations of do_disable: each is for a child of the one below, the
\* first is for a detached child of the running thread (%disable/fork) or for a
\* thread of the scope, of which none is detached (%disable).
Disabled ==
  /\ ~dis.on => dis = NoDisable /\ (running # None => ~thr[running].i_have_ended)
  /\ dis.on =>
       /\ running # None
       /\ dis.self <=> thr[running].i_have_ended
       /\ dis.fork => ~thr[running].i_have_ended /\ ~thr[running].i_am_joining
       /\ ~dis.fork => \A u \in InScope(thr, dis.scope) : ~thr[u].i_am_detached
  /\ \A i \in DOMAIN dis.stack :
       /\ Live(dis.stack[i]) /\ thr[dis.stack[i]].i_have_ended
       /\ i > 1 => /\ thr[dis.stack[i]].parent = dis.stack[i - 1]
                   /\ ~thr[dis.stack[i]].i_am_detached
                   /\ ~thr[dis.stack[i - 1]].i_am_joining
       /\ i = 1 /\ dis.fork => /\ thr[dis.stack[i]].parent = running
                               /\ thr[dis.stack[i]].i_am_detached
       /\ i = 1 /\ ~dis.fork => ~thr[dis.stack[i]].i_am_detached
       /\ \A j \in DOMAIN dis.stack : i # j => dis.stack[i] # dis.stack[j]
       /\ dis.fork => dis.stack[i] # running
       /\ dis.stack[i] # dis.ret
  /\ dis.ret # None =>
       /\ Live(dis.ret) /\ thr[dis.ret].i_have_ended /\ thr[dis.ret].children = {}
       /\ dis.stack = <<>> => /\ dis.fork /\ thr[dis.ret].parent = running
                              /\ thr[dis.ret].i_am_detached
       /\ dis.stack # <<>> => /\ thr[dis.ret].parent = Top
                              /\ ~thr[dis.ret].i_am_detached
                              /\ ~thr[Top].i_am_joining

\* NoLostWakeup, with the parent that do_disable is going to wake up.
Woken ==
  \A t \in Threads :
    Live(t) /\ ~thr[t].i_have_ended /\ t # running =>
      \/ WillResume(t)
      \/ /\ dis.stack # <<>> /\ ~dis.fork
         /\ thr[dis.stack[1]].parent = t
         /\ thr[t].i_am_joining /\ Joinable(thr, t, dis.stack[1])

\* The families, and what do_disable and the sleepers know of them.
KinInv == Departed /\ Family /\ Referred /\ Rooted /\ Ended
          /\ TaskChildren /\ Disabled /\ Woken

\* It holds until an assert() fails, after which nothing happens any more.
Sound == TypeOK /\ Counted /\ KinInv

IInv == aborted \in BOOLEAN /\ (~aborted => Sound)

-----------------------------------------------------------------------------
(* What it takes, on top of Sound, for no assert() to fail and no %join to *)
(* be passed early.                                                        *)

\* Thread t is on one of the lists; no place of them holds the thread of another.
Holds(A, t) == \E i \in DOMAIN A : \E j \in DOMAIN A[i] : A[i][j] = t

Once(A) ==
  \A i, k \in DOMAIN A : \A j \in DOMAIN A[i], l \in DOMAIN A[k] :
    A[i][j] = A[k][l] => i = k /\ j = l

\* The flags of a thread say where it is, which is in one place at most.
Placed ==
  /\ Once(active) /\ Once(<<rest>>) /\ Once(waiters)
  /\ \A t \in Threads :
       /\ thr[t].is_scheduled <=> Holds(active, t) \/ Holds(<<rest>>, t) \/ t \in sleeping
       /\ thr[t].waiting_for_event <=> Holds(waiters, t)
       /\ ~(Holds(active, t) /\ Holds(<<rest>>, t))
       /\ t \in sleeping => ~Holds(active, t) /\ ~Holds(<<rest>>, t)

\* A thread is suspended for one reason at a time, and for none while it runs;
\* one that is not there yet, or no longer, is not suspended at all.
Suspended(t) ==
  /\ ~(thr[t].is_scheduled /\ thr[t].waiting_for_event)
  /\ thr[t].i_am_joining \/ thr[t].i_am_waiting \/ t = running =>
       ~thr[t].is_scheduled /\ ~thr[t].waiting_for_event
  /\ ~(thr[t].i_am_joining /\ thr[t].i_am_waiting)
  /\ t = running => ~thr[t].i_am_joining /\ ~thr[t].i_am_waiting
  /\ thr[t].status \in {"unborn", "deleted"} =>
       ~thr[t].is_scheduled /\ ~thr[t].waiting_for_event
  /\ thr[t].status = "unborn" => ~thr[t].i_have_ended

\* The children of a thread are what the opcodes of its fork statement expect,
\* and each %join it is past has taken one that has ended; a %join/detach meets
\* no task.
Statement(t) ==
  LET c == thr[t].code
      wait == IF thr[t].i_am_joining THEN 1 ELSE 0
      gone == {u \in thr[t].kids \ thr[t].children : thr[u].i_have_ended}
  IN /\ Cardinality(thr[t].children) + c.forks = c.joins + c.detach + wait
     /\ thr[t].children \subseteq thr[t].kids
     /\ thr[t].joined <= Cardinality(gone) + wait
     /\ "detach_in_task" \notin Features =>
          /\ c.scope \in Tasks => c.detach = 0
          /\ c.detach > 0 => thr[t].task_func_children = {}

Exact ==
  /\ Placed
  /\ \A t \in Threads :
       Suspended(t) /\ (Live(t) /\ ~thr[t].i_have_ended => Statement(t))

\* The objects of the threads are sound through every fork, join, end, disable:
\* no assertion fails, families agree, nothing refers to a freed thread, and the
\* flags that decide about freeing one are right.  Sound and Exact, the inductive
\* invariant, are part of it in a program that disables no scope of a detached
\* thread.
ThreadsSound ==
  TypeOK /\ NoAbort /\ Family /\ NoDangling /\ FlagsExact /\ Sound /\ Exact

-----------------------------------------------------------------------------
(* Small designs for TLC.                                                  *)

LOCAL INSTANCE TLC

\* Every named block is written in the module.
MCOuter == [b \in Blocks |-> Module]

\* Thread objects are told apart only by being an initial thread or not.
ThreadSymmetry == Permutations(Initial) \cup Permutations(Threads \ Initial)

\* Bound: as long as threads wait for events, all but one of the objects suffice.
Small ==
  (\E e \in Events : waiters[e] # <<>>) => \E t \in Threads : thr[t].status = "unborn"

=============================================================================
