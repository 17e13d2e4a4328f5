--------------------------- MODULE VthreadProofs ----------------------------
(***************************************************************************)
(* For any finite set of threads, any scopes, events and bounds, in every  *)
(* program that disables no scope of a detached thread.                    *)
(*                                                                         *)
(* First part: a thread and its parent agree on their relation             *)
(* (FamiliesAgree), no wake-up is lost (NoWakeupIsLost) and no thread      *)
(* object is leaked (NothingLeaks), until an assert() of the code fails.   *)
(* In this order: what vthread_reap and do_join do to a family; the        *)
(* opcodes that change no family; %end; %fork and %join/detach; %disable   *)
(* and %disable/fork, one activation of do_disable at a time; the          *)
(* invariant Sound and the theorems.  A lemma named Quiet... is about a    *)
(* step that changes no family, one named Kin... about a step that does.   *)
(*                                                                         *)
(* Second part: with Sound, Exact is inductive.  The flags of a thread are *)
(* the truth about the lists it is on, it is suspended for one reason at a *)
(* time, and its children are the ones that the opcodes of its fork        *)
(* statement are going to join or detach.  It follows that no assert() of  *)
(* the opcodes fails, that nothing refers to a freed thread and that no    *)
(* %join is passed early.  In this order: lists that hold no thread twice, *)
(* and what each kind of push, pop and merge does to them; one lemma per   *)
(* action of Vthread, named Exact...; the steps together; the theorems.    *)
(***************************************************************************)
EXTENDS Vthread, FiniteSetTheorems, SequenceTheorems, TLAPS

(* Families, in terms of what a step does to each thread.                  *)

\* The family of the thread is as it was; a thread that was reaped may be deleted.
Same(u) ==
  /\ \/ thr'[u].status = thr[u].status
     \/ thr[u].status = "reaped" /\ thr'[u].status = "deleted"
  /\ thr'[u].parent = thr[u].parent
  /\ thr'[u].scope = thr[u].scope /\ thr'[u].in_scope = thr[u].in_scope
  /\ thr'[u].children = thr[u].children
  /\ thr'[u].detached_children = thr[u].detached_children
  /\ thr'[u].task_func_children = thr[u].task_func_children
  /\ thr'[u].i_am_detached = thr[u].i_am_detached
  /\ thr'[u].i_have_ended = thr[u].i_have_ended

\* Thread t is reaped: it leaves its parent, and its detached children are alone.
Reaps(t) ==
  /\ thr'[t].status \in {"reaped", "deleted"} /\ thr'[t].i_have_ended
  /\ thr'[t].status = "reaped" => thr'[t].is_scheduled \/ thr'[t].waiting_for_event
  /\ thr'[t].parent = None /\ ~thr'[t].in_scope /\ thr'[t].children = {}
  /\ \A u \in Threads \ {t} :
       /\ thr'[u].status = thr[u].status /\ thr'[u].scope = thr[u].scope
       /\ thr'[u].in_scope = thr[u].in_scope
       /\ thr'[u].i_have_ended = thr[u].i_have_ended
       /\ thr'[u].waiting_for_event = thr[u].waiting_for_event
       /\ thr[u].is_scheduled => thr'[u].is_scheduled
       /\ IF u \in thr[t].detached_children
          THEN thr'[u].parent = None /\ ~thr'[u].i_am_detached
          ELSE thr'[u].parent = thr[u].parent
               /\ thr'[u].i_am_detached = thr[u].i_am_detached
       /\ u # thr[t].parent =>
            /\ thr'[u].children = thr[u].children
            /\ thr'[u].detached_children = thr[u].detached_children
            /\ thr'[u].task_func_children = thr[u].task_func_children
            /\ thr'[u].i_am_joining = thr[u].i_am_joining
            /\ thr'[u].i_am_waiting = thr[u].i_am_waiting
       /\ u = thr[t].parent =>
            /\ thr'[u].children = thr[u].children \ {t}
            /\ thr'[u].detached_children = thr[u].detached_children \ {t}
            /\ \/ thr'[u].task_func_children = thr[u].task_func_children \ {t}
               \/ /\ thr'[u].task_func_children = thr[u].task_func_children
                  /\ thr[t].i_am_detached \/ thr[u].i_have_ended

\* What do_disable is at work on does not change but for t.
Kept(t) ==
  /\ \A u \in Threads \ {t} : Stacked(u) => Stacked(u)'
  /\ dis.ret # None => dis.ret = t \/ dis'.ret = dis.ret

\* A step that gives no thread a new parent makes no cycle.
LEMMA RootedKeep ==
  ASSUME Rooted, ThreadAssumption,
         \A u \in Threads : thr'[u].parent = thr[u].parent \/ thr'[u].parent = None
  PROVE  Rooted'
  BY DEF Rooted, ThreadAssumption

\* A live thread, its parent and its children are different threads, all alive.
LEMMA Parents ==
  ASSUME TypeOK, ThreadAssumption, Departed, Family, Rooted, ~aborted,
         NEW t \in Threads, Live(t)
  PROVE  /\ thr[t].parent # t
         /\ \A u \in thr[t].children \cup thr[t].detached_children :
              u \in Threads /\ Live(u) /\ u # t /\ u # thr[t].parent
         /\ thr[t].parent # None => thr[t].parent \in Threads /\ Live(thr[t].parent)
         /\ thr[t].children \cap thr[t].detached_children = {}
<1>0. thr[t] \in ThreadType
  BY DEF TypeOK
<1>1. thr[t].parent # t
  <2>1. \E u \in {t} : thr[u].parent \notin {t}
    BY DEF Rooted
  <2> QED BY <2>1
<1>2. ASSUME NEW u \in thr[t].children \cup thr[t].detached_children
      PROVE  u \in Threads /\ Live(u) /\ u # t /\ u # thr[t].parent
  <2>1. u \in Threads /\ thr[u].parent = t
    BY <1>0 DEF Family, ThreadType
  <2>2. Live(u) /\ u # t
    BY <2>1, <1>1 DEF Departed, ThreadAssumption
  <2>3. \E w \in {t, u} : thr[w].parent \notin {t, u}
    BY <2>1 DEF Rooted
  <2> QED BY <2>1, <2>2, <2>3
<1>3. thr[t].parent # None => thr[t].parent \in Threads /\ Live(thr[t].parent)
  BY <1>0 DEF Departed, ThreadType
<1>4. thr[t].children \cap thr[t].detached_children = {}
  BY DEF Family
<1> QED BY <1>1, <1>2, <1>3, <1>4

\* A step that changes no family keeps what is said about families.
LEMMA SameKeeps ==
  ASSUME KinInv, ThreadAssumption, TypeOK, ~aborted, \A u \in Threads : Same(u),
         dis'.stack = dis.stack, dis'.ret = dis.ret,
         \A u \in Threads : thr'[u].status = "reaped" =>
            thr'[u].is_scheduled \/ thr'[u].waiting_for_event
  PROVE  Departed' /\ Family' /\ Rooted' /\ Ended' /\ TaskChildren'
<1>1. Departed'
  BY DEF KinInv, Departed, Live, Same, TypeOK, ThreadType
<1>2. Family'
  BY DEF KinInv, Family, Live, Same, Siblings, TypeOK, ThreadType
<1>3. Rooted'
  BY RootedKeep DEF KinInv, Same
<1>4. Ended'
  BY DEF KinInv, Ended, Live, Same, Stacked
<1>5. TaskChildren'
  BY DEF KinInv, TaskChildren, Same
<1> QED BY <1>1, <1>2, <1>3, <1>4, <1>5

\* So does vthread_reap of a thread that has no children.
LEMMA ReapsKeep ==
  ASSUME KinInv, ThreadAssumption, TypeOK, ~aborted, NEW t \in Threads, Live(t),
         thr[t].children = {}, Reaps(t), Kept(t)
  PROVE  Departed' /\ Family' /\ Rooted' /\ Ended' /\ TaskChildren'
<1> DEFINE p == thr[t].parent
<1>0. /\ thr \in [Threads -> ThreadType] /\ thr[t] \in ThreadType
      /\ Departed /\ Family /\ Rooted /\ Ended /\ TaskChildren
  BY DEF KinInv, TypeOK
<1>1. Departed'
  <2> SUFFICES ASSUME NEW u \in Threads
               PROVE  /\ ~Live(u)' => thr'[u].parent = None /\ thr'[u].children = {}
                                      /\ ~thr'[u].in_scope
                      /\ thr'[u].status \in {"reaped", "deleted"} => thr'[u].i_have_ended
                      /\ thr'[u].status = "reaped" => thr'[u].is_scheduled \/ thr'[u].waiting_for_event
                      /\ thr'[u].parent # None => Live(thr[u].parent)' /\ thr'[u].parent = thr[u].parent
    BY DEF Departed, Live
  <2>1. CASE u = t
    BY <2>1 DEF Reaps, Live
  <2>2. CASE u # t
    <3>1. thr'[u].parent # None => thr[u].parent # t
      BY <2>2, <1>0 DEF Reaps, Family, Siblings, Departed, ThreadAssumption
    <3>2. thr'[u].parent # None => thr'[u].parent = thr[u].parent /\ thr[u].parent \in Threads \ {t}
      BY <3>1, <2>2, <1>0 DEF Reaps, ThreadType
    <3>3. thr'[u].parent # None => Live(thr[u].parent) /\ Live(thr[u].parent)'
      BY <3>2, <2>2, <1>0 DEF Reaps, Departed, Live
    <3> QED BY <3>2, <3>3, <2>2, <1>0 DEF Reaps, Departed, Live
  <2> QED BY <2>1, <2>2
<1>2. Family'
  <2> SUFFICES ASSUME NEW u \in Threads, Live(u)'
               PROVE  /\ \A w \in thr'[u].children : thr'[w].parent = u /\ ~thr'[w].i_am_detached
                      /\ \A w \in thr'[u].detached_children :
                           thr'[w].parent = u /\ thr'[w].i_am_detached
                      /\ thr'[u].parent # None => u \in Siblings(thr, u)'
                      /\ thr'[u].i_am_detached => thr'[u].parent # None
    BY DEF Family
  <2>1. u # t /\ Live(u) /\ thr[u] \in ThreadType
    BY <1>0 DEF Reaps, Live
  <2>2. /\ \A w \in thr[u].children : thr[w].parent = u /\ ~thr[w].i_am_detached
        /\ \A w \in thr[u].detached_children : thr[w].parent = u /\ thr[w].i_am_detached
        /\ thr[u].parent # None => u \in Siblings(thr, u)
        /\ thr[u].i_am_detached => thr[u].parent # None
        /\ \A w \in thr[t].detached_children : thr[w].parent = t /\ thr[w].i_am_detached
    BY <1>0, <2>1 DEF Family
  <2>3. /\ thr'[u].children = thr[u].children \ {t}
        /\ thr'[u].detached_children = thr[u].detached_children \ {t}
    <3>1. CASE u = p
      BY <3>1, <2>1 DEF Reaps
    <3>2. CASE u # p
      BY <3>2, <2>1, <2>2 DEF Reaps
    <3> QED BY <3>1, <3>2
  <2>4. ASSUME NEW w \in thr'[u].children
        PROVE  thr'[w].parent = u /\ ~thr'[w].i_am_detached
    <3>1. w \in Threads \ {t} /\ w \notin thr[t].detached_children /\ w \in thr[u].children
      BY <2>1, <2>2, <2>3 DEF ThreadType
    <3> QED BY <3>1, <2>2 DEF Reaps
  <2>5. ASSUME NEW w \in thr'[u].detached_children
        PROVE  thr'[w].parent = u /\ thr'[w].i_am_detached
    <3>1. w \in Threads \ {t} /\ w \notin thr[t].detached_children /\ w \in thr[u].detached_children
      BY <2>1, <2>2, <2>3 DEF ThreadType
    <3> QED BY <3>1, <2>2 DEF Reaps
  <2>6. CASE u \in thr[t].detached_children
    BY <2>1, <2>4, <2>5, <2>6 DEF Reaps
  <2>7. CASE u \notin thr[t].detached_children
    <3>1. /\ thr'[u].parent = thr[u].parent
          /\ thr'[u].i_am_detached = thr[u].i_am_detached
      BY <2>1, <2>7 DEF Reaps
    <3>2. ASSUME thr[u].parent # None
          PROVE  u \in Siblings(thr, u)'
      <4>1. thr[u].parent \in Threads /\ Live(thr[u].parent) /\ thr[u].parent # t
        BY <3>2, <1>0, <2>1, <2>2, <2>7 DEF Departed, ThreadType, Siblings
      <4>2. u \in thr[thr[u].parent].children => u \in thr'[thr[u].parent].children
        BY <4>1, <2>1 DEF Reaps
      <4>3. u \in thr[thr[u].parent].detached_children => u \in thr'[thr[u].parent].detached_children
        BY <4>1, <2>1 DEF Reaps
      <4> QED BY <3>1, <3>2, <4>2, <4>3, <2>2 DEF Siblings
    <3> QED BY <2>2, <2>4, <2>5, <3>1, <3>2
  <2> QED BY <2>6, <2>7
<1>3. Rooted'
  BY <1>0, RootedKeep DEF Reaps
<1>4. Ended'
  <2> SUFFICES ASSUME NEW u \in Threads, thr'[u].i_have_ended
               PROVE  /\ Stacked(u)' \/ thr'[u].children = {}
                      /\ Live(u)' => \/ Stacked(u)' \/ u = dis'.ret
                                     \/ thr'[u].parent # None /\ ~thr'[u].i_am_detached
    BY DEF Ended
  <2>1. CASE u = t
    BY <2>1 DEF Reaps, Live
  <2>2. CASE u # t
    BY <2>2, <1>0 DEF Reaps, Live, Ended, Kept, Family
  <2> QED BY <2>1, <2>2
<1>5. TaskChildren'
  <2> SUFFICES ASSUME NEW u \in Threads, ~thr'[u].i_have_ended
               PROVE  thr'[u].task_func_children \subseteq thr'[u].children
    BY DEF TaskChildren
  <2>1. u # t /\ ~thr[u].i_have_ended
    BY DEF Reaps
  <2>2. thr[u].task_func_children \subseteq thr[u].children
    BY <2>1, <1>0 DEF TaskChildren
  <2>3. CASE u # p
    BY <2>1, <2>2, <2>3 DEF Reaps
  <2>4. CASE u = p
    <3>1. thr[t].i_am_detached => t \notin thr[u].children
      BY <2>4, <1>0, <2>1 DEF Family, Departed, Live
    <3> QED BY <2>1, <2>2, <2>4, <3>1 DEF Reaps
  <2> QED BY <2>3, <2>4
<1> QED BY <1>1, <1>2, <1>3, <1>4, <1>5

\* The fields of a thread, and of its code, that an opcode writes.
LEMMA Fields ==
  ASSUME NEW r \in ThreadType
  PROVE  /\ \A p \in Threads \cup {None} : [r EXCEPT !.parent = p] \in ThreadType
         /\ \A p \in Threads \cup {None}, b \in BOOLEAN :
              [r EXCEPT !.parent = p, !.i_am_detached = b] \in ThreadType
         /\ \A p \in Threads \cup {None}, s \in {"reaped", "deleted"} :
              [r EXCEPT !.parent = p, !.in_scope = FALSE, !.status = s] \in ThreadType
         /\ \A S \in SUBSET Threads : [r EXCEPT !.children = S] \in ThreadType
         /\ \A S \in SUBSET Threads : [r EXCEPT !.detached_children = S] \in ThreadType
         /\ r.children \in SUBSET Threads /\ r.detached_children \in SUBSET Threads
         /\ r.parent \in Threads \cup {None}
  BY Zenon DEF ThreadType

\* What Reap writes into each thread object.
LEMMA ReapFields ==
  ASSUME ThreadAssumption, NEW T \in [Threads -> ThreadType], NEW t \in Threads,
         T[t].children = {}, T[t].parent # t, t \notin T[t].detached_children,
         T[t].parent \notin T[t].detached_children,
         NEW R, R = Reap(T, t)
  PROVE  /\ R \in [Threads -> ThreadType]
         /\ R[t] = [T[t] EXCEPT !.parent = None, !.in_scope = FALSE,
                                !.status = IF ~T[t].is_scheduled /\ ~T[t].waiting_for_event
                                           THEN "deleted" ELSE "reaped"]
         /\ \A u \in Threads \ {t} :
              R[u] = IF u \in T[t].detached_children
                     THEN [T[u] EXCEPT !.parent = None, !.i_am_detached = FALSE]
                     ELSE IF u # T[t].parent THEN T[u]
                     ELSE IF T[t].i_am_detached
                     THEN [T[u] EXCEPT !.detached_children = @ \ {t}]
                     ELSE [T[u] EXCEPT !.children = @ \ {t}]
<1>1. R[t] = [T[t] EXCEPT !.parent = None, !.in_scope = FALSE,
                          !.status = IF ~T[t].is_scheduled /\ ~T[t].waiting_for_event
                                     THEN "deleted" ELSE "reaped"]
  BY DEF Reap
<1>2. ASSUME NEW u \in Threads \ {t}
      PROVE  R[u] = IF u \in T[t].detached_children
                     THEN [T[u] EXCEPT !.parent = None, !.i_am_detached = FALSE]
                     ELSE IF u # T[t].parent THEN T[u]
                     ELSE IF T[t].i_am_detached
                     THEN [T[u] EXCEPT !.detached_children = @ \ {t}]
                     ELSE [T[u] EXCEPT !.children = @ \ {t}]
  BY DEF Reap
<1>3. DOMAIN R = Threads /\ R = [u \in Threads |-> R[u]]
  BY DEF Reap
<1>4. R[t] \in ThreadType
  <2> DEFINE s == IF ~T[t].is_scheduled /\ ~T[t].waiting_for_event
                  THEN "deleted" ELSE "reaped"
  <2>1. s \in {"reaped", "deleted"} /\ T[t] \in ThreadType
    OBVIOUS
  <2>2. R[t] = [T[t] EXCEPT !.parent = None, !.in_scope = FALSE, !.status = s]
    BY <1>1
  <2> HIDE DEF s
  <2> QED BY <2>1, <2>2 DEF ThreadType
<1>5. ASSUME NEW u \in Threads \ {t}
      PROVE  R[u] \in ThreadType
  <2>1. T[u] \in ThreadType /\ T[u].children \in SUBSET Threads /\ T[u].detached_children \in SUBSET Threads
    BY Fields
  <2>2. [T[u] EXCEPT !.parent = None, !.i_am_detached = FALSE] \in ThreadType
    BY <2>1, Fields
  <2>3. [T[u] EXCEPT !.detached_children = @ \ {t}] \in ThreadType
    BY <2>1, Fields
  <2>4. [T[u] EXCEPT !.children = @ \ {t}] \in ThreadType
    BY <2>1, Fields
  <2> QED BY <1>2, <2>1, <2>2, <2>3, <2>4
<1> QED BY <1>1, <1>2, <1>3, <1>4, <1>5

\* Whoever was going to be woken up still is when another thread is reaped, unless
\* it is the parent.
LEMMA ReapsWoken ==
  ASSUME TypeOK, Family, ~aborted, NEW t \in Threads, Reaps(t),
         NEW u \in Threads, u # t, u # thr[t].parent, Live(u), WillResume(u)
  PROVE  WillResume(u)'
<1>0. thr[u] \in ThreadType
  BY DEF TypeOK
<1>1. ASSUME NEW w \in thr[u].children \cup thr[u].detached_children
      PROVE  w \in Threads \ {t} /\ thr'[w].i_have_ended = thr[w].i_have_ended
  <2>1. w \in Threads /\ w # t
    BY <1>0 DEF Family, ThreadType
  <2> QED BY <2>1 DEF Reaps
<1>2. /\ thr'[u].children = thr[u].children
      /\ thr'[u].detached_children = thr[u].detached_children
      /\ thr'[u].task_func_children = thr[u].task_func_children
      /\ thr'[u].i_am_joining = thr[u].i_am_joining
      /\ thr'[u].i_am_waiting = thr[u].i_am_waiting
      /\ thr'[u].waiting_for_event = thr[u].waiting_for_event
      /\ thr[u].is_scheduled => thr'[u].is_scheduled
  BY DEF Reaps
<1> QED BY <1>1, <1>2 DEF WillResume, Joinable

\* What has no part in the family.
Alike(a, b) ==
  /\ a.status = b.status /\ a.scope = b.scope /\ a.in_scope = b.in_scope
  /\ a.i_am_joining = b.i_am_joining /\ a.i_am_waiting = b.i_am_waiting
  /\ a.i_have_ended = b.i_have_ended
  /\ a.waiting_for_event = b.waiting_for_event /\ a.is_scheduled = b.is_scheduled
  /\ a.code = b.code /\ a.kids = b.kids /\ a.joined = b.joined

\* What Reap makes of the threads T.
ReapedIn(T, t, R) ==
  /\ R \in [Threads -> ThreadType]
  /\ R[t].status = IF ~T[t].is_scheduled /\ ~T[t].waiting_for_event
                   THEN "deleted" ELSE "reaped"
  /\ R[t].parent = None /\ ~R[t].in_scope /\ R[t].children = {}
  /\ R[t].i_have_ended = T[t].i_have_ended
  /\ R[t].is_scheduled = T[t].is_scheduled
  /\ R[t].waiting_for_event = T[t].waiting_for_event
  /\ R[t].code = T[t].code /\ R[t].joined = T[t].joined
  /\ R[t].i_am_joining = T[t].i_am_joining /\ R[t].i_am_waiting = T[t].i_am_waiting
  /\ \A u \in Threads \ {t} :
       /\ Alike(R[u], T[u]) /\ R[u].task_func_children = T[u].task_func_children
       /\ IF u \in T[t].detached_children
          THEN R[u].parent = None /\ ~R[u].i_am_detached
          ELSE R[u].parent = T[u].parent /\ R[u].i_am_detached = T[u].i_am_detached
       /\ u # T[t].parent \/ T[t].i_am_detached => R[u].children = T[u].children
       /\ u = T[t].parent /\ ~T[t].i_am_detached => R[u].children = T[u].children \ {t}
       /\ u # T[t].parent \/ ~T[t].i_am_detached =>
            R[u].detached_children = T[u].detached_children
       /\ u = T[t].parent /\ T[t].i_am_detached =>
            R[u].detached_children = T[u].detached_children \ {t}

\* Reap does what ReapedIn says.
LEMMA ReapEffect ==
  ASSUME ThreadAssumption, NEW T \in [Threads -> ThreadType], NEW t \in Threads,
         T[t].children = {}, T[t].parent # t, t \notin T[t].detached_children,
         T[t].parent \notin T[t].detached_children,
         NEW R, R = Reap(T, t)
  PROVE  ReapedIn(T, t, R)
<1>1. R \in [Threads -> ThreadType]
  BY ReapFields
<1>2. R[t] = [T[t] EXCEPT !.parent = None, !.in_scope = FALSE,
                          !.status = IF ~T[t].is_scheduled /\ ~T[t].waiting_for_event
                                     THEN "deleted" ELSE "reaped"]
  BY DEF Reap
<1>3. T[t] \in ThreadType
  OBVIOUS
<1>4. /\ R[t].status = IF ~T[t].is_scheduled /\ ~T[t].waiting_for_event
                          THEN "deleted" ELSE "reaped"
      /\ R[t].parent = None /\ ~R[t].in_scope /\ R[t].children = {}
      /\ R[t].i_have_ended = T[t].i_have_ended
      /\ R[t].is_scheduled = T[t].is_scheduled
      /\ R[t].waiting_for_event = T[t].waiting_for_event
      /\ R[t].code = T[t].code /\ R[t].joined = T[t].joined
      /\ R[t].i_am_joining = T[t].i_am_joining /\ R[t].i_am_waiting = T[t].i_am_waiting
  BY <1>2, <1>3 DEF ThreadType
<1>5. ASSUME NEW u \in Threads \ {t}
      PROVE   /\ Alike(R[u], T[u]) /\ R[u].task_func_children = T[u].task_func_children
              /\ IF u \in T[t].detached_children
                 THEN R[u].parent = None /\ ~R[u].i_am_detached
                 ELSE R[u].parent = T[u].parent /\ R[u].i_am_detached = T[u].i_am_detached
              /\ u # T[t].parent \/ T[t].i_am_detached => R[u].children = T[u].children
              /\ u = T[t].parent /\ ~T[t].i_am_detached =>
                   R[u].children = T[u].children \ {t}
              /\ u # T[t].parent \/ ~T[t].i_am_detached =>
                   R[u].detached_children = T[u].detached_children
              /\ u = T[t].parent /\ T[t].i_am_detached =>
                   R[u].detached_children = T[u].detached_children \ {t}
  <2>1. R[u] = IF u \in T[t].detached_children
               THEN [T[u] EXCEPT !.parent = None, !.i_am_detached = FALSE]
               ELSE IF u # T[t].parent THEN T[u]
               ELSE IF T[t].i_am_detached
               THEN [T[u] EXCEPT !.detached_children = @ \ {t}]
               ELSE [T[u] EXCEPT !.children = @ \ {t}]
    BY DEF Reap
  <2>2. T[u] \in ThreadType
    OBVIOUS
  <2>3. CASE u \in T[t].detached_children
    BY <2>1, <2>2, <2>3 DEF Alike, ThreadType
  <2>4. CASE u \notin T[t].detached_children /\ u # T[t].parent
    BY <2>1, <2>2, <2>4 DEF Alike, ThreadType
  <2>5. CASE u \notin T[t].detached_children /\ u = T[t].parent /\ T[t].i_am_detached
    BY <2>1, <2>2, <2>5 DEF Alike, ThreadType
  <2>6. CASE u \notin T[t].detached_children /\ u = T[t].parent /\ ~T[t].i_am_detached
    BY <2>1, <2>2, <2>6 DEF Alike, ThreadType
  <2> QED BY <2>3, <2>4, <2>5, <2>6
<1> QED BY <1>1, <1>4, <1>5 DEF ReapedIn

\* What DoJoin makes of the threads T: the child also leaves the tasks of the parent.
JoinedIn(T, p, t, R) ==
  /\ R \in [Threads -> ThreadType]
  /\ R[t].status = IF ~T[t].is_scheduled /\ ~T[t].waiting_for_event
                   THEN "deleted" ELSE "reaped"
  /\ R[t].parent = None /\ ~R[t].in_scope /\ R[t].children = {}
  /\ R[t].i_have_ended = T[t].i_have_ended
  /\ R[t].is_scheduled = T[t].is_scheduled
  /\ R[t].waiting_for_event = T[t].waiting_for_event
  /\ R[t].code = T[t].code /\ R[t].joined = T[t].joined
  /\ R[t].i_am_joining = T[t].i_am_joining /\ R[t].i_am_waiting = T[t].i_am_waiting
  /\ \A u \in Threads \ {t} :
       /\ Alike(R[u], T[u])
       /\ IF u \in T[t].detached_children
          THEN R[u].parent = None /\ ~R[u].i_am_detached
          ELSE R[u].parent = T[u].parent /\ R[u].i_am_detached = T[u].i_am_detached
       /\ R[u].detached_children = T[u].detached_children
       /\ u # p => /\ R[u].children = T[u].children
                   /\ R[u].task_func_children = T[u].task_func_children
  /\ R[p].children = T[p].children \ {t}
  /\ R[p].task_func_children = T[p].task_func_children \ {t}

\* do_join does what JoinedIn says.
LEMMA JoinEffect ==
  ASSUME ThreadAssumption, NEW T \in [Threads -> ThreadType],
         NEW t \in Threads, NEW p \in Threads, p # t,
         T[t].children = {}, T[t].parent = p, ~T[t].i_am_detached,
         t \notin T[t].detached_children, p \notin T[t].detached_children,
         NEW R, R = DoJoin(T, p, t)
  PROVE  JoinedIn(T, p, t, R)
<1> DEFINE S == [T EXCEPT ![p].task_func_children = @ \ {t}]
<1>1. T[p] \in ThreadType /\ T[p].task_func_children \in SUBSET Threads
  BY DEF ThreadType
<1>2. S[p] = [T[p] EXCEPT !.task_func_children = @ \ {t}]
  OBVIOUS
<1>3. /\ S[p] \in ThreadType /\ Alike(S[p], T[p])
      /\ S[p].task_func_children = T[p].task_func_children \ {t}
      /\ S[p].children = T[p].children /\ S[p].detached_children = T[p].detached_children
      /\ S[p].parent = T[p].parent /\ S[p].i_am_detached = T[p].i_am_detached
  BY <1>1, <1>2 DEF ThreadType, Alike
<1>4. \A u \in Threads \ {p} : S[u] = T[u]
  OBVIOUS
<1>5. S \in [Threads -> ThreadType]
  BY <1>3
<1>6. R = Reap(S, t)
  BY DEF DoJoin
<1> HIDE DEF S
<1>7. S[t] = T[t]
  BY <1>4
<1>9. /\ S[t].children = {} /\ S[t].parent = p /\ p # t /\ ~S[t].i_am_detached
      /\ t \notin S[t].detached_children /\ p \notin S[t].detached_children
  BY <1>7
<1>8. ReapedIn(S, t, R)
  BY <1>5, <1>6, <1>9, ReapEffect
<1>10. ASSUME NEW u \in Threads \ {t}
       PROVE  /\ Alike(R[u], S[u]) /\ R[u].task_func_children = S[u].task_func_children
              /\ IF u \in S[t].detached_children
                 THEN R[u].parent = None /\ ~R[u].i_am_detached
                 ELSE R[u].parent = S[u].parent /\ R[u].i_am_detached = S[u].i_am_detached
              /\ u # p => R[u].children = S[u].children
              /\ u = p => R[u].children = S[u].children \ {t}
              /\ R[u].detached_children = S[u].detached_children
  <2>1. /\ u # p => R[u].children = S[u].children
        /\ u = p => R[u].children = S[u].children \ {t}
    BY <1>8, <1>9 DEF ReapedIn
  <2>2. R[u].detached_children = S[u].detached_children
    BY <1>8, <1>9 DEF ReapedIn
  <2>3. /\ Alike(R[u], S[u]) /\ R[u].task_func_children = S[u].task_func_children
        /\ IF u \in S[t].detached_children
           THEN R[u].parent = None /\ ~R[u].i_am_detached
           ELSE R[u].parent = S[u].parent /\ R[u].i_am_detached = S[u].i_am_detached
    BY <1>8 DEF ReapedIn
  <2> QED BY <2>1, <2>2, <2>3, <1>9
<1>12. ASSUME NEW u \in Threads \ {t}
       PROVE  /\ Alike(R[u], T[u])
              /\ IF u \in T[t].detached_children
                 THEN R[u].parent = None /\ ~R[u].i_am_detached
                 ELSE R[u].parent = T[u].parent /\ R[u].i_am_detached = T[u].i_am_detached
              /\ R[u].detached_children = T[u].detached_children
              /\ u # p => /\ R[u].children = T[u].children
                          /\ R[u].task_func_children = T[u].task_func_children
  <2>1. CASE u = p
    BY <1>3, <1>7, <1>9, <1>10, <2>1 DEF Alike
  <2>2. CASE u # p
    <3>1. S[u] = T[u]
      BY <1>4, <2>2
    <3> QED BY <3>1, <1>7, <1>9, <1>10, <2>2 DEF Alike
  <2> QED BY <2>1, <2>2
<1>11. /\ R[p].children = T[p].children \ {t}
       /\ R[p].task_func_children = T[p].task_func_children \ {t}
  BY <1>3, <1>9, <1>10
<1> QED BY <1>7, <1>8, <1>12, <1>11 DEF ReapedIn, JoinedIn

\* A record of the code that %join moves on.
LEMMA CodeFields ==
  ASSUME NEW r \in ThreadType, NEW c \in CodeType, NEW n \in 0..MaxFork
  PROVE  [r EXCEPT !.code = c, !.joined = n] \in ThreadType
  BY DEF ThreadType

\* The counters of a fork statement after a %join stay within the bound.
LEMMA CodeJoin ==
  ASSUME ForkAssumption, NEW r \in ThreadType, r.code.joins > 0,
         r.joined + r.code.joins <= MaxFork, NEW s,
         s = [r EXCEPT !.code.joins = @ - 1, !.code.jmp = FALSE, !.joined = @ + 1]
  PROVE  /\ s \in ThreadType
         /\ s.joined + s.code.joins <= MaxFork
         /\ s = [r EXCEPT !.code = s.code, !.joined = s.joined]
<1> DEFINE c == [r.code EXCEPT !.joins = @ - 1, !.jmp = FALSE]
<1>1. /\ r.code \in CodeType /\ r.joined \in 0..MaxFork /\ MaxFork \in Nat
      /\ r.code.joins \in 0..MaxFork
  BY DEF ThreadType, CodeType, ForkAssumption
<1>2. r.code.joins - 1 \in 0..MaxFork /\ r.joined + 1 \in 0..MaxFork
  BY <1>1
<1>3. c \in CodeType /\ c.joins = r.code.joins - 1
  BY <1>1, <1>2 DEF CodeType
<1>4. s = [r EXCEPT !.code = c, !.joined = r.joined + 1]
  BY <1>1 DEF ThreadType, CodeType
<1>5. s \in ThreadType
  <2> HIDE DEF c
  <2>1. c \in CodeType /\ r.joined + 1 \in 0..MaxFork
    BY <1>2, <1>3
  <2>2. [r EXCEPT !.code = c, !.joined = r.joined + 1] \in ThreadType
    BY ONLY <2>1, r \in ThreadType, CodeFields, Zenon
  <2> QED BY <1>4, <2>2
<1>6. s.code = c /\ s.joined = r.joined + 1
  BY <1>4 DEF ThreadType
<1> HIDE DEF c
<1>7. s = [r EXCEPT !.code = s.code, !.joined = s.joined]
  BY <1>4, <1>6
<1>8. s.joined + s.code.joins <= MaxFork
  BY <1>1, <1>3, <1>6
<1> QED BY <1>5, <1>7, <1>8

USE DEF vars

\* A thread executes an opcode: no %disable is going on.
LEMMA AtRun ==
  ASSUME Sound, ThreadAssumption, NEW t \in Threads, Runs(t)
  PROVE  /\ ~aborted /\ KinInv /\ TypeOK /\ Counted /\ dis = NoDisable /\ running = t
         /\ Live(t) /\ ~thr[t].i_have_ended
         /\ \A u \in Threads : ~Stacked(u) /\ u # dis.ret
         /\ \A u \in Threads : thr[u].i_have_ended =>
              thr[u].children = {} /\ (Live(u) => thr[u].parent # None /\ ~thr[u].i_am_detached)
<1>1. ~aborted /\ KinInv /\ TypeOK /\ Counted /\ dis = NoDisable /\ running = t
  BY DEF Sound, Runs, KinInv, Disabled
<1>2. ~thr[t].i_have_ended /\ thr[t].status # "unborn" /\ thr[t].status \in {"unborn", "live", "reaped", "deleted"}
  BY <1>1 DEF KinInv, Disabled, Referred, Born, Runs, ThreadAssumption, TypeOK, ThreadType
<1>3. Live(t)
  BY <1>1, <1>2 DEF Live, KinInv, Departed
<1>4. dis.stack = <<>> /\ dis.ret = None
  BY <1>1 DEF NoDisable
<1>5. \A u \in Threads : ~Stacked(u) /\ u # dis.ret
  BY <1>4 DEF Stacked, ThreadAssumption
<1> QED BY <1>1, <1>2, <1>3, <1>5 DEF KinInv, Ended

\* A sequence over a set is one over a larger set.
LEMMA SeqMono ==
  ASSUME NEW A, NEW B, A \subseteq B
  PROVE  Seq(A) \subseteq Seq(B)
  OBVIOUS

\* What is referred to was created, and stays so.
LEMMA BornGrows ==
  ASSUME Referred, \A u \in Threads : thr'[u].status = "unborn" => thr[u].status = "unborn"
  PROVE  /\ Born \subseteq Born'
         /\ active \in Seq(Seq(Born')) /\ rest \in Seq(Born') /\ sleeping \subseteq Born'
         /\ waiters \in [Events -> Seq(Born')] /\ running \in Born' \cup {None}
<1>1. Born \subseteq Born'
  BY DEF Born
<1>2. Seq(Born) \subseteq Seq(Born')
  BY <1>1, SeqMono
<1>3. Seq(Seq(Born)) \subseteq Seq(Seq(Born'))
  BY <1>2, SeqMono
<1> QED BY <1>1, <1>2, <1>3 DEF Referred

\* Outside a %disable these are all there is to the invariant.
LEMMA Settle ==
  ASSUME dis' = NoDisable, Departed', Family', Rooted', Ended', TaskChildren', Referred',
         Woken', thr' \in [Threads -> ThreadType], Counted', aborted' = FALSE,
         running' # None => ~thr'[running'].i_have_ended
  PROVE  Sound'
<1>1. Disabled'
  BY DEF Disabled, NoDisable
<1>2. TypeOK'
  <2>1. Born' \subseteq Threads
    BY DEF Born
  <2>2. Seq(Born') \subseteq Seq(Threads)
    BY <2>1, SeqMono
  <2>3. Seq(Seq(Born')) \subseteq Seq(Seq(Threads))
    BY <2>2, SeqMono
  <2>4. dis' \in [on : BOOLEAN, fork : BOOLEAN, scope : Scopes,
                  stack : Seq(Threads), ret : Threads \cup {None}, self : BOOLEAN]
    BY DEF NoDisable, Scopes
  <2>5. /\ active' \in Seq(Seq(Threads)) /\ rest' \in Seq(Threads)
        /\ sleeping' \subseteq Threads /\ waiters' \in [Events -> Seq(Threads)]
        /\ running' \in Threads \cup {None}
    BY <2>1, <2>2, <2>3 DEF Referred
  <2> QED BY <2>4, <2>5 DEF TypeOK
<1> QED BY <1>1, <1>2 DEF Sound, KinInv

\* The running thread, or the thread it reaps, apart, only the parent of the
\* reaped one may have lost what it waits for.
LEMMA ReapsAwake ==
  ASSUME TypeOK, Family, Departed, Woken, ~aborted, dis = NoDisable, NEW t \in Threads, Reaps(t),
         running' = running \/ running = t,
         \A p \in Threads : p = thr[t].parent /\ Live(p) /\ ~thr[p].i_have_ended /\ p # running'
                           => WillResume(p)'
  PROVE  Woken'
<1> SUFFICES ASSUME NEW u \in Threads, Live(u)', ~thr'[u].i_have_ended, u # running'
             PROVE  WillResume(u)'
  BY DEF Woken
<1>1. u # t /\ Live(u) /\ ~thr[u].i_have_ended
  BY DEF Reaps, Live
<1>2. CASE u = thr[t].parent
  BY <1>1, <1>2
<1>3. CASE u # thr[t].parent
  <2>1. dis.stack = <<>>
    BY DEF NoDisable
  <2>2. WillResume(u)
    BY <1>1, <2>1 DEF Woken
  <2> QED BY <1>1, <1>3, <2>2, ReapsWoken
<1> QED BY <1>2, <1>3

\* %join of a child that has ended.
LEMMA KinJoinZombie ==
  ASSUME Sound, ThreadAssumption, ForkAssumption, NEW t \in Threads, JoinZombie(t), aborted' = FALSE
  PROVE  Sound'
<1>0. /\ Runs(t) /\ TypeOK /\ Counted /\ KinInv /\ ~aborted /\ dis = NoDisable /\ running = t
      /\ Live(t) /\ ~thr[t].i_have_ended /\ thr \in [Threads -> ThreadType] /\ thr[t] \in ThreadType
      /\ Departed /\ Family /\ Rooted /\ Referred /\ Woken
      /\ \A u \in Threads : ~Stacked(u) /\ u # dis.ret
  BY AtRun DEF JoinZombie, TypeOK, KinInv
<1>a. UNCHANGED <<active, sleeping, waiters, running, rest, dis>> /\ thr[t].code.joins > 0
  BY DEF JoinZombie
<1>1. PICK u \in thr[t].children :
         /\ thr[u].i_have_ended /\ Joinable(thr, t, u)
         /\ thr' = [DoJoin(thr, t, u) EXCEPT ![t].code.joins = @ - 1,
                                           ![t].code.jmp = FALSE,
                                           ![t].joined = @ + 1]
  BY DEF JoinZombie
<1>2. /\ u \in Threads /\ Live(u) /\ thr[u].parent = t /\ ~thr[u].i_am_detached /\ u # t
      /\ thr[u].children = {} /\ thr[u].parent # u
      /\ u \notin thr[u].detached_children /\ t \notin thr[u].detached_children
      /\ thr[u] \in ThreadType
  <2>1. u \in Threads /\ Live(u) /\ u # t
    BY <1>0, Parents
  <2>2. thr[u].parent = t /\ ~thr[u].i_am_detached
    BY <1>0 DEF Family
  <2>3. thr[u].children = {}
    BY <1>0, <1>1, <2>1, AtRun
  <2> QED BY <1>0, <2>1, <2>2, <2>3, Parents
<1> DEFINE R == DoJoin(thr, t, u)
           s == [R[t] EXCEPT !.code.joins = @ - 1, !.code.jmp = FALSE, !.joined = @ + 1]
<1>3. JoinedIn(thr, t, u, R)
  BY <1>0, <1>2, JoinEffect
<1> HIDE DEF R
<1>4. R \in [Threads -> ThreadType] /\ Alike(R[t], thr[t])
  BY <1>2, <1>3 DEF JoinedIn
<1>5. thr' = [R EXCEPT ![t] = s]
  BY <1>1 DEF R
<1>6. s \in ThreadType /\ s.joined + s.code.joins <= MaxFork
      /\ s = [R[t] EXCEPT !.code = s.code, !.joined = s.joined]
  <2>1. R[t] \in ThreadType /\ R[t].code.joins > 0 /\ R[t].joined + R[t].code.joins <= MaxFork
    BY <1>0, <1>a, <1>4 DEF Alike, Counted
  <2> QED BY <2>1, CodeJoin
<1> HIDE DEF s
<1>7. /\ thr'[t] = s /\ \A w \in Threads \ {t} : thr'[w] = R[w]
      /\ thr' \in [Threads -> ThreadType]
  BY <1>4, <1>5, <1>6
<1>8. /\ s.status = R[t].status /\ s.scope = R[t].scope /\ s.in_scope = R[t].in_scope
      /\ s.i_am_joining = R[t].i_am_joining /\ s.i_am_waiting = R[t].i_am_waiting
      /\ s.i_have_ended = R[t].i_have_ended /\ s.parent = R[t].parent
      /\ s.waiting_for_event = R[t].waiting_for_event /\ s.is_scheduled = R[t].is_scheduled
      /\ s.children = R[t].children /\ s.detached_children = R[t].detached_children
      /\ s.task_func_children = R[t].task_func_children
      /\ s.i_am_detached = R[t].i_am_detached
  BY <1>4, <1>6 DEF ThreadType
<1>9. Reaps(u)
  <2>1. /\ thr'[u].status \in {"reaped", "deleted"} /\ thr'[u].i_have_ended
        /\ thr'[u].status = "reaped" => thr'[u].is_scheduled \/ thr'[u].waiting_for_event
        /\ thr'[u].parent = None /\ ~thr'[u].in_scope /\ thr'[u].children = {}
    <3>1. thr'[u] = R[u] /\ R[u].status \in {"reaped", "deleted"}
      BY <1>2, <1>3, <1>7 DEF JoinedIn
    <3>2. /\ R[u].status = "reaped" => R[u].is_scheduled \/ R[u].waiting_for_event
          /\ R[u].parent = None /\ ~R[u].in_scope /\ R[u].children = {}
          /\ R[u].i_have_ended = thr[u].i_have_ended
      BY <1>3 DEF JoinedIn
    <3> QED BY <1>1, <3>1, <3>2
  <2>2. ASSUME NEW w \in Threads \ {u}
        PROVE  /\ Alike(R[w], thr[w])
               /\ IF w \in thr[u].detached_children
                  THEN R[w].parent = None /\ ~R[w].i_am_detached
                  ELSE R[w].parent = thr[w].parent /\ R[w].i_am_detached = thr[w].i_am_detached
               /\ R[w].detached_children = thr[w].detached_children
               /\ w # t => /\ R[w].children = thr[w].children
                           /\ R[w].task_func_children = thr[w].task_func_children
    BY <1>3 DEF JoinedIn
  <2>3. /\ R[t].children = thr[t].children \ {u}
        /\ R[t].task_func_children = thr[t].task_func_children \ {u}
    BY <1>3 DEF JoinedIn
  <2>4. u \notin thr[t].detached_children
    BY <1>0, <1>2 DEF Family
  <2> QED BY <1>2, <1>7, <1>8, <2>1, <2>2, <2>3, <2>4 DEF Alike, Reaps
<1>10. Kept(u)
  BY <1>0, <1>a DEF Kept
<1>11. Departed' /\ Family' /\ Rooted' /\ Ended' /\ TaskChildren'
  BY <1>0, <1>2, <1>9, <1>10, ReapsKeep
<1>12. Referred'
  BY <1>0, <1>a, <1>9, BornGrows DEF Referred, Reaps
<1>13. Woken'
  BY <1>0, <1>2, <1>9, <1>a, ReapsAwake
<1>14. Counted'
  BY <1>0, <1>2, <1>3, <1>6, <1>7 DEF Counted, JoinedIn, Alike
<1> QED BY <1>0, <1>a, <1>2, <1>7, <1>9, <1>11, <1>12, <1>13, <1>14, Settle DEF Reaps

\* What %end does first: the thread has ended, its detached children are alone.
ReleasedIn(T, t, R) ==
  /\ R \in [Threads -> ThreadType]
  /\ R[t].status = T[t].status /\ R[t].parent = T[t].parent
  /\ R[t].scope = T[t].scope /\ R[t].in_scope = T[t].in_scope
  /\ R[t].children = T[t].children /\ R[t].detached_children = {}
  /\ R[t].task_func_children = T[t].task_func_children
  /\ R[t].i_am_detached = T[t].i_am_detached /\ R[t].i_have_ended
  /\ R[t].waiting_for_event = T[t].waiting_for_event
  /\ R[t].is_scheduled = T[t].is_scheduled
  /\ R[t].code = T[t].code /\ R[t].joined = T[t].joined
  /\ R[t].i_am_joining = T[t].i_am_joining /\ R[t].i_am_waiting = T[t].i_am_waiting
  /\ \A u \in Threads \ {t} :
       /\ Alike(R[u], T[u])
       /\ R[u].children = T[u].children /\ R[u].detached_children = T[u].detached_children
       /\ R[u].task_func_children = T[u].task_func_children
       /\ IF u \in T[t].detached_children
          THEN R[u].parent = None /\ ~R[u].i_am_detached
          ELSE R[u].parent = T[u].parent /\ R[u].i_am_detached = T[u].i_am_detached

\* %end does to the thread and its detached children what ReleasedIn says.
LEMMA ReleaseEffect ==
  ASSUME ThreadAssumption, NEW T \in [Threads -> ThreadType], NEW t \in Threads,
         t \notin T[t].detached_children, NEW R, R = Released(T, t)
  PROVE  ReleasedIn(T, t, R)
<1>1. R[t] = [T[t] EXCEPT !.i_have_ended = TRUE, !.detached_children = {}]
  BY DEF Released
<1>2. ASSUME NEW u \in Threads \ {t}
      PROVE  R[u] = IF u \in T[t].detached_children
                    THEN [T[u] EXCEPT !.parent = None, !.i_am_detached = FALSE] ELSE T[u]
  BY DEF Released
<1>3. R = [u \in Threads |-> R[u]]
  BY DEF Released
<1>4. T[t] \in ThreadType
  OBVIOUS
<1>5. /\ R[t] \in ThreadType
      /\ R[t].status = T[t].status /\ R[t].parent = T[t].parent
      /\ R[t].scope = T[t].scope /\ R[t].in_scope = T[t].in_scope
      /\ R[t].children = T[t].children /\ R[t].detached_children = {}
      /\ R[t].task_func_children = T[t].task_func_children
      /\ R[t].i_am_detached = T[t].i_am_detached /\ R[t].i_have_ended
      /\ R[t].waiting_for_event = T[t].waiting_for_event
      /\ R[t].is_scheduled = T[t].is_scheduled
      /\ R[t].code = T[t].code /\ R[t].joined = T[t].joined
      /\ R[t].i_am_joining = T[t].i_am_joining /\ R[t].i_am_waiting = T[t].i_am_waiting
  BY <1>1, <1>4 DEF ThreadType
<1>6. ASSUME NEW u \in Threads \ {t}
      PROVE  /\ R[u] \in ThreadType /\ Alike(R[u], T[u])
             /\ R[u].children = T[u].children /\ R[u].detached_children = T[u].detached_children
             /\ R[u].task_func_children = T[u].task_func_children
             /\ IF u \in T[t].detached_children
                THEN R[u].parent = None /\ ~R[u].i_am_detached
                ELSE R[u].parent = T[u].parent /\ R[u].i_am_detached = T[u].i_am_detached
  <2>1. T[u] \in ThreadType
    OBVIOUS
  <2>2. CASE u \in T[t].detached_children
    <3>1. R[u] = [T[u] EXCEPT !.parent = None, !.i_am_detached = FALSE]
      BY <1>2, <2>2
    <3>a. [T[u] EXCEPT !.parent = None, !.i_am_detached = FALSE] \in ThreadType
      BY ONLY <2>1, Fields
    <3>2. R[u] \in ThreadType
      BY <3>a, <3>1
    <3> QED BY <2>1, <2>2, <3>1, <3>2 DEF ThreadType, Alike
  <2>3. CASE u \notin T[t].detached_children
    BY <1>2, <2>1, <2>3 DEF Alike
  <2> QED BY <2>2, <2>3
<1> QED BY <1>3, <1>5, <1>6 DEF ReleasedIn

\* A thread at its %end.
LEMMA AtEnd ==
  ASSUME Sound, ThreadAssumption, NEW t \in Threads, AtStatement(t)
  PROVE  /\ TypeOK /\ Counted /\ KinInv /\ ~aborted /\ dis = NoDisable /\ running = t
         /\ Live(t) /\ ~thr[t].i_have_ended /\ thr \in [Threads -> ThreadType]
         /\ thr[t] \in ThreadType /\ Runs(t)
         /\ Departed /\ Family /\ Rooted /\ Referred /\ Woken
         /\ \A u \in Threads : ~Stacked(u) /\ u # dis.ret
         /\ t \notin thr[t].detached_children /\ thr[t].parent # t
         /\ thr[t].parent \notin thr[t].detached_children
         /\ thr[t].parent # None => thr[t].parent \in Threads /\ Live(thr[t].parent)
         /\ ReleasedIn(thr, t, Released(thr, t))
<1>1. /\ TypeOK /\ Counted /\ KinInv /\ ~aborted /\ dis = NoDisable /\ running = t
      /\ Live(t) /\ ~thr[t].i_have_ended /\ thr \in [Threads -> ThreadType]
      /\ thr[t] \in ThreadType /\ Runs(t)
      /\ Departed /\ Family /\ Rooted /\ Referred /\ Woken
      /\ \A u \in Threads : ~Stacked(u) /\ u # dis.ret
  BY AtRun DEF AtStatement, TypeOK, KinInv
<1>2. /\ t \notin thr[t].detached_children /\ thr[t].parent # t
      /\ thr[t].parent \notin thr[t].detached_children
      /\ thr[t].parent # None => thr[t].parent \in Threads /\ Live(thr[t].parent)
  BY <1>1, Parents
<1>3. ReleasedIn(thr, t, Released(thr, t))
  BY <1>1, <1>2, ReleaseEffect
<1> QED BY <1>1, <1>2, <1>3

\* The rest of the invariant after the reaping of a thread that ends.
LEMMA ReapsSettle ==
  ASSUME Sound, ThreadAssumption, NEW t \in Threads, Live(t), dis = NoDisable, ~aborted, aborted' = FALSE,
         thr[t].children = {}, Reaps(t), Referred', thr' \in [Threads -> ThreadType], Counted',
         running = t, running' = None, UNCHANGED dis,
         \A p \in Threads : p = thr[t].parent /\ Live(p) /\ ~thr[p].i_have_ended => WillResume(p)'
  PROVE  Sound'
<1>0. TypeOK /\ KinInv /\ Family /\ Departed /\ Woken
  BY DEF Sound, KinInv
<1>1. Kept(t)
  BY DEF Kept, NoDisable, Stacked
<1>2. Departed' /\ Family' /\ Rooted' /\ Ended' /\ TaskChildren'
  BY <1>0, <1>1, ReapsKeep
<1>3. Woken'
  BY <1>0, ReapsAwake
<1> QED BY <1>2, <1>3, Settle

\* %end of a thread that has no parent.
LEMMA KinEndAlone ==
  ASSUME Sound, ThreadAssumption, NEW t \in Threads, EndAlone(t), aborted' = FALSE
  PROVE  Sound'
<1> DEFINE L == Released(thr, t)
<1>0. /\ TypeOK /\ Counted /\ KinInv /\ ~aborted /\ dis = NoDisable /\ running = t
      /\ Live(t) /\ Referred /\ ReleasedIn(thr, t, L) /\ thr[t].parent = None
  BY AtEnd DEF EndAlone
<1>1. /\ thr' = Reap(L, t) /\ thr[t].children = {} /\ running' = None
      /\ UNCHANGED <<active, sleeping, waiters, rest, dis>>
  BY DEF EndAlone, EndAsserts
<1> HIDE DEF L
<1>2. ReapedIn(L, t, thr')
  <2>1. /\ L \in [Threads -> ThreadType] /\ L[t].children = {} /\ L[t].parent = None
        /\ L[t].detached_children = {}
    BY <1>0, <1>1 DEF ReleasedIn
  <2> QED BY <1>1, <2>1, ReapEffect DEF ThreadAssumption
<1>3. Reaps(t)
  <2>1. /\ thr'[t].status \in {"reaped", "deleted"} /\ thr'[t].i_have_ended
        /\ thr'[t].status = "reaped" => thr'[t].is_scheduled \/ thr'[t].waiting_for_event
        /\ thr'[t].parent = None /\ ~thr'[t].in_scope /\ thr'[t].children = {}
    BY <1>0, <1>2 DEF ReapedIn, ReleasedIn
  <2>2. ASSUME NEW u \in Threads \ {t}
        PROVE  /\ Alike(thr'[u], L[u]) /\ Alike(L[u], thr[u])
               /\ thr'[u].children = thr[u].children
               /\ thr'[u].detached_children = thr[u].detached_children
               /\ thr'[u].task_func_children = thr[u].task_func_children
               /\ IF u \in thr[t].detached_children
                  THEN thr'[u].parent = None /\ ~thr'[u].i_am_detached
                  ELSE thr'[u].parent = thr[u].parent
                       /\ thr'[u].i_am_detached = thr[u].i_am_detached
    <3>1. u # None /\ L[t].parent = None /\ L[t].detached_children = {}
      BY <1>0 DEF ReleasedIn, ThreadAssumption
    <3> QED BY <3>1, <1>0, <1>2 DEF ReapedIn, ReleasedIn
  <2>3. \A u \in Threads : u # thr[t].parent
    BY <1>0 DEF ThreadAssumption
  <2> QED BY <2>1, <2>2, <2>3 DEF Alike, Reaps
<1>4. Referred'
  BY <1>0, <1>1, <1>3, BornGrows DEF Referred, Reaps
<1>5. Counted' /\ thr' \in [Threads -> ThreadType]
  BY <1>0, <1>2 DEF Counted, ReapedIn, ReleasedIn, Alike
<1> QED BY <1>0, <1>1, <1>3, <1>4, <1>5, ReapsSettle DEF ThreadAssumption

-----------------------------------------------------------------------------
(* Steps that leave the families alone.                                    *)

\* What makes somebody resume a thread is as it was, or better.
Flags(u) ==
  /\ thr[u].is_scheduled \/ thr[u].waiting_for_event =>
       thr'[u].is_scheduled \/ thr'[u].waiting_for_event
  /\ thr'[u].i_am_joining = thr[u].i_am_joining
  /\ thr'[u].i_am_waiting = thr[u].i_am_waiting

\* A step outside of a disable that changes no family and puts nobody to sleep who
\* will not be woken up keeps the invariant.
LEMMA QuietStep ==
  ASSUME Sound, ThreadAssumption, ~aborted, dis = NoDisable, UNCHANGED dis, aborted' = FALSE,
         thr' \in [Threads -> ThreadType], Counted', Referred',
         \A u \in Threads : Same(u),
         \A u \in Threads : thr'[u].status = "reaped" =>
            thr'[u].is_scheduled \/ thr'[u].waiting_for_event,
         \A u \in Threads : Live(u) /\ ~thr[u].i_have_ended /\ u # running' =>
            WillResume(u)' \/ (u # running /\ Flags(u)),
         running' # None => ~thr'[running'].i_have_ended
  PROVE  Sound'
<1>1. TypeOK /\ KinInv /\ Woken
  BY DEF Sound, KinInv
<1>2. Departed' /\ Family' /\ Rooted' /\ Ended' /\ TaskChildren'
  BY <1>1, SameKeeps
<1>3. Woken'
  <2> SUFFICES ASSUME NEW u \in Threads, Live(u)', ~thr'[u].i_have_ended, u # running'
               PROVE  WillResume(u)'
    BY DEF Woken
  <2>1. Live(u) /\ ~thr[u].i_have_ended /\ Same(u) /\ thr[u] \in ThreadType
    BY <1>1 DEF Same, Live, TypeOK
  <2>2. ASSUME u # running, Flags(u)
        PROVE  WillResume(u)'
    <3>1. dis.stack = <<>>
      BY DEF NoDisable
    <3>2. WillResume(u)
      BY <1>1, <2>1, <2>2, <3>1 DEF Woken
    <3>3. \A w \in thr[u].children \cup thr[u].detached_children : w \in Threads
      BY <2>1 DEF ThreadType
    <3> QED BY <2>1, <2>2, <3>2, <3>3 DEF WillResume, Joinable, Flags, Same
  <2> QED BY <2>1, <2>2
<1> QED BY <1>2, <1>3, Settle

\* vthread_run is between two threads.
LEMMA AtIdle ==
  ASSUME Sound, ThreadAssumption, Idle
  PROVE  /\ ~aborted /\ KinInv /\ TypeOK /\ Counted /\ dis = NoDisable /\ running = None
         /\ Referred /\ Departed /\ thr \in [Threads -> ThreadType]
         /\ \A u \in Threads : ~Stacked(u) /\ u # dis.ret
<1>1. ~aborted /\ KinInv /\ TypeOK /\ Counted /\ dis = NoDisable /\ running = None
  BY DEF Sound, Idle, KinInv, Disabled
<1>2. dis.stack = <<>> /\ dis.ret = None
  BY <1>1 DEF NoDisable
<1>3. \A u \in Threads : ~Stacked(u) /\ u # dis.ret
  BY <1>2 DEF Stacked, ThreadAssumption
<1> QED BY <1>1, <1>3 DEF KinInv, TypeOK

\* The entries of the queue.
LEMMA OrdersType ==
  ASSUME NEW S, IsFiniteSet(S)
  PROVE  Orders(S) \subseteq Seq(Seq(S))
<1>1. Cardinality(S) \in Nat
  BY FS_CardinalityType
<1> SUFFICES ASSUME NEW f \in [1..Cardinality(S) -> S]
             PROVE  [i \in DOMAIN f |-> <<f[i]>>] \in Seq(Seq(S))
  BY DEF Orders
<1>2. DOMAIN f = 1..Cardinality(S)
  OBVIOUS
<1>3. \A i \in 1..Cardinality(S) : <<f[i]>> \in Seq(S)
  OBVIOUS
<1>4. [i \in 1..Cardinality(S) |-> <<f[i]>>] \in Seq(Seq(S))
  <2> DEFINE n == Cardinality(S)
  <2>1. [i \in 1..n |-> <<f[i]>>] \in [1..n -> Seq(S)]
    BY <1>3
  <2> HIDE DEF n
  <2>2. n \in Nat
    BY <1>1 DEF n
  <2>3. [i \in 1..n |-> <<f[i]>>] \in Seq(Seq(S))
    BY <2>1, <2>2, SeqDef
  <2> QED BY <2>3 DEF n
<1> QED BY <1>2, <1>4

\* The event queue hands over a list of threads.
LEMMA QuietDispatch ==
  ASSUME Sound, ThreadAssumption, Dispatch
  PROVE  Sound'
<1>1. Idle /\ active # <<>> /\ rest' = Head(active) /\ active' = Tail(active)
      /\ UNCHANGED <<thr, sleeping, waiters, running, dis, aborted>>
  BY DEF Dispatch
<1>2. /\ ~aborted /\ KinInv /\ TypeOK /\ Counted /\ dis = NoDisable /\ running = None
      /\ Referred /\ Departed /\ thr \in [Threads -> ThreadType]
  BY <1>1, AtIdle
<1>3. Referred' /\ Counted'
  <2>1. Born' = Born
    BY <1>1 DEF Born
  <2>2. active \in Seq(Seq(Born))
    BY <1>2 DEF Referred
  <2>3. Head(active) \in Seq(Born) /\ Tail(active) \in Seq(Seq(Born))
    BY <1>1, <2>2
  <2> QED BY <1>1, <1>2, <2>1, <2>3 DEF Referred, Counted
<1>4. /\ \A u \in Threads : Same(u) /\ Flags(u)
      /\ \A u \in Threads : u # running
  BY <1>1, <1>2 DEF Same, Flags, ThreadAssumption
<1>5. \A u \in Threads : thr'[u].status = "reaped" => thr'[u].is_scheduled \/ thr'[u].waiting_for_event
  BY <1>1, <1>2 DEF Departed
<1>6. /\ \A u \in Threads : Live(u) /\ ~thr[u].i_have_ended /\ u # running' =>
           WillResume(u)' \/ (u # running /\ Flags(u))
      /\ running' # None => ~thr'[running'].i_have_ended
      /\ thr' \in [Threads -> ThreadType] /\ aborted' = FALSE
  BY <1>1, <1>2, <1>4 DEF TypeOK
<1>7. UNCHANGED dis
  BY <1>1
<1> QED BY <1>2, <1>3, <1>4, <1>5, <1>6, <1>7, QuietStep

\* Delays are over.
LEMMA QuietElapse ==
  ASSUME Sound, ThreadAssumption, Elapse
  PROVE  Sound'
<1>1. Idle /\ UNCHANGED <<thr, waiters, running, rest, dis, aborted>>
  BY DEF Elapse
<1>2. /\ ~aborted /\ KinInv /\ TypeOK /\ Counted /\ dis = NoDisable /\ running = None
      /\ Referred /\ Departed /\ thr \in [Threads -> ThreadType]
  BY <1>1, AtIdle
<1>3. Referred' /\ Counted'
  <2>1. Born' = Born
    BY <1>1 DEF Born
  <2>2. PICK S \in SUBSET sleeping : sleeping' = sleeping \ S /\ active' \in Orders(S)
    BY DEF Elapse
  <2>3. S \subseteq Born /\ Born \subseteq Threads
    BY <1>2 DEF Referred, Born
  <2>4. active' \in Seq(Seq(S))
    BY <2>2, <2>3, OrdersType, FS_Subset DEF ThreadAssumption
  <2>5. active' \in Seq(Seq(Born))
    <3>1. Seq(S) \subseteq Seq(Born)
      BY <2>3, SeqMono
    <3>2. Seq(Seq(S)) \subseteq Seq(Seq(Born))
      BY <3>1, SeqMono
    <3> QED BY <2>4, <3>2
  <2> QED BY <1>1, <1>2, <2>1, <2>2, <2>5 DEF Referred, Counted
<1>4. /\ \A u \in Threads : Same(u) /\ Flags(u)
      /\ \A u \in Threads : u # running
  BY <1>1, <1>2 DEF Same, Flags, ThreadAssumption
<1>5. \A u \in Threads : thr'[u].status = "reaped" => thr'[u].is_scheduled \/ thr'[u].waiting_for_event
  BY <1>1, <1>2 DEF Departed
<1>6. /\ \A u \in Threads : Live(u) /\ ~thr[u].i_have_ended /\ u # running' =>
           WillResume(u)' \/ (u # running /\ Flags(u))
      /\ running' # None => ~thr'[running'].i_have_ended
      /\ thr' \in [Threads -> ThreadType] /\ aborted' = FALSE
  BY <1>1, <1>2, <1>4 DEF TypeOK
<1>7. UNCHANGED dis
  BY <1>1
<1> QED BY <1>2, <1>3, <1>4, <1>5, <1>6, <1>7, QuietStep

\* One thread, t, changes, in its flags or its code.
LEMMA QuietOne ==
  ASSUME Sound, ThreadAssumption, ~aborted, dis = NoDisable, UNCHANGED dis, aborted' = FALSE,
         NEW t \in Threads, NEW s \in ThreadType, thr' = [thr EXCEPT ![t] = s],
         running = t \/ running' = t \/ thr[t].i_have_ended,
         Referred', s.joined + s.code.joins <= MaxFork,
         \/ s.status = thr[t].status
         \/ thr[t].status = "reaped" /\ s.status = "deleted",
         s.parent = thr[t].parent,
         s.scope = thr[t].scope, s.in_scope = thr[t].in_scope, s.children = thr[t].children,
         s.detached_children = thr[t].detached_children,
         s.task_func_children = thr[t].task_func_children,
         s.i_am_detached = thr[t].i_am_detached, s.i_have_ended = thr[t].i_have_ended,
         s.status = "reaped" => s.is_scheduled \/ s.waiting_for_event,
         t # running' => thr[t].i_have_ended \/ WillResume(t)',
         running' # None => running' = t /\ ~thr[t].i_have_ended,
         running # None => running = t
  PROVE  Sound'
<1>0. thr \in [Threads -> ThreadType] /\ Counted /\ Departed
  BY DEF Sound, TypeOK, KinInv
<1>1. thr'[t] = s /\ (\A u \in Threads \ {t} : thr'[u] = thr[u]) /\ thr' \in [Threads -> ThreadType]
  BY <1>0
<1>2. Counted'
  BY <1>0, <1>1 DEF Counted
<1>3. \A u \in Threads : Same(u)
  BY <1>1 DEF Same
<1>4. \A u \in Threads : thr'[u].status = "reaped" => thr'[u].is_scheduled \/ thr'[u].waiting_for_event
  BY <1>0, <1>1 DEF Departed
<1>5. ASSUME NEW u \in Threads, Live(u), ~thr[u].i_have_ended, u # running'
      PROVE  WillResume(u)' \/ (u # running /\ Flags(u))
  <2>1. CASE u = t
    BY <1>5, <2>1
  <2>2. CASE u # t
    BY <1>1, <2>2 DEF Flags, ThreadAssumption
  <2> QED BY <2>1, <2>2
<1>6. running' # None => ~thr'[running'].i_have_ended
  BY <1>1
<1>7. \A u \in Threads : Live(u) /\ ~thr[u].i_have_ended /\ u # running' =>
            WillResume(u)' \/ (u # running /\ Flags(u))
  BY <1>5
<1> QED BY <1>1, <1>2, <1>3, <1>4, <1>6, <1>7, QuietStep

\* A thread resumes.
LEMMA QuietResume ==
  ASSUME Sound, ThreadAssumption, Resume, aborted' = FALSE
  PROVE  Sound'
<1> DEFINE t == Head(rest)
           s == [thr[t] EXCEPT !.is_scheduled = FALSE]
<1>1. /\ Idle /\ rest # <<>> /\ ~thr[t].i_have_ended /\ thr' = [thr EXCEPT ![t] = s]
      /\ running' = t /\ rest' = Tail(rest) /\ UNCHANGED <<active, sleeping, waiters, dis>>
  BY DEF Resume
<1>2. /\ ~aborted /\ KinInv /\ TypeOK /\ Counted /\ dis = NoDisable /\ running = None
      /\ Referred /\ Departed /\ thr \in [Threads -> ThreadType]
  BY <1>1, AtIdle
<1>3. /\ rest \in Seq(Born) /\ t \in Born /\ t \in Threads /\ Tail(rest) \in Seq(Born)
  BY <1>1, <1>2 DEF Referred, Born
<1> HIDE DEF t
<1>4. thr[t] \in ThreadType /\ thr[t].status # "reaped" /\ t # None
  BY <1>1, <1>2, <1>3 DEF Departed, ThreadAssumption
<1>5. /\ s \in ThreadType /\ s.status = thr[t].status /\ s.parent = thr[t].parent
      /\ s.scope = thr[t].scope /\ s.in_scope = thr[t].in_scope /\ s.children = thr[t].children
      /\ s.detached_children = thr[t].detached_children
      /\ s.task_func_children = thr[t].task_func_children
      /\ s.i_am_detached = thr[t].i_am_detached /\ s.i_have_ended = thr[t].i_have_ended
      /\ s.code = thr[t].code /\ s.joined = thr[t].joined
  BY <1>4 DEF ThreadType
<1> HIDE DEF s
<1>6. thr' \in [Threads -> ThreadType] /\ \A u \in Threads : thr'[u].status = thr[u].status
  BY <1>1, <1>2, <1>3, <1>5
<1>7. Referred'
  <2>1. Born' = Born
    BY <1>6 DEF Born
  <2> QED BY <1>1, <1>2, <1>3, <2>1 DEF Referred
<1>8. s.joined + s.code.joins <= MaxFork
  BY <1>2, <1>3, <1>5 DEF Counted
<1> QED BY <1>1, <1>2, <1>3, <1>4, <1>5, <1>7, <1>8, QuietOne

\* of_ZOMBIE.
LEMMA QuietZombie ==
  ASSUME Sound, ThreadAssumption, Zombie, aborted' = FALSE
  PROVE  Sound'
<1> DEFINE t == Head(rest)
           s == [thr[t] EXCEPT !.is_scheduled = FALSE,
                               !.status = IF thr[t].parent = None /\ thr[t].children = {}
                                          THEN "deleted" ELSE @]
<1>1. /\ Idle /\ rest # <<>> /\ thr[t].i_have_ended /\ thr' = [thr EXCEPT ![t] = s]
      /\ rest' = Tail(rest) /\ UNCHANGED <<active, sleeping, waiters, running, dis>>
  BY DEF Zombie
<1>2. /\ ~aborted /\ KinInv /\ TypeOK /\ Counted /\ dis = NoDisable /\ running = None
      /\ Referred /\ Departed /\ thr \in [Threads -> ThreadType]
      /\ \A u \in Threads : ~Stacked(u) /\ u # dis.ret
  BY <1>1, AtIdle
<1>3. /\ rest \in Seq(Born) /\ t \in Born /\ t \in Threads /\ Tail(rest) \in Seq(Born)
  BY <1>1, <1>2 DEF Referred, Born
<1> HIDE DEF t
<1>4. /\ thr[t] \in ThreadType /\ t # None /\ thr[t].status # "unborn"
      /\ thr[t].status \in {"unborn", "live", "reaped", "deleted"}
  BY <1>1, <1>2, <1>3 DEF ThreadAssumption, Born, ThreadType
<1>a. thr[t].parent = None /\ thr[t].children = {} <=> thr[t].status # "live"
  BY <1>1, <1>2, <1>3 DEF KinInv, Ended, Departed, Live
<1>5. /\ s \in ThreadType /\ s.parent = thr[t].parent
      /\ s.scope = thr[t].scope /\ s.in_scope = thr[t].in_scope /\ s.children = thr[t].children
      /\ s.detached_children = thr[t].detached_children
      /\ s.task_func_children = thr[t].task_func_children
      /\ s.i_am_detached = thr[t].i_am_detached /\ s.i_have_ended = thr[t].i_have_ended
      /\ s.code = thr[t].code /\ s.joined = thr[t].joined
      /\ s.status = IF thr[t].status # "live" THEN "deleted" ELSE "live"
  <2>1. CASE thr[t].status # "live"
    <3>1. s = [thr[t] EXCEPT !.is_scheduled = FALSE, !.status = "deleted"]
      BY <1>a, <2>1
    <3> QED BY <1>4, <2>1, <3>1 DEF ThreadType
  <2>2. CASE thr[t].status = "live"
    <3>1. s = [thr[t] EXCEPT !.is_scheduled = FALSE, !.status = @]
      BY <1>a, <2>2
    <3> QED BY <1>4, <2>2, <3>1 DEF ThreadType
  <2> QED BY <2>1, <2>2
<1> HIDE DEF s
<1>6. /\ thr' \in [Threads -> ThreadType]
      /\ \A u \in Threads : thr'[u].status = "unborn" => thr[u].status = "unborn"
  BY <1>1, <1>2, <1>3, <1>5
<1>7. Referred'
  <2>1. /\ active \in Seq(Seq(Born')) /\ rest \in Seq(Born') /\ sleeping \subseteq Born'
        /\ waiters \in [Events -> Seq(Born')] /\ running \in Born' \cup {None}
    BY <1>2, <1>6, BornGrows
  <2>2. Tail(rest) \in Seq(Born')
    BY <1>1, <2>1
  <2> QED BY <1>1, <2>1, <2>2 DEF Referred
<1>8. s.joined + s.code.joins <= MaxFork
  BY <1>2, <1>3, <1>5 DEF Counted
<1>9. \/ s.status = thr[t].status
      \/ thr[t].status = "reaped" /\ s.status = "deleted"
  BY <1>4, <1>5
<1>10. s.status # "reaped"
  BY <1>5
<1>11. /\ s \in ThreadType /\ s.parent = thr[t].parent
       /\ s.scope = thr[t].scope /\ s.in_scope = thr[t].in_scope /\ s.children = thr[t].children
       /\ s.detached_children = thr[t].detached_children
       /\ s.task_func_children = thr[t].task_func_children
       /\ s.i_am_detached = thr[t].i_am_detached /\ s.i_have_ended = thr[t].i_have_ended
  BY <1>5
<1> QED BY <1>1, <1>2, <1>3, <1>4, <1>7, <1>8, <1>9, <1>10, <1>11, QuietOne

\* A record of a thread whose family a step leaves alone.
Kin(r, s) ==
  /\ s \in ThreadType /\ s.status = r.status /\ s.parent = r.parent
  /\ s.scope = r.scope /\ s.in_scope = r.in_scope /\ s.children = r.children
  /\ s.detached_children = r.detached_children
  /\ s.task_func_children = r.task_func_children
  /\ s.i_am_detached = r.i_am_detached /\ s.i_have_ended = r.i_have_ended

\* The running thread changes its own flags or code, and goes on or not.
LEMMA QuietOpcode ==
  ASSUME Sound, ThreadAssumption, NEW t \in Threads, Runs(t), UNCHANGED dis, aborted' = FALSE,
         NEW s, thr' = [thr EXCEPT ![t] = s], Kin(thr[t], s), s.joined + s.code.joins <= MaxFork,
         Referred', running' = t \/ (running' = None /\ WillResume(t)')
  PROVE  Sound'
<1>1. ~aborted /\ dis = NoDisable /\ running = t /\ Live(t) /\ ~thr[t].i_have_ended
  BY AtRun
<1>2. /\ s \in ThreadType /\ s.status = thr[t].status /\ s.parent = thr[t].parent
      /\ s.scope = thr[t].scope /\ s.in_scope = thr[t].in_scope /\ s.children = thr[t].children
      /\ s.detached_children = thr[t].detached_children
      /\ s.task_func_children = thr[t].task_func_children
      /\ s.i_am_detached = thr[t].i_am_detached /\ s.i_have_ended = thr[t].i_have_ended
  BY DEF Kin
<1>3. s.status # "reaped"
  BY <1>1, <1>2 DEF Live
<1> QED BY <1>1, <1>2, <1>3, QuietOne

\* A write to one thread that keeps its status creates no thread.
LEMMA SameBorn ==
  ASSUME NEW t \in Threads, thr \in [Threads -> ThreadType], NEW s, thr' = [thr EXCEPT ![t] = s],
         s.status = thr[t].status
  PROVE  Born' = Born /\ thr'[t] = s
  BY DEF Born

\* A fork statement begins.
LEMMA QuietBeginFork ==
  ASSUME Sound, ThreadAssumption, ScopeAssumption, ForkAssumption, NEW t \in Threads, NEW c \in Scopes,
         NEW n \in 1..MaxFork, NEW j \in 0..MaxFork, BeginFork(t, c, n, j)
  PROVE  Sound'
<1> DEFINE code == [forks |-> n, scope |-> c, joins |-> j, detach |-> n - j,
                    jmp |-> c \in Blocks \ {thr[t].scope} /\ n = 1 /\ j = 1]
           s == [thr[t] EXCEPT !.code = code, !.kids = {}, !.joined = 0]
<1>1. /\ AtStatement(t) /\ thr' = [thr EXCEPT ![t] = s] /\ j \in {0, 1, n}
      /\ UNCHANGED <<active, sleeping, waiters, running, rest, dis, aborted>>
  BY DEF BeginFork
<1>2. /\ ~aborted /\ running = t /\ thr[t] \in ThreadType /\ Runs(t) /\ Referred
      /\ thr \in [Threads -> ThreadType] /\ MaxFork \in Nat
  BY <1>1, AtEnd DEF ForkAssumption
<1>3. code \in CodeType /\ code.joins = j
  <2>1. n - j \in 0..MaxFork /\ n \in 0..MaxFork
    BY <1>1, <1>2
  <2> QED BY <2>1 DEF CodeType
<1> HIDE DEF code
<1>a. 0 \in 0..MaxFork /\ {} \in SUBSET Threads /\ code \in CodeType /\ thr[t] \in ThreadType
  BY <1>2, <1>3
<1>b. s \in ThreadType
  BY ONLY <1>a DEF ThreadType
<1>4. Kin(thr[t], s) /\ s.code = code /\ s.joined = 0
  BY <1>a, <1>b DEF ThreadType, Kin
<1> HIDE DEF s
<1>5. Referred'
  BY <1>1, <1>2, <1>4, SameBorn DEF Referred, Kin
<1>6. s.joined + s.code.joins <= MaxFork
  BY <1>2, <1>3, <1>4
<1>7. UNCHANGED dis /\ aborted' = FALSE /\ running' = t
  BY <1>1, <1>2 DEF Sound, TypeOK
<1> QED BY <1>1, <1>2, <1>4, <1>5, <1>6, <1>7, QuietOpcode

\* %delay.
LEMMA QuietDelay ==
  ASSUME Sound, ThreadAssumption, NEW t \in Threads, Delay(t), aborted' = FALSE
  PROVE  Sound'
<1> DEFINE s == [thr[t] EXCEPT !.is_scheduled = TRUE]
<1>1. /\ AtStatement(t) /\ thr' = [thr EXCEPT ![t] = s] /\ sleeping' = sleeping \cup {t}
      /\ running' = None /\ UNCHANGED <<active, waiters, rest, dis>>
  BY DEF Delay, Scheduled
<1>2. /\ running = t /\ thr[t] \in ThreadType /\ Runs(t) /\ Referred /\ Counted
      /\ thr \in [Threads -> ThreadType] /\ Live(t)
  BY <1>1, AtEnd
<1>3. Kin(thr[t], s) /\ s.code = thr[t].code /\ s.joined = thr[t].joined /\ s.is_scheduled
  BY <1>2 DEF ThreadType, Kin
<1> HIDE DEF s
<1>4. t \in Born /\ Born' = Born /\ thr'[t] = s
  BY <1>1, <1>2, <1>3, SameBorn DEF Born, Live, Kin
<1>5. Referred'
  BY <1>1, <1>2, <1>4 DEF Referred
<1>6. s.joined + s.code.joins <= MaxFork
  BY <1>2, <1>3 DEF Counted
<1>7. WillResume(t)'
  BY <1>3, <1>4 DEF WillResume
<1>8. UNCHANGED dis
  BY <1>1
<1> QED BY <1>1, <1>2, <1>3, <1>5, <1>6, <1>7, <1>8, QuietOpcode

\* %wait.
LEMMA QuietWait ==
  ASSUME Sound, ThreadAssumption, NEW t \in Threads, NEW e \in Events, Wait(t, e), aborted' = FALSE
  PROVE  Sound'
<1> DEFINE s == [thr[t] EXCEPT !.waiting_for_event = TRUE]
<1>1. /\ AtStatement(t) /\ thr' = [thr EXCEPT ![t] = s]
      /\ waiters' = [waiters EXCEPT ![e] = <<t>> \o @]
      /\ running' = None /\ UNCHANGED <<active, sleeping, rest, dis>>
  BY DEF Wait
<1>2. /\ running = t /\ thr[t] \in ThreadType /\ Runs(t) /\ Referred /\ Counted
      /\ thr \in [Threads -> ThreadType] /\ Live(t)
  BY <1>1, AtEnd
<1>3. Kin(thr[t], s) /\ s.code = thr[t].code /\ s.joined = thr[t].joined /\ s.waiting_for_event
  BY <1>2 DEF ThreadType, Kin
<1> HIDE DEF s
<1>4. t \in Born /\ Born' = Born /\ thr'[t] = s
  BY <1>1, <1>2, <1>3, SameBorn DEF Born, Live, Kin
<1>5. Referred'
  <2>1. waiters \in [Events -> Seq(Born)] /\ <<t>> \o waiters[e] \in Seq(Born)
    BY <1>2, <1>4 DEF Referred
  <2>2. waiters' \in [Events -> Seq(Born)]
    BY <1>1, <2>1
  <2> QED BY <1>1, <1>2, <1>4, <2>2 DEF Referred
<1>6. s.joined + s.code.joins <= MaxFork
  BY <1>2, <1>3 DEF Counted
<1>7. WillResume(t)'
  BY <1>3, <1>4 DEF WillResume
<1>8. UNCHANGED dis
  BY <1>1
<1> QED BY <1>1, <1>2, <1>3, <1>5, <1>6, <1>7, <1>8, QuietOpcode

\* %jmp on a stop.
LEMMA QuietYield ==
  ASSUME Sound, ThreadAssumption, NEW t \in Threads, Yield(t), aborted' = FALSE
  PROVE  Sound'
<1> DEFINE c == [thr[t].code EXCEPT !.jmp = FALSE]
           s == [thr[t] EXCEPT !.is_scheduled = TRUE, !.code = c]
<1>0. /\ Runs(t) /\ active' = Append(active, <<t>>) /\ running' = None
      /\ UNCHANGED <<sleeping, waiters, rest, dis>>
      /\ thr' = [[thr EXCEPT ![t].is_scheduled = TRUE] EXCEPT ![t].code.jmp = FALSE]
  BY DEF Yield, Scheduled
<1>2. /\ running = t /\ thr[t] \in ThreadType /\ Referred /\ Counted
      /\ thr \in [Threads -> ThreadType] /\ Live(t)
  BY <1>0, AtRun DEF TypeOK, KinInv
<1>1. thr' = [thr EXCEPT ![t] = s]
  BY <1>0, <1>2 DEF ThreadType
<1>a. thr[t].code \in CodeType
  BY <1>2 DEF ThreadType
<1>b. c \in CodeType /\ c.joins = thr[t].code.joins
  BY <1>a DEF CodeType
<1> HIDE DEF c
<1>3. Kin(thr[t], s) /\ s.code = c /\ s.joined = thr[t].joined /\ s.is_scheduled
  BY <1>2, <1>b DEF ThreadType, Kin
<1> HIDE DEF s
<1>4. t \in Born /\ Born' = Born /\ thr'[t] = s
  BY <1>1, <1>2, <1>3, SameBorn DEF Born, Live, Kin
<1>5. Referred'
  <2>1. active \in Seq(Seq(Born)) /\ <<t>> \in Seq(Born)
    BY <1>2, <1>4 DEF Referred
  <2>2. active' \in Seq(Seq(Born))
    BY <1>0, <2>1
  <2> QED BY <1>0, <1>2, <1>4, <2>2 DEF Referred
<1>6. s.joined + s.code.joins <= MaxFork
  BY <1>2, <1>3, <1>b DEF Counted
<1>7. WillResume(t)'
  BY <1>3, <1>4 DEF WillResume
<1>8. UNCHANGED dis
  BY <1>0
<1> QED BY <1>0, <1>1, <1>2, <1>3, <1>5, <1>6, <1>7, <1>8, QuietOpcode

\* %event wakes up the wait list.
LEMMA QuietTrigger ==
  ASSUME Sound, ThreadAssumption, NEW t \in Threads, NEW e \in Events, Trigger(t, e), aborted' = FALSE
  PROVE  Sound'
<1> DEFINE woken == {waiters[e][i] : i \in DOMAIN waiters[e]}
<1>1. /\ AtStatement(t) /\ active' = Append(active, waiters[e])
      /\ waiters' = [waiters EXCEPT ![e] = <<>>] /\ UNCHANGED <<sleeping, running, rest, dis>>
      /\ thr' = [u \in Threads |->
            IF u \in woken THEN [thr[u] EXCEPT !.waiting_for_event = FALSE,
                                               !.is_scheduled = TRUE]
            ELSE thr[u]]
  BY DEF Trigger
<1>2. /\ ~aborted /\ running = t /\ Runs(t) /\ Referred /\ Counted /\ Departed /\ dis = NoDisable
      /\ thr \in [Threads -> ThreadType] /\ Live(t) /\ ~thr[t].i_have_ended
  BY <1>1, AtEnd
<1> HIDE DEF woken
<1>3. ASSUME NEW u \in Threads
      PROVE  /\ Kin(thr[u], thr'[u]) /\ Flags(u) /\ thr'[u].code = thr[u].code
             /\ thr'[u].joined = thr[u].joined
  <2>0. thr[u] \in ThreadType
    BY <1>2
  <2>1. CASE u \in woken
    <3>1. thr'[u] = [thr[u] EXCEPT !.waiting_for_event = FALSE, !.is_scheduled = TRUE]
      BY <1>1, <2>1
    <3> QED BY <2>0, <3>1 DEF ThreadType, Kin, Flags
  <2>2. CASE u \notin woken
    BY <1>1, <2>0, <2>2 DEF Kin, Flags
  <2> QED BY <2>1, <2>2
<1>4. /\ thr' \in [Threads -> ThreadType] /\ Counted'
      /\ \A u \in Threads : Same(u)
      /\ \A u \in Threads : thr'[u].status = "reaped" =>
           thr'[u].is_scheduled \/ thr'[u].waiting_for_event
  <2>1. thr' = [u \in Threads |-> thr'[u]]
    BY <1>1
  <2>2. thr' \in [Threads -> ThreadType]
    BY <1>3, <2>1 DEF Kin
  <2> QED BY <1>2, <1>3, <2>2 DEF Kin, Counted, Same, Departed, Flags
<1>5. Referred'
  <2>1. Born' = Born
    BY <1>3 DEF Kin, Born
  <2>2. waiters \in [Events -> Seq(Born)] /\ active \in Seq(Seq(Born))
    BY <1>2 DEF Referred
  <2>a. active' = Append(active, waiters[e]) /\ waiters' = [waiters EXCEPT ![e] = <<>>]
    BY <1>1
  <2>b. waiters[e] \in Seq(Born) /\ <<>> \in Seq(Born)
    BY <2>2
  <2>3. active' \in Seq(Seq(Born))
    BY ONLY <2>a, <2>2, <2>b
  <2>4. waiters' \in [Events -> Seq(Born)]
    BY ONLY <2>a, <2>2, <2>b
  <2> QED BY <1>1, <1>2, <2>1, <2>3, <2>4 DEF Referred
<1>6. /\ \A u \in Threads : Live(u) /\ ~thr[u].i_have_ended /\ u # running' =>
            WillResume(u)' \/ (u # running /\ Flags(u))
      /\ running' # None => ~thr'[running'].i_have_ended
      /\ UNCHANGED dis
  BY <1>1, <1>2, <1>3, ZenonT(60) DEF Kin
<1> QED BY <1>2, <1>4, <1>5, <1>6, QuietStep

\* %wait/fork sleeps: a detached child that has not ended is there to wake it up.
LEMMA QuietWaitFork ==
  ASSUME Sound, ThreadAssumption, NEW t \in Threads, WaitFork(t), aborted' = FALSE
  PROVE  Sound'
<1> DEFINE s == [thr[t] EXCEPT !.i_am_waiting = TRUE]
<1>1. /\ AtStatement(t) /\ thr' = [thr EXCEPT ![t] = s] /\ thr[t].detached_children # {}
      /\ running' = None /\ UNCHANGED <<active, sleeping, waiters, rest, dis>>
  BY DEF WaitFork
<1>2. /\ running = t /\ thr[t] \in ThreadType /\ Runs(t) /\ Referred /\ Counted
      /\ thr \in [Threads -> ThreadType] /\ Live(t) /\ Family /\ ~aborted
      /\ TypeOK /\ Departed /\ Rooted
  BY <1>1, AtEnd
<1>3. Kin(thr[t], s) /\ s.code = thr[t].code /\ s.joined = thr[t].joined /\ s.i_am_waiting
  BY <1>2 DEF ThreadType, Kin
<1> HIDE DEF s
<1>4. Born' = Born /\ thr'[t] = s
  BY <1>1, <1>2, <1>3, SameBorn DEF Kin
<1>5. Referred'
  BY <1>1, <1>2, <1>4 DEF Referred
<1>6. s.joined + s.code.joins <= MaxFork
  BY <1>2, <1>3 DEF Counted
<1>7. WillResume(t)'
  <2>1. PICK u \in thr[t].detached_children : TRUE
    BY <1>1
  <2>2. u \in Threads /\ Live(u) /\ u # t
    BY <1>2, Parents
  <2>3. thr[u].i_am_detached
    BY <1>2 DEF Family
  <2>4. ~thr[u].i_have_ended
    BY <1>2, <2>2, <2>3, AtRun
  <2>5. thr'[u] = thr[u]
    BY <1>1, <1>2, <2>2
  <2> QED BY <1>3, <1>4, <2>4, <2>5 DEF WillResume, Kin
<1>8. UNCHANGED dis
  BY <1>1
<1> QED BY <1>1, <1>2, <1>3, <1>5, <1>6, <1>7, <1>8, QuietOpcode

\* %join sleeps: a child that it can join and that has not ended is there to wake it
\* up.
LEMMA QuietJoinWait ==
  ASSUME Sound, ThreadAssumption, ForkAssumption, NEW t \in Threads, JoinWait(t), aborted' = FALSE
  PROVE  Sound'
<1> DEFINE r == [thr[t] EXCEPT !.i_am_joining = TRUE]
           s == [r EXCEPT !.code.joins = @ - 1, !.code.jmp = FALSE, !.joined = @ + 1]
<1>0. /\ Runs(t) /\ thr[t].code.joins > 0 /\ thr[t].children # {}
      /\ \A u \in thr[t].children : ~(thr[u].i_have_ended /\ Joinable(thr, t, u))
      /\ running' = None /\ UNCHANGED <<active, sleeping, waiters, rest, dis>>
      /\ thr' = [thr EXCEPT ![t].i_am_joining = TRUE, ![t].code.joins = @ - 1,
                        ![t].code.jmp = FALSE, ![t].joined = @ + 1]
  BY DEF JoinWait
<1>2. /\ running = t /\ thr[t] \in ThreadType /\ Runs(t) /\ Referred /\ Counted
      /\ thr \in [Threads -> ThreadType] /\ Live(t) /\ Family /\ ~aborted
      /\ TypeOK /\ Departed /\ Rooted /\ ~thr[t].i_have_ended /\ TaskChildren
  BY <1>0, AtRun DEF TypeOK, KinInv
<1>1. thr' = [thr EXCEPT ![t] = s]
  BY <1>0
<1>a. /\ r \in ThreadType /\ r.code = thr[t].code /\ r.joined = thr[t].joined
      /\ r.i_am_joining /\ Kin(thr[t], r)
  BY <1>2 DEF ThreadType, Kin
<1>b. r.code.joins > 0 /\ r.joined + r.code.joins <= MaxFork
  BY <1>0, <1>2, <1>a DEF Counted
<1> HIDE DEF r
<1>c. /\ s \in ThreadType /\ s.joined + s.code.joins <= MaxFork
      /\ s = [r EXCEPT !.code = s.code, !.joined = s.joined]
  BY <1>a, <1>b, CodeJoin
<1> HIDE DEF s
<1>d. /\ s.status = r.status /\ s.parent = r.parent
      /\ s.scope = r.scope /\ s.in_scope = r.in_scope /\ s.children = r.children
      /\ s.detached_children = r.detached_children
      /\ s.task_func_children = r.task_func_children
      /\ s.i_am_detached = r.i_am_detached /\ s.i_have_ended = r.i_have_ended
      /\ s.i_am_joining = r.i_am_joining
  BY <1>a, <1>c, ZenonT(60) DEF ThreadType
<1>3. Kin(thr[t], s) /\ s.i_am_joining
  BY <1>a, <1>c, <1>d DEF Kin
<1>4. Born' = Born /\ thr'[t] = s
  BY <1>1, <1>2, <1>3, SameBorn DEF Kin
<1>5. Referred'
  BY <1>0, <1>2, <1>4 DEF Referred
<1>7. WillResume(t)'
  <2>1. PICK u \in thr[t].children : Joinable(thr, t, u)
    BY <1>0, <1>2 DEF Joinable, TaskChildren
  <2>2. u \in Threads /\ Live(u) /\ u # t
    BY <1>2, Parents
  <2>4. ~thr[u].i_have_ended
    BY <1>0, <2>1
  <2>5. thr'[u] = thr[u]
    BY <1>1, <1>2, <2>2
  <2> QED BY <1>3, <1>4, <2>1, <2>4, <2>5 DEF WillResume, Kin, Joinable
<1>8. UNCHANGED dis
  BY <1>0
<1> QED BY <1>0, <1>1, <1>2, <1>3, <1>5, <1>c, <1>7, <1>8, QuietOpcode

-----------------------------------------------------------------------------
(* %end of a thread that has a parent.                                     *)

\* schedule_vthread at the head of the active region.
LEMMA PushType ==
  ASSUME NEW B, NEW a \in Seq(Seq(B)), NEW p \in B
  PROVE  <<<<p>>>> \o a \in Seq(Seq(B))
<1>1. <<p>> \in Seq(B)
  OBVIOUS
<1>2. <<<<p>>>> \in Seq(Seq(B))
  BY <1>1
<1> QED BY <1>2

\* %end of a child whose parent is elsewhere.
LEMMA KinEndZombie ==
  ASSUME Sound, ThreadAssumption, NEW t \in Threads, EndZombie(t), aborted' = FALSE
  PROVE  Sound'
<1> DEFINE p == thr[t].parent
<1>0. /\ AtStatement(t) /\ p # None /\ ~thr[t].i_am_detached
      /\ ~(thr[p].i_am_joining /\ Joinable(thr, p, t))
      /\ thr' = Released(thr, t) /\ thr[t].children = {} /\ running' = None
      /\ UNCHANGED <<active, sleeping, waiters, rest, dis>>
  BY DEF EndZombie, EndAsserts
<1>1. /\ TypeOK /\ Counted /\ KinInv /\ ~aborted /\ dis = NoDisable /\ running = t
      /\ Live(t) /\ thr \in [Threads -> ThreadType] /\ ReleasedIn(thr, t, Released(thr, t))
      /\ Departed /\ Family /\ Rooted /\ Referred /\ Woken /\ Runs(t)
      /\ p \in Threads /\ Live(p) /\ p # t
      /\ \A u \in thr[t].detached_children : u \in Threads
  BY <1>0, AtEnd DEF ThreadType
<1>2. ReleasedIn(thr, t, thr')
  BY <1>0, <1>1
<1>3. /\ thr' \in [Threads -> ThreadType]
      /\ thr'[t].status = thr[t].status /\ thr'[t].parent = p
      /\ thr'[t].in_scope = thr[t].in_scope
      /\ thr'[t].children = {} /\ thr'[t].detached_children = {}
      /\ ~thr'[t].i_am_detached /\ thr'[t].i_have_ended
      /\ thr'[t].i_am_detached = thr[t].i_am_detached
      /\ thr'[t].code = thr[t].code /\ thr'[t].joined = thr[t].joined
  BY <1>0, <1>1, <1>2 DEF ReleasedIn
<1>4. ASSUME NEW u \in Threads \ {t}
      PROVE  /\ Alike(thr'[u], thr[u])
             /\ thr'[u].children = thr[u].children
             /\ thr'[u].detached_children = thr[u].detached_children
             /\ thr'[u].task_func_children = thr[u].task_func_children
             /\ u \in thr[t].detached_children => thr'[u].parent = None /\ ~thr'[u].i_am_detached
             /\ u \notin thr[t].detached_children =>
                  thr'[u].parent = thr[u].parent /\ thr'[u].i_am_detached = thr[u].i_am_detached
  BY <1>2 DEF ReleasedIn
<1>5. /\ \A u \in thr[t].detached_children : thr[u].parent = t /\ thr[u].i_am_detached
      /\ \A u \in Threads : ~Stacked(u) /\ u # dis.ret
      /\ \A u \in Threads : thr[u].i_have_ended =>
           thr[u].children = {} /\ (Live(u) => thr[u].parent # None /\ ~thr[u].i_am_detached)
      /\ \A u \in Threads : thr'[u].status = thr[u].status
  BY <1>1, <1>3, <1>4, AtRun DEF Family, Alike
<1>6. Departed'
  <2> SUFFICES ASSUME NEW u \in Threads
               PROVE  /\ ~Live(u)' => thr'[u].parent = None /\ thr'[u].children = {}
                                      /\ ~thr'[u].in_scope
                      /\ thr'[u].status \in {"reaped", "deleted"} => thr'[u].i_have_ended
                      /\ thr'[u].status = "reaped" => thr'[u].is_scheduled \/ thr'[u].waiting_for_event
                      /\ thr'[u].parent # None => thr'[u].parent = thr[u].parent
                      /\ thr[u].parent # None => thr[u].parent \in Threads /\ Live(thr[u].parent)
    BY <1>5 DEF Departed, Live
  <2>0. thr[u].parent # None => thr[u].parent \in Threads /\ Live(thr[u].parent)
    BY <1>1 DEF Departed, ThreadType
  <2>1. CASE u = t
    BY <1>1, <1>3, <2>0, <2>1 DEF Live
  <2>2. CASE u # t
    BY <1>1, <1>4, <2>0, <2>2 DEF Departed, Live, Alike
  <2> QED BY <2>1, <2>2
<1>7. Family'
  <2> SUFFICES ASSUME NEW u \in Threads, Live(u)'
               PROVE  /\ \A w \in thr'[u].children : thr'[w].parent = u /\ ~thr'[w].i_am_detached
                      /\ \A w \in thr'[u].detached_children :
                           thr'[w].parent = u /\ thr'[w].i_am_detached
                      /\ thr'[u].parent # None => u \in Siblings(thr, u)'
                      /\ thr'[u].i_am_detached => thr'[u].parent # None
    BY DEF Family
  <2>1. Live(u) /\ thr[u] \in ThreadType
    BY <1>1, <1>5 DEF Live
  <2>2. /\ \A w \in thr[u].children : w \in Threads /\ thr[w].parent = u /\ ~thr[w].i_am_detached
        /\ \A w \in thr[u].detached_children : w \in Threads /\ thr[w].parent = u /\ thr[w].i_am_detached
        /\ thr[u].parent # None => u \in Siblings(thr, u) /\ thr[u].parent \in Threads
        /\ thr[u].i_am_detached => thr[u].parent # None
    BY <1>1, <2>1 DEF Family, ThreadType
  <2>3. \A w \in thr'[u].children : thr'[w].parent = u /\ ~thr'[w].i_am_detached
    BY <1>0, <1>3, <1>4, <1>5, <2>2
  <2>4. \A w \in thr'[u].detached_children : thr'[w].parent = u /\ thr'[w].i_am_detached
    BY <1>0, <1>3, <1>4, <1>5, <2>2
  <2>5. thr'[u].parent # None => u \in Siblings(thr, u)'
    <3>1. thr'[u].parent # None =>
            thr'[u].parent = thr[u].parent /\ thr'[u].i_am_detached = thr[u].i_am_detached
            /\ thr[u].parent # None /\ thr[u].parent # t
      <4>1. CASE u = t
        BY <1>0, <1>1, <1>3, <4>1
      <4>2. CASE u # t
        <5>1. thr'[u].parent # None => u \notin thr[t].detached_children /\ thr[u].parent # None
          BY <1>4, <4>2
        <5>2. thr[u].parent = t => u \in thr[t].detached_children
          BY <1>0, <1>1, <2>2 DEF Siblings, ThreadAssumption
        <5> QED BY <1>4, <4>2, <5>1, <5>2
      <4> QED BY <4>1, <4>2
    <3> QED BY <2>2, <3>1, <1>4 DEF Siblings
  <2> QED BY <2>2, <2>3, <2>4, <2>5, <1>3, <1>4
<1>8. Rooted'
  <2>1. \A u \in Threads : thr'[u].parent = thr[u].parent \/ thr'[u].parent = None
    BY <1>3, <1>4
  <2> QED BY <1>1, <2>1, RootedKeep
<1>9. Ended'
  <2>1. \A u \in Threads : thr'[u].i_have_ended =>
          thr'[u].children = {} /\ (Live(u)' => thr'[u].parent # None /\ ~thr'[u].i_am_detached)
    BY <1>0, <1>3, <1>4, <1>5 DEF Alike, Live
  <2> QED BY <2>1 DEF Ended
<1>10. TaskChildren'
  BY <1>1, <1>3, <1>4 DEF TaskChildren, KinInv, Alike
<1>11. Referred'
  BY <1>0, <1>1, <1>5, BornGrows DEF Referred
<1>12. Counted'
  BY <1>1, <1>3, <1>4 DEF Counted, Alike
<1>13. Woken'
  <2> SUFFICES ASSUME NEW u \in Threads, Live(u)', ~thr'[u].i_have_ended
               PROVE  WillResume(u)'
    BY DEF Woken
  <2>1. u # t /\ Live(u) /\ ~thr[u].i_have_ended /\ u # running
    BY <1>1, <1>3, <1>4 DEF Alike, Live
  <2>2. dis.stack = <<>>
    BY <1>1 DEF NoDisable
  <2>3. WillResume(u) /\ thr[u] \in ThreadType
    BY <1>1, <2>1, <2>2 DEF Woken
  <2>4. /\ \A w \in thr[u].children \cup thr[u].detached_children : w \in Threads /\ thr[w].parent = u
        /\ t \notin thr[u].detached_children
    BY <1>0, <1>1, <2>1, <2>3 DEF Family, ThreadType
  <2>5. \A w \in thr[u].children : Joinable(thr, u, w) /\ thr[u].i_am_joining => w # t
    BY <1>0, <2>4
  <2> QED BY <1>4, <2>1, <2>3, <2>4, <2>5 DEF WillResume, Joinable, Alike
<1> QED BY <1>0, <1>1, <1>3, <1>6, <1>7, <1>8, <1>9, <1>10, <1>11, <1>12, <1>13, Settle

\* %end of a child that a %join waits for.
LEMMA KinEndJoined ==
  ASSUME Sound, ThreadAssumption, NEW t \in Threads, EndJoined(t), aborted' = FALSE
  PROVE  Sound'
<1> DEFINE p == thr[t].parent
           L == Released(thr, t)
           s == [L[p] EXCEPT !.is_scheduled = TRUE, !.i_am_joining = FALSE]
           S == [L EXCEPT ![p] = s]
<1>0. /\ AtStatement(t) /\ p # None /\ ~thr[t].i_am_detached
      /\ thr' = DoJoin([[L EXCEPT ![p].is_scheduled = TRUE] EXCEPT ![p].i_am_joining = FALSE], p, t)
      /\ thr[t].children = {} /\ running' = None
      /\ active' = <<<<p>>>> \o active /\ UNCHANGED <<sleeping, waiters, rest, dis>>
  BY DEF EndJoined, EndAsserts, Scheduled, PushFront
<1>1. /\ TypeOK /\ Counted /\ KinInv /\ ~aborted /\ dis = NoDisable /\ running = t
      /\ Live(t) /\ thr \in [Threads -> ThreadType] /\ ReleasedIn(thr, t, L)
      /\ Departed /\ Family /\ Rooted /\ Referred /\ Woken /\ Runs(t)
      /\ p \in Threads /\ Live(p) /\ p # t /\ p \notin thr[t].detached_children
  BY <1>0, AtEnd
<1> HIDE DEF L
<1>2. L \in [Threads -> ThreadType] /\ Alike(L[p], thr[p])
  BY <1>1 DEF ReleasedIn
<1>3. thr' = DoJoin(S, p, t)
  <2>1. [[L EXCEPT ![p].is_scheduled = TRUE] EXCEPT ![p].i_am_joining = FALSE] = S
    BY <1>1, <1>2
  <2> QED BY <1>0, <2>1
<1>4. L[p] \in ThreadType
  BY <1>1, <1>2
<1>5. /\ s \in ThreadType /\ s.is_scheduled /\ s.status = L[p].status /\ s.scope = L[p].scope
      /\ s.in_scope = L[p].in_scope /\ s.i_have_ended = L[p].i_have_ended
      /\ s.waiting_for_event = L[p].waiting_for_event /\ s.parent = L[p].parent
      /\ s.i_am_detached = L[p].i_am_detached /\ s.children = L[p].children
      /\ s.detached_children = L[p].detached_children
      /\ s.task_func_children = L[p].task_func_children
      /\ s.code = L[p].code /\ s.joined = L[p].joined
  BY <1>4 DEF ThreadType
<1> HIDE DEF s
<1>6. /\ S \in [Threads -> ThreadType] /\ S[p] = s /\ \A u \in Threads \ {p} : S[u] = L[u]
  BY <1>1, <1>2, <1>5
<1> HIDE DEF S
<1>7. /\ S[t] = L[t] /\ L[t].children = {} /\ L[t].parent = p /\ ~L[t].i_am_detached
      /\ L[t].detached_children = {}
  BY <1>0, <1>1, <1>6 DEF ReleasedIn
<1>8. JoinedIn(S, p, t, thr')
  BY <1>1, <1>3, <1>6, <1>7, JoinEffect
<1>9. Reaps(t)
  <2>1. /\ thr'[t].status \in {"reaped", "deleted"} /\ thr'[t].i_have_ended
        /\ thr'[t].status = "reaped" => thr'[t].is_scheduled \/ thr'[t].waiting_for_event
        /\ thr'[t].parent = None /\ ~thr'[t].in_scope /\ thr'[t].children = {}
    BY <1>1, <1>7, <1>8 DEF JoinedIn, ReleasedIn
  <2>2. ASSUME NEW u \in Threads \ {t}
        PROVE  /\ Alike(thr'[u], S[u]) /\ Alike(L[u], thr[u])
               /\ thr'[u].parent = S[u].parent /\ thr'[u].i_am_detached = S[u].i_am_detached
               /\ thr'[u].detached_children = S[u].detached_children
               /\ u # p => /\ thr'[u].children = S[u].children
                           /\ thr'[u].task_func_children = S[u].task_func_children
               /\ u \in thr[t].detached_children => L[u].parent = None /\ ~L[u].i_am_detached
               /\ u \notin thr[t].detached_children =>
                     L[u].parent = thr[u].parent /\ L[u].i_am_detached = thr[u].i_am_detached
               /\ L[u].children = thr[u].children /\ L[u].detached_children = thr[u].detached_children
               /\ L[u].task_func_children = thr[u].task_func_children
    <3>1. /\ Alike(thr'[u], S[u])
          /\ thr'[u].parent = S[u].parent /\ thr'[u].i_am_detached = S[u].i_am_detached
          /\ thr'[u].detached_children = S[u].detached_children
          /\ u # p => /\ thr'[u].children = S[u].children
                      /\ thr'[u].task_func_children = S[u].task_func_children
      BY <1>7, <1>8 DEF JoinedIn
    <3> QED BY <3>1, <1>1 DEF ReleasedIn
  <2>3. /\ thr'[p].children = S[p].children \ {t}
        /\ thr'[p].task_func_children = S[p].task_func_children \ {t}
    BY <1>8 DEF JoinedIn
  <2>4. t \notin thr[p].detached_children
    BY <1>0, <1>1 DEF Family
  <2>5. ASSUME NEW u \in Threads \ {t}, u # p
        PROVE  /\ Alike(thr'[u], thr[u]) /\ thr'[u].children = thr[u].children
               /\ thr'[u].detached_children = thr[u].detached_children
               /\ thr'[u].task_func_children = thr[u].task_func_children
               /\ u \in thr[t].detached_children => thr'[u].parent = None /\ ~thr'[u].i_am_detached
               /\ u \notin thr[t].detached_children =>
                     thr'[u].parent = thr[u].parent /\ thr'[u].i_am_detached = thr[u].i_am_detached
    <3>1. S[u] = L[u]
      BY <1>6, <2>5
    <3> QED BY <2>2, <2>5, <3>1 DEF Alike
  <2>6. /\ thr'[p].status = thr[p].status /\ thr'[p].scope = thr[p].scope
        /\ thr'[p].in_scope = thr[p].in_scope /\ thr'[p].i_have_ended = thr[p].i_have_ended
        /\ thr'[p].waiting_for_event = thr[p].waiting_for_event /\ thr'[p].is_scheduled
        /\ thr'[p].parent = thr[p].parent /\ thr'[p].i_am_detached = thr[p].i_am_detached
        /\ thr'[p].children = thr[p].children \ {t}
        /\ thr'[p].detached_children = thr[p].detached_children \ {t}
        /\ thr'[p].task_func_children = thr[p].task_func_children \ {t}
    BY <1>1, <1>5, <1>6, <2>2, <2>3, <2>4, SMTT(30) DEF Alike
  <2> QED BY <1>1, <2>1, <2>5, <2>6, SMTT(30) DEF Alike, Reaps
<1>10. thr'[p].is_scheduled /\ thr'[p].status = thr[p].status
  BY <1>1, <1>2, <1>5, <1>6, <1>8, SMTT(30) DEF JoinedIn, Alike
<1>11. Referred'
  <2>1. /\ Born \subseteq Born' /\ active \in Seq(Seq(Born')) /\ rest \in Seq(Born')
        /\ sleeping \subseteq Born' /\ waiters \in [Events -> Seq(Born')]
    BY <1>1, <1>9, BornGrows DEF Reaps
  <2>2. p \in Born'
    BY <1>1, <2>1 DEF Born, Live
  <2>3. active' \in Seq(Seq(Born'))
    BY <1>0, <2>1, <2>2, PushType
  <2> QED BY <1>0, <2>1, <2>3 DEF Referred
<1>12. Counted' /\ thr' \in [Threads -> ThreadType]
  <2>1. \A u \in Threads : thr'[u].code = L[u].code /\ thr'[u].joined = L[u].joined
    BY <1>1, <1>5, <1>6, <1>7, <1>8 DEF JoinedIn, Alike
  <2>2. \A u \in Threads : L[u].code = thr[u].code /\ L[u].joined = thr[u].joined
    BY <1>1 DEF ReleasedIn, Alike
  <2> QED BY <1>1, <1>8, <2>1, <2>2 DEF Counted, JoinedIn
<1>13. \A q \in Threads : q = thr[t].parent => WillResume(q)'
  BY <1>10 DEF WillResume
<1>14. UNCHANGED dis
  BY <1>0
<1> QED BY <1>0, <1>1, <1>9, <1>11, <1>12, <1>13, <1>14, ReapsSettle

\* %end of a detached child: the last one wakes up a %wait/fork.
LEMMA KinEndDetached ==
  ASSUME Sound, ThreadAssumption, NEW t \in Threads, EndDetached(t), aborted' = FALSE
  PROVE  Sound'
<1> DEFINE p == thr[t].parent
           L == Released(thr, t)
           d == L[p].detached_children \ {t}
           wake == thr[p].i_am_waiting /\ d = {}
           x == [L[t] EXCEPT !.i_am_detached = FALSE, !.parent = None]
           y == [L[p] EXCEPT !.detached_children = d]
           z == [y EXCEPT !.is_scheduled = TRUE, !.i_am_waiting = FALSE]
           s == IF wake THEN z ELSE y
           T == [L EXCEPT ![p].detached_children = @ \ {t},
                          ![t].i_am_detached = FALSE, ![t].parent = None]
           W == IF thr[p].i_am_waiting /\ T[p].detached_children = {}
                THEN [[T EXCEPT ![p].is_scheduled = TRUE] EXCEPT ![p].i_am_waiting = FALSE]
                ELSE T
           S == [L EXCEPT ![p] = s, ![t] = x]
<1>0. /\ AtStatement(t) /\ thr[t].i_am_detached /\ thr' = Reap(W, t)
      /\ active' = IF thr[p].i_am_waiting /\ T[p].detached_children = {}
                   THEN <<<<p>>>> \o active ELSE active
      /\ thr[t].children = {} /\ running' = None /\ UNCHANGED <<sleeping, waiters, rest, dis>>
  BY Zenon DEF EndDetached, EndAsserts, Scheduled, PushFront
<1>1. /\ TypeOK /\ Counted /\ KinInv /\ ~aborted /\ dis = NoDisable /\ running = t
      /\ Live(t) /\ thr \in [Threads -> ThreadType] /\ ReleasedIn(thr, t, L)
      /\ Departed /\ Family /\ Rooted /\ Referred /\ Woken /\ Runs(t)
      /\ p # None /\ p \in Threads /\ Live(p) /\ p # t /\ p \notin thr[t].detached_children
  <2>1. p # None
    BY <1>0, AtEnd, Zenon DEF Family
  <2> QED BY <1>0, <2>1, AtEnd, Zenon
<1> HIDE DEF L
<1>2. /\ L \in [Threads -> ThreadType] /\ Alike(L[p], thr[p]) /\ L[p] \in ThreadType
      /\ L[t] \in ThreadType
  BY <1>1 DEF ReleasedIn
<1>3. T = [L EXCEPT ![p] = y, ![t] = x]
  BY <1>1, <1>2
<1>a. y \in ThreadType /\ x \in ThreadType /\ y.detached_children = d
  <2>1. d \in SUBSET Threads
    BY <1>2 DEF ThreadType
  <2> HIDE DEF d
  <2> QED BY <1>2, <2>1 DEF ThreadType
<1>4. W = S /\ active' = IF wake THEN <<<<p>>>> \o active ELSE active
  <2> HIDE DEF T
  <2>1. T[p] = y /\ T[t] = x /\ T \in [Threads -> ThreadType]
    BY <1>1, <1>2, <1>3, <1>a
  <2> HIDE DEF x, d
  <2>2. T[p].detached_children = d
    BY <2>1, <1>a
  <2>3. CASE wake
    <3>1. W = [[T EXCEPT ![p].is_scheduled = TRUE] EXCEPT ![p].i_am_waiting = FALSE]
      BY <2>2, <2>3
    <3>2. W = [T EXCEPT ![p] = z]
      BY <1>1, <2>1, <3>1
    <3> HIDE DEF W, y, z
    <3>3. W = [L EXCEPT ![p] = z, ![t] = x]
      BY <1>1, <1>2, <1>3, <3>2
    <3> QED BY <3>3, <2>2, <2>3, <1>0
  <2>4. CASE ~wake
    BY <1>0, <1>3, <2>2, <2>4, Zenon
  <2> QED BY <2>3, <2>4
<1> HIDE DEF T, W
<1>5. /\ x \in ThreadType /\ x.parent = None /\ x.status = L[t].status
      /\ x.children = L[t].children /\ x.detached_children = L[t].detached_children
      /\ x.i_have_ended = L[t].i_have_ended /\ x.is_scheduled = L[t].is_scheduled
      /\ x.waiting_for_event = L[t].waiting_for_event
      /\ x.code = L[t].code /\ x.joined = L[t].joined
  BY <1>2 DEF ThreadType
<1> HIDE DEF x
<1>6. /\ s \in ThreadType /\ s.status = L[p].status /\ s.scope = L[p].scope
      /\ s.in_scope = L[p].in_scope /\ s.i_have_ended = L[p].i_have_ended
      /\ s.waiting_for_event = L[p].waiting_for_event /\ s.parent = L[p].parent
      /\ s.i_am_detached = L[p].i_am_detached /\ s.children = L[p].children
      /\ s.detached_children = d /\ s.task_func_children = L[p].task_func_children
      /\ s.code = L[p].code /\ s.joined = L[p].joined
      /\ wake => s.is_scheduled
      /\ ~wake => /\ s.is_scheduled = L[p].is_scheduled /\ s.i_am_joining = L[p].i_am_joining
                  /\ s.i_am_waiting = L[p].i_am_waiting
      /\ L[p].is_scheduled => s.is_scheduled
  <2> HIDE DEF d
  <2>0. /\ y.status = L[p].status /\ y.scope = L[p].scope
        /\ y.in_scope = L[p].in_scope /\ y.i_have_ended = L[p].i_have_ended
        /\ y.waiting_for_event = L[p].waiting_for_event /\ y.parent = L[p].parent
        /\ y.i_am_detached = L[p].i_am_detached /\ y.children = L[p].children
        /\ y.detached_children = d /\ y.task_func_children = L[p].task_func_children
        /\ y.code = L[p].code /\ y.joined = L[p].joined
        /\ y.is_scheduled = L[p].is_scheduled /\ y.i_am_joining = L[p].i_am_joining
        /\ y.i_am_waiting = L[p].i_am_waiting
    BY <1>2 DEF ThreadType
  <2> HIDE DEF y
  <2>1. CASE wake
    <3>1. s = z
      BY <2>1
    <3>2. z \in ThreadType
      BY <1>a DEF ThreadType
    <3>4. /\ z.status = y.status /\ z.scope = y.scope
          /\ z.in_scope = y.in_scope /\ z.i_have_ended = y.i_have_ended
          /\ z.waiting_for_event = y.waiting_for_event /\ z.parent = y.parent
          /\ z.i_am_detached = y.i_am_detached /\ z.children = y.children
          /\ z.detached_children = y.detached_children /\ z.task_func_children = y.task_func_children
          /\ z.code = y.code /\ z.joined = y.joined /\ z.is_scheduled
      BY <1>a DEF ThreadType
    <3> HIDE DEF z
    <3> QED BY <2>0, <2>1, <3>1, <3>2, <3>4
  <2>2. CASE ~wake
    <3>1. s = y
      BY <2>2
    <3> QED BY <1>a, <2>0, <2>2, <3>1
  <2> QED BY <2>1, <2>2
<1> HIDE DEF s
<1>7. /\ S \in [Threads -> ThreadType] /\ S[p] = s /\ S[t] = x
      /\ \A u \in Threads \ {p, t} : S[u] = L[u]
  BY <1>1, <1>2, <1>5, <1>6
<1> HIDE DEF S
<1>8. /\ S[t].children = {} /\ S[t].parent = None /\ S[t].detached_children = {}
  BY <1>0, <1>1, <1>5, <1>7 DEF ReleasedIn
<1>9. ReapedIn(S, t, thr')
  BY <1>0, <1>1, <1>4, <1>7, <1>8, ReapEffect DEF ThreadAssumption
<1>10. ASSUME NEW u \in Threads \ {t}
       PROVE  /\ Alike(thr'[u], S[u]) /\ thr'[u].task_func_children = S[u].task_func_children
              /\ thr'[u].parent = S[u].parent /\ thr'[u].i_am_detached = S[u].i_am_detached
              /\ thr'[u].children = S[u].children
              /\ thr'[u].detached_children = S[u].detached_children
  <2>1. u # S[t].parent /\ u \notin S[t].detached_children
    BY <1>8 DEF ThreadAssumption
  <2> QED BY <1>9, <2>1 DEF ReapedIn
<1>11. ASSUME NEW u \in Threads \ {t}
       PROVE  /\ Alike(L[u], thr[u])
              /\ L[u].children = thr[u].children /\ L[u].detached_children = thr[u].detached_children
              /\ L[u].task_func_children = thr[u].task_func_children
              /\ u \in thr[t].detached_children => L[u].parent = None /\ ~L[u].i_am_detached
              /\ u \notin thr[t].detached_children =>
                    L[u].parent = thr[u].parent /\ L[u].i_am_detached = thr[u].i_am_detached
  BY <1>1 DEF ReleasedIn
<1>12. /\ thr'[p].status = thr[p].status /\ thr'[p].scope = thr[p].scope
       /\ thr'[p].in_scope = thr[p].in_scope /\ thr'[p].i_have_ended = thr[p].i_have_ended
       /\ thr'[p].waiting_for_event = thr[p].waiting_for_event
       /\ thr'[p].parent = thr[p].parent /\ thr'[p].i_am_detached = thr[p].i_am_detached
       /\ thr'[p].children = thr[p].children
       /\ thr'[p].detached_children = thr[p].detached_children \ {t}
       /\ thr'[p].task_func_children = thr[p].task_func_children
       /\ thr[p].is_scheduled => thr'[p].is_scheduled
       /\ wake => thr'[p].is_scheduled
       /\ ~wake => /\ thr'[p].i_am_joining = thr[p].i_am_joining
                   /\ thr'[p].i_am_waiting = thr[p].i_am_waiting
  BY <1>1, <1>6, <1>7, <1>10, <1>11, SMTT(30) DEF Alike
<1>13. t \in thr[p].detached_children /\ t \notin thr[p].children
  BY <1>0, <1>1 DEF Family, Siblings
<1>14. Reaps(t)
  <2>1. /\ thr'[t].status \in {"reaped", "deleted"} /\ thr'[t].i_have_ended
        /\ thr'[t].status = "reaped" => thr'[t].is_scheduled \/ thr'[t].waiting_for_event
        /\ thr'[t].parent = None /\ ~thr'[t].in_scope /\ thr'[t].children = {}
    BY <1>1, <1>5, <1>7, <1>9 DEF ReapedIn, ReleasedIn
  <2>2. ASSUME NEW u \in Threads \ {t}, u # p
        PROVE  /\ Alike(thr'[u], thr[u]) /\ thr'[u].children = thr[u].children
               /\ thr'[u].detached_children = thr[u].detached_children
               /\ thr'[u].task_func_children = thr[u].task_func_children
               /\ u \in thr[t].detached_children => thr'[u].parent = None /\ ~thr'[u].i_am_detached
               /\ u \notin thr[t].detached_children =>
                     thr'[u].parent = thr[u].parent /\ thr'[u].i_am_detached = thr[u].i_am_detached
    <3>1. S[u] = L[u]
      BY <1>7, <2>2
    <3> QED BY <1>10, <1>11, <2>2, <3>1 DEF Alike
  <2>3. thr'[p].children = thr[p].children \ {t}
    BY <1>12, <1>13
  <2> QED BY <1>0, <1>1, <1>12, <2>1, <2>2, <2>3, SMTT(30) DEF Alike, Reaps
<1>15. Referred'
  <2>1. /\ Born \subseteq Born' /\ active \in Seq(Seq(Born')) /\ rest \in Seq(Born')
        /\ sleeping \subseteq Born' /\ waiters \in [Events -> Seq(Born')]
    BY <1>1, <1>14, BornGrows DEF Reaps
  <2>2. p \in Born'
    BY <1>1, <2>1 DEF Born, Live
  <2>3. active' \in Seq(Seq(Born'))
    BY <1>4, <2>1, <2>2, PushType
  <2> QED BY <1>0, <2>1, <2>3 DEF Referred
<1>16. Counted' /\ thr' \in [Threads -> ThreadType]
  <2>1. \A u \in Threads : thr'[u].code = L[u].code /\ thr'[u].joined = L[u].joined
    <3>1. thr'[t].code = L[t].code /\ thr'[t].joined = L[t].joined
      BY <1>5, <1>7, <1>9 DEF ReapedIn
    <3> QED BY <1>6, <1>7, <1>10, <3>1 DEF Alike
  <2>2. \A u \in Threads : L[u].code = thr[u].code /\ L[u].joined = thr[u].joined
    BY <1>1 DEF ReleasedIn, Alike
  <2> QED BY <1>1, <1>9, <2>1, <2>2 DEF Counted, ReapedIn
<1>17. ASSUME NEW q \in Threads, q = thr[t].parent, ~thr[q].i_have_ended
       PROVE  WillResume(q)'
  <2>1. CASE wake
    BY <1>12, <1>17, <2>1 DEF WillResume
  <2>2. CASE ~wake
    <3>0. dis.stack = <<>> /\ thr[q] \in ThreadType
      BY <1>1 DEF NoDisable
    <3>1. WillResume(q)
      BY <1>1, <1>17, <3>0 DEF Woken
    <3>2. \A w \in thr[q].children \cup thr[q].detached_children :
            w # t => w \in Threads \ {t} /\ thr'[w].i_have_ended = thr[w].i_have_ended
      BY <1>14, <3>0 DEF Reaps, ThreadType
    <3>3. CASE thr[q].is_scheduled \/ thr[q].waiting_for_event
      BY <1>12, <1>17, <3>3 DEF WillResume
    <3>4. CASE thr[q].i_am_joining /\ \E u \in thr[q].children : ~thr[u].i_have_ended /\ Joinable(thr, q, u)
      BY <1>12, <1>13, <1>17, <2>2, <3>2, <3>4 DEF WillResume, Joinable
    <3>5. CASE thr[q].i_am_waiting /\ \E u \in thr[q].detached_children : ~thr[u].i_have_ended
      <4>1. thr[q].detached_children \ {t} # {}
        BY <1>1, <1>17, <1>11, <2>2, <3>5
      <4>2. PICK w \in thr[q].detached_children : w # t
        BY <4>1
      <4>3. w \in Threads /\ Live(w) /\ thr[w].i_am_detached
        BY <1>1, <1>17, <4>2, Parents DEF Family
      <4>4. ~thr[w].i_have_ended
        BY <1>1, <4>3, AtRun
      <4>5. ~thr'[w].i_have_ended /\ w \in thr'[q].detached_children /\ thr'[q].i_am_waiting
        BY <1>12, <1>17, <2>2, <3>2, <3>5, <4>2, <4>4
      <4> QED BY <4>5 DEF WillResume
    <3> QED BY <3>1, <3>3, <3>4, <3>5 DEF WillResume
  <2> QED BY <2>1, <2>2
<1>18. UNCHANGED dis
  BY <1>0
<1> QED BY <1>0, <1>1, <1>14, <1>15, <1>16, <1>17, <1>18, ReapsSettle, Zenon

-----------------------------------------------------------------------------
(* %fork and %join/detach.                                                 *)

\* A new thread.
LEMMA NewFields ==
  ASSUME ForkAssumption, NEW t \in Threads, NEW c \in Scopes, NEW n,
         n = [NewThread(c) EXCEPT !.parent = t, !.is_scheduled = TRUE]
  PROVE  /\ n \in ThreadType /\ n.status = "live" /\ n.parent = t
         /\ n.children = {} /\ n.detached_children = {} /\ n.task_func_children = {}
         /\ ~n.i_am_detached /\ ~n.i_have_ended /\ n.is_scheduled
         /\ n.joined + n.code.joins <= MaxFork
<1>1. /\ NoCode \in CodeType /\ NoCode.joins = 0
  BY DEF NoCode, CodeType, ForkAssumption, Scopes
<1>2. 0 \in 0..MaxFork /\ MaxFork \in Nat
  BY DEF ForkAssumption
<1>3. NewThread(c) \in ThreadType
  BY <1>1, <1>2 DEF NewThread, ThreadType
<1>4. n \in ThreadType
  BY <1>3 DEF ThreadType
<1>5. /\ n.status = "live" /\ n.parent = t
      /\ n.children = {} /\ n.detached_children = {} /\ n.task_func_children = {}
      /\ ~n.i_am_detached /\ ~n.i_have_ended /\ n.is_scheduled
      /\ n.joined = 0 /\ n.code = NoCode
  BY DEF NewThread
<1> QED BY <1>1, <1>2, <1>4, <1>5

\* %fork: the new thread has no children, so no cycle can go through it.
LEMMA KinFork ==
  ASSUME Sound, ThreadAssumption, ForkAssumption, NEW t \in Threads, Fork(t)
  PROVE  Sound'
<1>0. /\ Runs(t) /\ thr[t].code.forks > 0
      /\ UNCHANGED <<sleeping, waiters, running, rest, dis, aborted>>
  BY DEF Fork
<1>1. /\ ~aborted /\ KinInv /\ TypeOK /\ Counted /\ dis = NoDisable /\ running = t
      /\ Live(t) /\ ~thr[t].i_have_ended /\ thr \in [Threads -> ThreadType] /\ thr[t] \in ThreadType
      /\ Departed /\ Family /\ Rooted /\ Referred /\ Woken /\ Ended /\ TaskChildren
      /\ \A u \in Threads : ~Stacked(u) /\ u # dis.ret
      /\ \A u \in Threads : thr[u].i_have_ended =>
           thr[u].children = {} /\ (Live(u) => thr[u].parent # None /\ ~thr[u].i_am_detached)
  BY <1>0, AtRun DEF KinInv, TypeOK
<1>2. PICK u \in Threads :
       /\ thr[u].status = "unborn"
       /\ thr' = [thr EXCEPT
            ![u] = [NewThread(thr[t].code.scope) EXCEPT !.parent = t,
                                                        !.is_scheduled = TRUE],
            ![t] = [thr[t] EXCEPT
                      !.children = @ \cup {u},
                      !.task_func_children =
                          IF thr[t].code.scope \in Tasks THEN @ \cup {u} ELSE @,
                      !.code.forks = @ - 1,
                      !.kids = @ \cup {u}]]
       /\ active' = PushFront(u)
  BY DEF Fork
<1> DEFINE n == [NewThread(thr[t].code.scope) EXCEPT !.parent = t, !.is_scheduled = TRUE]
           f == IF thr[t].code.scope \in Tasks THEN thr[t].task_func_children \cup {u}
                ELSE thr[t].task_func_children
           c == [thr[t].code EXCEPT !.forks = @ - 1]
           s == [thr[t] EXCEPT !.children = @ \cup {u}, !.task_func_children = f, !.code = c,
                               !.kids = @ \cup {u}]
<1>3. u # t /\ thr[u].parent = None /\ ~Live(u)
  BY <1>1, <1>2 DEF Live, Departed
<1>4. /\ c \in CodeType /\ c.joins = thr[t].code.joins /\ thr[t].code.scope \in Scopes
      /\ f \in SUBSET Threads
  <2>1. thr[t].code \in CodeType /\ thr[t].task_func_children \in SUBSET Threads
    BY <1>1 DEF ThreadType
  <2>2. thr[t].code.forks \in 0..MaxFork /\ MaxFork \in Nat
    BY <2>1 DEF CodeType, ForkAssumption
  <2>3. thr[t].code.forks - 1 \in 0..MaxFork
    BY <1>0, <2>2
  <2> QED BY <2>1, <2>3 DEF CodeType
<1>5. thr' = [thr EXCEPT ![u] = n, ![t] = s]
  <2> DEFINE a == [thr[t] EXCEPT !.children = @ \cup {u},
                     !.task_func_children = IF thr[t].code.scope \in Tasks THEN @ \cup {u} ELSE @,
                     !.code.forks = @ - 1, !.kids = @ \cup {u}]
  <2>1. thr' = [thr EXCEPT ![u] = n, ![t] = a]
    BY <1>2
  <2>2. a = s
    <3>1. [thr[t] EXCEPT !.children = @ \cup {u}].task_func_children = thr[t].task_func_children
      BY <1>1 DEF ThreadType
    <3>2. a = [thr[t] EXCEPT !.children = @ \cup {u}, !.task_func_children = f,
            !.code.forks = @ - 1, !.kids = @ \cup {u}]
      BY <3>1
    <3> HIDE DEF f, a
    <3> QED BY <1>1, <3>2 DEF ThreadType
  <2> QED BY <2>1, <2>2
<1>6. /\ n \in ThreadType /\ n.status = "live" /\ n.parent = t
      /\ n.children = {} /\ n.detached_children = {} /\ n.task_func_children = {}
      /\ ~n.i_am_detached /\ ~n.i_have_ended /\ n.is_scheduled
      /\ n.joined + n.code.joins <= MaxFork
  BY <1>4, NewFields
<1> HIDE DEF n
<1>7. /\ s \in ThreadType /\ s.status = thr[t].status /\ s.parent = thr[t].parent
      /\ s.in_scope = thr[t].in_scope /\ s.children = thr[t].children \cup {u}
      /\ s.detached_children = thr[t].detached_children /\ s.task_func_children = f
      /\ s.i_am_detached = thr[t].i_am_detached /\ s.i_have_ended = thr[t].i_have_ended
      /\ s.code = c /\ s.joined = thr[t].joined
  <2>1. thr[t].children \cup {u} \in SUBSET Threads /\ thr[t].kids \cup {u} \in SUBSET Threads
    BY <1>1 DEF ThreadType
  <2> HIDE DEF c, f
  <2> QED BY <1>1, <1>4, <2>1 DEF ThreadType
<1> HIDE DEF s
<1>8. /\ thr'[u] = n /\ thr'[t] = s /\ (\A w \in Threads \ {u, t} : thr'[w] = thr[w])
      /\ thr' \in [Threads -> ThreadType]
  BY <1>1, <1>3, <1>5, <1>6, <1>7
<1>9. \A w \in Threads : thr[w].parent # u /\ (thr[w].parent # None => thr[w].parent \in Threads)
  BY <1>1, <1>3 DEF Departed, ThreadType, ThreadAssumption
<1>a. f \subseteq thr[t].task_func_children \cup {u} /\ thr[t].task_func_children \subseteq thr[t].children
  BY <1>1 DEF TaskChildren
<1> HIDE DEF f, c
<1>10. Departed'
  <2> SUFFICES ASSUME NEW w \in Threads
               PROVE  /\ ~Live(w)' => thr'[w].parent = None /\ thr'[w].children = {}
                                      /\ ~thr'[w].in_scope
                      /\ thr'[w].status \in {"reaped", "deleted"} => thr'[w].i_have_ended
                      /\ thr'[w].status = "reaped" => thr'[w].is_scheduled \/ thr'[w].waiting_for_event
                      /\ thr'[w].parent # None => thr'[thr'[w].parent].status = "live"
    BY DEF Departed, Live
  <2>1. CASE w = u
    BY <1>1, <1>6, <1>7, <1>8, <2>1 DEF Live
  <2>2. CASE w = t
    <3>1. thr[t].parent # None => thr[t].parent \in Threads \ {u, t} /\ Live(thr[t].parent)
      BY <1>1, <1>9, Parents
    <3> QED BY <1>1, <1>7, <1>8, <2>2, <3>1 DEF Live
  <2>3. CASE w # u /\ w # t
    <3>1. thr[w].parent # None => thr[w].parent \in Threads \ {u} /\ Live(thr[w].parent)
      BY <1>1, <1>9 DEF Departed
    <3> QED BY <1>1, <1>7, <1>8, <2>3, <3>1 DEF Live, Departed
  <2> QED BY <2>1, <2>2, <2>3
<1>11. Family'
  <2> SUFFICES ASSUME NEW w \in Threads, Live(w)'
               PROVE  /\ \A v \in thr'[w].children : thr'[v].parent = w /\ ~thr'[v].i_am_detached
                      /\ \A v \in thr'[w].detached_children :
                           thr'[v].parent = w /\ thr'[v].i_am_detached
                      /\ thr'[w].parent # None => w \in Siblings(thr, w)'
                      /\ thr'[w].i_am_detached => thr'[w].parent # None
    BY DEF Family
  <2>1. CASE w = u
    BY <1>3, <1>6, <1>7, <1>8, <2>1 DEF Siblings
  <2>2. CASE w # u
    <3>1. Live(w) /\ thr[w] \in ThreadType
      BY <1>1, <1>7, <1>8, <2>2 DEF Live
    <3>2. /\ \A v \in thr[w].children : v \in Threads \ {u} /\ thr[v].parent = w /\ ~thr[v].i_am_detached
          /\ \A v \in thr[w].detached_children : v \in Threads \ {u} /\ thr[v].parent = w /\ thr[v].i_am_detached
          /\ thr[w].parent # None => w \in Siblings(thr, w) /\ thr[w].parent \in Threads \ {u}
          /\ thr[w].i_am_detached => thr[w].parent # None
      BY <1>1, <1>3, <1>9, <3>1 DEF Family, ThreadType, ThreadAssumption
    <3>3. \A v \in Threads \ {u} : /\ thr'[v].parent = thr[v].parent
                                   /\ thr'[v].i_am_detached = thr[v].i_am_detached
                                   /\ thr'[v].detached_children = thr[v].detached_children
                                   /\ thr[v].children \subseteq thr'[v].children
                                   /\ v # t => thr'[v].children = thr[v].children
      BY <1>7, <1>8
    <3>4. \A v \in thr'[w].children : thr'[v].parent = w /\ ~thr'[v].i_am_detached
      <4>1. CASE w = t
        BY <1>6, <1>7, <1>8, <3>2, <3>3, <4>1
      <4>2. CASE w # t
        BY <2>2, <3>2, <3>3, <4>2
      <4> QED BY <4>1, <4>2
    <3>5. thr'[w].parent # None => w \in Siblings(thr, w)'
      BY <2>2, <3>2, <3>3 DEF Siblings
    <3> QED BY <2>2, <3>2, <3>3, <3>4, <3>5
  <2> QED BY <2>1, <2>2
<1>12. Rooted'
  <2> SUFFICES ASSUME NEW S \in SUBSET Threads, S # {}
               PROVE  \E w \in S : thr'[w].parent \notin S
    BY DEF Rooted
  <2>1. CASE S = {u}
    BY <1>3, <1>6, <1>8, <2>1
  <2>2. CASE S # {u}
    <3>1. PICK w \in S \ {u} : thr[w].parent \notin S \ {u}
      BY <1>1, <2>2 DEF Rooted
    <3>2. thr'[w].parent = thr[w].parent /\ w \in Threads
      BY <1>7, <1>8, <3>1
    <3> QED BY <1>9, <3>1, <3>2
  <2> QED BY <2>1, <2>2
<1>13. Ended'
  <2>1. \A w \in Threads : thr'[w].i_have_ended =>
          thr'[w].children = {} /\ (Live(w)' => thr'[w].parent # None /\ ~thr'[w].i_am_detached)
    BY <1>1, <1>6, <1>7, <1>8 DEF Live
  <2> QED BY <2>1 DEF Ended
<1>14. TaskChildren'
  <2> SUFFICES ASSUME NEW w \in Threads, ~thr'[w].i_have_ended
               PROVE  thr'[w].task_func_children \subseteq thr'[w].children
    BY DEF TaskChildren
  <2>1. CASE w = u
    BY <1>6, <1>8, <2>1
  <2>2. CASE w = t
    BY <1>7, <1>8, <1>a, <2>2
  <2>3. CASE w # u /\ w # t
    BY <1>1, <1>8, <2>3 DEF TaskChildren
  <2> QED BY <2>1, <2>2, <2>3
<1>15. Referred'
  <2>1. /\ Born \subseteq Born' /\ active \in Seq(Seq(Born')) /\ rest \in Seq(Born')
        /\ sleeping \subseteq Born' /\ waiters \in [Events -> Seq(Born')]
        /\ running \in Born' \cup {None}
    BY <1>1, <1>6, <1>7, <1>8, BornGrows
  <2>2. u \in Born'
    BY <1>6, <1>8 DEF Born
  <2>3. active' \in Seq(Seq(Born'))
    BY <1>2, <2>1, <2>2, PushType DEF PushFront
  <2> QED BY <1>0, <2>1, <2>3 DEF Referred
<1>16. Counted'
  BY <1>1, <1>4, <1>6, <1>7, <1>8 DEF Counted
<1>17. Woken'
  <2> SUFFICES ASSUME NEW w \in Threads, Live(w)', ~thr'[w].i_have_ended, w # t
               PROVE  WillResume(w)'
    BY <1>0, <1>1 DEF Woken
  <2>1. CASE w = u
    BY <1>6, <1>8, <2>1 DEF WillResume
  <2>2. CASE w # u
    <3>0. thr'[w] = thr[w]
      BY <1>8, <2>2
    <3>1. dis.stack = <<>> /\ Live(w) /\ ~thr[w].i_have_ended /\ w # running
      BY <1>1, <3>0 DEF NoDisable, Live
    <3>2. WillResume(w) /\ thr[w] \in ThreadType
      BY <1>1, <3>1 DEF Woken
    <3>3. \A v \in thr[w].children \cup thr[w].detached_children :
             thr'[v].i_have_ended = thr[v].i_have_ended
      <4>1. \A v \in thr[w].children \cup thr[w].detached_children : v \in Threads \ {u}
        BY <1>1, <1>3, <3>1, <3>2 DEF Family, ThreadType, ThreadAssumption
      <4> QED BY <1>7, <1>8, <4>1
    <3> QED BY <3>0, <3>2, <3>3 DEF WillResume, Joinable
  <2> QED BY <2>1, <2>2
<1>18. aborted' = FALSE /\ dis' = NoDisable /\ (running' # None => ~thr'[running'].i_have_ended)
  BY <1>0, <1>1, <1>7, <1>8 DEF TypeOK
<1> QED BY <1>8, <1>10, <1>11, <1>12, <1>13, <1>14, <1>15, <1>16, <1>17, <1>18, Settle

\* %join/detach: children that have ended are reaped, the others change sides.
LEMMA KinJoinDetach ==
  ASSUME Sound, ThreadAssumption, ForkAssumption, NEW t \in Threads, JoinDetach(t), aborted' = FALSE
  PROVE  Sound'
<1> DEFINE dead == {u \in thr[t].children : thr[u].i_have_ended}
           alive == thr[t].children \ dead
           freed(u) == \E d \in dead : u \in thr[d].detached_children
<1>0. /\ Runs(t) /\ thr[t].task_func_children = {}
      /\ UNCHANGED <<active, sleeping, waiters, running, rest, dis>>
  BY Zenon DEF JoinDetach
<1>1. /\ ~aborted /\ KinInv /\ TypeOK /\ Counted /\ dis = NoDisable /\ running = t
      /\ Live(t) /\ ~thr[t].i_have_ended /\ thr \in [Threads -> ThreadType] /\ thr[t] \in ThreadType
      /\ Departed /\ Family /\ Rooted /\ Referred /\ Woken /\ Ended /\ TaskChildren
      /\ \A u \in Threads : ~Stacked(u) /\ u # dis.ret
      /\ \A u \in Threads : thr[u].i_have_ended =>
           thr[u].children = {} /\ (Live(u) => thr[u].parent # None /\ ~thr[u].i_am_detached)
  BY <1>0, AtRun DEF KinInv, TypeOK
<1> DEFINE G(u) ==
            CASE u = t -> [thr[t] EXCEPT !.children = {},
                                         !.detached_children = @ \cup alive,
                                         !.code.detach = 0]
              [] u \in dead ->
                   [thr[u] EXCEPT !.parent = None, !.in_scope = FALSE,
                                  !.status = IF ~thr[u].is_scheduled /\ ~thr[u].waiting_for_event
                                             THEN "deleted" ELSE "reaped"]
              [] u \in alive -> [thr[u] EXCEPT !.i_am_detached = TRUE]
              [] freed(u) -> [thr[u] EXCEPT !.parent = None, !.i_am_detached = FALSE]
              [] OTHER -> thr[u]
<1>2. thr' = [u \in Threads |-> G(u)]
  BY Zenon DEF JoinDetach
<1>3. /\ \A u \in thr[t].children : u \in Threads \ {t} /\ Live(u) /\ thr[u].parent = t
                                    /\ ~thr[u].i_am_detached
      /\ \A u \in dead : thr[u].children = {} /\ thr[u].i_have_ended
      /\ \A u \in alive : ~thr[u].i_have_ended
  BY <1>1, Parents DEF Family
<1>4. \A u : freed(u) => u \in Threads /\ thr[u].parent \in dead /\ thr[u].i_am_detached
                         /\ u \in thr[thr[u].parent].detached_children
  BY <1>1, <1>3 DEF Family, ThreadType
<1>5. \A u : freed(u) => u # t /\ u \notin thr[t].children /\ Live(u) /\ ~thr[u].i_have_ended
  <2>1. thr[t].parent \notin thr[t].children
    BY <1>1, Parents
  <2> QED BY <1>1, <1>3, <1>4, <2>1 DEF Departed, ThreadAssumption
<1>6. \A u \in Threads : u # t /\ thr[u].parent \in dead /\ Live(u) => freed(u)
  BY <1>1, <1>3 DEF Family, Siblings, ThreadAssumption
<1> DEFINE c == [thr[t].code EXCEPT !.detach = 0]
           s == [thr[t] EXCEPT !.children = {}, !.detached_children = @ \cup alive, !.code = c]
<1>7. c \in CodeType /\ c.joins = thr[t].code.joins
  <2>1. thr[t].code \in CodeType /\ 0 \in 0..MaxFork
    BY <1>1 DEF ThreadType, ForkAssumption
  <2> QED BY <2>1 DEF CodeType
<1>8. thr'[t] = s
  <2>0. t \notin dead /\ t \notin alive /\ ~freed(t)
    BY <1>3, <1>5
  <2> HIDE DEF alive, dead, freed
  <2>1. thr'[t] = [thr[t] EXCEPT !.children = {}, !.detached_children = @ \cup alive,
                                 !.code.detach = 0]
    BY <1>2, <2>0
  <2> QED BY <1>1, <2>1 DEF ThreadType
<1>9. /\ s \in ThreadType /\ s.status = thr[t].status /\ s.parent = thr[t].parent
      /\ s.in_scope = thr[t].in_scope /\ s.children = {}
      /\ s.detached_children = thr[t].detached_children \cup alive
      /\ s.task_func_children = thr[t].task_func_children
      /\ s.i_am_detached = thr[t].i_am_detached /\ s.i_have_ended = thr[t].i_have_ended
      /\ s.code = c /\ s.joined = thr[t].joined
  <2>1. thr[t].detached_children \cup alive \in SUBSET Threads
    BY <1>1, <1>3 DEF ThreadType
  <2> HIDE DEF c, alive
  <2> QED BY <1>1, <1>7, <2>1 DEF ThreadType
<1> HIDE DEF s
<1>10. ASSUME NEW u \in dead
       PROVE  /\ thr'[u] \in ThreadType /\ thr'[u].status \in {"reaped", "deleted"}
              /\ thr'[u].status = "reaped" => thr'[u].is_scheduled \/ thr'[u].waiting_for_event
              /\ thr'[u].parent = None /\ ~thr'[u].in_scope /\ thr'[u].children = {}
              /\ thr'[u].i_have_ended /\ thr'[u].code = thr[u].code /\ thr'[u].joined = thr[u].joined
  <2>1. u \in Threads \ {t} /\ thr[u] \in ThreadType /\ thr[u].children = {} /\ thr[u].i_have_ended
    BY <1>1, <1>3
  <2> DEFINE st == IF ~thr[u].is_scheduled /\ ~thr[u].waiting_for_event THEN "deleted" ELSE "reaped"
  <2>2. thr'[u] = [thr[u] EXCEPT !.parent = None, !.in_scope = FALSE, !.status = st]
    <3>1. u \in dead /\ u \notin alive /\ ~freed(u)
      BY <1>5
    <3> HIDE DEF dead, alive, freed
    <3> QED BY <1>2, <2>1, <3>1
  <2>3. st \in {"reaped", "deleted"} /\ (st = "reaped" => thr[u].is_scheduled \/ thr[u].waiting_for_event)
    OBVIOUS
  <2> HIDE DEF st
  <2>4. [thr[u] EXCEPT !.parent = None, !.in_scope = FALSE, !.status = st] \in ThreadType
    BY ONLY <2>1, <2>3, Fields
  <2> QED BY <2>1, <2>2, <2>3, <2>4 DEF ThreadType
<1>11. ASSUME NEW u \in Threads \ {t}, u \notin dead
       PROVE  /\ thr'[u] \in ThreadType /\ Alike(thr'[u], thr[u])
              /\ thr'[u].children = thr[u].children
              /\ thr'[u].detached_children = thr[u].detached_children
              /\ thr'[u].task_func_children = thr[u].task_func_children
              /\ u \in alive => thr'[u].parent = t /\ thr'[u].i_am_detached
              /\ freed(u) => thr'[u].parent = None /\ ~thr'[u].i_am_detached
              /\ u \notin alive /\ ~freed(u) => thr'[u].parent = thr[u].parent
                                               /\ thr'[u].i_am_detached = thr[u].i_am_detached
  <2>0. thr[u] \in ThreadType
    BY <1>1
  <2>1. CASE u \in alive
    <3>1. thr'[u] = [thr[u] EXCEPT !.i_am_detached = TRUE] /\ ~freed(u) /\ thr[u].parent = t
      <4>1. ~freed(u) /\ thr[u].parent = t
        BY <1>3, <1>5, <2>1
      <4> HIDE DEF dead, alive, freed
      <4> QED BY <1>2, <1>11, <2>1, <4>1
    <3> HIDE DEF dead, alive, freed
    <3> QED BY <2>0, <2>1, <3>1 DEF ThreadType, Alike
  <2>2. CASE freed(u)
    <3>1. thr'[u] = [thr[u] EXCEPT !.parent = None, !.i_am_detached = FALSE] /\ u \notin alive
      <4>1. u \notin alive
        BY <1>5, <2>2
      <4> HIDE DEF dead, alive, freed
      <4> QED BY <1>2, <1>11, <2>2, <4>1
    <3> HIDE DEF dead, alive, freed
    <3>2. [thr[u] EXCEPT !.parent = None, !.i_am_detached = FALSE] \in ThreadType
      BY ONLY <2>0, Fields
    <3> QED BY <2>0, <2>2, <3>1, <3>2 DEF ThreadType, Alike
  <2>3. CASE u \notin alive /\ ~freed(u)
    <3> HIDE DEF dead, alive, freed
    <3>1. thr'[u] = thr[u]
      BY <1>2, <1>11, <2>3
    <3> QED BY <2>0, <2>3, <3>1 DEF Alike
  <2> QED BY <2>1, <2>2, <2>3
<1> HIDE DEF c, freed
<1>12. thr' \in [Threads -> ThreadType]
  <2>1. thr' = [u \in Threads |-> thr'[u]]
    <3> HIDE DEF G
    <3> QED BY <1>2
  <2>2. \A u \in Threads : thr'[u] \in ThreadType
    BY <1>8, <1>9, <1>10, <1>11
  <2> QED BY <2>1, <2>2
<1>13. /\ \A u \in Threads \ dead : thr'[u].status = thr[u].status
       /\ \A u \in Threads : thr'[u].i_have_ended = thr[u].i_have_ended
  <2>1. \A u \in dead : thr'[u].i_have_ended = thr[u].i_have_ended
    BY <1>1, <1>3, <1>10 DEF ThreadType
  <2> QED BY <1>8, <1>9, <1>11, <2>1 DEF Alike
<1>14. Departed'
  <2> SUFFICES ASSUME NEW w \in Threads
               PROVE  /\ ~Live(w)' => thr'[w].parent = None /\ thr'[w].children = {}
                                      /\ ~thr'[w].in_scope
                      /\ thr'[w].status \in {"reaped", "deleted"} => thr'[w].i_have_ended
                      /\ thr'[w].status = "reaped" => thr'[w].is_scheduled \/ thr'[w].waiting_for_event
                      /\ thr'[w].parent # None => thr'[thr'[w].parent].status = "live"
    BY DEF Departed, Live
  <2>0. /\ thr[w].parent # None => thr[w].parent \in Threads /\ Live(thr[w].parent) /\ Live(w)
        /\ t # None
    BY <1>1 DEF Departed, ThreadType, ThreadAssumption
  <2>1. CASE w = t
    <3>1. thr[t].parent \notin dead
      BY <1>1, Parents
    <3> QED BY <1>1, <1>8, <1>9, <1>13, <2>0, <2>1, <3>1 DEF Live
  <2>2. CASE w \in dead
    BY <1>10, <2>2
  <2>3. CASE w # t /\ w \notin dead
    <3>1. thr'[w].parent # None => thr'[w].parent = t \/ (thr'[w].parent = thr[w].parent /\ ~freed(w))
      BY <1>11, <2>3
    <3>2. thr'[w].parent # None => thr'[w].parent \in Threads \ dead /\ Live(thr'[w].parent)
      BY <1>1, <1>3, <1>6, <2>0, <2>3, <3>1
    <3>3. thr'[w].parent # None => thr'[thr'[w].parent].status = "live"
      BY <1>13, <3>2 DEF Live
    <3>4. ~Live(w)' => ~Live(w) /\ w \notin alive /\ ~freed(w)
      BY <1>3, <1>5, <1>11, <1>13, <2>3 DEF Live
    <3> QED BY <1>1, <1>11, <2>3, <3>3, <3>4 DEF Live, Departed, Alike
  <2> QED BY <2>1, <2>2, <2>3
<1>15. Family'
  <2> SUFFICES ASSUME NEW w \in Threads, Live(w)'
               PROVE  /\ \A v \in thr'[w].children : thr'[v].parent = w /\ ~thr'[v].i_am_detached
                      /\ \A v \in thr'[w].detached_children :
                           thr'[v].parent = w /\ thr'[v].i_am_detached
                      /\ thr'[w].parent # None => w \in Siblings(thr, w)'
                      /\ thr'[w].i_am_detached => thr'[w].parent # None
    BY DEF Family
  <2>1. w \notin dead /\ Live(w) /\ thr[w] \in ThreadType
    BY <1>1, <1>10, <1>13 DEF Live
  <2>2. /\ \A v \in thr[w].children : v \in Threads /\ thr[v].parent = w /\ ~thr[v].i_am_detached
        /\ \A v \in thr[w].detached_children : v \in Threads /\ thr[v].parent = w /\ thr[v].i_am_detached
        /\ thr[w].parent # None => w \in Siblings(thr, w) /\ thr[w].parent \in Threads
        /\ thr[w].i_am_detached => thr[w].parent # None
    BY <1>1, <2>1 DEF Family, ThreadType
  <2>3. CASE w = t
    <3>1. \A v \in thr[t].detached_children : v \in Threads \ {t} /\ v \notin thr[t].children
      BY <1>1, Parents
    <3>2. \A v \in thr[t].detached_children : thr'[v].parent = t /\ thr'[v].i_am_detached
      <4>1. \A v \in thr[t].detached_children : ~freed(v) /\ v \notin alive /\ v \notin dead
        BY <1>3, <1>4, <2>2, <2>3, <3>1
      <4> QED BY <1>11, <2>2, <2>3, <3>1, <4>1
    <3>3. \A v \in alive : thr'[v].parent = t /\ thr'[v].i_am_detached
      BY <1>3, <1>11
    <3>4. thr'[t].parent # None => t \in Siblings(thr, t)'
      <4>1. thr[t].parent # None => thr[t].parent \in Threads \ {t} /\ thr[t].parent \notin dead
        BY <1>1, Parents
      <4> QED BY <1>8, <1>9, <1>11, <2>2, <2>3, <4>1 DEF Siblings
    <3> QED BY <1>8, <1>9, <2>2, <2>3, <3>2, <3>3, <3>4
  <2>4. CASE w # t
    <3>1. /\ thr'[w].children = thr[w].children
          /\ thr'[w].detached_children = thr[w].detached_children
      BY <1>11, <2>1, <2>4
    <3>2. ASSUME NEW v \in thr[w].children \cup thr[w].detached_children
          PROVE  thr'[v].parent = w /\ thr'[v].i_am_detached = thr[v].i_am_detached
      <4>1. v \in Threads /\ thr[v].parent = w
        BY <2>2
      <4>2. v \notin thr[t].children /\ ~freed(v)
        BY <1>3, <1>4, <2>1, <2>4, <4>1
      <4>3. CASE v = t
        BY <1>8, <1>9, <4>1, <4>3
      <4>4. CASE v # t
        BY <1>11, <4>1, <4>2, <4>4
      <4> QED BY <4>3, <4>4
    <3>3. CASE w \in alive
      <4>1. w \in thr'[t].detached_children
        BY <1>8, <1>9, <3>3
      <4> QED BY <1>1, <1>11, <2>1, <2>2, <2>4, <3>1, <3>2, <3>3, <4>1 DEF Siblings
    <3>4. CASE freed(w)
      BY <1>11, <2>1, <2>2, <2>4, <3>1, <3>2, <3>4
    <3>5. CASE w \notin alive /\ ~freed(w)
      <4>1. thr'[w].parent = thr[w].parent /\ thr'[w].i_am_detached = thr[w].i_am_detached
        BY <1>11, <2>1, <2>4, <3>5
      <4>2. ASSUME thr[w].parent # None
            PROVE  w \in Siblings(thr, w)'
        <5>1. thr[w].parent \notin dead
          BY <1>6, <2>1, <2>4, <3>5
        <5>2. CASE thr[w].parent = t
          <6>1. w \in thr[t].detached_children /\ thr[w].i_am_detached
            BY <2>1, <2>2, <3>5, <4>2, <5>2 DEF Siblings
          <6> QED BY <1>8, <1>9, <4>1, <5>2, <6>1 DEF Siblings
        <5>3. CASE thr[w].parent # t
          BY <1>11, <2>2, <4>1, <4>2, <5>1, <5>3 DEF Siblings
        <5> QED BY <5>2, <5>3
      <4> QED BY <2>2, <3>1, <3>2, <4>1, <4>2
    <3> QED BY <3>3, <3>4, <3>5
  <2> QED BY <2>3, <2>4
<1>16. Rooted'
  <2>1. \A u \in Threads : thr'[u].parent = thr[u].parent \/ thr'[u].parent = None
    BY <1>3, <1>8, <1>9, <1>10, <1>11
  <2> QED BY <1>1, <2>1, RootedKeep
<1>17. Ended'
  <2>1. ASSUME NEW u \in Threads, thr'[u].i_have_ended
        PROVE  thr'[u].children = {} /\ (Live(u)' => thr'[u].parent # None /\ ~thr'[u].i_am_detached)
    <3>1. thr[u].i_have_ended /\ u # t
      BY <1>1, <1>13, <2>1
    <3>2. CASE u \in dead
      BY <1>10, <3>2 DEF Live
    <3>3. CASE u \notin dead
      BY <1>1, <1>3, <1>5, <1>11, <3>1, <3>3 DEF Live, Alike
    <3> QED BY <3>2, <3>3
  <2> QED BY <2>1 DEF Ended
<1>18. TaskChildren'
  <2> SUFFICES ASSUME NEW u \in Threads, ~thr'[u].i_have_ended
               PROVE  thr'[u].task_func_children \subseteq thr'[u].children
    BY DEF TaskChildren
  <2>1. u \notin dead /\ ~thr[u].i_have_ended
    BY <1>3, <1>13
  <2>2. CASE u = t
    BY <1>0, <1>8, <1>9, <2>2
  <2>3. CASE u # t
    BY <1>1, <1>11, <2>1, <2>3 DEF TaskChildren
  <2> QED BY <2>2, <2>3
<1>19. Referred'
  <2>1. \A u \in Threads : thr'[u].status = "unborn" => thr[u].status = "unborn"
    BY <1>10, <1>13
  <2> QED BY <1>0, <1>1, <2>1, BornGrows DEF Referred
<1>20. Counted'
  <2>1. \A u \in Threads : thr'[u].code.joins = thr[u].code.joins /\ thr'[u].joined = thr[u].joined
    BY <1>7, <1>8, <1>9, <1>10, <1>11 DEF Alike
  <2> QED BY <1>1, <2>1 DEF Counted
<1>21. Woken'
  <2> SUFFICES ASSUME NEW w \in Threads, Live(w)', ~thr'[w].i_have_ended, w # t
               PROVE  WillResume(w)'
    BY <1>0, <1>1 DEF Woken
  <2>1. w \notin dead /\ ~thr[w].i_have_ended /\ Live(w)
    BY <1>3, <1>13 DEF Live
  <2>2. dis.stack = <<>> /\ thr[w] \in ThreadType
    BY <1>1 DEF NoDisable
  <2>3. WillResume(w)
    BY <1>1, <2>1, <2>2 DEF Woken
  <2>4. \A v \in thr[w].children \cup thr[w].detached_children : v \in Threads
    BY <2>2 DEF ThreadType
  <2> QED BY <1>11, <1>13, <2>1, <2>3, <2>4 DEF WillResume, Joinable, Alike
<1>22. dis' = NoDisable /\ (running' # None => ~thr'[running'].i_have_ended)
  BY <1>0, <1>1, <1>13
<1> QED BY <1>12, <1>14, <1>15, <1>16, <1>17, <1>18, <1>19, <1>20, <1>21, <1>22, Settle, Zenon

-----------------------------------------------------------------------------
(* %disable and %disable/fork.                                             *)

DisableType ==
  [on : BOOLEAN, fork : BOOLEAN, scope : Scopes,
   stack : Seq(Threads), ret : Threads \cup {None}, self : BOOLEAN]

\* The parts of the invariant make up the whole.
LEMMA SettleOn ==
  ASSUME Departed', Family', Rooted', Ended', TaskChildren', Referred', Disabled', Woken',
         thr' \in [Threads -> ThreadType], dis' \in DisableType, Counted', aborted' = FALSE
  PROVE  Sound'
<1>1. Born' \subseteq Threads
  BY DEF Born
<1>2. Seq(Born') \subseteq Seq(Threads)
  BY <1>1, SeqMono
<1>3. Seq(Seq(Born')) \subseteq Seq(Seq(Threads))
  BY <1>2, SeqMono
<1>4. /\ active' \in Seq(Seq(Threads)) /\ rest' \in Seq(Threads)
      /\ sleeping' \subseteq Threads /\ waiters' \in [Events -> Seq(Threads)]
      /\ running' \in Threads \cup {None}
  BY <1>1, <1>2, <1>3 DEF Referred
<1> QED BY <1>4 DEF TypeOK, DisableType, Sound, KinInv

\* While a %disable goes on.
LEMMA AtDisable ==
  ASSUME Sound, ThreadAssumption, dis.on, ~aborted
  PROVE  /\ TypeOK /\ Counted /\ KinInv /\ Departed /\ Family /\ Rooted /\ Ended /\ TaskChildren
         /\ Referred /\ Disabled /\ Woken
         /\ thr \in [Threads -> ThreadType] /\ dis \in DisableType
         /\ running \in Threads /\ running # None
         /\ dis.stack \in Seq(Threads) /\ dis.fork \in BOOLEAN /\ dis.self \in BOOLEAN
         /\ dis.fork => Live(running)
<1>1. /\ TypeOK /\ Counted /\ KinInv /\ Departed /\ Family /\ Rooted /\ Ended /\ TaskChildren
      /\ Referred /\ Disabled /\ Woken
      /\ thr \in [Threads -> ThreadType] /\ dis \in DisableType
  BY DEF Sound, KinInv, TypeOK, DisableType
<1>2. /\ running \in Threads /\ running # None /\ running \in Born
      /\ dis.fork => ~thr[running].i_have_ended
  BY <1>1 DEF TypeOK, Disabled, Referred
<1>3. dis.fork => Live(running)
  BY <1>1, <1>2 DEF Live, Departed, Born, ThreadType
<1>4. dis.stack \in Seq(Threads) /\ dis.fork \in BOOLEAN /\ dis.self \in BOOLEAN
  BY <1>1 DEF DisableType
<1> QED BY <1>1, <1>2, <1>3, <1>4

\* %disable begins.
LEMMA QuietDisable ==
  ASSUME Sound, ThreadAssumption, "disable_detached" \notin Features,
         NEW t \in Threads, NEW s \in Scopes, Disable(t, s)
  PROVE  Sound'
<1>0. /\ AtStatement(t) /\ \A u \in InScope(thr, s) : ~thr[u].i_am_detached
      /\ dis' = [NoDisable EXCEPT !.on = TRUE, !.scope = s]
      /\ UNCHANGED <<thr, active, sleeping, waiters, running, rest, aborted>>
  BY DEF Disable
<1>1. /\ TypeOK /\ Counted /\ KinInv /\ ~aborted /\ dis = NoDisable /\ running = t
      /\ ~thr[t].i_have_ended /\ Departed /\ Referred /\ Woken
      /\ thr \in [Threads -> ThreadType]
  BY <1>0, AtEnd
<1>2. /\ dis'.on /\ ~dis'.fork /\ dis'.scope = s /\ dis'.stack = <<>> /\ dis'.ret = None
      /\ dis'.self = FALSE /\ dis.stack = <<>> /\ dis.ret = None /\ dis' \in DisableType
  <2>1. dis' = [on |-> TRUE, fork |-> FALSE, scope |-> s, stack |-> <<>>, ret |-> None,
                self |-> FALSE]
    BY <1>0 DEF NoDisable
  <2>2. dis.stack = <<>> /\ dis.ret = None
    BY <1>1 DEF NoDisable
  <2>3. dis' \in DisableType
    BY <2>1 DEF DisableType
  <2> QED BY <2>1, <2>2, <2>3
<1>3. Departed' /\ Family' /\ Rooted' /\ Ended' /\ TaskChildren'
  <2>1. \A u \in Threads : Same(u)
    BY <1>0 DEF Same
  <2>2. \A u \in Threads : thr'[u].status = "reaped" => thr'[u].is_scheduled \/ thr'[u].waiting_for_event
    BY <1>0, <1>1 DEF Departed
  <2> QED BY <1>1, <1>2, <2>1, <2>2, SameKeeps
<1>4. Referred' /\ Counted'
  BY <1>0, <1>1 DEF Referred, Born, Counted
<1>5. Disabled'
  <2>1. \A u \in InScope(thr, dis.scope)' : ~thr'[u].i_am_detached
    BY <1>0, <1>2 DEF InScope
  <2>2. running' # None /\ ~thr'[running'].i_have_ended
    BY <1>0, <1>1 DEF ThreadAssumption
  <2> QED BY <1>2, <2>1, <2>2 DEF Disabled
<1>6. Woken'
  BY <1>0, <1>1, <1>2 DEF Woken, Live, WillResume, Joinable
<1>7. thr' \in [Threads -> ThreadType] /\ aborted' = FALSE
  BY <1>0, <1>1 DEF TypeOK
<1> QED BY <1>2, <1>3, <1>4, <1>5, <1>6, <1>7, SettleOn

\* %disable/fork begins.
LEMMA QuietDisableFork ==
  ASSUME Sound, ThreadAssumption, NEW t \in Threads, DisableFork(t), aborted' = FALSE
  PROVE  Sound'
<1>0. /\ AtStatement(t) /\ ~thr[t].i_am_joining
      /\ dis' = [NoDisable EXCEPT !.on = TRUE, !.fork = TRUE]
      /\ UNCHANGED <<thr, active, sleeping, waiters, running, rest>>
  BY DEF DisableFork
<1>1. /\ TypeOK /\ Counted /\ KinInv /\ ~aborted /\ dis = NoDisable /\ running = t
      /\ ~thr[t].i_have_ended /\ Departed /\ Referred /\ Woken
      /\ thr \in [Threads -> ThreadType]
  BY <1>0, AtEnd
<1>2. /\ dis'.on /\ dis'.fork /\ dis'.stack = <<>> /\ dis'.ret = None
      /\ dis'.self = FALSE /\ dis.stack = <<>> /\ dis.ret = None /\ dis' \in DisableType
  <2>1. dis' = [on |-> TRUE, fork |-> TRUE, scope |-> Module, stack |-> <<>>, ret |-> None,
                self |-> FALSE]
    BY <1>0 DEF NoDisable
  <2>2. dis.stack = <<>> /\ dis.ret = None
    BY <1>1 DEF NoDisable
  <2>3. dis' \in DisableType
    BY <2>1 DEF DisableType, Scopes
  <2> QED BY <2>1, <2>2, <2>3
<1>3. Departed' /\ Family' /\ Rooted' /\ Ended' /\ TaskChildren'
  <2>1. \A u \in Threads : Same(u)
    BY <1>0 DEF Same
  <2>2. \A u \in Threads : thr'[u].status = "reaped" => thr'[u].is_scheduled \/ thr'[u].waiting_for_event
    BY <1>0, <1>1 DEF Departed
  <2> QED BY <1>1, <1>2, <2>1, <2>2, SameKeeps
<1>4. Referred' /\ Counted'
  BY <1>0, <1>1 DEF Referred, Born, Counted
<1>5. Disabled'
  <2>2. running' # None /\ ~thr'[running'].i_have_ended /\ ~thr'[running'].i_am_joining
    BY <1>0, <1>1 DEF ThreadAssumption
  <2> QED BY <1>2, <2>2 DEF Disabled
<1>6. Woken'
  BY <1>0, <1>1, <1>2 DEF Woken, Live, WillResume, Joinable
<1>7. thr' \in [Threads -> ThreadType]
  BY <1>0, <1>1
<1> QED BY <1>2, <1>3, <1>4, <1>5, <1>6, <1>7, SettleOn

\* %disable or %disable/fork is done: nothing is left to be disabled.
LEMMA KinDisableDone ==
  ASSUME Sound, ThreadAssumption, DisableDone
  PROVE  Sound'
<1>0. /\ dis.on /\ ~aborted /\ dis.stack = <<>> /\ dis.ret = None
      /\ dis' = NoDisable /\ running' = IF dis.self THEN None ELSE running
      /\ UNCHANGED <<thr, active, sleeping, waiters, rest, aborted>>
  BY DEF DisableDone
<1>1. /\ TypeOK /\ Counted /\ KinInv /\ Departed /\ Disabled /\ Referred /\ Woken
      /\ thr \in [Threads -> ThreadType] /\ running \in Threads
      /\ (dis.self <=> thr[running].i_have_ended)
  BY <1>0, AtDisable DEF Disabled
<1>2. dis'.stack = <<>> /\ dis'.ret = None
  BY <1>0 DEF NoDisable
<1>3. Departed' /\ Family' /\ Rooted' /\ Ended' /\ TaskChildren'
  <2>1. \A u \in Threads : Same(u)
    BY <1>0 DEF Same
  <2>2. \A u \in Threads : thr'[u].status = "reaped" => thr'[u].is_scheduled \/ thr'[u].waiting_for_event
    BY <1>0, <1>1 DEF Departed
  <2> QED BY <1>0, <1>1, <1>2, <2>1, <2>2, SameKeeps
<1>4. Referred' /\ Counted'
  BY <1>0, <1>1 DEF Referred, Born, Counted
<1>5. running' # None => ~thr'[running'].i_have_ended
  BY <1>0, <1>1
<1>6. Woken'
  <2> SUFFICES ASSUME NEW u \in Threads, Live(u)', ~thr'[u].i_have_ended, u # running'
               PROVE  WillResume(u)'
    BY DEF Woken
  <2>1. Live(u) /\ ~thr[u].i_have_ended /\ u # running
    BY <1>0, <1>1 DEF Live
  <2>2. WillResume(u)
    BY <1>0, <1>1, <2>1 DEF Woken
  <2> QED BY <1>0, <2>2 DEF WillResume, Joinable
<1>7. thr' \in [Threads -> ThreadType] /\ aborted' = FALSE
  BY <1>0, <1>1 DEF TypeOK
<1> QED BY <1>0, <1>3, <1>4, <1>5, <1>6, <1>7, Settle

\* do_disable begins with thread u.
Begins(u) ==
  /\ \A w \in Threads :
       /\ thr'[w].status = thr[w].status /\ thr'[w].parent = thr[w].parent
       /\ thr'[w].scope = thr[w].scope /\ thr'[w].children = thr[w].children
       /\ thr'[w].detached_children = thr[w].detached_children
       /\ thr'[w].task_func_children = thr[w].task_func_children
       /\ thr'[w].i_am_detached = thr[w].i_am_detached
       /\ thr'[w].i_am_waiting = thr[w].i_am_waiting
       /\ thr'[w].waiting_for_event = thr[w].waiting_for_event
       /\ thr'[w].is_scheduled = thr[w].is_scheduled
       /\ thr'[w].code = thr[w].code /\ thr'[w].joined = thr[w].joined
       /\ w # u => /\ thr'[w].i_have_ended = thr[w].i_have_ended
                   /\ thr'[w].in_scope = thr[w].in_scope
       /\ \/ thr'[w].i_am_joining = thr[w].i_am_joining
          \/ thr[w].i_have_ended /\ ~thr'[w].i_am_joining
  /\ thr'[u].i_have_ended /\ ~thr'[u].in_scope

\* What the first lines of do_disable write.
LEMMA OffFields ==
  ASSUME NEW T \in [Threads -> ThreadType], NEW u \in Threads, NEW R, R = Off(T, u)
  PROVE  /\ R \in [Threads -> ThreadType] /\ \A w \in Threads \ {u} : R[w] = T[w]
         /\ R[u].status = T[u].status /\ R[u].parent = T[u].parent
         /\ R[u].scope = T[u].scope /\ R[u].children = T[u].children
         /\ R[u].detached_children = T[u].detached_children
         /\ R[u].task_func_children = T[u].task_func_children
         /\ R[u].i_am_detached = T[u].i_am_detached /\ R[u].i_am_waiting = T[u].i_am_waiting
         /\ R[u].waiting_for_event = T[u].waiting_for_event
         /\ R[u].is_scheduled = T[u].is_scheduled /\ R[u].i_am_joining = T[u].i_am_joining
         /\ R[u].code = T[u].code /\ R[u].joined = T[u].joined
         /\ R[u].i_have_ended /\ ~R[u].in_scope
<1> DEFINE s == [T[u] EXCEPT !.in_scope = FALSE, !.i_have_ended = TRUE]
<1>1. R = [T EXCEPT ![u] = s]
  BY DEF Off
<1>2. /\ s \in ThreadType /\ s.status = T[u].status /\ s.parent = T[u].parent
      /\ s.scope = T[u].scope /\ s.children = T[u].children
      /\ s.detached_children = T[u].detached_children
      /\ s.task_func_children = T[u].task_func_children
      /\ s.i_am_detached = T[u].i_am_detached /\ s.i_am_waiting = T[u].i_am_waiting
      /\ s.waiting_for_event = T[u].waiting_for_event
      /\ s.is_scheduled = T[u].is_scheduled /\ s.i_am_joining = T[u].i_am_joining
      /\ s.code = T[u].code /\ s.joined = T[u].joined
      /\ s.i_have_ended /\ ~s.in_scope
  <2>1. T[u] \in ThreadType
    OBVIOUS
  <2> QED BY <2>1 DEF ThreadType
<1> HIDE DEF s
<1>3. R[u] = s
  BY <1>1
<1> QED BY <1>1, <1>2, <1>3

\* The first lines of do_disable keep what is said about families.
LEMMA BeginsKeep ==
  ASSUME KinInv, ThreadAssumption, TypeOK, Counted, ~aborted, NEW u \in Threads, Live(u), Begins(u),
         Stacked(u)', \A w \in Threads : Stacked(w) => Stacked(w)',
         dis.ret = None, UNCHANGED <<active, sleeping, waiters, running, rest>>
  PROVE  Departed' /\ Family' /\ Rooted' /\ Ended' /\ TaskChildren' /\ Referred' /\ Counted'
<1>0. /\ Departed /\ Family /\ Rooted /\ Ended /\ TaskChildren /\ Referred
      /\ thr \in [Threads -> ThreadType]
  BY DEF KinInv, TypeOK
<1>1. Departed'
  <2> SUFFICES ASSUME NEW w \in Threads
               PROVE  /\ ~Live(w)' => thr'[w].parent = None /\ thr'[w].children = {}
                                      /\ ~thr'[w].in_scope
                      /\ thr'[w].status \in {"reaped", "deleted"} => thr'[w].i_have_ended
                      /\ thr'[w].status = "reaped" => thr'[w].is_scheduled \/ thr'[w].waiting_for_event
                      /\ thr'[w].parent # None => thr'[thr'[w].parent].status = "live"
    BY DEF Departed, Live
  <2>1. thr[w].parent # None => thr[w].parent \in Threads /\ Live(thr[w].parent)
    BY <1>0 DEF Departed, ThreadType
  <2> QED BY <1>0, <2>1 DEF Departed, Live, Begins
<1>2. Family'
  <2> SUFFICES ASSUME NEW w \in Threads, Live(w)'
               PROVE  /\ \A v \in thr'[w].children : thr'[v].parent = w /\ ~thr'[v].i_am_detached
                      /\ \A v \in thr'[w].detached_children :
                           thr'[v].parent = w /\ thr'[v].i_am_detached
                      /\ thr'[w].parent # None => w \in Siblings(thr, w)'
                      /\ thr'[w].i_am_detached => thr'[w].parent # None
    BY DEF Family
  <2>1. Live(w) /\ thr[w] \in ThreadType
    BY <1>0 DEF Live, Begins
  <2>2. /\ \A v \in thr[w].children : v \in Threads /\ thr[v].parent = w /\ ~thr[v].i_am_detached
        /\ \A v \in thr[w].detached_children : v \in Threads /\ thr[v].parent = w /\ thr[v].i_am_detached
        /\ thr[w].parent # None => w \in Siblings(thr, w) /\ thr[w].parent \in Threads
        /\ thr[w].i_am_detached => thr[w].parent # None
    BY <1>0, <2>1 DEF Family, ThreadType
  <2> QED BY <2>1, <2>2 DEF Begins, Siblings
<1>3. Rooted'
  BY <1>0, RootedKeep DEF Begins
<1>4. Ended'
  <2> SUFFICES ASSUME NEW w \in Threads, thr'[w].i_have_ended
               PROVE  /\ Stacked(w)' \/ thr'[w].children = {}
                      /\ Live(w)' => \/ Stacked(w)' \/ w = dis'.ret
                                     \/ thr'[w].parent # None /\ ~thr'[w].i_am_detached
    BY DEF Ended
  <2>1. CASE w = u
    BY <2>1
  <2>2. CASE w # u
    BY <1>0, <2>2 DEF Begins, Ended, Live, ThreadAssumption
  <2> QED BY <2>1, <2>2
<1>5. TaskChildren'
  BY <1>0 DEF TaskChildren, Begins
<1>6. Referred'
  <2>1. \A w \in Threads : thr'[w].status = "unborn" => thr[w].status = "unborn"
    BY DEF Begins
  <2> QED BY <1>0, <2>1, BornGrows DEF Referred
<1>7. Counted'
  BY DEF Counted, Begins
<1> QED BY <1>1, <1>2, <1>3, <1>4, <1>5, <1>6, <1>7

\* The loop calls do_disable for the next thread.
LEMMA KinDisableNext ==
  ASSUME Sound, ThreadAssumption, DisableNext
  PROVE  Sound'
<1>0. /\ dis.on /\ dis.stack = <<>> /\ dis.ret = None /\ ~aborted
      /\ UNCHANGED <<active, sleeping, waiters, running, rest, aborted>>
  BY DEF DisableNext
<1>1. /\ TypeOK /\ Counted /\ KinInv /\ Departed /\ Family /\ Rooted /\ Ended /\ TaskChildren
      /\ Referred /\ Disabled /\ Woken
      /\ thr \in [Threads -> ThreadType] /\ dis \in DisableType
      /\ running \in Threads /\ running # None
      /\ dis.stack \in Seq(Threads) /\ dis.fork \in BOOLEAN /\ dis.self \in BOOLEAN
      /\ dis.fork => Live(running)
  BY <1>0, AtDisable
<1>2. PICK u \in Targets :
        /\ thr' = Off(thr, u)
        /\ dis' = [dis EXCEPT !.stack = <<u>>, !.self = @ \/ u = running]
  BY DEF DisableNext
<1>3. /\ dis.self <=> thr[running].i_have_ended
      /\ dis.fork => ~thr[running].i_have_ended /\ ~thr[running].i_am_joining
      /\ ~dis.fork => \A w \in InScope(thr, dis.scope) : ~thr[w].i_am_detached
  BY <1>0, <1>1 DEF Disabled
<1>4. /\ u \in Threads /\ Live(u)
      /\ dis.fork => u # running /\ thr[u].parent = running /\ thr[u].i_am_detached
      /\ ~dis.fork => ~thr[u].i_am_detached
  <2>1. CASE dis.fork
    <3>1. u \in thr[running].detached_children
      BY <2>1 DEF Targets
    <3> QED BY <1>0, <1>1, <2>1, <3>1, Parents DEF Family
  <2>2. CASE ~dis.fork
    <3>1. u \in InScope(thr, dis.scope)
      BY <2>2 DEF Targets
    <3>2. u \in Threads /\ thr[u].in_scope
      BY <3>1 DEF InScope
    <3> QED BY <1>1, <1>3, <2>2, <3>1, <3>2 DEF Departed
  <2> QED BY <2>1, <2>2
<1>5. /\ dis'.on = dis.on /\ dis'.fork = dis.fork /\ dis'.scope = dis.scope /\ dis'.stack = <<u>>
      /\ dis'.ret = None /\ dis'.self = (dis.self \/ u = running) /\ dis' \in DisableType
  <2>1. <<u>> \in Seq(Threads) /\ (dis.self \/ u = running) \in BOOLEAN
    BY <1>4
  <2> QED BY <1>0, <1>1, <1>2, <2>1 DEF DisableType
<1>6. Begins(u) /\ thr' \in [Threads -> ThreadType]
  BY <1>1, <1>2, <1>4, OffFields DEF Begins
<1>7. Departed' /\ Family' /\ Rooted' /\ Ended' /\ TaskChildren' /\ Referred' /\ Counted'
  <2>1. Stacked(u)'
    BY <1>5 DEF Stacked
  <2>2. \A w \in Threads : ~Stacked(w)
    BY <1>0 DEF Stacked
  <2> QED BY <1>0, <1>1, <1>4, <1>6, <2>1, <2>2, BeginsKeep
<1>8. Disabled'
  <2>1. running' # None /\ (dis'.self <=> thr'[running'].i_have_ended)
    BY <1>0, <1>1, <1>3, <1>5, <1>6 DEF Begins
  <2>2. dis'.fork => ~thr'[running'].i_have_ended /\ ~thr'[running'].i_am_joining
    BY <1>0, <1>1, <1>3, <1>4, <1>5, <1>6 DEF Begins
  <2>3. ~dis'.fork => \A w \in InScope(thr, dis.scope)' : ~thr'[w].i_am_detached
    BY <1>3, <1>5, <1>6 DEF Begins, InScope
  <2>4. ASSUME NEW i \in DOMAIN dis'.stack
        PROVE  /\ thr'[dis'.stack[i]].status = "live" /\ thr'[dis'.stack[i]].i_have_ended
               /\ i = 1 /\ dis'.stack[i] = u /\ DOMAIN dis'.stack = {1}
               /\ dis'.fork => /\ thr'[dis'.stack[i]].parent = running'
                               /\ thr'[dis'.stack[i]].i_am_detached
                               /\ dis'.stack[i] # running'
               /\ ~dis'.fork => ~thr'[dis'.stack[i]].i_am_detached
               /\ dis'.stack[i] # dis'.ret
    <3>1. i = 1 /\ dis'.stack[i] = u /\ DOMAIN dis'.stack = {1}
      BY <1>5, <2>4
    <3> QED BY <1>0, <1>4, <1>5, <1>6, <3>1 DEF Begins, Live, ThreadAssumption
  <2> QED BY <1>0, <1>5, <2>1, <2>2, <2>3, <2>4 DEF Disabled, Live
<1>9. Woken'
  <2> SUFFICES ASSUME NEW w \in Threads, Live(w)', ~thr'[w].i_have_ended, w # running'
               PROVE  \/ WillResume(w)'
                      \/ /\ dis'.stack # <<>> /\ ~dis'.fork
                         /\ thr'[dis'.stack[1]].parent = w
                         /\ thr'[w].i_am_joining /\ Joinable(thr, w, u)'
                         /\ dis'.stack[1] = u
    BY <1>5 DEF Woken, Joinable
  <2>1. /\ w # u /\ Live(w) /\ ~thr[w].i_have_ended /\ w # running /\ thr[w] \in ThreadType
        /\ thr'[w].i_am_joining = thr[w].i_am_joining
    BY <1>0, <1>1, <1>6 DEF Begins, Live
  <2>2. WillResume(w)
    BY <1>0, <1>1, <2>1 DEF Woken
  <2>3. /\ \A v \in thr[w].children : v \in Threads /\ thr[v].parent = w /\ ~thr[v].i_am_detached
        /\ \A v \in thr[w].detached_children : v \in Threads /\ thr[v].parent = w /\ thr[v].i_am_detached
    BY <1>0, <1>1, <2>1 DEF Family, ThreadType
  <2>4. CASE thr[w].is_scheduled \/ thr[w].waiting_for_event
    BY <1>6, <2>4 DEF WillResume, Begins
  <2>5. CASE thr[w].i_am_waiting /\ \E v \in thr[w].detached_children : ~thr[v].i_have_ended
    <3>1. PICK v \in thr[w].detached_children : ~thr[v].i_have_ended
      BY <2>5
    <3>2. v # u /\ v \in Threads
      BY <1>4, <2>1, <2>3, <3>1
    <3> QED BY <1>6, <2>5, <3>1, <3>2 DEF WillResume, Begins
  <2>6. CASE thr[w].i_am_joining /\ \E v \in thr[w].children : ~thr[v].i_have_ended /\ Joinable(thr, w, v)
    <3>1. PICK v \in thr[w].children : ~thr[v].i_have_ended /\ Joinable(thr, w, v)
      BY <2>6
    <3>2. v \in Threads /\ thr[v].parent = w /\ ~thr[v].i_am_detached
      BY <2>3
    <3>3. Joinable(thr, w, v)'
      BY <1>6, <3>1 DEF Joinable, Begins
    <3>4. CASE v = u
      BY <1>4, <1>5, <1>6, <2>1, <2>6, <3>2, <3>3, <3>4 DEF Begins
    <3>5. CASE v # u
      BY <1>6, <2>1, <2>6, <3>1, <3>2, <3>3, <3>5 DEF WillResume, Begins
    <3> QED BY <3>4, <3>5
  <2> QED BY <2>2, <2>4, <2>5, <2>6 DEF WillResume
<1>10. aborted' = FALSE
  BY <1>0, <1>1 DEF TypeOK
<1> QED BY <1>5, <1>6, <1>7, <1>8, <1>9, <1>10, SettleOn

\* Each activation of do_disable is for another thread: they are ancestors.
LEMMA StackNew ==
  ASSUME Sound, ThreadAssumption, dis.on, ~aborted, dis.stack # <<>>, NEW u \in thr[Top].children
  PROVE  /\ \A i \in DOMAIN dis.stack : dis.stack[i] # u
         /\ dis.fork => u # running
         /\ Top \in Threads /\ Live(Top) /\ thr[Top].i_have_ended
         /\ u \in Threads /\ Live(u) /\ thr[u].parent = Top /\ ~thr[u].i_am_detached /\ u # Top
         /\ Len(dis.stack) \in Nat /\ Len(dis.stack) > 0 /\ DOMAIN dis.stack = 1..Len(dis.stack)
<1> DEFINE n == Len(dis.stack)
<1>1. /\ TypeOK /\ Departed /\ Family /\ Rooted /\ Disabled /\ thr \in [Threads -> ThreadType]
      /\ running \in Threads /\ dis.stack \in Seq(Threads)
  BY AtDisable
<1>2. /\ n \in Nat /\ n > 0 /\ DOMAIN dis.stack = 1..n /\ n \in 1..n
      /\ \A i \in 1..n : dis.stack[i] \in Threads
  BY <1>1
<1>3. \A i \in 1..n : /\ Live(dis.stack[i]) /\ thr[dis.stack[i]].i_have_ended
                      /\ i > 1 => thr[dis.stack[i]].parent = dis.stack[i - 1]
                      /\ i = 1 /\ dis.fork => thr[dis.stack[i]].parent = running
  BY <1>1, <1>2 DEF Disabled
<1>4. Top = dis.stack[n] /\ Top \in Threads /\ Live(Top) /\ thr[Top].i_have_ended
  BY <1>2, <1>3 DEF Top
<1>5. u \in Threads /\ Live(u) /\ thr[u].parent = Top /\ ~thr[u].i_am_detached /\ u # Top
  BY <1>1, <1>4, Parents DEF Family
<1>6. ASSUME NEW i \in 1..n, dis.stack[i] = u
      PROVE  FALSE
  <2> DEFINE S == {dis.stack[k] : k \in i..n}
  <2>0. n \in i..n /\ \A k \in i..n : k \in 1..n
    BY <1>2
  <2>1. S \in SUBSET Threads /\ S # {}
    BY <1>2, <2>0
  <2>2. PICK k \in i..n : thr[dis.stack[k]].parent \notin S
    BY <1>1, <2>1 DEF Rooted
  <2>3. CASE k = i
    <3>1. thr[dis.stack[k]].parent = dis.stack[n] /\ n \in i..n
      BY <1>2, <1>4, <1>5, <1>6, <2>3
    <3> QED BY <2>2, <3>1
  <2>4. CASE k # i
    <3>1. k \in 1..n /\ k > 1 /\ k - 1 \in i..n
      BY <1>2, <2>4
    <3>2. thr[dis.stack[k]].parent = dis.stack[k - 1]
      BY <1>3, <3>1
    <3> QED BY <2>2, <3>1, <3>2
  <2> QED BY <2>3, <2>4
<1>7. ASSUME dis.fork, u = running
      PROVE  FALSE
  <2> DEFINE S == {dis.stack[k] : k \in 1..n} \cup {running}
  <2>1. S \in SUBSET Threads /\ S # {}
    BY <1>1, <1>2
  <2>2. PICK v \in S : thr[v].parent \notin S
    BY <1>1, <2>1 DEF Rooted
  <2>3. CASE v = running
    BY <1>2, <1>4, <1>5, <1>7, <2>2, <2>3
  <2>4. CASE v # running
    <3>1. PICK k \in 1..n : v = dis.stack[k]
      BY <2>4
    <3>2. CASE k = 1
      BY <1>3, <1>7, <2>2, <3>1, <3>2
    <3>3. CASE k # 1
      <4>1. k > 1 /\ k - 1 \in 1..n
        BY <1>2, <3>3
      <4>2. thr[v].parent = dis.stack[k - 1]
        BY <1>3, <3>1, <4>1
      <4> QED BY <2>2, <4>1, <4>2
    <3> QED BY <3>2, <3>3
  <2> QED BY <2>3, <2>4
<1> QED BY <1>2, <1>4, <1>5, <1>6, <1>7

\* do_disable calls itself for a child.
LEMMA KinDisableChild ==
  ASSUME Sound, ThreadAssumption, DisableChild, aborted' = FALSE
  PROVE  Sound'
<1> DEFINE n == Len(dis.stack)
           x == [thr[Top] EXCEPT !.i_am_joining = FALSE]
           T == [thr EXCEPT ![Top] = x]
<1>0. /\ dis.on /\ dis.stack # <<>> /\ dis.ret = None /\ ~aborted
      /\ UNCHANGED <<active, sleeping, waiters, running, rest>>
  BY DEF DisableChild, Activation
<1>1. /\ TypeOK /\ Counted /\ KinInv /\ Departed /\ Family /\ Rooted /\ Ended /\ TaskChildren
      /\ Referred /\ Disabled /\ Woken
      /\ thr \in [Threads -> ThreadType] /\ dis \in DisableType
      /\ running \in Threads /\ running # None
      /\ dis.stack \in Seq(Threads) /\ dis.fork \in BOOLEAN /\ dis.self \in BOOLEAN
  BY <1>0, AtDisable
<1>2. PICK u \in thr[Top].children :
        /\ thr' = Off([thr EXCEPT ![Top].i_am_joining = FALSE], u)
        /\ dis' = [dis EXCEPT !.stack = Append(@, u), !.self = @ \/ u = running]
  BY DEF DisableChild
<1>3. /\ \A i \in DOMAIN dis.stack : dis.stack[i] # u
      /\ dis.fork => u # running
      /\ Top \in Threads /\ Live(Top) /\ thr[Top].i_have_ended
      /\ u \in Threads /\ Live(u) /\ thr[u].parent = Top /\ ~thr[u].i_am_detached /\ u # Top
      /\ n \in Nat /\ n > 0 /\ DOMAIN dis.stack = 1..n
  BY <1>0, StackNew
<1>4. /\ x \in ThreadType /\ ~x.i_am_joining /\ x.status = thr[Top].status
      /\ x.parent = thr[Top].parent /\ x.scope = thr[Top].scope /\ x.in_scope = thr[Top].in_scope
      /\ x.children = thr[Top].children /\ x.detached_children = thr[Top].detached_children
      /\ x.task_func_children = thr[Top].task_func_children
      /\ x.i_am_detached = thr[Top].i_am_detached /\ x.i_am_waiting = thr[Top].i_am_waiting
      /\ x.waiting_for_event = thr[Top].waiting_for_event
      /\ x.is_scheduled = thr[Top].is_scheduled /\ x.i_have_ended = thr[Top].i_have_ended
      /\ x.code = thr[Top].code /\ x.joined = thr[Top].joined
  <2>1. thr[Top] \in ThreadType
    BY <1>1, <1>3
  <2> QED BY <2>1 DEF ThreadType
<1> HIDE DEF x
<1>5. /\ T \in [Threads -> ThreadType] /\ T[Top] = x /\ \A w \in Threads \ {Top} : T[w] = thr[w]
      /\ thr' = Off(T, u)
  <2>1. [thr EXCEPT ![Top].i_am_joining = FALSE] = T
    BY <1>1, <1>3 DEF x
  <2> QED BY <1>1, <1>2, <1>3, <1>4, <2>1
<1> HIDE DEF T
<1>6. /\ Begins(u) /\ thr' \in [Threads -> ThreadType] /\ ~thr'[Top].i_am_joining
      /\ \A w \in Threads \ {Top} : thr'[w].i_am_joining = thr[w].i_am_joining
  <2>1. /\ thr' \in [Threads -> ThreadType] /\ \A w \in Threads \ {u} : thr'[w] = T[w]
        /\ thr'[u].status = T[u].status /\ thr'[u].parent = T[u].parent
        /\ thr'[u].scope = T[u].scope /\ thr'[u].children = T[u].children
        /\ thr'[u].detached_children = T[u].detached_children
        /\ thr'[u].task_func_children = T[u].task_func_children
        /\ thr'[u].i_am_detached = T[u].i_am_detached /\ thr'[u].i_am_waiting = T[u].i_am_waiting
        /\ thr'[u].waiting_for_event = T[u].waiting_for_event
        /\ thr'[u].is_scheduled = T[u].is_scheduled /\ thr'[u].i_am_joining = T[u].i_am_joining
        /\ thr'[u].code = T[u].code /\ thr'[u].joined = T[u].joined
        /\ thr'[u].i_have_ended /\ ~thr'[u].in_scope
    BY <1>3, <1>5, OffFields
  <2>2. T[u] = thr[u] /\ thr'[Top] = x
    BY <1>3, <1>5, <2>1
  <2>3. \A w \in Threads \ {u, Top} : thr'[w] = thr[w]
    BY <1>5, <2>1
  <2>4. \A w \in Threads \ {Top} : thr'[w].i_am_joining = thr[w].i_am_joining
    BY <2>1, <2>2, <2>3
  <2>5. ~thr'[Top].i_am_joining /\ thr[Top].i_have_ended
    BY <1>3, <1>4, <2>2
  <2>6. ASSUME NEW w \in Threads
        PROVE  /\ thr'[w].status = thr[w].status /\ thr'[w].parent = thr[w].parent
               /\ thr'[w].scope = thr[w].scope /\ thr'[w].children = thr[w].children
               /\ thr'[w].detached_children = thr[w].detached_children
               /\ thr'[w].task_func_children = thr[w].task_func_children
               /\ thr'[w].i_am_detached = thr[w].i_am_detached
               /\ thr'[w].i_am_waiting = thr[w].i_am_waiting
               /\ thr'[w].waiting_for_event = thr[w].waiting_for_event
               /\ thr'[w].is_scheduled = thr[w].is_scheduled
               /\ thr'[w].code = thr[w].code /\ thr'[w].joined = thr[w].joined
               /\ w # u => /\ thr'[w].i_have_ended = thr[w].i_have_ended
                           /\ thr'[w].in_scope = thr[w].in_scope
    <3>1. CASE w = u
      BY <2>1, <2>2, <3>1
    <3>2. CASE w = Top
      BY <1>4, <2>2, <3>2
    <3>3. CASE w # u /\ w # Top
      BY <2>3, <3>3
    <3> QED BY <3>1, <3>2, <3>3
  <2> QED BY <2>1, <2>4, <2>5, <2>6 DEF Begins
<1>7. /\ dis'.on = dis.on /\ dis'.fork = dis.fork /\ dis'.scope = dis.scope
      /\ dis'.stack = Append(dis.stack, u)
      /\ dis'.ret = None /\ dis'.self = (dis.self \/ u = running) /\ dis' \in DisableType
  <2>1. Append(dis.stack, u) \in Seq(Threads) /\ (dis.self \/ u = running) \in BOOLEAN
    BY <1>1, <1>3
  <2> QED BY <1>0, <1>1, <1>2, <2>1 DEF DisableType
<1>8. /\ DOMAIN dis'.stack = 1..(n + 1) /\ dis'.stack[n + 1] = u
      /\ \A i \in 1..n : dis'.stack[i] = dis.stack[i] /\ dis.stack[i] \in Threads
      /\ Top = dis.stack[n]
  BY <1>1, <1>3, <1>7 DEF Top
<1>9. Departed' /\ Family' /\ Rooted' /\ Ended' /\ TaskChildren' /\ Referred' /\ Counted'
  <2>1. Stacked(u)'
    BY <1>3, <1>8 DEF Stacked
  <2>2. \A w \in Threads : Stacked(w) => Stacked(w)'
    BY <1>3, <1>8 DEF Stacked
  <2> QED BY <1>0, <1>1, <1>3, <1>6, <2>1, <2>2, BeginsKeep
<1>10. /\ dis.self <=> thr[running].i_have_ended
       /\ dis.fork => ~thr[running].i_have_ended /\ ~thr[running].i_am_joining
       /\ ~dis.fork => \A w \in InScope(thr, dis.scope) : ~thr[w].i_am_detached
  BY <1>0, <1>1 DEF Disabled
<1>11. Disabled'
  <2>1. running' # None /\ (dis'.self <=> thr'[running'].i_have_ended)
    BY <1>0, <1>1, <1>3, <1>7, <1>6, <1>10 DEF Begins
  <2>2. dis'.fork => ~thr'[running'].i_have_ended /\ ~thr'[running'].i_am_joining
    BY <1>0, <1>1, <1>3, <1>7, <1>6, <1>10 DEF Begins
  <2>3. ~dis'.fork => \A w \in InScope(thr, dis.scope)' : ~thr'[w].i_am_detached
    BY <1>6, <1>7, <1>10 DEF Begins, InScope
  <2>4. ASSUME NEW i \in DOMAIN dis'.stack
        PROVE  /\ thr'[dis'.stack[i]].status = "live" /\ thr'[dis'.stack[i]].i_have_ended
               /\ i > 1 => /\ thr'[dis'.stack[i]].parent = dis'.stack[i - 1]
                           /\ ~thr'[dis'.stack[i]].i_am_detached
                           /\ ~thr'[dis'.stack[i - 1]].i_am_joining
               /\ i = 1 /\ dis'.fork => /\ thr'[dis'.stack[i]].parent = running'
                                        /\ thr'[dis'.stack[i]].i_am_detached
               /\ i = 1 /\ ~dis'.fork => ~thr'[dis'.stack[i]].i_am_detached
               /\ \A j \in DOMAIN dis'.stack : i # j => dis'.stack[i] # dis'.stack[j]
               /\ dis'.fork => dis'.stack[i] # running'
               /\ dis'.stack[i] # dis'.ret
    <3>1. CASE i = n + 1
      <4>1. dis'.stack[i] = u /\ i > 1 /\ i - 1 = n /\ dis'.stack[i - 1] = Top
        BY <1>3, <1>8, <3>1
      <4>2. \A j \in DOMAIN dis'.stack : i # j => dis'.stack[j] # u
        BY <1>3, <1>8, <3>1
      <4> QED BY <1>0, <1>3, <1>6, <1>7, <4>1, <4>2 DEF Begins, Live, ThreadAssumption
    <3>2. CASE i # n + 1
      <4>1. i \in 1..n /\ dis'.stack[i] = dis.stack[i] /\ dis.stack[i] \in Threads
        BY <1>3, <1>8, <3>2
      <4>2. i > 1 => i - 1 \in 1..n /\ dis'.stack[i - 1] = dis.stack[i - 1] /\ dis.stack[i - 1] \in Threads
        BY <1>3, <1>8, <4>1
      <4>3. /\ Live(dis.stack[i]) /\ thr[dis.stack[i]].i_have_ended
            /\ i > 1 => /\ thr[dis.stack[i]].parent = dis.stack[i - 1]
                        /\ ~thr[dis.stack[i]].i_am_detached
                        /\ ~thr[dis.stack[i - 1]].i_am_joining
            /\ i = 1 /\ dis.fork => /\ thr[dis.stack[i]].parent = running
                                    /\ thr[dis.stack[i]].i_am_detached
            /\ i = 1 /\ ~dis.fork => ~thr[dis.stack[i]].i_am_detached
            /\ \A j \in 1..n : i # j => dis.stack[i] # dis.stack[j]
            /\ dis.fork => dis.stack[i] # running
        BY <1>1, <1>3, <4>1 DEF Disabled
      <4>4. \A j \in DOMAIN dis'.stack : i # j => dis'.stack[i] # dis'.stack[j]
        BY <1>3, <1>8, <4>1, <4>3
      <4>5. dis'.stack[i] # u /\ dis'.stack[i] # None
        BY <1>3, <4>1 DEF ThreadAssumption
      <4> QED BY <1>0, <1>6, <1>7, <4>1, <4>2, <4>3, <4>4, <4>5 DEF Begins, Live
    <3> QED BY <3>1, <3>2
  <2> QED BY <1>0, <1>7, <2>1, <2>2, <2>3, <2>4 DEF Disabled, Live
<1>12. Woken'
  <2> SUFFICES ASSUME NEW w \in Threads, Live(w)', ~thr'[w].i_have_ended, w # running'
               PROVE  \/ WillResume(w)'
                      \/ /\ dis'.stack # <<>> /\ ~dis'.fork
                         /\ thr'[dis'.stack[1]].parent = w
                         /\ thr'[w].i_am_joining
                         /\ \/ thr'[w].task_func_children = {}
                            \/ dis'.stack[1] \in thr'[w].task_func_children
    BY DEF Woken, Joinable
  <2>1. /\ w # u /\ w # Top /\ Live(w) /\ ~thr[w].i_have_ended /\ w # running /\ thr[w] \in ThreadType
        /\ thr'[w].i_am_joining = thr[w].i_am_joining
    BY <1>0, <1>1, <1>3, <1>6 DEF Begins, Live
  <2>2. dis'.stack # <<>> /\ dis'.stack[1] = dis.stack[1] /\ dis.stack[1] \in Threads
    BY <1>3, <1>8
  <2>3. CASE WillResume(w)
    <3>1. \A v \in thr[w].children \cup thr[w].detached_children : v \in Threads /\ v # u
      BY <1>0, <1>1, <1>3, <2>1 DEF Family, ThreadType
    <3>2. WillResume(w)'
      BY <1>6, <2>1, <2>3, <3>1 DEF WillResume, Joinable, Begins
    <3> QED BY <3>2
  <2>4. CASE ~WillResume(w)
    <3>1. /\ ~dis.fork /\ thr[dis.stack[1]].parent = w /\ thr[w].i_am_joining
          /\ Joinable(thr, w, dis.stack[1])
      BY <1>1, <2>1, <2>4 DEF Woken
    <3> QED BY <1>6, <1>7, <2>1, <2>2, <3>1 DEF Joinable, Begins
  <2> QED BY <2>3, <2>4
<1> QED BY <1>6, <1>7, <1>9, <1>11, <1>12, SettleOn

\* A stack has one activation or more.
LEMMA OneOrMore ==
  ASSUME NEW n \in Nat, n > 0
  PROVE  n = 1 \/ n > 1
  OBVIOUS

\* The activation of do_disable that is about to return.
LEMMA AtTop ==
  ASSUME Sound, ThreadAssumption, Activation
  PROVE  /\ dis.on /\ ~aborted /\ dis.ret = None
         /\ Len(dis.stack) \in Nat /\ Len(dis.stack) > 0 /\ DOMAIN dis.stack = 1..Len(dis.stack)
         /\ \A i \in 1..Len(dis.stack) : dis.stack[i] \in Threads
         /\ Top = dis.stack[Len(dis.stack)] /\ Top \in Threads /\ Live(Top) /\ thr[Top].i_have_ended
         /\ Len(dis.stack) > 1 => /\ thr[Top].parent = dis.stack[Len(dis.stack) - 1]
                                  /\ ~thr[Top].i_am_detached
                                  /\ ~thr[dis.stack[Len(dis.stack) - 1]].i_am_joining
         /\ Len(dis.stack) = 1 /\ dis.fork => thr[Top].parent = running /\ thr[Top].i_am_detached
         /\ Len(dis.stack) = 1 /\ ~dis.fork => ~thr[Top].i_am_detached
<1> DEFINE n == Len(dis.stack)
<1>0. dis.on /\ ~aborted /\ dis.ret = None /\ dis.stack # <<>>
  BY DEF Activation
<1>1. Disabled /\ dis.stack \in Seq(Threads)
  BY <1>0, AtDisable
<1>2. /\ n \in Nat /\ n > 0 /\ DOMAIN dis.stack = 1..n /\ n \in DOMAIN dis.stack
      /\ \A i \in 1..n : dis.stack[i] \in Threads
  BY <1>0, <1>1
<1>3. Top = dis.stack[n]
  BY DEF Top
<1> QED BY <1>0, <1>1, <1>2, <1>3 DEF Disabled

\* What a return of do_disable leaves.
LEMMA ReturnFields ==
  ASSUME Sound, ThreadAssumption, Activation, dis' = Returned
  PROVE  /\ dis'.on = dis.on /\ dis'.fork = dis.fork /\ dis'.scope = dis.scope
         /\ dis'.self = dis.self /\ dis' \in DisableType
         /\ DOMAIN dis'.stack = 1..(Len(dis.stack) - 1)
         /\ Len(dis'.stack) = Len(dis.stack) - 1
         /\ \A i \in 1..(Len(dis.stack) - 1) : dis'.stack[i] = dis.stack[i]
         /\ dis.fork \/ Len(dis.stack) > 1 => dis'.ret = Top
         /\ ~(dis.fork \/ Len(dis.stack) > 1) => dis'.ret = None
         /\ Len(dis.stack) = 1 => dis'.stack = <<>>
<1> DEFINE n == Len(dis.stack)
           r == IF dis.fork \/ n > 1 THEN Top ELSE None
           q == SubSeq(dis.stack, 1, n - 1)
<1>1. dis \in DisableType /\ dis.stack \in Seq(Threads) /\ n \in Nat /\ n > 0 /\ Top \in Threads
  BY AtTop, AtDisable
<1>2. /\ q \in Seq(Threads) /\ Len(q) = n - 1 /\ DOMAIN q = 1..(n - 1)
      /\ \A i \in 1..(n - 1) : q[i] = dis.stack[i]
  BY <1>1
<1>3. r \in Threads \cup {None}
  BY <1>1
<1>4. dis' = [dis EXCEPT !.stack = q, !.ret = r]
  BY DEF Returned
<1>5. n = 1 => q = <<>>
  BY <1>1, <1>2
<1> HIDE DEF q, r
<1>6. /\ dis'.on = dis.on /\ dis'.fork = dis.fork /\ dis'.scope = dis.scope
      /\ dis'.self = dis.self /\ dis' \in DisableType /\ dis'.stack = q /\ dis'.ret = r
  BY <1>1, <1>2, <1>3, <1>4 DEF DisableType
<1>7. /\ dis.fork \/ n > 1 => r = Top
      /\ ~(dis.fork \/ n > 1) => r = None
  BY DEF r
<1> QED BY <1>2, <1>5, <1>6, <1>7

\* The whole %disable is back in of_DISABLE.
LEMMA BackInLoop ==
  ASSUME Sound, ThreadAssumption, dis.on, ~aborted, ~dis.fork, NEW t \in Threads, Reaps(t),
         thr[t].i_have_ended, dis'.on, ~dis'.fork, dis'.scope = dis.scope,
         dis'.self = dis.self, dis'.stack = <<>>, dis'.ret = None, running' = running
  PROVE  Disabled'
<1>1. /\ running \in Threads /\ running # None /\ (dis.self <=> thr[running].i_have_ended)
      /\ \A w \in InScope(thr, dis.scope) : ~thr[w].i_am_detached
  BY AtDisable DEF Disabled
<1>2. dis'.self <=> thr'[running'].i_have_ended
  BY <1>1 DEF Reaps
<1>3. \A w \in InScope(thr, dis.scope)' : ~thr'[w].i_am_detached
  <2> SUFFICES ASSUME NEW w \in Threads, thr'[w].in_scope, thr'[w].scope = dis.scope
               PROVE  ~thr'[w].i_am_detached
    BY DEF InScope
  <2>1. w # t /\ w \in InScope(thr, dis.scope)
    BY DEF Reaps, InScope
  <2> QED BY <1>1, <2>1 DEF Reaps
<1> QED BY <1>1, <1>2, <1>3 DEF Disabled

\* vthread_reap where do_disable calls it.
LEMMA ReapIsReaps ==
  ASSUME Sound, ThreadAssumption, ~aborted, dis.on, NEW t \in Threads, Live(t),
         thr[t].children = {}, thr[t].i_have_ended,
         thr[t].parent # None => thr[t].i_am_detached \/ thr[thr[t].parent].i_have_ended,
         thr' = Reap(thr, t)
  PROVE  Reaps(t) /\ ReapedIn(thr, t, thr') /\ Counted' /\ thr' \in [Threads -> ThreadType]
<1>1. /\ TypeOK /\ Counted /\ Departed /\ Family /\ Rooted /\ thr \in [Threads -> ThreadType]
  BY AtDisable
<1>2. /\ thr[t].parent # t /\ t \notin thr[t].detached_children
      /\ thr[t].parent \notin thr[t].detached_children
  BY <1>1, Parents
<1>3. ReapedIn(thr, t, thr')
  BY <1>1, <1>2, ReapEffect
<1>4. /\ thr'[t].status \in {"reaped", "deleted"} /\ thr'[t].i_have_ended
      /\ thr'[t].status = "reaped" => thr'[t].is_scheduled \/ thr'[t].waiting_for_event
      /\ thr'[t].parent = None /\ ~thr'[t].in_scope /\ thr'[t].children = {}
  BY <1>3 DEF ReapedIn
<1>5. ASSUME NEW u \in Threads \ {t}
      PROVE  /\ Alike(thr'[u], thr[u]) /\ thr'[u].task_func_children = thr[u].task_func_children
             /\ IF u \in thr[t].detached_children
                THEN thr'[u].parent = None /\ ~thr'[u].i_am_detached
                ELSE thr'[u].parent = thr[u].parent
                     /\ thr'[u].i_am_detached = thr[u].i_am_detached
             /\ u # thr[t].parent => thr'[u].children = thr[u].children
                                     /\ thr'[u].detached_children = thr[u].detached_children
  BY <1>3 DEF ReapedIn
<1>6. ASSUME NEW u \in Threads \ {t}, u = thr[t].parent
      PROVE  /\ thr'[u].children = thr[u].children \ {t}
             /\ thr'[u].detached_children = thr[u].detached_children \ {t}
  <2>1. Live(u) /\ u # None
    BY <1>1, <1>6 DEF Departed, ThreadAssumption
  <2>2. CASE thr[t].i_am_detached
    <3>1. t \notin thr[u].children
      BY <1>1, <2>1, <2>2 DEF Family
    <3>2. thr'[u].children = thr[u].children /\ thr'[u].detached_children = thr[u].detached_children \ {t}
      BY <1>3, <1>6, <2>2 DEF ReapedIn
    <3> QED BY <3>1, <3>2
  <2>3. CASE ~thr[t].i_am_detached
    <3>1. t \notin thr[u].detached_children
      BY <1>1, <2>1, <2>3 DEF Family
    <3>2. thr'[u].children = thr[u].children \ {t} /\ thr'[u].detached_children = thr[u].detached_children
      BY <1>3, <1>6, <2>3 DEF ReapedIn
    <3> QED BY <3>1, <3>2
  <2> QED BY <2>2, <2>3
<1>7. Reaps(t)
  BY <1>4, <1>5, <1>6 DEF Reaps, Alike, ThreadAssumption
<1>8. Counted' /\ thr' \in [Threads -> ThreadType]
  BY <1>1, <1>3 DEF ReapedIn, Counted, Alike
<1> QED BY <1>3, <1>7, <1>8

\* do_disable reaps a thread without parent.
LEMMA KinDisableAlone ==
  ASSUME Sound, ThreadAssumption, DisableAlone, aborted' = FALSE
  PROVE  Sound'
<1>0. /\ Activation /\ thr[Top].children = {} /\ thr[Top].parent = None
      /\ thr' = Reap(thr, Top) /\ dis' = Returned
      /\ UNCHANGED <<active, sleeping, waiters, running, rest>>
  BY DEF DisableAlone
<1>1. /\ dis.on /\ ~aborted /\ dis.ret = None /\ dis.stack # <<>>
      /\ Top \in Threads /\ Live(Top) /\ thr[Top].i_have_ended
  BY <1>0, AtTop DEF Activation
<1>2. /\ TypeOK /\ KinInv /\ Family /\ Departed /\ Referred /\ Woken /\ running \in Threads
      /\ thr \in [Threads -> ThreadType]
  BY <1>1, AtDisable
<1>3. Len(dis.stack) = 1 /\ ~dis.fork
  <2>1. ASSUME Len(dis.stack) > 1
        PROVE  FALSE
    <3>1. thr[Top].parent = dis.stack[Len(dis.stack) - 1]
      BY <1>0, <2>1, AtTop
    <3>2. dis.stack[Len(dis.stack) - 1] \in Threads
      BY <1>0, <2>1, AtTop
    <3> QED BY <1>0, <3>1, <3>2 DEF ThreadAssumption
  <2>2. Len(dis.stack) \in Nat /\ Len(dis.stack) > 0
    BY <1>0, AtTop
  <2>3. Len(dis.stack) = 1
    BY <2>1, <2>2, OneOrMore
  <2> QED BY <1>0, <1>2, <2>3, AtTop DEF ThreadAssumption
<1>4. /\ dis'.on /\ ~dis'.fork /\ dis'.scope = dis.scope /\ dis'.self = dis.self
      /\ dis'.stack = <<>> /\ dis'.ret = None /\ dis' \in DisableType
  <2>1. ~(dis.fork \/ Len(dis.stack) > 1)
    BY <1>3
  <2> QED BY <1>0, <1>1, <1>3, <2>1, ReturnFields
<1>5. PICK t \in Threads : t = Top
  BY <1>1
<1>6. Reaps(t) /\ Counted' /\ thr' \in [Threads -> ThreadType]
  BY <1>0, <1>1, <1>5, ReapIsReaps
<1>7. \A w \in Threads : Stacked(w) => w = t
  BY <1>0, <1>3, <1>5, AtTop DEF Stacked
<1>8. Departed' /\ Family' /\ Rooted' /\ Ended' /\ TaskChildren'
  <2>1. Kept(t)
    BY <1>1, <1>7 DEF Kept
  <2> QED BY <1>0, <1>1, <1>2, <1>5, <1>6, <2>1, ReapsKeep
<1>9. Disabled'
  BY <1>0, <1>1, <1>3, <1>4, <1>5, <1>6, BackInLoop
<1>10. Referred'
  BY <1>0, <1>2, <1>6, BornGrows DEF Referred, Reaps
<1>11. Woken'
  <2> SUFFICES ASSUME NEW w \in Threads, Live(w)', ~thr'[w].i_have_ended, w # running'
               PROVE  WillResume(w)'
    BY DEF Woken
  <2>1. w # t /\ Live(w) /\ ~thr[w].i_have_ended /\ w # running
    BY <1>0, <1>6 DEF Reaps, Live
  <2>2. thr[dis.stack[1]].parent # w /\ w # thr[t].parent
    BY <1>0, <1>3, <1>5, AtTop DEF ThreadAssumption
  <2>3. WillResume(w)
    BY <1>2, <2>1, <2>2 DEF Woken
  <2> QED BY <1>1, <1>2, <1>6, <2>1, <2>2, <2>3, ReapsWoken
<1> QED BY <1>4, <1>6, <1>8, <1>9, <1>10, <1>11, SettleOn

\* do_disable leaves a thread to its parent or to its caller.
LEMMA KinDisableLeave ==
  ASSUME Sound, ThreadAssumption, DisableLeave
  PROVE  Sound'
<1> DEFINE n == Len(dis.stack)
<1>0. /\ Activation /\ thr[Top].children = {} /\ thr[Top].parent # None /\ dis' = Returned
      /\ ~(thr[thr[Top].parent].i_am_joining /\ Joinable(thr, thr[Top].parent, Top))
      /\ UNCHANGED <<thr, active, sleeping, waiters, running, rest, aborted>>
  BY DEF DisableLeave
<1>1. /\ dis.on /\ ~aborted /\ dis.ret = None /\ dis.stack # <<>>
      /\ n \in Nat /\ n > 0 /\ DOMAIN dis.stack = 1..n
      /\ \A i \in 1..n : dis.stack[i] \in Threads
      /\ Top = dis.stack[n] /\ Top \in Threads /\ Live(Top) /\ thr[Top].i_have_ended
      /\ n > 1 => /\ thr[Top].parent = dis.stack[n - 1] /\ ~thr[Top].i_am_detached
                  /\ ~thr[dis.stack[n - 1]].i_am_joining
      /\ n = 1 /\ dis.fork => thr[Top].parent = running /\ thr[Top].i_am_detached
      /\ n = 1 /\ ~dis.fork => ~thr[Top].i_am_detached
  BY <1>0, AtTop DEF Activation
<1>2. /\ TypeOK /\ Counted /\ KinInv /\ Family /\ Departed /\ Referred /\ Woken /\ Rooted
      /\ Ended /\ TaskChildren /\ Disabled /\ running \in Threads /\ running # None
      /\ thr \in [Threads -> ThreadType]
  BY <1>1, AtDisable
<1>3. /\ dis'.on /\ dis'.fork = dis.fork /\ dis'.scope = dis.scope /\ dis'.self = dis.self
      /\ dis' \in DisableType /\ DOMAIN dis'.stack = 1..(n - 1) /\ Len(dis'.stack) = n - 1
      /\ \A i \in 1..(n - 1) : dis'.stack[i] = dis.stack[i]
      /\ dis.fork \/ n > 1 => dis'.ret = Top
      /\ ~(dis.fork \/ n > 1) => dis'.ret = None
      /\ n = 1 => dis'.stack = <<>>
  BY <1>0, <1>1, ReturnFields
<1>4. PICK t \in Threads : t = Top
  BY <1>1
<1>5. Departed' /\ Family' /\ Rooted' /\ TaskChildren' /\ Referred' /\ Counted'
  <2>1. Departed' /\ Family' /\ Rooted' /\ TaskChildren'
    BY <1>0, <1>1, <1>2, SMTT(30) DEF Departed, Family, Rooted, TaskChildren, Live, Siblings
  <2> QED BY <1>0, <1>2, <2>1 DEF Referred, Born, Counted
<1>6. Ended'
  <2> SUFFICES ASSUME NEW w \in Threads, thr[w].i_have_ended
               PROVE  /\ Stacked(w)' \/ thr[w].children = {}
                      /\ Live(w) => \/ Stacked(w)' \/ w = dis'.ret
                                    \/ thr[w].parent # None /\ ~thr[w].i_am_detached
    BY <1>0 DEF Ended, Live
  <2>1. CASE w = t
    <3>1. CASE dis.fork \/ n > 1
      BY <1>0, <1>3, <1>4, <2>1, <3>1
    <3>2. CASE ~(dis.fork \/ n > 1)
      <4>1. n = 1
        BY <1>1, <3>2, OneOrMore
      <4> QED BY <1>0, <1>1, <1>4, <2>1, <3>2, <4>1
    <3> QED BY <3>1, <3>2
  <2>2. CASE w # t
    <3>1. Stacked(w) => Stacked(w)'
      <4> SUFFICES ASSUME NEW i \in DOMAIN dis.stack, dis.stack[i] = w
                   PROVE  Stacked(w)'
        BY DEF Stacked
      <4>1. i \in 1..(n - 1)
        BY <1>1, <1>4, <2>2
      <4> QED BY <1>3, <4>1 DEF Stacked
    <3> QED BY <1>1, <1>2, <3>1 DEF Ended, ThreadAssumption
  <2> QED BY <2>1, <2>2
<1>7. Disabled'
  <2>1. /\ running' # None /\ (dis'.self <=> thr'[running'].i_have_ended)
        /\ dis'.fork => ~thr'[running'].i_have_ended /\ ~thr'[running'].i_am_joining
        /\ ~dis'.fork => \A w \in InScope(thr, dis.scope)' : ~thr'[w].i_am_detached
    BY <1>0, <1>1, <1>2, <1>3, SMTT(30) DEF Disabled, InScope
  <2>2. ASSUME NEW i \in DOMAIN dis'.stack
        PROVE  /\ thr'[dis'.stack[i]].status = "live" /\ thr'[dis'.stack[i]].i_have_ended
               /\ i > 1 => /\ thr'[dis'.stack[i]].parent = dis'.stack[i - 1]
                           /\ ~thr'[dis'.stack[i]].i_am_detached
                           /\ ~thr'[dis'.stack[i - 1]].i_am_joining
               /\ i = 1 /\ dis'.fork => /\ thr'[dis'.stack[i]].parent = running'
                                        /\ thr'[dis'.stack[i]].i_am_detached
               /\ i = 1 /\ ~dis'.fork => ~thr'[dis'.stack[i]].i_am_detached
               /\ \A j \in DOMAIN dis'.stack : i # j => dis'.stack[i] # dis'.stack[j]
               /\ dis'.fork => dis'.stack[i] # running'
               /\ dis'.stack[i] # dis'.ret
    <3>1. i \in 1..n /\ i # n /\ dis'.stack[i] = dis.stack[i] /\ dis.stack[i] \in Threads
      BY <1>1, <1>3
    <3>2. i > 1 => dis'.stack[i - 1] = dis.stack[i - 1]
      BY <1>1, <1>3
    <3>3. /\ Live(dis.stack[i]) /\ thr[dis.stack[i]].i_have_ended
          /\ i > 1 => /\ thr[dis.stack[i]].parent = dis.stack[i - 1]
                      /\ ~thr[dis.stack[i]].i_am_detached
                      /\ ~thr[dis.stack[i - 1]].i_am_joining
          /\ i = 1 /\ dis.fork => /\ thr[dis.stack[i]].parent = running
                                  /\ thr[dis.stack[i]].i_am_detached
          /\ i = 1 /\ ~dis.fork => ~thr[dis.stack[i]].i_am_detached
          /\ \A j \in 1..n : i # j => dis.stack[i] # dis.stack[j]
          /\ dis.fork => dis.stack[i] # running
      BY <1>1, <1>2, <3>1 DEF Disabled
    <3>4. \A j \in DOMAIN dis'.stack : j \in 1..n /\ dis'.stack[j] = dis.stack[j]
      BY <1>1, <1>3
    <3>5. dis.stack[i] # dis'.ret
      <4>1. dis.stack[i] # Top /\ dis.stack[i] # None
        BY <1>1, <3>1, <3>3 DEF ThreadAssumption
      <4>2. dis'.ret = Top \/ dis'.ret = None
        BY <1>3
      <4> QED BY <4>1, <4>2
    <3> QED BY <1>0, <1>3, <3>1, <3>2, <3>3, <3>4, <3>5 DEF Live
  <2>3. ASSUME dis'.ret # None
        PROVE  /\ thr'[dis'.ret].status = "live" /\ thr'[dis'.ret].i_have_ended
               /\ thr'[dis'.ret].children = {}
               /\ dis'.stack = <<>> => /\ dis'.fork /\ thr'[dis'.ret].parent = running'
                                       /\ thr'[dis'.ret].i_am_detached
               /\ dis'.stack # <<>> => /\ thr'[dis'.ret].parent = dis'.stack[Len(dis'.stack)]
                                       /\ ~thr'[dis'.ret].i_am_detached
                                       /\ ~thr'[dis'.stack[Len(dis'.stack)]].i_am_joining
    <3>1. dis'.ret = Top /\ (dis.fork \/ n > 1)
      BY <1>3, <2>3
    <3>2. CASE n = 1
      BY <1>0, <1>1, <1>3, <3>1, <3>2 DEF Live
    <3>3. CASE n > 1
      <4>1. dis'.stack # <<>> /\ dis'.stack[Len(dis'.stack)] = dis.stack[n - 1]
        BY <1>1, <1>3, <3>3
      <4> QED BY <1>0, <1>1, <3>1, <3>3, <4>1 DEF Live
    <3>4. n = 1 \/ n > 1
      BY <1>1, OneOrMore
    <3> QED BY <3>2, <3>3, <3>4
  <2> QED BY <1>3, <2>1, <2>2, <2>3 DEF Disabled, Live, Top
<1>8. Woken'
  <2> SUFFICES ASSUME NEW w \in Threads, Live(w), ~thr[w].i_have_ended, w # running
               PROVE  \/ WillResume(w)
                      \/ /\ dis'.stack # <<>> /\ ~dis'.fork
                         /\ thr[dis'.stack[1]].parent = w
                         /\ thr[w].i_am_joining /\ Joinable(thr, w, dis'.stack[1])
    BY <1>0 DEF Woken, Live, WillResume, Joinable
  <2>1. CASE WillResume(w)
    BY <2>1
  <2>2. CASE ~WillResume(w)
    <3>1. /\ ~dis.fork /\ thr[dis.stack[1]].parent = w /\ thr[w].i_am_joining
          /\ Joinable(thr, w, dis.stack[1])
      BY <1>2, <2>2 DEF Woken
    <3>2. n > 1
      BY <1>0, <1>1, <3>1
    <3>3. dis'.stack # <<>> /\ dis'.stack[1] = dis.stack[1]
      BY <1>1, <1>3, <3>2
    <3> QED BY <1>3, <3>1, <3>3
  <2> QED BY <2>1, <2>2
<1>9. aborted' = FALSE /\ thr' \in [Threads -> ThreadType]
  BY <1>0, <1>1, <1>2 DEF TypeOK
<1> QED BY <1>3, <1>5, <1>6, <1>7, <1>8, <1>9, SettleOn

\* do_disable wakes up the parent, which joins the thread.
LEMMA KinDisableWake ==
  ASSUME Sound, ThreadAssumption, DisableWake, aborted' = FALSE
  PROVE  Sound'
<1>0. /\ Activation /\ thr[Top].children = {} /\ thr[Top].parent # None /\ dis' = Returned
      /\ thr[thr[Top].parent].i_am_joining
      /\ UNCHANGED <<sleeping, waiters, running, rest>>
  BY DEF DisableWake
<1>1. /\ dis.on /\ ~aborted /\ dis.ret = None /\ dis.stack # <<>>
      /\ Top \in Threads /\ Live(Top) /\ thr[Top].i_have_ended
      /\ Len(dis.stack) \in Nat /\ Len(dis.stack) > 0
  BY <1>0, AtTop DEF Activation
<1>2. /\ TypeOK /\ KinInv /\ Family /\ Departed /\ Referred /\ Woken /\ Rooted /\ Ended
      /\ Counted /\ Disabled /\ running \in Threads /\ thr \in [Threads -> ThreadType]
  BY <1>1, AtDisable
<1>3. Len(dis.stack) = 1 /\ ~dis.fork
  <2>1. ASSUME Len(dis.stack) > 1
        PROVE  FALSE
    BY <1>0, <2>1, AtTop
  <2>2. Len(dis.stack) = 1
    BY <1>1, <2>1, OneOrMore
  <2>3. dis.fork => ~thr[running].i_am_joining
    BY <1>1, <1>2 DEF Disabled
  <2> QED BY <1>0, <2>2, <2>3, AtTop
<1>4. /\ dis'.on /\ ~dis'.fork /\ dis'.scope = dis.scope /\ dis'.self = dis.self
      /\ dis'.stack = <<>> /\ dis'.ret = None /\ dis' \in DisableType
  <2>1. ~(dis.fork \/ Len(dis.stack) > 1)
    BY <1>3
  <2> QED BY <1>0, <1>1, <1>3, <2>1, ReturnFields
<1>5. PICK t \in Threads : t = Top
  BY <1>1
<1>6. PICK p \in Threads : p = thr[t].parent
  BY <1>0, <1>1, <1>2, <1>5, Parents
<1>7. /\ Live(t) /\ thr[t].i_have_ended /\ thr[t].children = {} /\ ~thr[t].i_am_detached
      /\ p # t /\ Live(p) /\ t \notin thr[t].detached_children /\ p \notin thr[t].detached_children
      /\ t \in thr[p].children /\ t \notin thr[p].detached_children /\ p # None
  <2>1. Live(t) /\ thr[t].i_have_ended /\ thr[t].children = {} /\ ~thr[t].i_am_detached
    BY <1>0, <1>1, <1>3, <1>5, AtTop
  <2>2. /\ p # t /\ Live(p) /\ t \notin thr[t].detached_children /\ p \notin thr[t].detached_children
    BY <1>1, <1>2, <1>6, <2>1, Parents DEF ThreadAssumption
  <2>3. t \in thr[p].children /\ t \notin thr[p].detached_children
    BY <1>1, <1>2, <1>6, <2>1, <2>2 DEF Family, Siblings, ThreadAssumption
  <2> QED BY <2>1, <2>2, <2>3 DEF ThreadAssumption
<1>8. \A w \in Threads : Stacked(w) => w = t
  BY <1>0, <1>3, <1>5, AtTop DEF Stacked
<1>9. ~thr[p].i_have_ended
  BY <1>2, <1>7, <1>8 DEF Ended
<1>10. /\ thr' = DoJoin([[thr EXCEPT ![p].i_am_joining = FALSE] EXCEPT ![p].is_scheduled = TRUE], p, t)
       /\ active' = <<<<p>>>> \o active
  <2>1. ~[thr EXCEPT ![p].i_am_joining = FALSE][p].i_have_ended
    <3>1. thr[p] \in ThreadType
      BY <1>2
    <3>2. [thr EXCEPT ![p].i_am_joining = FALSE][p] = [thr[p] EXCEPT !.i_am_joining = FALSE]
      BY <1>2
    <3> QED BY <1>9, <3>1, <3>2 DEF ThreadType
  <2> QED BY <1>5, <1>6, <1>9, <2>1 DEF DisableWake, Scheduled, PushFront
<1> DEFINE s == [thr[p] EXCEPT !.i_am_joining = FALSE, !.is_scheduled = TRUE]
           S == [thr EXCEPT ![p] = s]
<1>11. thr' = DoJoin(S, p, t)
  <2>1. [[thr EXCEPT ![p].i_am_joining = FALSE] EXCEPT ![p].is_scheduled = TRUE] = S
    BY <1>2
  <2> QED BY <1>10, <2>1
<1>12. /\ s \in ThreadType /\ s.is_scheduled /\ s.status = thr[p].status /\ s.scope = thr[p].scope
       /\ s.in_scope = thr[p].in_scope /\ s.i_have_ended = thr[p].i_have_ended
       /\ s.waiting_for_event = thr[p].waiting_for_event /\ s.parent = thr[p].parent
       /\ s.i_am_detached = thr[p].i_am_detached /\ s.children = thr[p].children
       /\ s.detached_children = thr[p].detached_children
       /\ s.task_func_children = thr[p].task_func_children
       /\ s.code = thr[p].code /\ s.joined = thr[p].joined
  <2>1. thr[p] \in ThreadType
    BY <1>2
  <2> QED BY <2>1 DEF ThreadType
<1> HIDE DEF s
<1>13. S \in [Threads -> ThreadType] /\ S[p] = s /\ \A u \in Threads \ {p} : S[u] = thr[u]
  BY <1>2, <1>12
<1> HIDE DEF S
<1>14. JoinedIn(S, p, t, thr') /\ S[t] = thr[t]
  <2>1. S[t] = thr[t]
    BY <1>7, <1>13
  <2>2. /\ S[t].children = {} /\ S[t].parent = p /\ ~S[t].i_am_detached
        /\ t \notin S[t].detached_children /\ p \notin S[t].detached_children
    BY <1>6, <1>7, <2>1
  <2> QED BY <1>7, <1>11, <1>13, <2>1, <2>2, JoinEffect
<1>15. Reaps(t)
  <2>1. /\ thr'[t].status \in {"reaped", "deleted"} /\ thr'[t].i_have_ended
        /\ thr'[t].status = "reaped" => thr'[t].is_scheduled \/ thr'[t].waiting_for_event
        /\ thr'[t].parent = None /\ ~thr'[t].in_scope /\ thr'[t].children = {}
    BY <1>7, <1>14 DEF JoinedIn
  <2>2. ASSUME NEW u \in Threads \ {t}
        PROVE  /\ Alike(thr'[u], S[u])
               /\ IF u \in thr[t].detached_children
                  THEN thr'[u].parent = None /\ ~thr'[u].i_am_detached
                  ELSE thr'[u].parent = S[u].parent /\ thr'[u].i_am_detached = S[u].i_am_detached
               /\ thr'[u].detached_children = S[u].detached_children
               /\ u # p => /\ thr'[u].children = S[u].children
                           /\ thr'[u].task_func_children = S[u].task_func_children
    BY <1>14 DEF JoinedIn
  <2>3. /\ thr'[p].children = S[p].children \ {t}
        /\ thr'[p].task_func_children = S[p].task_func_children \ {t}
    BY <1>14 DEF JoinedIn
  <2>4. ASSUME NEW u \in Threads \ {t}, u # p
        PROVE  /\ Alike(thr'[u], thr[u]) /\ thr'[u].children = thr[u].children
               /\ thr'[u].detached_children = thr[u].detached_children
               /\ thr'[u].task_func_children = thr[u].task_func_children
               /\ u \in thr[t].detached_children => thr'[u].parent = None /\ ~thr'[u].i_am_detached
               /\ u \notin thr[t].detached_children =>
                     thr'[u].parent = thr[u].parent /\ thr'[u].i_am_detached = thr[u].i_am_detached
    <3>1. S[u] = thr[u]
      BY <1>13, <2>4
    <3> QED BY <2>2, <2>4, <3>1
  <2>5. /\ thr'[p].status = thr[p].status /\ thr'[p].scope = thr[p].scope
        /\ thr'[p].in_scope = thr[p].in_scope /\ thr'[p].i_have_ended = thr[p].i_have_ended
        /\ thr'[p].waiting_for_event = thr[p].waiting_for_event /\ thr'[p].is_scheduled
        /\ thr'[p].parent = thr[p].parent /\ thr'[p].i_am_detached = thr[p].i_am_detached
        /\ thr'[p].children = thr[p].children \ {t}
        /\ thr'[p].detached_children = thr[p].detached_children \ {t}
        /\ thr'[p].task_func_children = thr[p].task_func_children \ {t}
    BY <1>7, <1>12, <1>13, <2>2, <2>3 DEF Alike
  <2> QED BY <1>6, <1>7, <2>1, <2>4, <2>5, SMTT(30) DEF Alike, Reaps
<1>16. thr'[p].is_scheduled
  BY <1>7, <1>12, <1>13, <1>14 DEF JoinedIn, Alike
<1>17. Counted' /\ thr' \in [Threads -> ThreadType]
  <2>1. \A u \in Threads : thr'[u].code = thr[u].code /\ thr'[u].joined = thr[u].joined
    BY <1>12, <1>13, <1>14 DEF JoinedIn, Alike
  <2> QED BY <1>2, <1>14, <2>1 DEF Counted, JoinedIn
<1>18. Departed' /\ Family' /\ Rooted' /\ Ended' /\ TaskChildren'
  <2>1. Kept(t)
    BY <1>1, <1>8 DEF Kept
  <2> QED BY <1>1, <1>2, <1>7, <1>15, <2>1, ReapsKeep
<1>19. Disabled'
  BY <1>0, <1>1, <1>3, <1>4, <1>7, <1>15, BackInLoop
<1>20. Referred'
  <2>1. /\ Born \subseteq Born' /\ active \in Seq(Seq(Born')) /\ rest \in Seq(Born')
        /\ sleeping \subseteq Born' /\ waiters \in [Events -> Seq(Born')]
        /\ running \in Born' \cup {None}
    BY <1>2, <1>15, BornGrows DEF Reaps
  <2>2. p \in Born'
    BY <1>7, <2>1 DEF Born, Live
  <2>3. active' \in Seq(Seq(Born'))
    BY <1>10, <2>1, <2>2, PushType
  <2> QED BY <1>0, <2>1, <2>3 DEF Referred
<1>21. Woken'
  <2> SUFFICES ASSUME NEW w \in Threads, Live(w)', ~thr'[w].i_have_ended, w # running'
               PROVE  WillResume(w)'
    BY DEF Woken
  <2>1. w # t /\ Live(w) /\ ~thr[w].i_have_ended /\ w # running
    BY <1>0, <1>15 DEF Reaps, Live
  <2>2. CASE w = p
    BY <1>16, <2>2 DEF WillResume
  <2>3. CASE w # p
    <3>1. thr[dis.stack[1]].parent # w /\ w # thr[t].parent
      BY <1>0, <1>3, <1>5, <1>6, <2>3, AtTop
    <3>2. WillResume(w)
      BY <1>2, <2>1, <3>1 DEF Woken
    <3> QED BY <1>1, <1>2, <1>15, <2>1, <3>1, <3>2, ReapsWoken
  <2> QED BY <2>2, <2>3
<1> QED BY <1>4, <1>15, <1>17, <1>18, <1>19, <1>20, <1>21, SettleOn

\* The caller of do_disable reaps the thread.
LEMMA KinDisableReap ==
  ASSUME Sound, ThreadAssumption, DisableReap, aborted' = FALSE
  PROVE  Sound'
<1>0. /\ dis.on /\ dis.ret # None /\ ~aborted /\ thr' = Reap(thr, dis.ret)
      /\ dis' = [dis EXCEPT !.ret = None]
      /\ UNCHANGED <<active, sleeping, waiters, running, rest>>
  BY DEF DisableReap
<1>1. /\ TypeOK /\ Counted /\ KinInv /\ Departed /\ Family /\ Rooted /\ Ended /\ TaskChildren
      /\ Referred /\ Disabled /\ Woken
      /\ thr \in [Threads -> ThreadType] /\ dis \in DisableType
      /\ running \in Threads /\ running # None /\ dis.stack \in Seq(Threads)
      /\ dis.fork => Live(running)
  BY <1>0, AtDisable
<1>2. PICK t \in Threads : t = dis.ret
  BY <1>0, <1>1 DEF DisableType
<1>3. /\ Live(t) /\ thr[t].i_have_ended /\ thr[t].children = {}
      /\ dis.stack = <<>> => /\ dis.fork /\ thr[t].parent = running /\ thr[t].i_am_detached
      /\ dis.stack # <<>> => /\ thr[t].parent = Top /\ ~thr[t].i_am_detached
                             /\ ~thr[Top].i_am_joining
  BY <1>0, <1>1, <1>2 DEF Disabled
<1>4. \A i \in DOMAIN dis.stack :
        /\ dis.stack[i] \in Threads /\ dis.stack[i] # t
        /\ Live(dis.stack[i]) /\ thr[dis.stack[i]].i_have_ended
        /\ i > 1 => /\ thr[dis.stack[i]].parent = dis.stack[i - 1]
                    /\ ~thr[dis.stack[i]].i_am_detached
                    /\ ~thr[dis.stack[i - 1]].i_am_joining
        /\ i = 1 /\ dis.fork => /\ thr[dis.stack[i]].parent = running
                                /\ thr[dis.stack[i]].i_am_detached
        /\ i = 1 /\ ~dis.fork => ~thr[dis.stack[i]].i_am_detached
        /\ \A j \in DOMAIN dis.stack : i # j => dis.stack[i] # dis.stack[j]
        /\ dis.fork => dis.stack[i] # running
  BY <1>1, <1>2 DEF Disabled
<1>5. dis.stack # <<>> => Top \in Threads /\ thr[Top].i_have_ended
  <2>1. dis.stack # <<>> => Len(dis.stack) \in DOMAIN dis.stack
    BY <1>1
  <2> QED BY <1>4, <2>1 DEF Top
<1>6. Reaps(t) /\ ReapedIn(thr, t, thr') /\ Counted' /\ thr' \in [Threads -> ThreadType]
  BY <1>0, <1>2, <1>3, <1>5, ReapIsReaps
<1>7. /\ dis'.on = dis.on /\ dis'.fork = dis.fork /\ dis'.scope = dis.scope /\ dis'.stack = dis.stack
      /\ dis'.ret = None /\ dis'.self = dis.self /\ dis' \in DisableType
  BY <1>0, <1>1 DEF DisableType
<1>8. Departed' /\ Family' /\ Rooted' /\ Ended' /\ TaskChildren'
  <2>1. Kept(t)
    BY <1>2, <1>7 DEF Kept, Stacked
  <2> QED BY <1>0, <1>1, <1>3, <1>6, <2>1, ReapsKeep
<1>9. /\ dis.self <=> thr[running].i_have_ended
      /\ dis.fork => ~thr[running].i_have_ended /\ ~thr[running].i_am_joining
      /\ ~dis.fork => \A w \in InScope(thr, dis.scope) : ~thr[w].i_am_detached
  BY <1>0, <1>1 DEF Disabled
<1>10. ASSUME NEW w \in Threads \ {t}
       PROVE  /\ thr'[w].status = thr[w].status /\ thr'[w].scope = thr[w].scope
              /\ thr'[w].in_scope = thr[w].in_scope /\ thr'[w].i_have_ended = thr[w].i_have_ended
              /\ thr'[w].i_am_joining = thr[w].i_am_joining
              /\ thr'[w].task_func_children = thr[w].task_func_children
              /\ w \notin thr[t].detached_children =>
                   thr'[w].parent = thr[w].parent /\ thr'[w].i_am_detached = thr[w].i_am_detached
              /\ w \in thr[t].detached_children => ~thr'[w].i_am_detached /\ thr[w].parent = t
                                                   /\ thr[w].i_am_detached
  <2>1. /\ Alike(thr'[w], thr[w]) /\ thr'[w].task_func_children = thr[w].task_func_children
        /\ IF w \in thr[t].detached_children
           THEN thr'[w].parent = None /\ ~thr'[w].i_am_detached
           ELSE thr'[w].parent = thr[w].parent /\ thr'[w].i_am_detached = thr[w].i_am_detached
    BY <1>6 DEF ReapedIn
  <2>2. w \in thr[t].detached_children => thr[w].parent = t /\ thr[w].i_am_detached
    BY <1>0, <1>1, <1>3 DEF Family
  <2> QED BY <2>1, <2>2 DEF Alike
<1>11. dis.fork => running # t
  BY <1>3, <1>9
<1>12. \A i \in DOMAIN dis.stack : dis.stack[i] \notin thr[t].detached_children
  <2> SUFFICES ASSUME NEW i \in DOMAIN dis.stack, dis.stack[i] \in thr[t].detached_children
               PROVE  FALSE
    OBVIOUS
  <2>1. thr[dis.stack[i]].parent = t /\ thr[dis.stack[i]].i_am_detached
    BY <1>4, <1>10
  <2>2. i \in Nat /\ i > 0
    BY <1>1
  <2>3. CASE i = 1
    BY <1>4, <1>11, <2>1, <2>3
  <2>4. CASE i > 1
    BY <1>4, <2>1, <2>4
  <2> QED BY <2>2, <2>3, <2>4, OneOrMore
<1>13. Disabled'
  <2>1. running' # None /\ (dis'.self <=> thr'[running'].i_have_ended)
    BY <1>0, <1>1, <1>3, <1>6, <1>7, <1>9, <1>10 DEF Reaps
  <2>2. dis'.fork => ~thr'[running'].i_have_ended /\ ~thr'[running'].i_am_joining
    BY <1>0, <1>1, <1>7, <1>9, <1>10, <1>11
  <2>3. ~dis'.fork => \A w \in InScope(thr, dis.scope)' : ~thr'[w].i_am_detached
    <3> SUFFICES ASSUME ~dis'.fork, NEW w \in Threads, thr'[w].in_scope, thr'[w].scope = dis'.scope
                 PROVE  ~thr'[w].i_am_detached
      BY DEF InScope
    <3>1. w # t
      BY <1>6 DEF Reaps
    <3>2. w \in InScope(thr, dis.scope)
      BY <1>7, <1>10, <3>1 DEF InScope
    <3> QED BY <1>7, <1>9, <1>10, <3>1, <3>2
  <2>4. ASSUME NEW i \in DOMAIN dis'.stack
        PROVE  /\ thr'[dis'.stack[i]].status = "live" /\ thr'[dis'.stack[i]].i_have_ended
               /\ i > 1 => /\ thr'[dis'.stack[i]].parent = dis'.stack[i - 1]
                           /\ ~thr'[dis'.stack[i]].i_am_detached
                           /\ ~thr'[dis'.stack[i - 1]].i_am_joining
               /\ i = 1 /\ dis'.fork => /\ thr'[dis'.stack[i]].parent = running'
                                        /\ thr'[dis'.stack[i]].i_am_detached
               /\ i = 1 /\ ~dis'.fork => ~thr'[dis'.stack[i]].i_am_detached
               /\ \A j \in DOMAIN dis'.stack : i # j => dis'.stack[i] # dis'.stack[j]
               /\ dis'.fork => dis'.stack[i] # running'
               /\ dis'.stack[i] # dis'.ret
    <3>1. i \in DOMAIN dis.stack /\ dis.stack[i] \in Threads \ {t} /\ dis.stack[i] \notin thr[t].detached_children
      BY <1>4, <1>7, <1>12
    <3>2. i > 1 => dis.stack[i - 1] \in Threads \ {t}
      <4>1. i > 1 => i - 1 \in DOMAIN dis.stack
        BY <1>1, <3>1
      <4> QED BY <1>4, <4>1
    <3> QED BY <1>0, <1>4, <1>7, <1>10, <3>1, <3>2 DEF Live, ThreadAssumption
  <2> QED BY <1>0, <1>7, <2>1, <2>2, <2>3, <2>4 DEF Disabled, Live
<1>14. Referred'
  BY <1>0, <1>1, <1>6, BornGrows DEF Referred, Reaps
<1>15. Woken'
  <2> SUFFICES ASSUME NEW w \in Threads, Live(w)', ~thr'[w].i_have_ended, w # running'
               PROVE  \/ WillResume(w)'
                      \/ /\ dis'.stack # <<>> /\ ~dis'.fork
                         /\ thr'[dis'.stack[1]].parent = w
                         /\ thr'[w].i_am_joining
                         /\ \/ thr'[w].task_func_children = {}
                            \/ dis'.stack[1] \in thr'[w].task_func_children
    BY DEF Woken, Joinable
  <2>1. w # t /\ Live(w) /\ ~thr[w].i_have_ended /\ w # running
    BY <1>0, <1>6 DEF Reaps, Live
  <2>2. w # thr[t].parent
    BY <1>3, <1>5, <2>1
  <2>3. CASE WillResume(w)
    BY <1>0, <1>1, <1>6, <2>1, <2>2, <2>3, ReapsWoken
  <2>4. CASE ~WillResume(w)
    <3>1. /\ dis.stack # <<>> /\ ~dis.fork /\ thr[dis.stack[1]].parent = w /\ thr[w].i_am_joining
          /\ Joinable(thr, w, dis.stack[1])
      BY <1>1, <2>1, <2>4 DEF Woken
    <3>2. 1 \in DOMAIN dis.stack
      BY <1>1, <3>1
    <3>3. dis.stack[1] \in Threads \ {t} /\ dis.stack[1] \notin thr[t].detached_children
      BY <1>4, <1>12, <3>2
    <3> QED BY <1>7, <1>10, <2>1, <3>1, <3>3 DEF Joinable
  <2> QED BY <2>3, <2>4
<1> QED BY <1>6, <1>7, <1>8, <1>13, <1>14, <1>15, SettleOn
-----------------------------------------------------------------------------
(* The invariant, and what follows from it.                                *)

\* Between an Init and the first %fork no thread has a parent.
LEMMA SoundInit ==
  ASSUME ThreadAssumption, ForkAssumption, Init
  PROVE  IInv
<1> DEFINE first == [NewThread(Module) EXCEPT !.is_scheduled = TRUE]
<1>1. NewThread(Module) \in ThreadType
  <2>1. NoCode \in CodeType
    BY DEF NoCode, CodeType, Scopes, ForkAssumption
  <2> QED BY <2>1 DEF NewThread, ThreadType, Scopes, ForkAssumption
<1>2. /\ first \in ThreadType /\ first.status = "live" /\ first.is_scheduled
      /\ first.parent = None /\ first.children = {} /\ first.detached_children = {}
      /\ first.task_func_children = {} /\ ~first.i_am_detached /\ ~first.i_have_ended
      /\ first.joined = 0 /\ first.code.joins = 0
  <2>1. first \in ThreadType /\ first.status = "live" /\ first.is_scheduled
    BY <1>1 DEF ThreadType, NewThread
  <2> QED BY <2>1 DEF NewThread, NoCode
<1>3. /\ Unborn \in ThreadType /\ Unborn.status = "unborn" /\ ~Unborn.in_scope
      /\ Unborn.parent = None /\ Unborn.children = {} /\ Unborn.detached_children = {}
      /\ Unborn.task_func_children = {} /\ ~Unborn.i_am_detached /\ ~Unborn.i_have_ended
      /\ Unborn.joined = 0 /\ Unborn.code.joins = 0
  <2>1. Unborn \in ThreadType /\ Unborn.status = "unborn"
    BY <1>1 DEF ThreadType, NewThread, Unborn
  <2> QED BY <2>1 DEF NewThread, NoCode, Unborn
<1>4. \A t \in Threads : thr[t] = IF t \in Initial THEN first ELSE Unborn
  BY DEF Init
<1> HIDE DEF first
<1>5. thr \in [Threads -> ThreadType]
  <2>1. \A t \in Threads : thr[t] \in ThreadType
    BY <1>2, <1>3, <1>4
  <2>2. thr = [t \in Threads |-> IF t \in Initial THEN first ELSE Unborn]
    BY DEF Init, first
  <2> QED BY <2>1, <2>2
<1>6. Initial \subseteq Born /\ Born \subseteq Threads
  BY <1>2, <1>4 DEF Born, ThreadAssumption
<1>7. active \in Seq(Seq(Initial))
  BY OrdersType, FS_Subset DEF Init, ThreadAssumption
<1>8. active \in Seq(Seq(Born)) /\ active \in Seq(Seq(Threads))
  <2>1. Seq(Initial) \subseteq Seq(Born) /\ Seq(Born) \subseteq Seq(Threads)
    BY <1>6, SeqMono
  <2>2. Seq(Seq(Initial)) \subseteq Seq(Seq(Born)) /\ Seq(Seq(Born)) \subseteq Seq(Seq(Threads))
    BY <2>1, SeqMono
  <2> QED BY <1>7, <2>2
<1>9. dis = NoDisable /\ dis.on = FALSE /\ dis.stack = <<>> /\ dis.ret = None
  BY DEF Init, NoDisable
<1>10. TypeOK
  <2>1. dis \in [on : BOOLEAN, fork : BOOLEAN, scope : Scopes,
                 stack : Seq(Threads), ret : Threads \cup {None}, self : BOOLEAN]
    BY DEF Init, NoDisable, Scopes
  <2>2. sleeping = {} /\ waiters = [e \in Events |-> <<>>] /\ running = None /\ rest = <<>>
        /\ aborted = FALSE
    BY DEF Init
  <2>3. waiters \in [Events -> Seq(Threads)] /\ rest \in Seq(Threads)
    BY <2>2
  <2> QED BY <1>5, <1>8, <2>1, <2>2, <2>3 DEF TypeOK
<1>11. Counted
  BY <1>2, <1>3, <1>4 DEF Counted, ForkAssumption
<1>12. Departed
  BY <1>2, <1>3, <1>4 DEF Departed, Live
<1>13. Family
  BY <1>2, <1>3, <1>4 DEF Family, Live
<1>14. Referred
  BY <1>8 DEF Referred, Init
<1>15. Rooted
  BY <1>2, <1>3, <1>4 DEF Rooted, ThreadAssumption
<1>16. Ended /\ TaskChildren
  BY <1>2, <1>3, <1>4 DEF Ended, TaskChildren
<1>17. Disabled
  BY <1>9 DEF Disabled, Init
<1>18. Woken
  BY <1>2, <1>3, <1>4 DEF Woken, WillResume, Live
<1> QED BY <1>10, <1>11, <1>12, <1>13, <1>14, <1>15, <1>16, <1>17, <1>18
        DEF IInv, Sound, KinInv, TypeOK

\* An opcode of a thread keeps the invariant, unless one of its assertions fails.
LEMMA SoundOpcode ==
  ASSUME Sound, ThreadAssumption, ScopeAssumption, ForkAssumption,
         "disable_detached" \notin Features, NEW t \in Threads, Opcode(t), aborted' = FALSE
  PROVE  Sound'
<1>1. CASE \E s \in Scopes, n \in 1..MaxFork, j \in 0..MaxFork : BeginFork(t, s, n, j)
  BY <1>1, QuietBeginFork
<1>2. CASE Fork(t) \/ JoinZombie(t) \/ JoinWait(t) \/ JoinDetach(t)
  BY <1>2, KinFork, KinJoinZombie, QuietJoinWait, KinJoinDetach
<1>3. CASE EndJoined(t) \/ EndZombie(t) \/ EndDetached(t) \/ EndAlone(t)
  BY <1>3, KinEndJoined, KinEndZombie, KinEndDetached, KinEndAlone
<1>4. CASE Delay(t) \/ Yield(t) \/ WaitFork(t)
  BY <1>4, QuietDelay, QuietYield, QuietWaitFork
<1>5. CASE \E e \in Events : Wait(t, e) \/ Trigger(t, e)
  BY <1>5, QuietWait, QuietTrigger
<1>6. CASE (\E s \in Scopes : Disable(t, s)) \/ DisableFork(t)
  BY <1>6, QuietDisable, QuietDisableFork
<1> QED BY <1>1, <1>2, <1>3, <1>4, <1>5, <1>6 DEF Opcode

\* So does every step.
LEMMA SoundNext ==
  ASSUME Sound, ThreadAssumption, ScopeAssumption, ForkAssumption,
         "disable_detached" \notin Features, Next, aborted' = FALSE
  PROVE  Sound'
<1>1. CASE Dispatch \/ Resume \/ Zombie \/ Elapse
  BY <1>1, QuietDispatch, QuietResume, QuietZombie, QuietElapse
<1>2. CASE \E t \in Threads : Opcode(t)
  BY <1>2, SoundOpcode
<1>3. CASE Disabling
  BY <1>3, KinDisableNext, KinDisableChild, KinDisableReap, KinDisableWake, KinDisableLeave,
     KinDisableAlone, KinDisableDone DEF Disabling
<1> QED BY <1>1, <1>2, <1>3 DEF Next

\* aborted is a truth value: the assertions are.
LEMMA AbortedType ==
  ASSUME IInv, Next
  PROVE  ~aborted /\ aborted' \in BOOLEAN
<1>1. CASE Dispatch \/ Resume \/ Zombie \/ Elapse
  BY <1>1 DEF Dispatch, Resume, Zombie, Elapse, Idle, IInv
<1>2. ASSUME NEW t \in Threads, Opcode(t)
      PROVE  ~aborted /\ aborted' \in BOOLEAN
  <2>1. ~aborted
    <3>1. CASE \E s \in Scopes, n \in 1..MaxFork, j \in 0..MaxFork : BeginFork(t, s, n, j)
      BY <3>1 DEF BeginFork, AtStatement, Runs
    <3>2. CASE Fork(t) \/ JoinZombie(t) \/ JoinWait(t) \/ JoinDetach(t)
      BY <3>2, Zenon DEF Fork, JoinZombie, JoinWait, JoinDetach, Runs
    <3>3. CASE EndJoined(t) \/ EndZombie(t) \/ EndDetached(t) \/ EndAlone(t)
      BY <3>3, Zenon DEF EndJoined, EndZombie, EndDetached, EndAlone, AtStatement, Runs
    <3>4. CASE Delay(t) \/ Yield(t) \/ WaitFork(t)
      BY <3>4 DEF Delay, Yield, WaitFork, AtStatement, Runs
    <3>5. CASE \E e \in Events : Wait(t, e) \/ Trigger(t, e)
      BY <3>5 DEF Wait, Trigger, AtStatement, Runs
    <3>6. CASE (\E s \in Scopes : Disable(t, s)) \/ DisableFork(t)
      BY <3>6 DEF Disable, DisableFork, AtStatement, Runs
    <3> QED BY <1>2, <3>1, <3>2, <3>3, <3>4, <3>5, <3>6 DEF Opcode
  <2>2. thr[t] \in ThreadType
    BY <2>1 DEF IInv, Sound, TypeOK
  <2>3. thr[t].is_scheduled \in BOOLEAN /\ thr[t].waiting_for_event \in BOOLEAN
    BY <2>2 DEF ThreadType
  <2>4. CASE \E s \in Scopes, n \in 1..MaxFork, j \in 0..MaxFork : BeginFork(t, s, n, j)
    BY <2>1, <2>4 DEF BeginFork, IInv
  <2>5. CASE Fork(t) \/ JoinZombie(t) \/ JoinWait(t) \/ JoinDetach(t)
    BY <2>1, <2>5, Zenon DEF Fork, JoinZombie, JoinWait, JoinDetach, IInv
  <2>6. CASE EndJoined(t) \/ EndZombie(t) \/ EndDetached(t) \/ EndAlone(t)
    BY <2>1, <2>6, Zenon DEF EndJoined, EndZombie, EndDetached, EndAlone
  <2>7. CASE Delay(t) \/ Yield(t) \/ WaitFork(t)
    BY <2>1, <2>3, <2>7 DEF Delay, Yield, WaitFork
  <2>8. CASE \E e \in Events : Wait(t, e) \/ Trigger(t, e)
    BY <2>1, <2>3, <2>8 DEF Wait, Trigger
  <2>9. CASE (\E s \in Scopes : Disable(t, s)) \/ DisableFork(t)
    BY <2>1, <2>9 DEF Disable, DisableFork, IInv
  <2> QED BY <1>2, <2>4, <2>5, <2>6, <2>7, <2>8, <2>9 DEF Opcode
<1>3. CASE Disabling
  BY <1>3 DEF Disabling, DisableNext, DisableChild, DisableReap, DisableWake, DisableLeave,
     DisableAlone, DisableDone, Activation, IInv
<1> QED BY <1>1, <1>2, <1>3 DEF Next


\* IInv is an invariant of every program that disables no scope of a detached
\* thread, with any number of threads, scopes, events and branches: until an
\* assertion fails, the thread objects are well formed, the families of threads
\* are forests on which parents and children agree, what do_disable is at work
\* on is a path in them, and everyone who sleeps will be woken up.
THEOREM ThreadInvariant == "disable_detached" \notin Features => (Spec => []IInv)
<1> SUFFICES ASSUME "disable_detached" \notin Features PROVE Spec => []IInv
  OBVIOUS
<1> USE ThreadAssumption, ScopeAssumption, ForkAssumption
<1>1. Init => IInv
  BY SoundInit
<1>2. IInv /\ [Next]_vars => IInv'
  <2> SUFFICES ASSUME IInv, [Next]_vars PROVE IInv'
    OBVIOUS
  <2>1. CASE Next
    <3>1. ~aborted /\ Sound /\ aborted' \in BOOLEAN
      BY <2>1, AbortedType DEF IInv
    <3>2. CASE aborted' = FALSE
      BY <2>1, <3>1, <3>2, SoundNext DEF IInv
    <3> QED BY <3>1, <3>2 DEF IInv
  <2>2. CASE UNCHANGED vars
    <3>1. TypeOK' = TypeOK /\ Counted' = Counted /\ aborted' = aborted
      BY <2>2 DEF vars, TypeOK, Counted
    <3>2. Departed' = Departed /\ Family' = Family /\ Rooted' = Rooted
      BY <2>2 DEF vars, Departed, Family, Rooted, Live, Siblings
    <3>3. Referred' = Referred /\ TaskChildren' = TaskChildren /\ Ended' = Ended
      BY <2>2 DEF vars, Referred, Born, TaskChildren, Ended, Live, Stacked
    <3>4. Disabled' = Disabled
      BY <2>2 DEF vars, Disabled, Live, InScope, Top
    <3>5. Woken' = Woken
      BY <2>2 DEF vars, Woken, Live, WillResume, Joinable
    <3> QED BY <3>1, <3>2, <3>3, <3>4, <3>5 DEF IInv, Sound, KinInv
  <2> QED BY <2>1, <2>2
<1> QED BY <1>1, <1>2, PTL DEF Spec

\* The family tree is consistent, in every such program: a thread and its parent
\* agree through every fork, join, end and disable.
THEOREM FamiliesAgree == "disable_detached" \notin Features => (Spec => []Family)
<1>1. IInv => Family
  BY DEF IInv, Sound, KinInv, Family
<1> QED BY <1>1, ThreadInvariant, PTL

\* No wake-up is lost, in every such program: between two opcodes every thread
\* that has not ended and is not running is going to be resumed.
THEOREM NoWakeupIsLost == "disable_detached" \notin Features => (Spec => []NoLostWakeup)
<1>1. IInv => NoLostWakeup
  <2> SUFFICES ASSUME IInv, ~dis.on, ~aborted PROVE NoLostWakeup
    BY DEF NoLostWakeup
  <2>1. Woken /\ dis = NoDisable
    BY DEF IInv, Sound, KinInv, Disabled
  <2>2. dis.stack = <<>>
    BY <2>1 DEF NoDisable
  <2> QED BY <2>1, <2>2 DEF NoLostWakeup, Woken
<1> QED BY <1>1, ThreadInvariant, PTL

\* No thread object is leaked, in every such program: what has ended is left to
\* a parent that has not, or is going to pass through of_ZOMBIE.
THEOREM NothingLeaks == "disable_detached" \notin Features => (Spec => []NoLeak)
<1>1. IInv => NoLeak
  <2> SUFFICES ASSUME IInv, ~dis.on, ~aborted, NEW t \in Threads
               PROVE  /\ Live(t) /\ thr[t].i_have_ended =>
                           /\ thr[t].parent # None /\ ~thr[thr[t].parent].i_have_ended
                           /\ t \in thr[thr[t].parent].children
                      /\ thr[t].status = "reaped" =>
                           thr[t].is_scheduled \/ thr[t].waiting_for_event
    BY DEF NoLeak
  <2>1. Departed /\ Family /\ Ended /\ dis = NoDisable /\ TypeOK
    BY DEF IInv, Sound, KinInv, Disabled
  <2>2. dis.stack = <<>> /\ dis.ret = None
    BY <2>1 DEF NoDisable
  <2>3. \A u \in Threads : ~Stacked(u) /\ u # dis.ret
    BY <2>2, ThreadAssumption DEF Stacked, ThreadAssumption
  <2>4. ASSUME Live(t), thr[t].i_have_ended
        PROVE  /\ thr[t].parent # None /\ ~thr[thr[t].parent].i_have_ended
               /\ t \in thr[thr[t].parent].children
    <3>1. thr[t].parent # None /\ ~thr[t].i_am_detached
      BY <2>1, <2>3, <2>4 DEF Ended
    <3>2. thr[t].parent \in Threads
      <4>1. thr[t] \in ThreadType
        BY <2>1 DEF TypeOK
      <4> QED BY <4>1, <3>1 DEF ThreadType
    <3>3. t \in thr[thr[t].parent].children
      BY <2>1, <2>4, <3>1 DEF Family, Siblings
    <3>4. ~thr[thr[t].parent].i_have_ended
      BY <2>1, <2>3, <3>2, <3>3 DEF Ended
    <3> QED BY <3>1, <3>3, <3>4
  <2> QED BY <2>1, <2>4 DEF Departed
<1> QED BY <1>1, ThreadInvariant, PTL

-----------------------------------------------------------------------------
(* Lists of threads.                                                       *)

\* The two definitions, for given places.
LEMMA OnceAt ==
  ASSUME NEW A, Once(A), NEW i \in DOMAIN A, NEW k \in DOMAIN A,
         NEW j \in DOMAIN A[i], NEW l \in DOMAIN A[k], A[i][j] = A[k][l]
  PROVE  i = k /\ j = l
  BY DEF Once

LEMMA HoldsAt ==
  ASSUME NEW A, NEW i \in DOMAIN A, NEW j \in DOMAIN A[i], NEW u, A[i][j] = u
  PROVE  Holds(A, u)
  BY DEF Holds

\* A single list.
LEMMA OneList ==
  ASSUME NEW s
  PROVE  /\ \A u : Holds(<<s>>, u) <=> \E j \in DOMAIN s : s[j] = u
         /\ Once(<<s>>) <=> \A j, l \in DOMAIN s : s[j] = s[l] => j = l
<1>1. DOMAIN <<s>> = {1} /\ <<s>>[1] = s
  OBVIOUS
<1> HIDE <1>1
<1>2. \A u : Holds(<<s>>, u) <=> \E j \in DOMAIN s : s[j] = u
  BY <1>1 DEF Holds
<1>3. Once(<<s>>) <=> \A j, l \in DOMAIN s : s[j] = s[l] => j = l
  BY <1>1 DEF Once
<1> QED BY <1>2, <1>3

\* No list at all, or an empty one.
LEMMA NoList ==
  /\ Once(<<>>) /\ \A u : ~Holds(<<>>, u)
  /\ Once(<<<<>>>>) /\ \A u : ~Holds(<<<<>>>>, u)
<1>1. DOMAIN <<>> = {}
  OBVIOUS
<1>2. Once(<<>>) /\ \A u : ~Holds(<<>>, u)
  BY <1>1 DEF Once, Holds
<1> QED BY <1>1, <1>2, OneList

\* schedule_vthread pushes a thread in front of the active region.
LEMMA PushHolds ==
  ASSUME NEW S, NEW A \in Seq(Seq(S)), NEW t \in S, Once(A), ~Holds(A, t),
         NEW B, B = <<<<t>>>> \o A
  PROVE  Once(B) /\ \A u : Holds(B, u) <=> u = t \/ Holds(A, u)
<1>1. /\ Len(A) \in Nat /\ DOMAIN A = 1..Len(A) /\ DOMAIN B = 1..(Len(A) + 1) /\ B[1] = <<t>>
      /\ \A i \in 2..(Len(A) + 1) : B[i] = A[i - 1] /\ i - 1 \in DOMAIN A
  OBVIOUS
<1>2. \A i \in DOMAIN A : i + 1 \in DOMAIN B /\ B[i + 1] = A[i]
  BY <1>1
<1>3. DOMAIN <<t>> = {1} /\ <<t>>[1] = t
  OBVIOUS
<1>4. ASSUME NEW i \in DOMAIN B, NEW k \in DOMAIN B, NEW j \in DOMAIN B[i], NEW l \in DOMAIN B[k],
             B[i][j] = B[k][l]
      PROVE  i = k /\ j = l
  <2>1. CASE i = 1 /\ k = 1
    BY <1>1, <1>3, <1>4, <2>1
  <2>2. CASE i = 1 /\ k # 1
    <3>1. k \in 2..(Len(A) + 1)
      BY <1>1, <2>2
    <3> QED BY <1>1, <1>3, <1>4, <2>2, <3>1 DEF Holds
  <2>3. CASE i # 1 /\ k = 1
    <3>1. i \in 2..(Len(A) + 1)
      BY <1>1, <2>3
    <3> QED BY <1>1, <1>3, <1>4, <2>3, <3>1 DEF Holds
  <2>4. CASE i # 1 /\ k # 1
    <3>1. i \in 2..(Len(A) + 1) /\ k \in 2..(Len(A) + 1)
      BY <1>1, <2>4
    <3>2. /\ i - 1 \in DOMAIN A /\ k - 1 \in DOMAIN A
          /\ j \in DOMAIN A[i - 1] /\ l \in DOMAIN A[k - 1] /\ A[i - 1][j] = A[k - 1][l]
      BY <1>1, <1>4, <3>1
    <3>3. i - 1 = k - 1 /\ j = l
      BY ONLY <3>2, Once(A), OnceAt
    <3> QED BY <3>1, <3>3
  <2> QED BY <2>1, <2>2, <2>3, <2>4
<1>5. ASSUME NEW u, Holds(B, u)
      PROVE  u = t \/ Holds(A, u)
  <2>1. PICK i \in DOMAIN B : \E j \in DOMAIN B[i] : B[i][j] = u
    BY <1>5 DEF Holds
  <2>2. CASE i = 1
    BY <1>1, <1>3, <2>1, <2>2
  <2>3. CASE i # 1
    <3>1. i \in 2..(Len(A) + 1)
      BY <1>1, <2>3
    <3> QED BY <1>1, <2>1, <3>1 DEF Holds
  <2> QED BY <2>2, <2>3
<1>6. ASSUME NEW u, u = t \/ Holds(A, u)
      PROVE  Holds(B, u)
  <2>1. 1 \in DOMAIN B
    BY <1>1
  <2>2. Holds(B, t)
    BY <1>1, <1>3, <2>1 DEF Holds
  <2>3. ASSUME Holds(A, u) PROVE Holds(B, u)
    <3>1. PICK i \in DOMAIN A : \E j \in DOMAIN A[i] : A[i][j] = u
      BY <2>3 DEF Holds
    <3>2. i + 1 \in DOMAIN B /\ \E j \in DOMAIN B[i + 1] : B[i + 1][j] = u
      BY <1>2, <3>1
    <3> QED BY <3>2 DEF Holds
  <2> QED BY <1>6, <2>2, <2>3
<1> QED BY <1>4, <1>5, <1>6 DEF Once

\* schedule_vthread and vthread_schedule_list append a list to it.
LEMMA AppendHolds ==
  ASSUME NEW S, NEW A \in Seq(Seq(S)), NEW s \in Seq(S), Once(A), Once(<<s>>),
         \A u : ~(Holds(A, u) /\ Holds(<<s>>, u)),
         NEW B, B = Append(A, s)
  PROVE  Once(B) /\ \A u : Holds(B, u) <=> Holds(A, u) \/ Holds(<<s>>, u)
<1> DEFINE n == Len(A) + 1
<1>1. /\ Len(A) \in Nat /\ DOMAIN A = 1..Len(A) /\ DOMAIN B = 1..(Len(A) + 1) /\ B[n] = s
      /\ \A i \in DOMAIN A : B[i] = A[i] /\ i \in DOMAIN B
  OBVIOUS
<1>2. n \in DOMAIN B /\ n \notin DOMAIN A /\ DOMAIN B = DOMAIN A \cup {n}
  BY <1>1
<1> HIDE DEF n
<1>3. /\ \A u : Holds(<<s>>, u) <=> \E j \in DOMAIN s : s[j] = u
      /\ \A j, l \in DOMAIN s : s[j] = s[l] => j = l
  BY OneList
<1>4. ASSUME NEW i \in DOMAIN B, NEW k \in DOMAIN B, NEW j \in DOMAIN B[i], NEW l \in DOMAIN B[k],
             B[i][j] = B[k][l]
      PROVE  i = k /\ j = l
  <2>1. CASE i = n /\ k = n
    BY <1>1, <1>3, <1>4, <2>1
  <2>2. CASE i = n /\ k \in DOMAIN A
    <3>1. Holds(<<s>>, B[i][j]) /\ Holds(A, B[k][l])
      BY <1>1, <1>3, <2>2 DEF Holds
    <3> QED BY <1>4, <3>1
  <2>3. CASE i \in DOMAIN A /\ k = n
    <3>1. Holds(A, B[i][j]) /\ Holds(<<s>>, B[k][l])
      BY <1>1, <1>3, <2>3 DEF Holds
    <3> QED BY <1>4, <3>1
  <2>4. CASE i \in DOMAIN A /\ k \in DOMAIN A
    BY <1>1, <1>4, <2>4 DEF Once
  <2> QED BY <1>2, <2>1, <2>2, <2>3, <2>4
<1>5. ASSUME NEW u
      PROVE  Holds(B, u) <=> Holds(A, u) \/ Holds(<<s>>, u)
  BY <1>1, <1>2, <1>3 DEF Holds
<1> QED BY <1>4, <1>5 DEF Once

\* The event queue hands over the first list.
LEMMA HeadHolds ==
  ASSUME NEW S, NEW A \in Seq(Seq(S)), A # <<>>, Once(A)
  PROVE  /\ Once(Tail(A)) /\ Once(<<Head(A)>>)
         /\ \A u : /\ Holds(A, u) <=> Holds(<<Head(A)>>, u) \/ Holds(Tail(A), u)
                   /\ ~(Holds(<<Head(A)>>, u) /\ Holds(Tail(A), u))
<1> DEFINE B == Tail(A)
<1>1. /\ Len(A) \in Nat /\ Len(A) > 0 /\ DOMAIN A = 1..Len(A) /\ 1 \in DOMAIN A /\ Head(A) = A[1]
      /\ DOMAIN B = 1..(Len(A) - 1) /\ \A i \in DOMAIN B : B[i] = A[i + 1] /\ i + 1 \in DOMAIN A
      /\ \A i \in DOMAIN A : i # 1 => i - 1 \in DOMAIN B /\ B[i - 1] = A[i]
  OBVIOUS
<1> HIDE DEF B
<1>2. /\ \A u : Holds(<<Head(A)>>, u) <=> \E j \in DOMAIN A[1] : A[1][j] = u
      /\ Once(<<Head(A)>>) <=> \A j, l \in DOMAIN A[1] : A[1][j] = A[1][l] => j = l
  BY <1>1, OneList
<1>3. Once(<<Head(A)>>)
  BY <1>1, <1>2 DEF Once
<1>4. Once(B)
  <2> SUFFICES ASSUME NEW i \in DOMAIN B, NEW k \in DOMAIN B, NEW j \in DOMAIN B[i],
                      NEW l \in DOMAIN B[k], B[i][j] = B[k][l]
               PROVE  i = k /\ j = l
    BY DEF Once
  <2>1. i + 1 = k + 1 /\ j = l
    BY <1>1 DEF Once
  <2>2. i \in Int /\ k \in Int
    BY <1>1
  <2> QED BY <2>1, <2>2
<1>5. ASSUME NEW u
      PROVE  Holds(A, u) <=> Holds(<<Head(A)>>, u) \/ Holds(B, u)
  <2>1. ASSUME Holds(A, u) PROVE Holds(<<Head(A)>>, u) \/ Holds(B, u)
    <3>1. PICK i \in DOMAIN A : \E j \in DOMAIN A[i] : A[i][j] = u
      BY <2>1 DEF Holds
    <3>2. CASE i = 1
      BY <1>2, <3>1, <3>2
    <3>3. CASE i # 1
      <4>1. i - 1 \in DOMAIN B /\ \E j \in DOMAIN B[i - 1] : B[i - 1][j] = u
        BY <1>1, <3>1, <3>3
      <4> QED BY <4>1 DEF Holds
    <3> QED BY <3>2, <3>3
  <2>2. ASSUME Holds(B, u) PROVE Holds(A, u)
    <3>1. PICK i \in DOMAIN B : \E j \in DOMAIN B[i] : B[i][j] = u
      BY <2>2 DEF Holds
    <3>2. i + 1 \in DOMAIN A /\ \E j \in DOMAIN A[i + 1] : A[i + 1][j] = u
      BY <1>1, <3>1
    <3> QED BY <3>2 DEF Holds
  <2>3. ASSUME Holds(<<Head(A)>>, u) PROVE Holds(A, u)
    BY <1>1, <1>2, <2>3 DEF Holds
  <2> QED BY <2>1, <2>2, <2>3
<1>6. ASSUME NEW u, Holds(<<Head(A)>>, u), Holds(B, u)
      PROVE  FALSE
  <2>1. PICK j \in DOMAIN A[1] : A[1][j] = u
    BY <1>2, <1>6
  <2>2. PICK i \in DOMAIN B : \E l \in DOMAIN B[i] : B[i][l] = u
    BY <1>6 DEF Holds
  <2>3. PICK l \in DOMAIN B[i] : B[i][l] = u
    BY <2>2
  <2>4. /\ 1 \in DOMAIN A /\ i + 1 \in DOMAIN A /\ l \in DOMAIN A[i + 1]
        /\ A[1][j] = A[i + 1][l]
    BY <1>1, <2>1, <2>3
  <2>5. i + 1 = 1
    BY ONLY <2>1, <2>4, Once(A), OnceAt
  <2>6. i \in Int /\ i > 0
    BY <1>1
  <2> QED BY <2>5, <2>6
<1> QED BY <1>3, <1>4, <1>5, <1>6 DEF B

\* vthread_run takes the first thread off its list.
LEMMA NextHolds ==
  ASSUME NEW S, NEW r \in Seq(S), r # <<>>, Once(<<r>>)
  PROVE  /\ Once(<<Tail(r)>>) /\ ~Holds(<<Tail(r)>>, Head(r))
         /\ \A u : Holds(<<r>>, u) <=> u = Head(r) \/ Holds(<<Tail(r)>>, u)
<1> DEFINE q == Tail(r)
<1>1. /\ Len(r) \in Nat /\ Len(r) > 0 /\ DOMAIN r = 1..Len(r) /\ 1 \in DOMAIN r /\ Head(r) = r[1]
      /\ DOMAIN q = 1..(Len(r) - 1) /\ \A i \in DOMAIN q : q[i] = r[i + 1] /\ i + 1 \in DOMAIN r
      /\ \A i \in DOMAIN r : i # 1 => i - 1 \in DOMAIN q /\ q[i - 1] = r[i]
  OBVIOUS
<1> HIDE DEF q
<1>2. /\ \A u : Holds(<<r>>, u) <=> \E j \in DOMAIN r : r[j] = u
      /\ \A j, l \in DOMAIN r : r[j] = r[l] => j = l
      /\ \A u : Holds(<<q>>, u) <=> \E j \in DOMAIN q : q[j] = u
      /\ Once(<<q>>) <=> \A j, l \in DOMAIN q : q[j] = q[l] => j = l
  BY OneList
<1>3. ASSUME NEW j \in DOMAIN q, NEW l \in DOMAIN q, q[j] = q[l]
      PROVE  j = l
  <2>1. j + 1 = l + 1 /\ j \in Int /\ l \in Int
    BY <1>1, <1>2, <1>3
  <2> QED BY <2>1
<1>4. ASSUME NEW j \in DOMAIN q, q[j] = Head(r)
      PROVE  FALSE
  <2>1. j + 1 = 1 /\ j > 0 /\ j \in Int
    BY <1>1, <1>2, <1>4
  <2> QED BY <2>1
<1>5. ASSUME NEW u
      PROVE  Holds(<<r>>, u) <=> u = Head(r) \/ Holds(<<q>>, u)
  <2>1. ASSUME NEW j \in DOMAIN r, r[j] = u, j # 1
        PROVE  Holds(<<q>>, u)
    <3>1. j - 1 \in DOMAIN q /\ q[j - 1] = u
      BY <1>1, <2>1
    <3> QED BY <1>2, <3>1
  <2>2. ASSUME NEW j \in DOMAIN q, q[j] = u
        PROVE  Holds(<<r>>, u)
    <3>1. j + 1 \in DOMAIN r /\ r[j + 1] = u
      BY <1>1, <2>2
    <3> QED BY <1>2, <3>1
  <2>3. Head(r) = r[1] /\ 1 \in DOMAIN r
    BY <1>1
  <2> QED BY <1>2, <2>1, <2>2, <2>3
<1> QED BY <1>2, <1>3, <1>4, <1>5 DEF q

\* Every thread of a set is once in every order of it.
LEMMA OrdersHolds ==
  ASSUME NEW S, IsFiniteSet(S), NEW A \in Orders(S)
  PROVE  Once(A) /\ \A u : Holds(A, u) <=> u \in S
<1> DEFINE n == Cardinality(S)
<1>1. n \in Nat
  BY FS_CardinalityType
<1>2. PICK f \in [1..n -> S] : /\ \A t \in S : \E i \in DOMAIN f : f[i] = t
                               /\ A = [i \in DOMAIN f |-> <<f[i]>>]
  BY DEF Orders
<1>3. DOMAIN f = 1..n /\ DOMAIN A = 1..n /\ \A i \in 1..n : A[i] = <<f[i]>>
  BY <1>2
<1>4. IsFiniteSet(1..n) /\ Cardinality(1..n) = n
  BY <1>1, FS_Interval
<1>5. f \in Surjection(1..n, S)
  BY <1>2, <1>3, Zenon DEF Surjection
<1>6. f \in Injection(1..n, S)
  BY <1>4, <1>5, FS_SurjSameCardinalityImpliesInj
<1>7. \A i, k \in 1..n : f[i] = f[k] => i = k
  BY <1>6 DEF Injection, IsInjective
<1>8. \A i \in 1..n : DOMAIN A[i] = {1} /\ A[i][1] = f[i]
  BY <1>3
<1> HIDE DEF n
<1>9. Once(A)
  <2> SUFFICES ASSUME NEW i \in 1..n, NEW k \in 1..n, NEW j \in DOMAIN A[i],
                      NEW l \in DOMAIN A[k], A[i][j] = A[k][l]
               PROVE  i = k /\ j = l
    BY <1>3, Zenon DEF Once
  <2>1. j = 1 /\ l = 1
    BY <1>8
  <2> QED BY <1>7, <1>8, <2>1
<1>10. ASSUME NEW u PROVE Holds(A, u) <=> u \in S
  <2>1. ASSUME Holds(A, u) PROVE u \in S
    <3>1. PICK i \in 1..n : \E j \in DOMAIN A[i] : A[i][j] = u
      BY <1>3, <2>1 DEF Holds
    <3> QED BY <1>8, <3>1
  <2>2. ASSUME u \in S PROVE Holds(A, u)
    <3>1. PICK i \in 1..n : f[i] = u
      BY <1>2, <1>3, <2>2
    <3>2. 1 \in DOMAIN A[i] /\ A[i][1] = u
      BY <1>8, <3>1
    <3> QED BY <1>3, <3>2, Zenon DEF Holds
  <2> QED BY <2>1, <2>2
<1> QED BY <1>9, <1>10

\* A thread joins the wait list of an event.
LEMMA WaitHolds ==
  ASSUME NEW S, NEW E, NEW W, DOMAIN W = E, NEW e \in E, W[e] \in Seq(S), NEW t,
         Once(W), ~Holds(W, t),
         NEW V, DOMAIN V = E, V[e] = <<t>> \o W[e], \A i \in E : i # e => V[i] = W[i]
  PROVE  Once(V) /\ \A u : Holds(V, u) <=> u = t \/ Holds(W, u)
<1> DEFINE w == W[e]  v == V[e]
<1>1. /\ w \in Seq(S) /\ Len(w) \in Nat /\ DOMAIN w = 1..Len(w)
      /\ DOMAIN v = 1..(Len(w) + 1) /\ v[1] = t /\ 1 \in DOMAIN v
      /\ \A j \in DOMAIN v : j # 1 => j - 1 \in DOMAIN w /\ v[j] = w[j - 1]
      /\ \A j \in DOMAIN w : j + 1 \in DOMAIN v /\ v[j + 1] = w[j]
      /\ DOMAIN v \subseteq Int
  OBVIOUS
<1>2. V[e] = v /\ DOMAIN V = E /\ DOMAIN W = E /\ \A i \in E : i # e => V[i] = W[i]
  OBVIOUS
<1>3. w = W[e]
  OBVIOUS
<1> HIDE DEF w, v
<1>4. ASSUME NEW i \in E, NEW k \in E, NEW j \in DOMAIN V[i], NEW l \in DOMAIN V[k],
             V[i][j] = V[k][l]
      PROVE  i = k /\ j = l
  <2>1. CASE i = e /\ k = e
    <3>1. CASE j = 1 \/ l = 1
      <4>1. \A m \in DOMAIN v : m # 1 => v[m] # t
        <5> SUFFICES ASSUME NEW m \in DOMAIN v, m # 1, v[m] = t PROVE FALSE
          OBVIOUS
        <5>1. m - 1 \in DOMAIN W[e] /\ W[e][m - 1] = t /\ e \in DOMAIN W
          BY <1>1, <1>2, <1>3
        <5> QED BY ONLY <5>1, ~Holds(W, t), HoldsAt
      <4> QED BY <1>1, <1>2, <1>4, <2>1, <3>1, <4>1
    <3>2. CASE j # 1 /\ l # 1
      <4>1. /\ j - 1 \in DOMAIN W[e] /\ l - 1 \in DOMAIN W[e] /\ e \in DOMAIN W
            /\ W[e][j - 1] = W[e][l - 1] /\ j \in Int /\ l \in Int
        BY <1>1, <1>2, <1>3, <1>4, <2>1, <3>2
      <4>2. j - 1 = l - 1
        BY ONLY <4>1, Once(W), OnceAt
      <4> QED BY <2>1, <4>1, <4>2
    <3> QED BY <3>1, <3>2
  <2>2. CASE i = e /\ k # e
    <3>1. CASE j = 1
      BY <1>1, <1>2, <1>4, <2>2, <3>1 DEF Holds
    <3>2. CASE j # 1
      <4>1. /\ j - 1 \in DOMAIN W[e] /\ l \in DOMAIN W[k] /\ e \in DOMAIN W /\ k \in DOMAIN W
            /\ W[e][j - 1] = W[k][l]
        BY <1>1, <1>2, <1>3, <1>4, <2>2, <3>2
      <4> QED BY ONLY <4>1, <2>2, Once(W), OnceAt
    <3> QED BY <3>1, <3>2
  <2>3. CASE i # e /\ k = e
    <3>1. CASE l = 1
      BY <1>1, <1>2, <1>4, <2>3, <3>1 DEF Holds
    <3>2. CASE l # 1
      <4>1. /\ l - 1 \in DOMAIN W[e] /\ j \in DOMAIN W[i] /\ e \in DOMAIN W /\ i \in DOMAIN W
            /\ W[e][l - 1] = W[i][j]
        BY <1>1, <1>2, <1>3, <1>4, <2>3, <3>2
      <4> QED BY ONLY <4>1, <2>3, Once(W), OnceAt
    <3> QED BY <3>1, <3>2
  <2>4. CASE i # e /\ k # e
    BY <1>2, <1>4, <2>4 DEF Once
  <2> QED BY <2>1, <2>2, <2>3, <2>4
<1>5. ASSUME NEW u, Holds(V, u)
      PROVE  u = t \/ Holds(W, u)
  <2>1. PICK i \in E : \E j \in DOMAIN V[i] : V[i][j] = u
    BY <1>2, <1>5 DEF Holds
  <2>2. CASE i = e
    <3>1. PICK j \in DOMAIN v : v[j] = u
      BY <1>2, <2>1, <2>2
    <3>2. CASE j # 1
      <4>1. j - 1 \in DOMAIN W[e] /\ W[e][j - 1] = u /\ e \in DOMAIN W
        BY <1>1, <1>2, <1>3, <3>1, <3>2
      <4> QED BY ONLY <4>1, HoldsAt
    <3> QED BY <1>1, <3>1, <3>2
  <2>3. CASE i # e
    BY <1>2, <2>1, <2>3 DEF Holds
  <2> QED BY <2>2, <2>3
<1>6. ASSUME NEW u, u = t \/ Holds(W, u)
      PROVE  Holds(V, u)
  <2>1. Holds(V, t)
    <3>1. e \in DOMAIN V /\ 1 \in DOMAIN V[e] /\ V[e][1] = t
      BY <1>1, <1>2
    <3> QED BY ONLY <3>1, HoldsAt
  <2>2. ASSUME Holds(W, u) PROVE Holds(V, u)
    <3>1. PICK i \in E : \E j \in DOMAIN W[i] : W[i][j] = u
      BY <1>2, <2>2 DEF Holds
    <3>2. CASE i = e
      <4>1. PICK j \in DOMAIN w : w[j] = u
        BY <1>3, <3>1, <3>2
      <4>2. e \in DOMAIN V /\ j + 1 \in DOMAIN V[e] /\ V[e][j + 1] = u
        BY <1>1, <1>2, <4>1
      <4> QED BY ONLY <4>2, HoldsAt
    <3>3. CASE i # e
      BY <1>2, <3>1, <3>3 DEF Holds
    <3> QED BY <3>2, <3>3
  <2> QED BY <1>6, <2>1, <2>2
<1>7. Once(V)
  <2> SUFFICES ASSUME NEW i \in DOMAIN V, NEW k \in DOMAIN V, NEW j \in DOMAIN V[i],
                      NEW l \in DOMAIN V[k], V[i][j] = V[k][l]
               PROVE  i = k /\ j = l
    BY DEF Once
  <2>1. i \in E /\ k \in E
    BY <1>2
  <2> QED BY <1>4, <2>1
<1> QED BY <1>5, <1>6, <1>7

\* The wait list of an event is taken off.
LEMMA ClearHolds ==
  ASSUME NEW E, NEW W, DOMAIN W = E, NEW e \in E, Once(W),
         NEW V, DOMAIN V = E, V[e] = <<>>, \A i \in E : i # e => V[i] = W[i]
  PROVE  /\ Once(V) /\ Once(<<W[e]>>)
         /\ \A u : /\ Holds(W, u) <=> Holds(V, u) \/ Holds(<<W[e]>>, u)
                   /\ ~(Holds(V, u) /\ Holds(<<W[e]>>, u))
<1>1. /\ V[e] = <<>> /\ DOMAIN V[e] = {} /\ DOMAIN V = E /\ DOMAIN W = E
      /\ \A i \in E : i # e => V[i] = W[i]
  OBVIOUS
<1>2. /\ \A u : Holds(<<W[e]>>, u) <=> \E j \in DOMAIN W[e] : W[e][j] = u
      /\ Once(<<W[e]>>) <=> \A j, l \in DOMAIN W[e] : W[e][j] = W[e][l] => j = l
  BY OneList
<1>3. Once(<<W[e]>>)
  BY <1>1, <1>2 DEF Once
<1>4. Once(V)
  <2> SUFFICES ASSUME NEW i \in E, NEW k \in E, NEW j \in DOMAIN V[i], NEW l \in DOMAIN V[k],
                      V[i][j] = V[k][l]
               PROVE  i = k /\ j = l
    BY <1>1 DEF Once
  <2> QED BY <1>1 DEF Once
<1>5. ASSUME NEW u
      PROVE  Holds(W, u) <=> Holds(V, u) \/ Holds(<<W[e]>>, u)
  BY <1>1, <1>2 DEF Holds
<1>6. ASSUME NEW u, Holds(V, u), Holds(<<W[e]>>, u)
      PROVE  FALSE
  BY <1>1, <1>2, <1>6 DEF Holds, Once
<1> QED BY <1>3, <1>4, <1>5, <1>6

-----------------------------------------------------------------------------
(* What a step leaves alone.                                               *)

\* What the fork statement of a thread and the threads it has created are about.
Idem(u) ==
  /\ thr'[u].children = thr[u].children /\ thr'[u].kids = thr[u].kids
  /\ thr'[u].task_func_children = thr[u].task_func_children
  /\ thr'[u].code.forks = thr[u].code.forks /\ thr'[u].code.scope = thr[u].code.scope
  /\ thr'[u].code.joins = thr[u].code.joins /\ thr'[u].code.detach = thr[u].code.detach
  /\ thr'[u].joined = thr[u].joined /\ thr'[u].i_am_joining = thr[u].i_am_joining

\* Nothing that Exact says of the thread has changed, or the thread has ended.
Calm(u) ==
  /\ thr'[u].is_scheduled = thr[u].is_scheduled
  /\ thr'[u].waiting_for_event = thr[u].waiting_for_event
  /\ thr'[u].i_am_joining => thr[u].i_am_joining
  /\ thr'[u].i_am_waiting => thr[u].i_am_waiting
  /\ thr'[u].status = "unborn" => thr[u].status = "unborn" /\ ~thr'[u].i_have_ended
  /\ thr'[u].status = "deleted" =>
       thr[u].status = "deleted" \/ (~thr[u].is_scheduled /\ ~thr[u].waiting_for_event)
  /\ ~thr'[u].i_have_ended =>
       (thr'[u].status = "live" => thr[u].status = "live") /\ Idem(u)

\* A thread that has ended does not come back.
EndIsFinal == \A u \in Threads : thr[u].i_have_ended => thr'[u].i_have_ended

\* The part of Exact that is about thread t.
Fits(t) == Suspended(t) /\ (Live(t) /\ ~thr[t].i_have_ended => Statement(t))

\* The threads of a fork statement are finitely many, also those that have ended.
LEMMA FiniteKin ==
  ASSUME ThreadAssumption, NEW r \in ThreadType
  PROVE  /\ IsFiniteSet(r.children) /\ IsFiniteSet(r.kids)
         /\ Cardinality(r.children) \in Nat
<1>1. r.children \subseteq Threads /\ r.kids \subseteq Threads /\ IsFiniteSet(Threads)
  BY DEF ThreadType, ThreadAssumption
<1>2. IsFiniteSet(r.children) /\ IsFiniteSet(r.kids)
  BY <1>1, FS_Subset
<1> QED BY <1>2, FS_CardinalityType

\* A fork statement that a step leaves alone is kept while other threads end.
LEMMA StatementKeeps ==
  ASSUME ThreadAssumption, ForkAssumption, thr \in [Threads -> ThreadType],
         NEW u \in Threads, Idem(u), EndIsFinal, Statement(u)
  PROVE  Statement(u)'
<1> DEFINE gone == {w \in thr[u].kids \ thr[u].children : thr[w].i_have_ended}
           left == {w \in thr[u].kids \ thr[u].children : thr'[w].i_have_ended}
           wait == IF thr[u].i_am_joining THEN 1 ELSE 0
<1>0. thr[u] \in ThreadType
  OBVIOUS
<1>1. thr[u].kids \subseteq Threads /\ thr[u].joined \in Nat
  BY <1>0 DEF ThreadType, ForkAssumption
<1>2. gone \subseteq left /\ left \subseteq thr[u].kids
  BY <1>1 DEF EndIsFinal
<1>3. IsFiniteSet(gone) /\ IsFiniteSet(left)
  BY <1>0, <1>2, FiniteKin, FS_Subset
<1>4. Cardinality(gone) <= Cardinality(left) /\ Cardinality(gone) \in Nat
      /\ Cardinality(left) \in Nat
  BY <1>2, <1>3, FS_Subset, FS_CardinalityType
<1>5. wait \in Nat
  OBVIOUS
<1>6. thr[u].joined <= Cardinality(gone) + wait
  BY DEF Statement
<1> HIDE DEF gone, left, wait
<1>7. thr[u].joined <= Cardinality(left) + wait
  BY <1>1, <1>4, <1>5, <1>6
<1> USE DEF left, wait
<1> QED BY <1>7 DEF Statement, Idem

\* The threads that a step does not touch fit afterwards.
LEMMA CalmFits ==
  ASSUME ThreadAssumption, ForkAssumption, thr \in [Threads -> ThreadType],
         NEW u \in Threads, Calm(u), EndIsFinal, u = running' => u = running, Fits(u)
  PROVE  Fits(u)'
<1>1. Suspended(u)'
  <2>1. thr[u] \in ThreadType
    OBVIOUS
  <2> QED BY <2>1 DEF Fits, Suspended, Calm
<1>2. ASSUME Live(u)', ~thr'[u].i_have_ended
      PROVE  Statement(u)'
  <2>1. Live(u) /\ ~thr[u].i_have_ended /\ Idem(u)
    BY <1>2 DEF Calm, EndIsFinal, Live
  <2> QED BY <2>1, StatementKeeps DEF Fits
<1> QED BY <1>1, <1>2 DEF Fits

\* The threads and the lists of a step that touches few of them.
LEMMA ExactStep ==
  ASSUME ThreadAssumption, ForkAssumption, thr \in [Threads -> ThreadType], Exact, EndIsFinal,
         Placed', \A u \in Threads : (Calm(u) /\ (u = running' => u = running)) \/ Fits(u)'
  PROVE  Exact'
<1>1. \A u \in Threads : Fits(u)
  BY DEF Exact, Fits
<1>2. \A u \in Threads : Fits(u)'
  BY <1>1, CalmFits
<1> QED BY <1>2 DEF Exact, Fits

\* No list has changed.
LEMMA PlacedSame ==
  ASSUME Placed, UNCHANGED <<active, rest, sleeping, waiters>>,
         \A u \in Threads : /\ thr'[u].is_scheduled = thr[u].is_scheduled
                            /\ thr'[u].waiting_for_event = thr[u].waiting_for_event
  PROVE  Placed'
  BY DEF Placed

\* A thread is pushed in front of the active region.
LEMMA PlacedPush ==
  ASSUME Placed, TypeOK, NEW p \in Threads, active' = PushFront(p),
         UNCHANGED <<rest, sleeping, waiters>>,
         ~thr[p].is_scheduled, thr'[p].is_scheduled,
         \A u \in Threads : /\ u # p => thr'[u].is_scheduled = thr[u].is_scheduled
                            /\ thr'[u].waiting_for_event = thr[u].waiting_for_event
  PROVE  Placed'
<1>1. ~Holds(active, p) /\ ~Holds(<<rest>>, p) /\ p \notin sleeping /\ Once(active)
  BY DEF Placed
<1>2. Once(active') /\ \A u : Holds(active', u) <=> u = p \/ Holds(active, u)
  BY <1>1, PushHolds DEF PushFront, TypeOK
<1>3. thr \in [Threads -> ThreadType] /\ thr[p] \in ThreadType
  BY DEF TypeOK
<1>4. rest' = rest /\ sleeping' = sleeping /\ waiters' = waiters
  OBVIOUS
<1> QED BY <1>1, <1>2, <1>4 DEF Placed

-----------------------------------------------------------------------------
(* vthread_run, and the opcodes that suspend a thread.                     *)

\* A thread that executes an opcode is nowhere else; between two statements it
\* has no children.
LEMMA AtOpcode ==
  ASSUME Sound, Exact, ThreadAssumption, ForkAssumption, NEW t \in Threads, Runs(t)
  PROVE  /\ ~thr[t].is_scheduled /\ ~thr[t].waiting_for_event
         /\ ~thr[t].i_am_joining /\ ~thr[t].i_am_waiting
         /\ Statement(t) /\ Placed /\ TypeOK /\ thr \in [Threads -> ThreadType]
         /\ running = t /\ ~aborted /\ Live(t) /\ ~thr[t].i_have_ended
         /\ thr[t].task_func_children \subseteq thr[t].children
         /\ AtStatement(t) => thr[t].children = {} /\ thr[t].task_func_children = {}
<1>1. /\ Live(t) /\ ~thr[t].i_have_ended /\ running = t /\ ~aborted /\ TypeOK /\ TaskChildren
  BY AtRun DEF KinInv
<1>2. /\ ~thr[t].is_scheduled /\ ~thr[t].waiting_for_event
      /\ ~thr[t].i_am_joining /\ ~thr[t].i_am_waiting /\ Statement(t) /\ Placed
  BY <1>1 DEF Exact, Suspended
<1>3. thr \in [Threads -> ThreadType] /\ thr[t] \in ThreadType
      /\ thr[t].task_func_children \subseteq thr[t].children
  BY <1>1 DEF TypeOK, TaskChildren
<1>4. ASSUME AtStatement(t) PROVE thr[t].children = {}
  <2>1. Cardinality(thr[t].children) + 0 = 0 + 0 + 0
    BY <1>2, <1>4 DEF Statement, AtStatement
  <2>2. IsFiniteSet(thr[t].children) /\ Cardinality(thr[t].children) \in Nat
    BY <1>3, FiniteKin
  <2> QED BY <2>1, <2>2, FS_EmptySet
<1> QED BY <1>1, <1>2, <1>3, <1>4

\* The event queue hands the first of its lists to vthread_run.
LEMMA ExactDispatch ==
  ASSUME Sound, Exact, ThreadAssumption, ForkAssumption, Dispatch
  PROVE  aborted' = FALSE /\ Exact'
<1>1. /\ Idle /\ rest = <<>> /\ active # <<>> /\ rest' = Head(active) /\ active' = Tail(active)
      /\ UNCHANGED <<thr, sleeping, waiters, running, dis, aborted>>
  BY DEF Dispatch
<1>2. thr \in [Threads -> ThreadType] /\ active \in Seq(Seq(Threads)) /\ aborted \in BOOLEAN
      /\ ~aborted
  BY <1>1 DEF Sound, TypeOK, Idle
<1>3. Placed /\ Once(active)
  BY DEF Exact, Placed
<1>4. /\ Once(active') /\ Once(<<rest'>>)
      /\ \A u : /\ Holds(active, u) <=> Holds(<<rest'>>, u) \/ Holds(active', u)
                /\ ~(Holds(<<rest'>>, u) /\ Holds(active', u))
  BY <1>1, <1>2, <1>3, HeadHolds
<1>5. \A u : ~Holds(<<rest>>, u)
  BY <1>1, NoList
<1>6. thr' = thr /\ sleeping' = sleeping /\ waiters' = waiters /\ running' = running
  BY <1>1
<1>7. Placed'
  BY <1>3, <1>4, <1>5, <1>6 DEF Placed
<1>8. \A u \in Threads : Calm(u)
  <2>1. \A u \in Threads : Suspended(u)
    BY DEF Exact
  <2> QED BY <2>1, <1>6 DEF Calm, Idem, Suspended
<1>9. EndIsFinal
  BY <1>6 DEF EndIsFinal
<1> QED BY <1>1, <1>2, <1>6, <1>7, <1>8, <1>9, ExactStep

\* vthread_run takes the next thread of its list, which is marked as scheduled.
LEMMA NextThread ==
  ASSUME Sound, Exact, ThreadAssumption, Idle, rest # <<>>, rest' = Tail(rest),
         UNCHANGED <<active, sleeping, waiters>>, NEW t, t = Head(rest),
         ~thr'[t].is_scheduled,
         \A u \in Threads : /\ u # t => thr'[u].is_scheduled = thr[u].is_scheduled
                            /\ thr'[u].waiting_for_event = thr[u].waiting_for_event
  PROVE  /\ t \in Threads /\ thr[t].is_scheduled /\ ~thr[t].waiting_for_event
         /\ ~thr[t].i_am_joining /\ ~thr[t].i_am_waiting
         /\ thr[t].status \notin {"unborn", "deleted"} /\ Placed'
<1>1. rest \in Seq(Threads) /\ Placed /\ Once(<<rest>>) /\ running = None
  BY DEF Sound, TypeOK, Exact, Placed, Idle
<1>2. /\ Once(<<rest'>>) /\ ~Holds(<<rest'>>, t)
      /\ \A u : Holds(<<rest>>, u) <=> u = t \/ Holds(<<rest'>>, u)
  BY <1>1, NextHolds
<1>3. t \in Threads
  BY <1>1
<1>4. thr[t].is_scheduled /\ ~Holds(active, t) /\ t \notin sleeping
  BY <1>1, <1>2, <1>3 DEF Placed
<1>5. Suspended(t)
  BY <1>3 DEF Exact
<1>6. active' = active /\ sleeping' = sleeping /\ waiters' = waiters
  OBVIOUS
<1>7. Placed'
  BY <1>1, <1>2, <1>3, <1>4, <1>6 DEF Placed
<1> QED BY <1>3, <1>4, <1>5, <1>7 DEF Suspended

\* The next thread resumes: it was scheduled, and is suspended no more.
LEMMA ExactResume ==
  ASSUME Sound, Exact, ThreadAssumption, ForkAssumption, Resume
  PROVE  aborted' = FALSE /\ Exact'
<1>0. PICK t : t = Head(rest)
  OBVIOUS
<1>1. /\ Idle /\ rest # <<>> /\ rest' = Tail(rest) /\ ~thr[t].i_have_ended
      /\ thr' = [thr EXCEPT ![t].is_scheduled = FALSE] /\ running' = t
      /\ aborted' = ~thr[t].is_scheduled /\ UNCHANGED <<active, sleeping, waiters, dis>>
  BY <1>0 DEF Resume
<1>2. /\ thr \in [Threads -> ThreadType] /\ t \in Threads /\ running = None
  BY <1>0, <1>1 DEF Sound, TypeOK, Idle
<1>3. thr[t] \in ThreadType /\ thr'[t] = [thr[t] EXCEPT !.is_scheduled = FALSE]
      /\ \A u \in Threads : u # t => thr'[u] = thr[u]
  BY <1>1, <1>2
<1>4. /\ ~thr'[t].is_scheduled /\ thr'[t].waiting_for_event = thr[t].waiting_for_event
      /\ thr'[t].i_am_joining = thr[t].i_am_joining /\ thr'[t].i_am_waiting = thr[t].i_am_waiting
      /\ thr'[t].status = thr[t].status /\ thr'[t].i_have_ended = thr[t].i_have_ended /\ Idem(t)
  BY <1>3 DEF ThreadType, Idem
<1>5. /\ thr[t].is_scheduled /\ ~thr[t].waiting_for_event
      /\ ~thr[t].i_am_joining /\ ~thr[t].i_am_waiting
      /\ thr[t].status \notin {"unborn", "deleted"} /\ Placed'
  <2>2. \A u \in Threads : /\ u # t => thr'[u].is_scheduled = thr[u].is_scheduled
                           /\ thr'[u].waiting_for_event = thr[u].waiting_for_event
    BY <1>3, <1>4
  <2> QED BY <1>0, <1>1, <1>4, <2>2, NextThread
<1>6. EndIsFinal
  BY <1>3, <1>4 DEF EndIsFinal
<1>7. Fits(t)'
  <2>1. Suspended(t)'
    BY <1>4, <1>5 DEF Suspended
  <2>2. Statement(t)
    <3>1. Live(t)
      BY <1>1, <1>2, <1>5 DEF Live, Sound, KinInv, Departed, TypeOK, ThreadType
    <3> QED BY <1>1, <1>2, <3>1 DEF Exact
  <2>3. Statement(t)'
    BY <1>2, <1>4, <1>6, <2>2, StatementKeeps
  <2> QED BY <2>1, <2>3 DEF Fits
<1>8. \A u \in Threads : u # t => Calm(u) /\ u # running'
  <2>1. \A u \in Threads : Suspended(u)
    BY DEF Exact
  <2> QED BY <1>1, <1>3, <2>1 DEF Calm, Idem, Suspended
<1>9. aborted' = FALSE
  BY <1>1, <1>5
<1> QED BY <1>2, <1>5, <1>6, <1>7, <1>8, <1>9, ExactStep

\* A thread that is not touched.
LEMMA StillCalm ==
  ASSUME Exact, NEW u \in Threads, thr'[u] = thr[u]
  PROVE  Calm(u)
<1>1. Suspended(u)
  BY DEF Exact
<1> QED BY <1>1 DEF Calm, Idem, Suspended

\* of_ZOMBIE meets a thread that was scheduled, and that no event refers to.
LEMMA ExactZombie ==
  ASSUME Sound, Exact, ThreadAssumption, ForkAssumption, Zombie
  PROVE  aborted' = FALSE /\ Exact'
<1>0. PICK t : t = Head(rest)
  OBVIOUS
<1> DEFINE v == IF thr[t].parent = None /\ thr[t].children = {} THEN "deleted" ELSE thr[t].status
<1>1. /\ Idle /\ rest # <<>> /\ rest' = Tail(rest) /\ thr[t].i_have_ended
      /\ thr' = [thr EXCEPT ![t].is_scheduled = FALSE,
                            ![t].status = IF thr[t].parent = None /\ thr[t].children = {}
                                          THEN "deleted" ELSE @]
      /\ aborted' = ~thr[t].is_scheduled /\ UNCHANGED <<active, sleeping, waiters, running, dis>>
  BY <1>0 DEF Zombie
<1>2. /\ thr \in [Threads -> ThreadType] /\ t \in Threads /\ running = None
  BY <1>0, <1>1 DEF Sound, TypeOK, Idle
<1>3. thr[t] \in ThreadType /\ thr'[t] = [thr[t] EXCEPT !.is_scheduled = FALSE, !.status = v]
      /\ \A u \in Threads : u # t => thr'[u] = thr[u]
  <2>1. thr[t] \in ThreadType
    BY <1>2
  <2>2. [thr[t] EXCEPT !.is_scheduled = FALSE].status = thr[t].status
    BY <2>1 DEF ThreadType
  <2> QED BY <1>1, <1>2, <2>1, <2>2
<1>a. v = thr[t].status \/ v = "deleted"
  OBVIOUS
<1> HIDE DEF v
<1>4. /\ ~thr'[t].is_scheduled /\ thr'[t].waiting_for_event = thr[t].waiting_for_event
      /\ thr'[t].i_am_joining = thr[t].i_am_joining /\ thr'[t].i_am_waiting = thr[t].i_am_waiting
      /\ thr'[t].status = v /\ thr'[t].i_have_ended = thr[t].i_have_ended
  BY <1>3 DEF ThreadType
<1>5. /\ thr[t].is_scheduled /\ ~thr[t].waiting_for_event
      /\ ~thr[t].i_am_joining /\ ~thr[t].i_am_waiting
      /\ thr[t].status \notin {"unborn", "deleted"} /\ Placed'
  <2>2. \A u \in Threads : /\ u # t => thr'[u].is_scheduled = thr[u].is_scheduled
                           /\ thr'[u].waiting_for_event = thr[u].waiting_for_event
    BY <1>3, <1>4
  <2> QED BY <1>0, <1>1, <1>4, <2>2, NextThread
<1>6. EndIsFinal
  BY <1>3, <1>4 DEF EndIsFinal
<1>7. Fits(t)'
  BY <1>1, <1>4, <1>5, <1>a DEF Suspended, Fits
<1>8. \A u \in Threads : u # t => Calm(u)
  BY <1>3, StillCalm
<1>9. aborted' = FALSE /\ running' = running
  BY <1>1, <1>5
<1> QED BY <1>2, <1>5, <1>6, <1>7, <1>8, <1>9, ExactStep

\* The delays of some threads are over.
LEMMA ExactElapse ==
  ASSUME Sound, Exact, ThreadAssumption, ForkAssumption, Elapse
  PROVE  aborted' = FALSE /\ Exact'
<1>1. /\ Idle /\ rest = <<>> /\ active = <<>>
      /\ UNCHANGED <<thr, waiters, running, rest, dis, aborted>>
  BY DEF Elapse
<1>2. PICK S \in SUBSET sleeping : sleeping' = sleeping \ S /\ active' \in Orders(S)
  BY DEF Elapse
<1>3. /\ thr \in [Threads -> ThreadType] /\ sleeping \subseteq Threads /\ aborted \in BOOLEAN
      /\ ~aborted
  BY <1>1 DEF Sound, TypeOK, Idle
<1>4. Once(active') /\ \A u : Holds(active', u) <=> u \in S
  <2>1. IsFiniteSet(S)
    BY <1>2, <1>3, FS_Subset DEF ThreadAssumption
  <2> QED BY <1>2, <2>1, OrdersHolds
<1>5. \A u : ~Holds(active, u) /\ ~Holds(<<rest>>, u)
  BY <1>1, NoList
<1>6. thr' = thr /\ rest' = rest /\ waiters' = waiters /\ running' = running
  BY <1>1
<1>7. Placed'
  BY <1>2, <1>4, <1>5, <1>6 DEF Placed, Exact
<1>8. \A u \in Threads : Calm(u)
  BY <1>6, StillCalm
<1>9. EndIsFinal
  BY <1>6 DEF EndIsFinal
<1> QED BY <1>1, <1>3, <1>6, <1>7, <1>8, <1>9, ExactStep

\* A thread that an opcode suspends goes on later with the statement it is at.
LEMMA ExactSuspend ==
  ASSUME Sound, Exact, ThreadAssumption, ForkAssumption, NEW t \in Threads, Runs(t),
         running' = None, Placed', \A u \in Threads \ {t} : thr'[u] = thr[u],
         thr'[t].status = thr[t].status, thr'[t].i_have_ended = thr[t].i_have_ended, Idem(t),
         thr'[t].is_scheduled \in BOOLEAN, thr'[t].waiting_for_event \in BOOLEAN,
         ~(thr'[t].is_scheduled /\ thr'[t].waiting_for_event),
         thr'[t].i_am_waiting => ~thr'[t].is_scheduled /\ ~thr'[t].waiting_for_event
  PROVE  Exact'
<1>1. /\ ~thr[t].i_am_joining /\ ~thr[t].i_am_waiting /\ Statement(t)
      /\ thr \in [Threads -> ThreadType] /\ Live(t) /\ ~thr[t].i_have_ended
  BY AtOpcode
<1>2. EndIsFinal
  BY DEF EndIsFinal
<1>3. Statement(t)'
  BY <1>1, <1>2, StatementKeeps
<1>4. Fits(t)'
  <2>1. ~thr'[t].i_am_joining /\ thr'[t].status = "live" /\ t # running'
    BY <1>1 DEF Idem, Live, ThreadAssumption
  <2> QED BY <1>3, <2>1 DEF Fits, Suspended
<1>5. \A u \in Threads \ {t} : Calm(u) /\ u # running'
  BY StillCalm DEF ThreadAssumption
<1> QED BY <1>1, <1>2, <1>4, <1>5, ExactStep

\* %delay
LEMMA ExactDelay ==
  ASSUME Sound, Exact, ThreadAssumption, ForkAssumption, NEW t \in Threads, Delay(t)
  PROVE  aborted' = FALSE /\ Exact'
<1>1. /\ AtStatement(t) /\ Runs(t) /\ sleeping' = sleeping \cup {t}
      /\ thr' = [thr EXCEPT ![t].is_scheduled = TRUE] /\ aborted' = thr[t].is_scheduled
      /\ running' = None /\ active' = active /\ waiters' = waiters /\ rest' = rest
  BY DEF Delay, Scheduled, AtStatement
<1>2. /\ ~thr[t].is_scheduled /\ ~thr[t].waiting_for_event /\ ~thr[t].i_am_waiting
      /\ Placed /\ thr \in [Threads -> ThreadType] /\ thr[t] \in ThreadType
  BY <1>1, AtOpcode
<1>3. thr'[t] = [thr[t] EXCEPT !.is_scheduled = TRUE] /\ \A u \in Threads \ {t} : thr'[u] = thr[u]
  BY <1>1, <1>2
<1>4. /\ thr'[t].status = thr[t].status /\ thr'[t].i_have_ended = thr[t].i_have_ended /\ Idem(t)
      /\ thr'[t].is_scheduled = TRUE /\ thr'[t].waiting_for_event = thr[t].waiting_for_event
      /\ thr'[t].i_am_waiting = thr[t].i_am_waiting /\ thr[t].waiting_for_event \in BOOLEAN
      /\ thr[t].is_scheduled \in BOOLEAN
  BY <1>2, <1>3 DEF ThreadType, Idem
<1>5. ~Holds(active, t) /\ ~Holds(<<rest>>, t)
  BY <1>2 DEF Placed
<1>6. Placed'
  BY <1>1, <1>2, <1>3, <1>4, <1>5 DEF Placed
<1>7. aborted' = FALSE
  BY <1>1, <1>2, <1>4
<1> QED BY <1>1, <1>2, <1>3, <1>4, <1>6, <1>7, ExactSuspend

\* %wait/fork
LEMMA ExactWaitFork ==
  ASSUME Sound, Exact, ThreadAssumption, ForkAssumption, NEW t \in Threads, WaitFork(t)
  PROVE  aborted' = FALSE /\ Exact'
<1>1. /\ AtStatement(t) /\ Runs(t) /\ thr' = [thr EXCEPT ![t].i_am_waiting = TRUE]
      /\ aborted' = ~(/\ ~thr[t].i_am_joining /\ ~thr[t].i_am_waiting
                      /\ thr[t].children = {})
      /\ running' = None /\ UNCHANGED <<active, sleeping, waiters, rest, dis>>
  BY DEF WaitFork, AtStatement
<1>2. /\ ~thr[t].is_scheduled /\ ~thr[t].waiting_for_event /\ ~thr[t].i_am_waiting
      /\ ~thr[t].i_am_joining /\ thr[t].children = {}
      /\ Placed /\ thr \in [Threads -> ThreadType] /\ thr[t] \in ThreadType
  BY <1>1, AtOpcode
<1>3. thr'[t] = [thr[t] EXCEPT !.i_am_waiting = TRUE] /\ \A u \in Threads \ {t} : thr'[u] = thr[u]
  BY <1>1, <1>2
<1>4. /\ thr'[t].status = thr[t].status /\ thr'[t].i_have_ended = thr[t].i_have_ended /\ Idem(t)
      /\ thr'[t].is_scheduled = thr[t].is_scheduled
      /\ thr'[t].waiting_for_event = thr[t].waiting_for_event
      /\ thr[t].waiting_for_event \in BOOLEAN /\ thr[t].is_scheduled \in BOOLEAN
  BY <1>2, <1>3 DEF ThreadType, Idem
<1>5. Placed'
  BY <1>1, <1>2, <1>3, <1>4, PlacedSame
<1>6. aborted' = FALSE
  BY <1>1, <1>2
<1> QED BY <1>1, <1>2, <1>3, <1>4, <1>5, <1>6, ExactSuspend

\* %wait
LEMMA ExactWait ==
  ASSUME Sound, Exact, ThreadAssumption, ForkAssumption, NEW t \in Threads, NEW e \in Events,
         Wait(t, e)
  PROVE  aborted' = FALSE /\ Exact'
<1>1. /\ AtStatement(t) /\ Runs(t) /\ waiters' = [waiters EXCEPT ![e] = <<t>> \o @]
      /\ thr' = [thr EXCEPT ![t].waiting_for_event = TRUE] /\ aborted' = thr[t].waiting_for_event
      /\ running' = None /\ active' = active /\ sleeping' = sleeping /\ rest' = rest
  BY DEF Wait, AtStatement
<1>2. /\ ~thr[t].is_scheduled /\ ~thr[t].waiting_for_event /\ ~thr[t].i_am_waiting
      /\ Placed /\ thr \in [Threads -> ThreadType] /\ thr[t] \in ThreadType /\ TypeOK
  BY <1>1, AtOpcode
<1>3. thr'[t] = [thr[t] EXCEPT !.waiting_for_event = TRUE]
      /\ \A u \in Threads \ {t} : thr'[u] = thr[u]
  BY <1>1, <1>2
<1>4. /\ thr'[t].status = thr[t].status /\ thr'[t].i_have_ended = thr[t].i_have_ended /\ Idem(t)
      /\ thr'[t].is_scheduled = thr[t].is_scheduled /\ thr'[t].waiting_for_event = TRUE
      /\ thr'[t].i_am_waiting = thr[t].i_am_waiting /\ thr[t].waiting_for_event \in BOOLEAN
      /\ thr[t].is_scheduled \in BOOLEAN
  BY <1>2, <1>3 DEF ThreadType, Idem
<1>5. Once(waiters') /\ \A u : Holds(waiters', u) <=> u = t \/ Holds(waiters, u)
  <2>1. waiters \in [Events -> Seq(Threads)] /\ Once(waiters) /\ ~Holds(waiters, t)
    BY <1>2 DEF Placed, TypeOK
  <2>2. /\ DOMAIN waiters = Events /\ DOMAIN waiters' = Events /\ waiters[e] \in Seq(Threads)
        /\ waiters'[e] = <<t>> \o waiters[e] /\ \A i \in Events : i # e => waiters'[i] = waiters[i]
    BY <1>1, <2>1
  <2> QED BY ONLY <2>1, <2>2, e \in Events, WaitHolds
<1>6. Placed'
  BY <1>1, <1>2, <1>3, <1>4, <1>5 DEF Placed
<1>7. aborted' = FALSE
  BY <1>1, <1>2, <1>4
<1> QED BY <1>1, <1>2, <1>3, <1>4, <1>6, <1>7, ExactSuspend

\* The %jmp of a stop.
LEMMA ExactYield ==
  ASSUME Sound, Exact, ThreadAssumption, ForkAssumption, NEW t \in Threads, Yield(t)
  PROVE  aborted' = FALSE /\ Exact'
<1>1. /\ Runs(t) /\ active' = Append(active, <<t>>)
      /\ thr' = [[thr EXCEPT ![t].is_scheduled = TRUE] EXCEPT ![t].code.jmp = FALSE]
      /\ aborted' = thr[t].is_scheduled
      /\ running' = None /\ sleeping' = sleeping /\ waiters' = waiters /\ rest' = rest
  BY DEF Yield, Scheduled
<1>2. /\ ~thr[t].is_scheduled /\ ~thr[t].waiting_for_event /\ ~thr[t].i_am_waiting
      /\ Placed /\ thr \in [Threads -> ThreadType] /\ thr[t] \in ThreadType /\ TypeOK
  BY <1>1, AtOpcode
<1> DEFINE c == [thr[t].code EXCEPT !.jmp = FALSE]
<1>a. thr[t].code \in CodeType
  BY <1>2 DEF ThreadType
<1>b. c.forks = thr[t].code.forks /\ c.scope = thr[t].code.scope /\ c.joins = thr[t].code.joins
      /\ c.detach = thr[t].code.detach
  BY <1>a DEF CodeType
<1>3. thr'[t] = [thr[t] EXCEPT !.is_scheduled = TRUE, !.code = c]
      /\ \A u \in Threads \ {t} : thr'[u] = thr[u]
  BY <1>1, <1>2 DEF ThreadType
<1> HIDE DEF c
<1>4. /\ thr'[t].status = thr[t].status /\ thr'[t].i_have_ended = thr[t].i_have_ended /\ Idem(t)
      /\ thr'[t].is_scheduled = TRUE /\ thr'[t].waiting_for_event = thr[t].waiting_for_event
      /\ thr'[t].i_am_waiting = thr[t].i_am_waiting /\ thr[t].waiting_for_event \in BOOLEAN
      /\ thr[t].is_scheduled \in BOOLEAN
  <2>1. thr'[t].code = c
    BY <1>2, <1>3 DEF ThreadType
  <2> QED BY <1>2, <1>3, <1>b, <2>1 DEF ThreadType, Idem
<1>5. ~Holds(active, t) /\ ~Holds(<<rest>>, t) /\ t \notin sleeping /\ Once(active)
  BY <1>2 DEF Placed
<1>6. Once(active') /\ \A u : Holds(active', u) <=> Holds(active, u) \/ u = t
  <2>1. <<t>> \in Seq(Threads) /\ DOMAIN <<t>> = {1} /\ <<t>>[1] = t
    OBVIOUS
  <2>2. Once(<<<<t>>>>) /\ \A u : Holds(<<<<t>>>>, u) <=> u = t
    BY <2>1, OneList
  <2>3. active \in Seq(Seq(Threads))
    BY <1>2 DEF TypeOK
  <2>4. active' = Append(active, <<t>>) /\ \A u : ~(Holds(active, u) /\ Holds(<<<<t>>>>, u))
    BY <1>1, <1>5, <2>2
  <2>5. Once(active') /\ \A u : Holds(active', u) <=> Holds(active, u) \/ Holds(<<<<t>>>>, u)
    BY ONLY <1>5, <2>1, <2>2, <2>3, <2>4, AppendHolds
  <2> QED BY <2>2, <2>5
<1>7. Placed'
  BY <1>1, <1>2, <1>3, <1>4, <1>5, <1>6 DEF Placed
<1>8. aborted' = FALSE
  BY <1>1, <1>2, <1>4
<1> QED BY <1>1, <1>2, <1>3, <1>4, <1>7, <1>8, ExactSuspend

\* %event and the like: what waits for the event is scheduled, all of it.
LEMMA ExactTrigger ==
  ASSUME Sound, Exact, ThreadAssumption, ForkAssumption, NEW t \in Threads, NEW e \in Events,
         Trigger(t, e)
  PROVE  aborted' = FALSE /\ Exact'
<1>0. PICK woken : woken = {waiters[e][i] : i \in DOMAIN waiters[e]}
  OBVIOUS
<1>1. /\ AtStatement(t) /\ Runs(t) /\ active' = Append(active, waiters[e])
      /\ waiters' = [waiters EXCEPT ![e] = <<>>]
      /\ sleeping' = sleeping /\ running' = running /\ rest' = rest
      /\ thr' = [u \in Threads |->
            IF u \in woken THEN [thr[u] EXCEPT !.waiting_for_event = FALSE,
                                               !.is_scheduled = TRUE]
            ELSE thr[u]]
      /\ aborted' = ~(\A u \in woken : thr[u].waiting_for_event /\ ~thr[u].is_scheduled)
  BY <1>0 DEF Trigger, AtStatement
<1>2. Placed /\ thr \in [Threads -> ThreadType] /\ TypeOK
  BY <1>1, AtOpcode
<1>3. waiters \in [Events -> Seq(Threads)] /\ active \in Seq(Seq(Threads))
      /\ waiters[e] \in Seq(Threads)
  BY <1>2 DEF TypeOK
<1>4. /\ Once(waiters') /\ Once(<<waiters[e]>>)
      /\ \A u : /\ Holds(waiters, u) <=> Holds(waiters', u) \/ Holds(<<waiters[e]>>, u)
                /\ ~(Holds(waiters', u) /\ Holds(<<waiters[e]>>, u))
  <2>1. Once(waiters)
    BY <1>2 DEF Placed
  <2>2. /\ DOMAIN waiters = Events /\ DOMAIN waiters' = Events /\ waiters'[e] = <<>>
        /\ \A i \in Events : i # e => waiters'[i] = waiters[i]
    BY <1>1, <1>3
  <2> QED BY ONLY <2>1, <2>2, e \in Events, ClearHolds
<1>5. \A u : u \in woken <=> Holds(<<waiters[e]>>, u)
  BY <1>0, OneList
<1>6. woken \subseteq Threads
  BY <1>0, <1>3
<1>7. \A u \in woken : thr[u].waiting_for_event /\ ~thr[u].is_scheduled
  BY <1>2, <1>4, <1>5, <1>6 DEF Placed, Exact, Suspended
<1>8. aborted' = FALSE
  BY <1>1, <1>7
<1>9. Once(active') /\ \A u : Holds(active', u) <=> Holds(active, u) \/ u \in woken
  <2>1. \A u : ~(Holds(active, u) /\ Holds(<<waiters[e]>>, u))
    <3> SUFFICES ASSUME NEW u, Holds(active, u), u \in woken PROVE FALSE
      BY <1>5
    <3> QED BY <1>2, <1>6, <1>7 DEF Placed
  <2>2. Once(active)
    BY <1>2 DEF Placed
  <2>3. Once(active') /\ \A u : Holds(active', u) <=> Holds(active, u) \/ Holds(<<waiters[e]>>, u)
    BY <1>1, <1>3, <1>4, <2>1, <2>2, AppendHolds
  <2> QED BY <1>5, <2>3
<1>10. ASSUME NEW u \in woken
       PROVE  /\ thr'[u].status = thr[u].status /\ thr'[u].i_have_ended = thr[u].i_have_ended
              /\ thr'[u].is_scheduled = TRUE /\ thr'[u].waiting_for_event = FALSE
              /\ thr'[u].i_am_waiting = thr[u].i_am_waiting /\ Idem(u)
  <2>1. u \in Threads /\ thr[u] \in ThreadType
    BY <1>2, <1>6
  <2>2. thr'[u] = [thr[u] EXCEPT !.waiting_for_event = FALSE, !.is_scheduled = TRUE]
    BY <1>1, <2>1
  <2> QED BY <2>1, <2>2 DEF ThreadType, Idem
<1>11. \A u \in Threads \ woken : thr'[u] = thr[u]
  BY <1>1
<1>12. Placed'
  <2>1. Once(active') /\ Once(<<rest'>>) /\ Once(waiters')
    BY <1>1, <1>2, <1>4, <1>9 DEF Placed
  <2>2. ASSUME NEW u \in Threads
        PROVE  /\ thr'[u].is_scheduled <=> Holds(active', u) \/ Holds(<<rest'>>, u) \/ u \in sleeping'
               /\ thr'[u].waiting_for_event <=> Holds(waiters', u)
               /\ ~(Holds(active', u) /\ Holds(<<rest'>>, u))
               /\ u \in sleeping' => ~Holds(active', u) /\ ~Holds(<<rest'>>, u)
    <3>0. /\ thr[u].is_scheduled <=> Holds(active, u) \/ Holds(<<rest>>, u) \/ u \in sleeping
          /\ thr[u].waiting_for_event <=> Holds(waiters, u)
          /\ ~(Holds(active, u) /\ Holds(<<rest>>, u))
          /\ u \in sleeping => ~Holds(active, u) /\ ~Holds(<<rest>>, u)
      BY <1>2 DEF Placed
    <3>1. CASE u \in woken
      BY <1>1, <1>4, <1>5, <1>7, <1>9, <1>10, <3>0, <3>1
    <3>2. CASE u \notin woken
      BY <1>1, <1>4, <1>5, <1>9, <1>11, <3>0, <3>2
    <3> QED BY <3>1, <3>2
  <2> QED BY <2>1, <2>2 DEF Placed
<1>13. EndIsFinal
  BY <1>10, <1>11 DEF EndIsFinal
<1>14. ASSUME NEW u \in woken PROVE Fits(u)'
  <2>1. u \in Threads /\ Suspended(u) /\ (Live(u) /\ ~thr[u].i_have_ended => Statement(u))
    BY <1>6 DEF Exact
  <2>2. Suspended(u)'
    BY <1>1, <1>7, <1>10, <2>1 DEF Suspended, Idem
  <2>3. Live(u) /\ ~thr[u].i_have_ended => Statement(u)'
    BY <1>2, <1>10, <1>13, <2>1, StatementKeeps
  <2> QED BY <1>10, <2>2, <2>3 DEF Fits, Live
<1>15. \A u \in Threads \ woken : Calm(u)
  BY <1>11, StillCalm
<1> QED BY <1>1, <1>2, <1>8, <1>12, <1>13, <1>14, <1>15, ExactStep

-----------------------------------------------------------------------------
(* fork and join.                                                          *)

\* A fork statement begins between two statements, where there are no children.
LEMMA ExactBeginFork ==
  ASSUME Sound, Exact, ThreadAssumption, ForkAssumption, NEW t \in Threads,
         NEW s \in Scopes, NEW n \in 1..MaxFork, NEW j \in 0..MaxFork, BeginFork(t, s, n, j)
  PROVE  aborted' = FALSE /\ Exact'
<1> DEFINE c == [forks |-> n, scope |-> s, joins |-> j, detach |-> n - j,
                 jmp |-> s \in Blocks \ {thr[t].scope} /\ n = 1 /\ j = 1]
<1>1. /\ AtStatement(t) /\ Runs(t) /\ j \in {0, 1, n}
      /\ s \in Tasks /\ j < n => "detach_in_task" \in Features
      /\ thr' = [thr EXCEPT ![t].code = c, ![t].kids = {}, ![t].joined = 0]
      /\ UNCHANGED <<active, sleeping, waiters, running, rest, dis, aborted>>
  BY DEF BeginFork, AtStatement
<1>2. /\ Placed /\ thr \in [Threads -> ThreadType] /\ thr[t] \in ThreadType /\ TypeOK /\ ~aborted
      /\ ~thr[t].i_am_joining /\ thr[t].children = {} /\ thr[t].task_func_children = {}
  BY <1>1, AtOpcode
<1>3. c.forks = n /\ c.scope = s /\ c.joins = j /\ c.detach = n - j
  OBVIOUS
<1> HIDE DEF c
<1>4. thr'[t] = [thr[t] EXCEPT !.code = c, !.kids = {}, !.joined = 0]
      /\ \A u \in Threads \ {t} : thr'[u] = thr[u]
  BY <1>1, <1>2
<1>5. /\ thr'[t].status = thr[t].status /\ thr'[t].i_have_ended = thr[t].i_have_ended
      /\ thr'[t].is_scheduled = thr[t].is_scheduled
      /\ thr'[t].waiting_for_event = thr[t].waiting_for_event
      /\ thr'[t].i_am_joining = thr[t].i_am_joining /\ thr'[t].i_am_waiting = thr[t].i_am_waiting
      /\ thr'[t].children = {} /\ thr'[t].task_func_children = {} /\ thr'[t].kids = {}
      /\ thr'[t].code = c /\ thr'[t].joined = 0
  BY <1>2, <1>4 DEF ThreadType
<1>6. Placed'
  BY <1>1, <1>2, <1>4, <1>5, PlacedSame
<1>7. EndIsFinal
  BY <1>4, <1>5 DEF EndIsFinal
<1>8. Statement(t)'
  <2> DEFINE gone == {u \in {} \ {} : thr'[u].i_have_ended}
  <2>1. Cardinality({}) = 0 /\ gone = {}
    BY FS_EmptySet
  <2>2. n \in Nat /\ j \in Nat /\ j <= n
    BY <1>1 DEF ForkAssumption
  <2>3. Cardinality(thr'[t].children) + thr'[t].code.forks
          = thr'[t].code.joins + thr'[t].code.detach + 0
    BY <1>3, <1>5, <2>1, <2>2
  <2>4. "detach_in_task" \notin Features =>
          (thr'[t].code.scope \in Tasks => thr'[t].code.detach = 0)
    BY <1>1, <1>3, <1>5, <2>2
  <2>5. thr'[t].joined <= Cardinality(gone) + 0
    BY <1>5, <2>1
  <2> QED BY <1>2, <1>5, <2>3, <2>4, <2>5 DEF Statement
<1>9. Fits(t)'
  <2>1. Suspended(t)
    BY DEF Exact
  <2> QED BY <1>1, <1>5, <1>8, <2>1 DEF Fits, Suspended
<1>10. \A u \in Threads \ {t} : Calm(u)
  BY <1>4, StillCalm
<1>11. aborted' = FALSE /\ running' = running
  BY <1>1, <1>2 DEF TypeOK
<1> QED BY <1>2, <1>6, <1>7, <1>9, <1>10, <1>11, ExactStep

\* %fork: the new thread is the only one that is scheduled, and the statement
\* has one more child and one %fork less.
LEMMA ExactFork ==
  ASSUME Sound, Exact, ThreadAssumption, ForkAssumption, NEW t \in Threads, Fork(t)
  PROVE  aborted' = FALSE /\ Exact'
<1>0. /\ Runs(t) /\ thr[t].code.forks > 0
      /\ UNCHANGED <<sleeping, waiters, running, rest, dis, aborted>>
  BY DEF Fork
<1>1. /\ ~thr[t].i_am_joining /\ Statement(t) /\ Placed /\ TypeOK /\ ~aborted /\ Live(t)
      /\ thr \in [Threads -> ThreadType] /\ thr[t] \in ThreadType
      /\ thr[t].children \subseteq Threads /\ thr[t].code \in CodeType
  <2>1. /\ ~thr[t].i_am_joining /\ Statement(t) /\ Placed /\ TypeOK /\ ~aborted /\ Live(t)
        /\ thr \in [Threads -> ThreadType]
    BY <1>0, AtOpcode
  <2>2. thr[t] \in ThreadType
    BY <2>1
  <2> QED BY <2>1, <2>2 DEF ThreadType
<1>2. PICK u \in Threads :
       /\ thr[u].status = "unborn"
       /\ thr' = [thr EXCEPT
            ![u] = [NewThread(thr[t].code.scope) EXCEPT !.parent = t,
                                                        !.is_scheduled = TRUE],
            ![t] = [thr[t] EXCEPT
                      !.children = @ \cup {u},
                      !.task_func_children =
                          IF thr[t].code.scope \in Tasks THEN @ \cup {u} ELSE @,
                      !.code.forks = @ - 1,
                      !.kids = @ \cup {u}]]
       /\ active' = PushFront(u)
  BY DEF Fork
<1>3. /\ u # t /\ ~Live(u) /\ u \notin thr[t].children /\ ~thr[u].i_have_ended
      /\ ~thr[u].is_scheduled /\ ~thr[u].waiting_for_event
  <2>1. u # t /\ ~Live(u)
    BY <1>1, <1>2 DEF Live
  <2>2. \A w \in thr[t].children : Live(w)
    BY <1>1, Parents DEF Sound, KinInv
  <2>3. Suspended(u)
    BY DEF Exact
  <2> QED BY <1>2, <2>1, <2>2, <2>3 DEF Suspended
<1> DEFINE n == [NewThread(thr[t].code.scope) EXCEPT !.parent = t, !.is_scheduled = TRUE]
           s == [thr[t] EXCEPT !.children = @ \cup {u},
                  !.task_func_children = IF thr[t].code.scope \in Tasks THEN @ \cup {u} ELSE @,
                  !.code.forks = @ - 1, !.kids = @ \cup {u}]
<1>4. thr'[u] = n /\ thr'[t] = s /\ \A w \in Threads \ {t, u} : thr'[w] = thr[w]
  BY <1>1, <1>2, <1>3
<1>5. /\ s.status = thr[t].status /\ s.i_have_ended = thr[t].i_have_ended
      /\ s.is_scheduled = thr[t].is_scheduled
      /\ s.waiting_for_event = thr[t].waiting_for_event
      /\ s.i_am_joining = thr[t].i_am_joining /\ s.i_am_waiting = thr[t].i_am_waiting
      /\ s.children = thr[t].children \cup {u} /\ s.kids = thr[t].kids \cup {u}
      /\ s.joined = thr[t].joined
      /\ thr[t].code.scope \notin Tasks => s.task_func_children = thr[t].task_func_children
  BY <1>1 DEF ThreadType
<1>6. /\ s.code.forks = thr[t].code.forks - 1 /\ s.code.scope = thr[t].code.scope
      /\ s.code.joins = thr[t].code.joins /\ s.code.detach = thr[t].code.detach
  BY <1>1 DEF ThreadType, CodeType
<1>7. /\ n.status = "live" /\ ~n.i_have_ended /\ n.is_scheduled /\ n.waiting_for_event = FALSE
      /\ n.i_am_joining = FALSE /\ n.i_am_waiting = FALSE /\ n.children = {} /\ n.kids = {}
      /\ n.task_func_children = {} /\ n.joined = 0 /\ n.code = NoCode
  BY DEF NewThread
<1> HIDE DEF n, s
<1>8. Placed'
  <2>1. /\ thr'[u].is_scheduled /\ thr'[u].waiting_for_event = FALSE
        /\ thr'[t].is_scheduled = thr[t].is_scheduled
        /\ thr'[t].waiting_for_event = thr[t].waiting_for_event
        /\ thr[u].waiting_for_event = FALSE
    <3>1. thr[u] \in ThreadType
      BY <1>1
    <3> QED BY <1>3, <1>4, <1>5, <1>7, <3>1 DEF ThreadType
  <2>2. \A w \in Threads : /\ w # u => thr'[w].is_scheduled = thr[w].is_scheduled
                           /\ thr'[w].waiting_for_event = thr[w].waiting_for_event
    BY <1>4, <2>1
  <2>3. rest' = rest /\ sleeping' = sleeping /\ waiters' = waiters
    BY <1>0
  <2> QED BY <1>1, <1>2, <1>3, <2>1, <2>2, <2>3, PlacedPush
<1>9. EndIsFinal
  BY <1>3, <1>4, <1>5 DEF EndIsFinal
<1>10. Statement(u)'
  <2>1. Cardinality({}) = 0
    BY FS_EmptySet
  <2>2. NoCode.forks = 0 /\ NoCode.joins = 0 /\ NoCode.detach = 0
    BY DEF NoCode
  <2> DEFINE gone == {w \in {} \ {} : thr'[w].i_have_ended}
  <2>3. gone = {}
    OBVIOUS
  <2>4. thr'[u].joined <= Cardinality(gone) + 0
    BY <1>4, <1>7, <2>1, <2>3
  <2> QED BY <1>4, <1>7, <2>1, <2>2, <2>4 DEF Statement
<1>11. Statement(t)'
  <2> DEFINE old == {w \in thr[t].kids \ thr[t].children : thr[w].i_have_ended}
             new == {w \in thr'[t].kids \ thr'[t].children : thr'[w].i_have_ended}
  <2>1. /\ IsFiniteSet(thr[t].children) /\ IsFiniteSet(thr[t].kids)
        /\ Cardinality(thr[t].children) \in Nat
    BY <1>1, FiniteKin
  <2>2. Cardinality(thr'[t].children) = Cardinality(thr[t].children) + 1
    BY <1>3, <1>4, <1>5, <2>1, FS_AddElement
  <2>3. IsFiniteSet(thr[t].kids \cup {u})
    BY <2>1, FS_AddElement
  <2>4. old \subseteq new /\ new \subseteq thr[t].kids \cup {u}
    <3>0. thr[t].kids \subseteq Threads
      BY <1>1 DEF ThreadType
    <3>1. ASSUME NEW w \in old PROVE w \in new
      <4>1. w # u /\ w \in Threads /\ thr'[w].i_have_ended
        BY <1>3, <1>9, <3>0 DEF EndIsFinal
      <4> QED BY <1>4, <1>5, <4>1
    <3> QED BY <1>4, <1>5, <3>1
  <2>5. Cardinality(old) <= Cardinality(new) /\ Cardinality(old) \in Nat /\ Cardinality(new) \in Nat
    <3>1. IsFiniteSet(new) /\ IsFiniteSet(old)
      BY <2>3, <2>4, FS_Subset
    <3> QED BY <2>4, <3>1, FS_Subset, FS_CardinalityType
  <2>6. /\ Cardinality(thr[t].children) + thr[t].code.forks
             = thr[t].code.joins + thr[t].code.detach + 0
        /\ thr[t].children \subseteq thr[t].kids
        /\ thr[t].joined <= Cardinality(old) + 0
        /\ "detach_in_task" \notin Features =>
             /\ thr[t].code.scope \in Tasks => thr[t].code.detach = 0
             /\ thr[t].code.detach > 0 => thr[t].task_func_children = {}
    BY <1>1 DEF Statement
  <2>7. /\ thr[t].joined \in Nat /\ thr[t].code.forks \in Nat /\ thr[t].code.joins \in Nat
        /\ thr[t].code.detach \in Nat
    BY <1>1 DEF ThreadType, CodeType, ForkAssumption
  <2> HIDE DEF old, new
  <2>8. /\ Cardinality(thr'[t].children) + thr'[t].code.forks
             = thr'[t].code.joins + thr'[t].code.detach + 0
        /\ thr'[t].joined <= Cardinality(new) + 0
    BY <1>4, <1>5, <1>6, <2>2, <2>1, <2>5, <2>6, <2>7
  <2>9. "detach_in_task" \notin Features =>
             /\ thr'[t].code.scope \in Tasks => thr'[t].code.detach = 0
             /\ thr'[t].code.detach > 0 => thr'[t].task_func_children = {}
    BY <1>4, <1>5, <1>6, <2>6, <2>7
  <2>10. thr'[t].children \subseteq thr'[t].kids /\ ~thr'[t].i_am_joining
    BY <1>1, <1>4, <1>5, <2>6
  <2> USE DEF new
  <2> QED BY <2>8, <2>9, <2>10 DEF Statement
<1>12. running' = running /\ running = t /\ u # running'
  BY <1>0, <1>3 DEF Runs
<1>13. Fits(u)'
  BY <1>4, <1>7, <1>10, <1>12 DEF Fits, Suspended
<1>14. Fits(t)'
  <2>1. Suspended(t)
    BY DEF Exact
  <2> QED BY <1>4, <1>5, <1>11, <1>12, <2>1 DEF Fits, Suspended
<1>15. \A w \in Threads \ {t, u} : Calm(w)
  BY <1>4, StillCalm
<1>16. aborted' = FALSE
  BY <1>0, <1>1 DEF TypeOK
<1> QED BY <1>1, <1>8, <1>9, <1>12, <1>13, <1>14, <1>15, <1>16, ExactStep

\* A %join takes a child that has ended: the statement has one child less, one
\* more of its threads is gone, and the %join is passed.
LEMMA JoinStatement ==
  ASSUME ThreadAssumption, ForkAssumption, thr \in [Threads -> ThreadType], EndIsFinal,
         NEW p \in Threads, Statement(p), NEW u \in thr[p].children, thr'[u].i_have_ended,
         thr'[p].children = thr[p].children \ {u}, thr'[p].kids = thr[p].kids,
         thr'[p].task_func_children \subseteq thr[p].task_func_children,
         thr'[p].code.forks = thr[p].code.forks, thr'[p].code.scope = thr[p].code.scope,
         thr'[p].code.detach = thr[p].code.detach, ~thr'[p].i_am_joining,
         thr[p].i_am_joining => /\ thr'[p].code.joins = thr[p].code.joins
                                /\ thr'[p].joined = thr[p].joined,
         ~thr[p].i_am_joining => /\ thr'[p].code.joins = thr[p].code.joins - 1
                                 /\ thr'[p].joined = thr[p].joined + 1
  PROVE  Statement(p)'
<1> DEFINE old == {w \in thr[p].kids \ thr[p].children : thr[w].i_have_ended}
           new == {w \in thr'[p].kids \ thr'[p].children : thr'[w].i_have_ended}
           wait == IF thr[p].i_am_joining THEN 1 ELSE 0
<1>1. /\ thr[p] \in ThreadType /\ thr[p].kids \subseteq Threads
      /\ thr[p].code.forks \in Nat /\ thr[p].code.joins \in Nat /\ thr[p].code.detach \in Nat
      /\ thr[p].joined \in Nat /\ thr[p].i_am_joining \in BOOLEAN
  <2>1. thr[p] \in ThreadType
    OBVIOUS
  <2> QED BY <2>1 DEF ThreadType, CodeType, ForkAssumption
<1>2. /\ IsFiniteSet(thr[p].children) /\ IsFiniteSet(thr[p].kids)
      /\ Cardinality(thr[p].children) \in Nat
  BY <1>1, FiniteKin
<1>3. /\ Cardinality(thr[p].children) + thr[p].code.forks
           = thr[p].code.joins + thr[p].code.detach + wait
      /\ thr[p].children \subseteq thr[p].kids
      /\ thr[p].joined <= Cardinality(old) + wait
      /\ "detach_in_task" \notin Features =>
           /\ thr[p].code.scope \in Tasks => thr[p].code.detach = 0
           /\ thr[p].code.detach > 0 => thr[p].task_func_children = {}
  BY DEF Statement
<1>4. Cardinality(thr'[p].children) = Cardinality(thr[p].children) - 1
  BY <1>2, FS_RemoveElement
<1>5. old \cup {u} \subseteq new /\ new \subseteq thr[p].kids /\ u \notin old
  BY <1>1, <1>3 DEF EndIsFinal
<1>6. IsFiniteSet(old) /\ IsFiniteSet(new) /\ IsFiniteSet(old \cup {u})
  <2>1. IsFiniteSet(new)
    BY <1>2, <1>5, FS_Subset
  <2> QED BY <1>5, <2>1, FS_Subset
<1> HIDE DEF old, new
<1>7. Cardinality(old) + 1 <= Cardinality(new) /\ Cardinality(old) \in Nat
      /\ Cardinality(new) \in Nat
  <2>1. Cardinality(old \cup {u}) = Cardinality(old) + 1
    BY <1>5, <1>6, FS_AddElement
  <2> QED BY <1>5, <1>6, <2>1, FS_Subset, FS_CardinalityType
<1>8. /\ Cardinality(thr'[p].children) + thr'[p].code.forks
           = thr'[p].code.joins + thr'[p].code.detach + 0
      /\ thr'[p].joined <= Cardinality(new) + 0
  <2>1. CASE thr[p].i_am_joining
    BY <1>1, <1>2, <1>3, <1>4, <1>7, <2>1
  <2>2. CASE ~thr[p].i_am_joining
    BY <1>1, <1>2, <1>3, <1>4, <1>7, <2>2
  <2> QED BY <2>1, <2>2
<1>9. /\ thr'[p].children \subseteq thr'[p].kids
      /\ "detach_in_task" \notin Features =>
           /\ thr'[p].code.scope \in Tasks => thr'[p].code.detach = 0
           /\ thr'[p].code.detach > 0 => thr'[p].task_func_children = {}
  BY <1>3
<1> USE DEF new
<1> QED BY <1>8, <1>9 DEF Statement

\* What the assertions of vthread_reap ask of a thread that has ended and has no
\* children is what the families guarantee.
LEMMA FamilyReapable ==
  ASSUME Family, ~aborted, NEW t \in Threads, Live(t), thr[t].children = {}
  PROVE  Reapable(thr, t)
  BY DEF Family, Reapable

\* %join of a child that has ended.
LEMMA ExactJoinZombie ==
  ASSUME Sound, Exact, ThreadAssumption, ForkAssumption, NEW t \in Threads, JoinZombie(t)
  PROVE  aborted' = FALSE /\ Exact'
<1>0. /\ Runs(t) /\ thr[t].code.joins > 0
      /\ UNCHANGED <<active, sleeping, waiters, running, rest, dis>>
  BY DEF JoinZombie
<1>1. /\ ~thr[t].i_am_joining /\ Statement(t) /\ Placed /\ TypeOK /\ ~aborted /\ Live(t)
      /\ thr \in [Threads -> ThreadType] /\ thr[t] \in ThreadType /\ running = t
      /\ Departed /\ Family /\ Rooted /\ Counted
  BY <1>0, AtOpcode DEF Sound, KinInv
<1>2. PICK u \in thr[t].children :
         /\ thr[u].i_have_ended /\ Joinable(thr, t, u)
         /\ thr' = [DoJoin(thr, t, u) EXCEPT ![t].code.joins = @ - 1,
                                           ![t].code.jmp = FALSE,
                                           ![t].joined = @ + 1]
         /\ aborted' = (thr[t].i_am_joining \/ ~Reapable(thr, u))
  BY DEF JoinZombie
<1>3. /\ u \in Threads /\ Live(u) /\ thr[u].parent = t /\ ~thr[u].i_am_detached /\ u # t
      /\ thr[u].children = {} /\ u \notin thr[u].detached_children
      /\ t \notin thr[u].detached_children /\ thr[u] \in ThreadType
  <2>1. u \in Threads /\ Live(u) /\ u # t
    BY <1>1, Parents
  <2>2. thr[u].parent = t /\ ~thr[u].i_am_detached
    BY <1>1 DEF Family
  <2>3. thr[u].children = {}
    BY <1>0, <1>2, <2>1, AtRun
  <2> QED BY <1>1, <2>1, <2>2, <2>3, Parents
<1>4. aborted' = FALSE
  BY <1>1, <1>2, <1>3, FamilyReapable
<1> DEFINE R == DoJoin(thr, t, u)
           s == [R[t] EXCEPT !.code.joins = @ - 1, !.code.jmp = FALSE, !.joined = @ + 1]
<1>5. JoinedIn(thr, t, u, R)
  BY <1>1, <1>3, JoinEffect
<1> HIDE DEF R
<1>6. /\ R \in [Threads -> ThreadType] /\ Alike(R[t], thr[t]) /\ R[t] \in ThreadType
      /\ R[t].children = thr[t].children \ {u}
      /\ R[t].task_func_children = thr[t].task_func_children \ {u}
  BY <1>3, <1>5 DEF JoinedIn
<1>7. thr'[t] = s /\ \A w \in Threads \ {t} : thr'[w] = R[w]
  BY <1>2, <1>6 DEF R
<1>8. /\ s.status = R[t].status /\ s.i_have_ended = R[t].i_have_ended
      /\ s.i_am_joining = R[t].i_am_joining /\ s.i_am_waiting = R[t].i_am_waiting
      /\ s.waiting_for_event = R[t].waiting_for_event /\ s.is_scheduled = R[t].is_scheduled
      /\ s.children = R[t].children /\ s.task_func_children = R[t].task_func_children
      /\ s.kids = R[t].kids /\ s.joined = R[t].joined + 1
  BY <1>6 DEF ThreadType
<1>9. /\ s.code.forks = R[t].code.forks /\ s.code.scope = R[t].code.scope
      /\ s.code.joins = R[t].code.joins - 1 /\ s.code.detach = R[t].code.detach
  BY <1>6 DEF ThreadType, CodeType
<1> HIDE DEF s
<1>10. ASSUME NEW w \in Threads \ {t}
       PROVE  /\ thr'[w].is_scheduled = thr[w].is_scheduled
              /\ thr'[w].waiting_for_event = thr[w].waiting_for_event
              /\ thr'[w].i_have_ended = thr[w].i_have_ended /\ Calm(w)
  <2>0. Suspended(w)
    BY DEF Exact
  <2>1. CASE w = u
    <3>1. /\ thr'[w].is_scheduled = thr[w].is_scheduled
          /\ thr'[w].waiting_for_event = thr[w].waiting_for_event
          /\ thr'[w].i_have_ended = thr[w].i_have_ended
          /\ thr'[w].i_am_joining = thr[w].i_am_joining
          /\ thr'[w].i_am_waiting = thr[w].i_am_waiting
          /\ thr'[w].status = IF ~thr[w].is_scheduled /\ ~thr[w].waiting_for_event
                              THEN "deleted" ELSE "reaped"
      BY <1>5, <1>7, <2>1 DEF JoinedIn
    <3>2. thr'[w].i_have_ended
      BY <1>2, <2>1, <3>1
    <3>3. thr'[w].status # "unborn"
      BY <3>1
    <3> QED BY <3>1, <3>2, <3>3 DEF Calm
  <2>2. CASE w # u
    <3>1. /\ Alike(thr'[w], thr[w]) /\ thr'[w].children = thr[w].children
          /\ thr'[w].task_func_children = thr[w].task_func_children
      BY <1>5, <1>7, <2>2 DEF JoinedIn
    <3> QED BY <2>0, <3>1 DEF Alike, Calm, Idem, Suspended
  <2> QED BY <2>1, <2>2
<1>11. /\ thr'[t].status = thr[t].status /\ thr'[t].i_have_ended = thr[t].i_have_ended
       /\ thr'[t].i_am_joining = thr[t].i_am_joining /\ thr'[t].i_am_waiting = thr[t].i_am_waiting
       /\ thr'[t].waiting_for_event = thr[t].waiting_for_event
       /\ thr'[t].is_scheduled = thr[t].is_scheduled
       /\ thr'[t].children = thr[t].children \ {u} /\ thr'[t].kids = thr[t].kids
       /\ thr'[t].task_func_children \subseteq thr[t].task_func_children
       /\ thr'[t].joined = thr[t].joined + 1
       /\ thr'[t].code.forks = thr[t].code.forks /\ thr'[t].code.scope = thr[t].code.scope
       /\ thr'[t].code.joins = thr[t].code.joins - 1 /\ thr'[t].code.detach = thr[t].code.detach
  BY <1>6, <1>7, <1>8, <1>9 DEF Alike
<1>12. Placed'
  <2>1. active' = active /\ rest' = rest /\ sleeping' = sleeping /\ waiters' = waiters
    BY <1>0
  <2> QED BY <1>1, <1>10, <1>11, <2>1, PlacedSame
<1>13. EndIsFinal
  BY <1>10, <1>11 DEF EndIsFinal
<1>14. Statement(t)'
  <2>1. thr'[u].i_have_ended
    BY <1>2, <1>3, <1>10
  <2> QED BY <1>1, <1>11, <1>13, <2>1, JoinStatement
<1>15. Fits(t)'
  <2>1. Suspended(t) /\ running' = running
    BY <1>0 DEF Exact
  <2> QED BY <1>11, <1>14, <2>1 DEF Fits, Suspended
<1>16. running' = running
  BY <1>0
<1> QED BY <1>1, <1>4, <1>10, <1>12, <1>13, <1>15, <1>16, ExactStep

\* %join when none has ended: there is a child to wait for.
LEMMA ExactJoinWait ==
  ASSUME Sound, Exact, ThreadAssumption, ForkAssumption, NEW t \in Threads, JoinWait(t)
  PROVE  aborted' = FALSE /\ Exact'
<1>0. /\ Runs(t) /\ thr[t].code.forks = 0 /\ thr[t].code.joins > 0
      /\ thr' = [thr EXCEPT ![t].i_am_joining = TRUE, ![t].code.joins = @ - 1,
                            ![t].code.jmp = FALSE, ![t].joined = @ + 1]
      /\ aborted' = (thr[t].i_am_joining \/ thr[t].children = {})
      /\ running' = None /\ UNCHANGED <<active, sleeping, waiters, rest, dis>>
  BY DEF JoinWait
<1>1. /\ ~thr[t].i_am_joining /\ ~thr[t].i_am_waiting /\ Statement(t) /\ Placed /\ Live(t)
      /\ ~thr[t].is_scheduled /\ ~thr[t].waiting_for_event
      /\ thr \in [Threads -> ThreadType] /\ thr[t] \in ThreadType /\ running = t
  BY <1>0, AtOpcode
<1> DEFINE s == [thr[t] EXCEPT !.i_am_joining = TRUE, !.code.joins = @ - 1,
                               !.code.jmp = FALSE, !.joined = @ + 1]
<1>2. thr'[t] = s /\ \A w \in Threads \ {t} : thr'[w] = thr[w]
  BY <1>0, <1>1
<1>3. /\ s.status = thr[t].status /\ s.i_have_ended = thr[t].i_have_ended
      /\ s.i_am_joining = TRUE /\ s.i_am_waiting = thr[t].i_am_waiting
      /\ s.waiting_for_event = thr[t].waiting_for_event /\ s.is_scheduled = thr[t].is_scheduled
      /\ s.children = thr[t].children /\ s.task_func_children = thr[t].task_func_children
      /\ s.kids = thr[t].kids /\ s.joined = thr[t].joined + 1
  BY <1>1 DEF ThreadType
<1>4. /\ s.code.forks = thr[t].code.forks /\ s.code.scope = thr[t].code.scope
      /\ s.code.joins = thr[t].code.joins - 1 /\ s.code.detach = thr[t].code.detach
  BY <1>1 DEF ThreadType, CodeType
<1> HIDE DEF s
<1> DEFINE old == {w \in thr[t].kids \ thr[t].children : thr[w].i_have_ended}
           new == {w \in thr'[t].kids \ thr'[t].children : thr'[w].i_have_ended}
<1>5. /\ Cardinality(thr[t].children) + thr[t].code.forks
           = thr[t].code.joins + thr[t].code.detach + 0
      /\ thr[t].children \subseteq thr[t].kids
      /\ thr[t].joined <= Cardinality(old) + 0
      /\ "detach_in_task" \notin Features =>
           /\ thr[t].code.scope \in Tasks => thr[t].code.detach = 0
           /\ thr[t].code.detach > 0 => thr[t].task_func_children = {}
  BY <1>1 DEF Statement
<1>6. /\ thr[t].code.joins \in Nat /\ thr[t].code.detach \in Nat /\ thr[t].joined \in Nat
      /\ Cardinality(thr[t].children) \in Nat /\ IsFiniteSet(thr[t].kids)
      /\ thr[t].kids \subseteq Threads /\ thr[t].code.forks \in Nat
  <2>1. IsFiniteSet(thr[t].kids) /\ Cardinality(thr[t].children) \in Nat
    BY <1>1, FiniteKin
  <2> QED BY <1>1, <2>1 DEF ThreadType, CodeType, ForkAssumption
<1>7. thr[t].children # {}
  <2>1. Cardinality({}) = 0
    BY FS_EmptySet
  <2>2. Cardinality(thr[t].children) # 0
    BY <1>0, <1>5, <1>6
  <2> QED BY <2>1, <2>2
<1>8. aborted' = FALSE
  BY <1>0, <1>1, <1>7
<1>9. EndIsFinal
  BY <1>2, <1>3 DEF EndIsFinal
<1>10. new = old /\ old \subseteq thr[t].kids
  BY <1>2, <1>3, <1>6
<1>11. Cardinality(old) \in Nat
  BY <1>6, <1>10, FS_Subset, FS_CardinalityType
<1> HIDE DEF old, new
<1>12. /\ Cardinality(thr'[t].children) + thr'[t].code.forks
            = thr'[t].code.joins + thr'[t].code.detach + 1
       /\ thr'[t].joined <= Cardinality(new) + 1
  BY <1>2, <1>3, <1>4, <1>5, <1>6, <1>10, <1>11
<1>13. Statement(t)'
  <2>1. /\ thr'[t].i_am_joining /\ thr'[t].children \subseteq thr'[t].kids
        /\ "detach_in_task" \notin Features =>
             /\ thr'[t].code.scope \in Tasks => thr'[t].code.detach = 0
             /\ thr'[t].code.detach > 0 => thr'[t].task_func_children = {}
    BY <1>2, <1>3, <1>4, <1>5
  <2> USE DEF new
  <2> QED BY <1>12, <2>1 DEF Statement
<1>14. Placed'
  <2>1. \A u \in Threads : /\ thr'[u].is_scheduled = thr[u].is_scheduled
                           /\ thr'[u].waiting_for_event = thr[u].waiting_for_event
    BY <1>2, <1>3
  <2>2. active' = active /\ rest' = rest /\ sleeping' = sleeping /\ waiters' = waiters
    BY <1>0
  <2> QED BY <1>1, <2>1, <2>2, PlacedSame
<1>15. Fits(t)'
  <2>1. t # running' /\ thr[t].status = "live"
    BY <1>0, <1>1 DEF ThreadAssumption, Live
  <2> QED BY <1>1, <1>2, <1>3, <1>13, <2>1 DEF Fits, Suspended
<1>16. \A w \in Threads \ {t} : Calm(w) /\ w # running'
  BY <1>0, <1>2, StillCalm DEF ThreadAssumption
<1> QED BY <1>1, <1>8, <1>9, <1>14, <1>15, <1>16, ExactStep

\* A thread that keeps its children and its statement, and one that is reaped.
LEMMA AlikeCalm ==
  ASSUME Exact, NEW w \in Threads, Alike(thr'[w], thr[w]), thr'[w].children = thr[w].children,
         thr'[w].task_func_children = thr[w].task_func_children
  PROVE  /\ Calm(w) /\ thr'[w].i_have_ended = thr[w].i_have_ended
         /\ thr'[w].is_scheduled = thr[w].is_scheduled
         /\ thr'[w].waiting_for_event = thr[w].waiting_for_event
<1>1. Suspended(w)
  BY DEF Exact
<1> QED BY <1>1 DEF Alike, Calm, Idem, Suspended

LEMMA GoneCalm ==
  ASSUME NEW w \in Threads, thr'[w].i_have_ended,
         thr'[w].is_scheduled = thr[w].is_scheduled,
         thr'[w].waiting_for_event = thr[w].waiting_for_event,
         thr'[w].i_am_joining = thr[w].i_am_joining, thr'[w].i_am_waiting = thr[w].i_am_waiting,
         thr'[w].status = IF ~thr[w].is_scheduled /\ ~thr[w].waiting_for_event
                          THEN "deleted" ELSE "reaped"
  PROVE  Calm(w)
  BY DEF Calm

\* %join/detach: there are as many children left as it expects, and none is a task.
LEMMA ExactJoinDetach ==
  ASSUME Sound, Exact, ThreadAssumption, ForkAssumption, NEW t \in Threads, JoinDetach(t)
  PROVE  Exact' /\ ("detach_in_task" \notin Features => aborted' = FALSE)
<1> DEFINE dead == {u \in thr[t].children : thr[u].i_have_ended}
<1>0. \A u : u \in dead <=> u \in thr[t].children /\ thr[u].i_have_ended
  OBVIOUS
<1>1. /\ Runs(t) /\ thr[t].code.forks = 0 /\ thr[t].code.joins = 0 /\ thr[t].code.detach > 0
      /\ UNCHANGED <<active, sleeping, waiters, running, rest, dis>>
      /\ aborted' = ~(/\ thr[t].task_func_children = {}
                      /\ Cardinality(thr[t].children) = thr[t].code.detach
                      /\ \A u \in dead : Reapable(thr, u))
  BY Zenon DEF JoinDetach
<1>2. /\ ~thr[t].i_am_joining /\ Statement(t) /\ Placed /\ TypeOK /\ ~aborted /\ Live(t)
      /\ thr \in [Threads -> ThreadType] /\ thr[t] \in ThreadType /\ running = t
      /\ Departed /\ Family /\ Rooted
  BY <1>1, AtOpcode DEF Sound, KinInv
<1>3. \A u \in thr[t].children : u \in Threads /\ Live(u) /\ u # t
  BY <1>2, Parents
<1>4. dead \subseteq thr[t].children /\ t \notin dead /\ t \notin thr[t].children
      /\ dead \subseteq Threads
  BY <1>0, <1>3
<1> DEFINE
   alive == thr[t].children \ dead
   freed(u) == \E d \in dead : u \in thr[d].detached_children
   s == [thr[t] EXCEPT !.children = {}, !.detached_children = @ \cup alive, !.code.detach = 0]
   g(u) == [thr[u] EXCEPT !.parent = None, !.in_scope = FALSE,
              !.status = IF ~thr[u].is_scheduled /\ ~thr[u].waiting_for_event
                         THEN "deleted" ELSE "reaped"]
   l(u) == [thr[u] EXCEPT !.i_am_detached = TRUE]
   o(u) == [thr[u] EXCEPT !.parent = None, !.i_am_detached = FALSE]
<1>5. thr' = [u \in Threads |->
            CASE u = t -> s
              [] u \in dead -> g(u)
              [] u \in alive -> l(u)
              [] freed(u) -> o(u)
              [] OTHER -> thr[u]]
  BY Zenon DEF JoinDetach
<1>a. ASSUME NEW u \in Threads, freed(u) PROVE u # t /\ u \notin thr[t].children
  <2>1. PICK d \in dead : u \in thr[d].detached_children
    BY <1>a
  <2>2. d \in Threads /\ Live(d) /\ thr[d].parent = t /\ d # t
    BY <1>2, <1>3, <1>4 DEF Family
  <2>3. u # t
    BY <1>2, <2>1, <2>2, Parents
  <2>4. thr[u].parent = d
    BY <1>2, <2>1, <2>2 DEF Family
  <2>5. u \in thr[t].children => thr[u].parent = t
    BY <1>2 DEF Family
  <2> QED BY <2>2, <2>3, <2>4, <2>5
<1>b. \A u \in Threads : u \in alive => u # t /\ u \notin dead
  BY <1>4
<1>c. alive \subseteq thr[t].children
  OBVIOUS
<1> HIDE DEF s, g, l, o, freed, alive, dead
<1>6. thr'[t] = s
  BY <1>4, <1>5, <1>a, <1>b
<1>7. \A u \in dead : thr'[u] = g(u)
  BY <1>4, <1>5, <1>a, <1>b
<1>8. \A u \in Threads \ (dead \cup {t}) : thr'[u] \in {l(u), o(u), thr[u]}
  BY <1>5, <1>a, <1>b, <1>c
<1> USE DEF s
<1>9. /\ s.status = thr[t].status /\ s.i_have_ended = thr[t].i_have_ended
      /\ s.i_am_joining = thr[t].i_am_joining /\ s.i_am_waiting = thr[t].i_am_waiting
      /\ s.waiting_for_event = thr[t].waiting_for_event /\ s.is_scheduled = thr[t].is_scheduled
      /\ s.children = {} /\ s.kids = thr[t].kids /\ s.joined = thr[t].joined
  BY <1>2 DEF ThreadType
<1>10. /\ s.code.forks = thr[t].code.forks /\ s.code.scope = thr[t].code.scope
       /\ s.code.joins = thr[t].code.joins /\ s.code.detach = 0
  BY <1>2 DEF ThreadType, CodeType
<1> HIDE DEF s
<1>11. ASSUME NEW u \in Threads \ {t}
       PROVE  /\ thr'[u].is_scheduled = thr[u].is_scheduled
              /\ thr'[u].waiting_for_event = thr[u].waiting_for_event
              /\ thr'[u].i_have_ended = thr[u].i_have_ended /\ Calm(u)
  <2>0. thr[u] \in ThreadType
    BY <1>2
  <2>1. CASE u \in dead
    <3>1. thr'[u] = g(u) /\ thr[u].i_have_ended
      BY <1>0, <1>7, <2>1
    <3>2. /\ thr'[u].is_scheduled = thr[u].is_scheduled
          /\ thr'[u].waiting_for_event = thr[u].waiting_for_event
          /\ thr'[u].i_have_ended = thr[u].i_have_ended
          /\ thr'[u].i_am_joining = thr[u].i_am_joining
          /\ thr'[u].i_am_waiting = thr[u].i_am_waiting
          /\ thr'[u].status = IF ~thr[u].is_scheduled /\ ~thr[u].waiting_for_event
                              THEN "deleted" ELSE "reaped"
      BY <2>0, <3>1 DEF g, ThreadType
    <3> QED BY <3>1, <3>2, GoneCalm
  <2>2. CASE u \notin dead
    <3>1. thr'[u] \in {l(u), o(u), thr[u]}
      BY <1>8, <2>2
    <3>2. /\ Alike(thr'[u], thr[u]) /\ thr'[u].children = thr[u].children
          /\ thr'[u].task_func_children = thr[u].task_func_children
      <4>1. CASE thr'[u] = thr[u]
        BY <4>1 DEF Alike
      <4>2. CASE thr'[u] = l(u)
        BY <2>0, <4>2 DEF l, Alike, ThreadType
      <4>3. CASE thr'[u] = o(u)
        BY <2>0, <4>3 DEF o, Alike, ThreadType
      <4> QED BY <3>1, <4>1, <4>2, <4>3
    <3> QED BY <3>2, AlikeCalm
  <2> QED BY <2>1, <2>2
<1>12. EndIsFinal
  BY <1>6, <1>9, <1>11 DEF EndIsFinal
<1>13. Placed'
  <2>1. active' = active /\ rest' = rest /\ sleeping' = sleeping /\ waiters' = waiters
    BY <1>1
  <2>2. \A u \in Threads : /\ thr'[u].is_scheduled = thr[u].is_scheduled
                           /\ thr'[u].waiting_for_event = thr[u].waiting_for_event
    BY <1>6, <1>9, <1>11
  <2> QED BY <1>2, <2>1, <2>2, PlacedSame
<1> DEFINE old == {w \in thr[t].kids \ thr[t].children : thr[w].i_have_ended}
           new == {w \in thr'[t].kids \ thr'[t].children : thr'[w].i_have_ended}
<1>14. /\ Cardinality(thr[t].children) + thr[t].code.forks
            = thr[t].code.joins + thr[t].code.detach + 0
       /\ thr[t].joined <= Cardinality(old) + 0
       /\ "detach_in_task" \notin Features =>
            (thr[t].code.detach > 0 => thr[t].task_func_children = {})
  BY <1>2 DEF Statement
<1>15. /\ thr[t].code.detach \in Nat /\ thr[t].joined \in Nat
       /\ Cardinality(thr[t].children) \in Nat /\ IsFiniteSet(thr[t].kids)
       /\ thr[t].kids \subseteq Threads
  <2>1. IsFiniteSet(thr[t].kids) /\ Cardinality(thr[t].children) \in Nat
    BY <1>2, FiniteKin
  <2> QED BY <1>2, <2>1 DEF ThreadType, CodeType, ForkAssumption
<1>16. Statement(t)'
  <2>1. old \subseteq new /\ new \subseteq thr[t].kids
    BY <1>6, <1>9, <1>12, <1>15 DEF EndIsFinal
  <2>2. IsFiniteSet(new) /\ IsFiniteSet(old)
    BY <1>15, <2>1, FS_Subset
  <2>3. Cardinality(old) <= Cardinality(new) /\ Cardinality(old) \in Nat /\ Cardinality(new) \in Nat
    BY <2>1, <2>2, FS_Subset, FS_CardinalityType
  <2> HIDE DEF old, new
  <2>4. Cardinality({}) = 0
    BY FS_EmptySet
  <2>5. /\ thr'[t].joined <= Cardinality(new) + 0
        /\ Cardinality(thr'[t].children) + thr'[t].code.forks
             = thr'[t].code.joins + thr'[t].code.detach + 0
    BY <1>1, <1>6, <1>9, <1>10, <1>14, <1>15, <2>3, <2>4
  <2>6. ~thr'[t].i_am_joining /\ thr'[t].children = {} /\ thr'[t].code.detach = 0
    BY <1>2, <1>6, <1>9, <1>10
  <2> USE DEF new
  <2> QED BY <2>5, <2>6 DEF Statement
<1>17. Fits(t)'
  <2>1. Suspended(t) /\ running' = running
    BY <1>1 DEF Exact
  <2> QED BY <1>6, <1>9, <1>16, <2>1 DEF Fits, Suspended
<1>18. ASSUME "detach_in_task" \notin Features PROVE aborted' = FALSE
  <2>1. \A u \in dead : Reapable(thr, u)
    <3> SUFFICES ASSUME NEW u \in dead PROVE Reapable(thr, u)
      OBVIOUS
    <3>1. u \in Threads /\ Live(u) /\ thr[u].i_have_ended
      BY <1>0, <1>3
    <3>2. thr[u].children = {}
      BY <1>1, <3>1, AtRun
    <3> QED BY <1>2, <3>1, <3>2, FamilyReapable
  <2>2. Cardinality(thr[t].children) = thr[t].code.detach
    BY <1>1, <1>14, <1>15
  <2>3. thr[t].task_func_children = {}
    BY <1>1, <1>14, <1>18
  <2> QED BY <1>1, <2>1, <2>2, <2>3
<1>19. running' = running
  BY <1>1
<1>20. Exact'
  BY <1>2, <1>11, <1>12, <1>13, <1>17, <1>19, ExactStep
<1> QED BY <1>18, <1>20, Zenon

-----------------------------------------------------------------------------
(* %end.                                                                   *)

LEMMA AlikeTrans ==
  ASSUME NEW a, NEW b, NEW c, Alike(a, b), Alike(b, c)
  PROVE  Alike(a, c)
  BY DEF Alike

\* The assertions of of_END hold, and those of vthread_reap when it is called.
LEMMA EndHolds ==
  ASSUME Sound, Exact, ThreadAssumption, ForkAssumption, NEW t \in Threads, AtStatement(t)
  PROVE  /\ EndAsserts(t) /\ Reapable(Released(thr, t), t)
         /\ thr[t].children = {} /\ ~thr[t].i_have_ended
<1> DEFINE L == Released(thr, t)
           p == thr[t].parent
<1>1. /\ Live(t) /\ Family /\ ~aborted /\ Runs(t) /\ ReleasedIn(thr, t, L)
      /\ p # None => p \in Threads /\ p # t
  BY AtEnd
<1>2. thr[t].children = {} /\ ~thr[t].waiting_for_event /\ ~thr[t].i_have_ended
  BY <1>1, AtOpcode
<1> HIDE DEF L, p
<1>3. EndAsserts(t)
  BY <1>1, <1>2 DEF Family, EndAsserts
<1>4. L[t].children = {} /\ L[t].detached_children = {} /\ L[t].parent = p
      /\ L[t].i_am_detached = thr[t].i_am_detached
  BY <1>1, <1>2 DEF ReleasedIn, p
<1>5. p # None => t \in Siblings(L, t)
  <2> SUFFICES ASSUME p # None PROVE t \in Siblings(L, t)
    OBVIOUS
  <2>1. t \in Siblings(thr, t)
    BY <1>1 DEF Family, p
  <2>2. L[p].children = thr[p].children /\ L[p].detached_children = thr[p].detached_children
    BY <1>1 DEF ReleasedIn
  <2> QED BY <1>4, <2>1, <2>2 DEF Siblings, p
<1>6. Reapable(L, t)
  BY <1>4, <1>5 DEF Reapable
<1> QED BY <1>2, <1>3, <1>6 DEF L

\* A thread that has ended, without a change to the others.
LEMMA ExactEnds ==
  ASSUME Sound, Exact, ThreadAssumption, ForkAssumption, NEW t \in Threads, Calm(t),
         thr'[t].i_have_ended, thr'[t].is_scheduled = thr[t].is_scheduled,
         thr'[t].waiting_for_event = thr[t].waiting_for_event,
         \A u \in Threads \ {t} : /\ Alike(thr'[u], thr[u]) /\ thr'[u].children = thr[u].children
                                  /\ thr'[u].task_func_children = thr[u].task_func_children,
         running' = running \/ running' = None, UNCHANGED <<active, rest, sleeping, waiters>>
  PROVE  Exact'
<1>1. thr \in [Threads -> ThreadType] /\ Placed
  BY DEF Sound, TypeOK, Exact
<1>2. \A u \in Threads \ {t} : /\ Calm(u) /\ thr'[u].i_have_ended = thr[u].i_have_ended
                               /\ thr'[u].is_scheduled = thr[u].is_scheduled
                               /\ thr'[u].waiting_for_event = thr[u].waiting_for_event
  BY AlikeCalm
<1>3. Placed'
  BY <1>1, <1>2, PlacedSame
<1>4. EndIsFinal
  BY <1>2 DEF EndIsFinal
<1>5. \A u \in Threads : u = running' => u = running
  BY DEF ThreadAssumption
<1> QED BY <1>1, <1>2, <1>3, <1>4, <1>5, ExactStep

\* %end of a child whose parent does not wait for it.
LEMMA ExactEndZombie ==
  ASSUME Sound, Exact, ThreadAssumption, ForkAssumption, NEW t \in Threads, EndZombie(t)
  PROVE  aborted' = FALSE /\ Exact'
<1>1. /\ AtStatement(t) /\ thr' = Released(thr, t) /\ aborted' = ~EndAsserts(t)
      /\ running' = None /\ UNCHANGED <<active, sleeping, waiters, rest, dis>>
  BY DEF EndZombie
<1>2. aborted' = FALSE
  BY <1>1, EndHolds
<1>3. ReleasedIn(thr, t, thr') /\ Live(t)
  BY <1>1, AtEnd
<1>4. /\ thr'[t].i_have_ended /\ thr'[t].is_scheduled = thr[t].is_scheduled
      /\ thr'[t].waiting_for_event = thr[t].waiting_for_event
      /\ thr'[t].i_am_joining = thr[t].i_am_joining /\ thr'[t].i_am_waiting = thr[t].i_am_waiting
      /\ thr'[t].status = "live"
  BY <1>3 DEF ReleasedIn, Live
<1>5. Calm(t)
  BY <1>4 DEF Calm
<1>6. \A u \in Threads \ {t} : /\ Alike(thr'[u], thr[u]) /\ thr'[u].children = thr[u].children
                               /\ thr'[u].task_func_children = thr[u].task_func_children
  BY <1>3 DEF ReleasedIn
<1>7. active' = active /\ rest' = rest /\ sleeping' = sleeping /\ waiters' = waiters
  BY <1>1
<1> QED BY <1>1, <1>2, <1>4, <1>5, <1>6, <1>7, ExactEnds

\* %end of a thread that has no parent.
LEMMA ExactEndAlone ==
  ASSUME Sound, Exact, ThreadAssumption, ForkAssumption, NEW t \in Threads, EndAlone(t)
  PROVE  aborted' = FALSE /\ Exact'
<1> DEFINE L == Released(thr, t)
<1>0. /\ AtStatement(t) /\ thr[t].parent = None /\ thr' = Reap(L, t)
      /\ aborted' = ~(EndAsserts(t) /\ Reapable(L, t))
      /\ running' = None /\ UNCHANGED <<active, sleeping, waiters, rest, dis>>
  BY DEF EndAlone
<1>1. aborted' = FALSE /\ thr[t].children = {}
  BY <1>0, EndHolds
<1>2. ReleasedIn(thr, t, L) /\ Live(t)
  BY <1>0, AtEnd
<1> HIDE DEF L
<1>3. /\ L \in [Threads -> ThreadType] /\ L[t].children = {} /\ L[t].parent = None
      /\ L[t].detached_children = {}
  BY <1>0, <1>1, <1>2 DEF ReleasedIn
<1>4. ReapedIn(L, t, thr')
  BY <1>0, <1>3, ReapEffect DEF ThreadAssumption
<1>5. /\ thr'[t].i_have_ended /\ thr'[t].is_scheduled = thr[t].is_scheduled
      /\ thr'[t].waiting_for_event = thr[t].waiting_for_event
      /\ thr'[t].i_am_joining = thr[t].i_am_joining /\ thr'[t].i_am_waiting = thr[t].i_am_waiting
      /\ thr'[t].status = IF ~thr[t].is_scheduled /\ ~thr[t].waiting_for_event
                          THEN "deleted" ELSE "reaped"
  BY <1>2, <1>4 DEF ReapedIn, ReleasedIn
<1>6. Calm(t)
  BY <1>5, GoneCalm
<1>7. ASSUME NEW u \in Threads \ {t}
      PROVE  /\ Alike(thr'[u], thr[u]) /\ thr'[u].children = thr[u].children
             /\ thr'[u].task_func_children = thr[u].task_func_children
  <2>1. /\ Alike(thr'[u], L[u]) /\ thr'[u].children = L[u].children
        /\ thr'[u].task_func_children = L[u].task_func_children
    BY <1>3, <1>4 DEF ReapedIn, ThreadAssumption
  <2>2. /\ Alike(L[u], thr[u]) /\ L[u].children = thr[u].children
        /\ L[u].task_func_children = thr[u].task_func_children
    BY <1>2 DEF ReleasedIn
  <2> QED BY <2>1, <2>2, AlikeTrans
<1>8. active' = active /\ rest' = rest /\ sleeping' = sleeping /\ waiters' = waiters
  BY <1>0
<1> QED BY <1>0, <1>1, <1>5, <1>6, <1>7, <1>8, ExactEnds

\* A parent in a %join that a child wakes up: it is scheduled, and past the %join.
LEMMA ExactWakes ==
  ASSUME Sound, Exact, ThreadAssumption, ForkAssumption, NEW t \in Threads, NEW p \in Threads,
         p # t, t \in thr[p].children, thr[p].i_am_joining, Live(p), ~thr[p].i_have_ended,
         Calm(t), thr'[t].i_have_ended, thr'[t].is_scheduled = thr[t].is_scheduled,
         thr'[t].waiting_for_event = thr[t].waiting_for_event,
         \A u \in Threads \ {t, p} : /\ Alike(thr'[u], thr[u]) /\ thr'[u].children = thr[u].children
                                     /\ thr'[u].task_func_children = thr[u].task_func_children,
         thr'[p].status = thr[p].status, thr'[p].i_have_ended = thr[p].i_have_ended,
         thr'[p].is_scheduled, ~thr'[p].i_am_joining,
         thr'[p].i_am_waiting = thr[p].i_am_waiting,
         thr'[p].waiting_for_event = thr[p].waiting_for_event,
         thr'[p].children = thr[p].children \ {t}, thr'[p].kids = thr[p].kids,
         thr'[p].task_func_children = thr[p].task_func_children \ {t},
         thr'[p].code = thr[p].code, thr'[p].joined = thr[p].joined,
         active' = PushFront(p), UNCHANGED <<rest, sleeping, waiters>>,
         running' = running \/ running' = None
  PROVE  Exact'
<1>1. thr \in [Threads -> ThreadType] /\ Placed /\ TypeOK /\ Suspended(p) /\ Statement(p)
  BY DEF Sound, TypeOK, Exact
<1>2. \A u \in Threads \ {t, p} : /\ Calm(u) /\ thr'[u].i_have_ended = thr[u].i_have_ended
                                  /\ thr'[u].is_scheduled = thr[u].is_scheduled
                                  /\ thr'[u].waiting_for_event = thr[u].waiting_for_event
  BY AlikeCalm
<1>3. ~thr[p].is_scheduled /\ ~thr[p].waiting_for_event /\ ~thr[p].i_am_waiting /\ p # running
  BY <1>1 DEF Suspended
<1>4. Placed'
  <2>1. \A u \in Threads : /\ u # p => thr'[u].is_scheduled = thr[u].is_scheduled
                           /\ thr'[u].waiting_for_event = thr[u].waiting_for_event
    BY <1>2
  <2> QED BY <1>1, <1>3, <2>1, PlacedPush
<1>5. EndIsFinal
  BY <1>2 DEF EndIsFinal
<1>6. Statement(p)'
  BY <1>1, <1>5, JoinStatement
<1>7. \A u \in Threads : u = running' => u = running
  BY DEF ThreadAssumption
<1>8. Fits(p)'
  BY <1>3, <1>6, <1>7 DEF Fits, Suspended, Live
<1> QED BY <1>1, <1>2, <1>4, <1>5, <1>7, <1>8, ExactStep

\* %end of a child that its parent waits for.
LEMMA ExactEndJoined ==
  ASSUME Sound, Exact, ThreadAssumption, ForkAssumption, NEW t \in Threads, EndJoined(t)
  PROVE  aborted' = FALSE /\ Exact'
<1> DEFINE L == Released(thr, t)
<1>0. PICK p : p = thr[t].parent
  OBVIOUS
<1>1. /\ AtStatement(t) /\ p # None /\ ~thr[t].i_am_detached /\ thr[p].i_am_joining
      /\ thr' = DoJoin([[L EXCEPT ![p].is_scheduled = TRUE] EXCEPT ![p].i_am_joining = FALSE], p, t)
      /\ aborted' = ~(EndAsserts(t) /\ ~thr[p].is_scheduled /\ Reapable(L, t))
      /\ running' = None /\ active' = PushFront(p) /\ UNCHANGED <<sleeping, waiters, rest, dis>>
  BY <1>0 DEF EndJoined, Scheduled
<1>2. /\ Live(t) /\ Family /\ ~aborted /\ Runs(t) /\ ReleasedIn(thr, t, L)
      /\ p \in Threads /\ Live(p) /\ p # t /\ p \notin thr[t].detached_children
      /\ thr \in [Threads -> ThreadType]
  BY <1>0, <1>1, AtEnd
<1>3. t \in thr[p].children
  BY <1>0, <1>1, <1>2 DEF Family, Siblings
<1>4. ~thr[p].i_have_ended /\ ~thr[p].is_scheduled
  <2>1. thr[p].i_have_ended => thr[p].children = {}
    BY <1>2, AtRun
  <2>2. Suspended(p)
    BY <1>2 DEF Exact
  <2> QED BY <1>1, <1>3, <2>1, <2>2 DEF Suspended
<1>5. aborted' = FALSE /\ thr[t].children = {}
  BY <1>1, <1>4, EndHolds
<1> HIDE DEF L
<1> DEFINE s == [L[p] EXCEPT !.is_scheduled = TRUE, !.i_am_joining = FALSE]
           S == [L EXCEPT ![p] = s]
<1>6. L \in [Threads -> ThreadType] /\ Alike(L[p], thr[p]) /\ L[p] \in ThreadType
      /\ L[p].children = thr[p].children
      /\ L[p].task_func_children = thr[p].task_func_children
  BY <1>2 DEF ReleasedIn
<1>7. thr' = DoJoin(S, p, t)
  <2>1. [[L EXCEPT ![p].is_scheduled = TRUE] EXCEPT ![p].i_am_joining = FALSE] = S
    BY <1>2, <1>6
  <2> QED BY <1>1, <2>1
<1>8. /\ s \in ThreadType /\ s.is_scheduled = TRUE /\ s.i_am_joining = FALSE
      /\ s.status = L[p].status /\ s.i_have_ended = L[p].i_have_ended
      /\ s.waiting_for_event = L[p].waiting_for_event /\ s.i_am_waiting = L[p].i_am_waiting
      /\ s.children = L[p].children /\ s.task_func_children = L[p].task_func_children
      /\ s.code = L[p].code /\ s.joined = L[p].joined /\ s.kids = L[p].kids
  BY <1>6 DEF ThreadType
<1> HIDE DEF s
<1>9. /\ S \in [Threads -> ThreadType] /\ S[p] = s /\ \A u \in Threads \ {p} : S[u] = L[u]
  BY <1>2, <1>6, <1>8
<1> HIDE DEF S
<1>10. /\ S[t] = L[t] /\ L[t].children = {} /\ L[t].parent = p /\ ~L[t].i_am_detached
       /\ L[t].detached_children = {}
  BY <1>0, <1>1, <1>2, <1>5, <1>9 DEF ReleasedIn
<1>11. JoinedIn(S, p, t, thr')
  BY <1>2, <1>7, <1>9, <1>10, JoinEffect
<1>12. /\ thr'[t].i_have_ended /\ thr'[t].is_scheduled = thr[t].is_scheduled
       /\ thr'[t].waiting_for_event = thr[t].waiting_for_event
       /\ thr'[t].i_am_joining = thr[t].i_am_joining /\ thr'[t].i_am_waiting = thr[t].i_am_waiting
       /\ thr'[t].status = IF ~thr[t].is_scheduled /\ ~thr[t].waiting_for_event
                           THEN "deleted" ELSE "reaped"
  BY <1>2, <1>10, <1>11 DEF JoinedIn, ReleasedIn
<1>13. Calm(t)
  BY <1>12, GoneCalm
<1>14. ASSUME NEW u \in Threads \ {t, p}
       PROVE  /\ Alike(thr'[u], thr[u]) /\ thr'[u].children = thr[u].children
              /\ thr'[u].task_func_children = thr[u].task_func_children
  <2>1. /\ Alike(thr'[u], L[u]) /\ thr'[u].children = L[u].children
        /\ thr'[u].task_func_children = L[u].task_func_children
    BY <1>9, <1>11 DEF JoinedIn
  <2>2. /\ Alike(L[u], thr[u]) /\ L[u].children = thr[u].children
        /\ L[u].task_func_children = thr[u].task_func_children
    BY <1>2 DEF ReleasedIn
  <2> QED BY <2>1, <2>2, AlikeTrans
<1>15. /\ Alike(thr'[p], s) /\ thr'[p].children = s.children \ {t}
       /\ thr'[p].task_func_children = s.task_func_children \ {t}
  BY <1>2, <1>9, <1>11 DEF JoinedIn
<1>16. /\ thr'[p].status = thr[p].status /\ thr'[p].i_have_ended = thr[p].i_have_ended
       /\ thr'[p].is_scheduled /\ ~thr'[p].i_am_joining
       /\ thr'[p].i_am_waiting = thr[p].i_am_waiting
       /\ thr'[p].waiting_for_event = thr[p].waiting_for_event
       /\ thr'[p].children = thr[p].children \ {t} /\ thr'[p].kids = thr[p].kids
       /\ thr'[p].task_func_children = thr[p].task_func_children \ {t}
       /\ thr'[p].code = thr[p].code /\ thr'[p].joined = thr[p].joined
  BY <1>6, <1>8, <1>15 DEF Alike
<1>17. rest' = rest /\ sleeping' = sleeping /\ waiters' = waiters
  BY <1>1
<1> QED BY <1>1, <1>2, <1>3, <1>4, <1>5, <1>12, <1>13, <1>14, <1>16, <1>17, ExactWakes

\* %end of a detached child: a parent in a %wait/fork is in no list.
LEMMA ExactEndDetached ==
  ASSUME Sound, Exact, ThreadAssumption, ForkAssumption, NEW t \in Threads, EndDetached(t)
  PROVE  aborted' = FALSE /\ Exact'
<1>0. PICK p : p = thr[t].parent
  OBVIOUS
<1>0a. PICK L : L = Released(thr, t)
  OBVIOUS
<1> DEFINE d == L[p].detached_children \ {t}
           wake == thr[p].i_am_waiting /\ d = {}
           x == [L[t] EXCEPT !.i_am_detached = FALSE, !.parent = None]
           y == [L[p] EXCEPT !.detached_children = d]
           z == [y EXCEPT !.is_scheduled = TRUE, !.i_am_waiting = FALSE]
           s == IF wake THEN z ELSE y
           T == [L EXCEPT ![p].detached_children = @ \ {t},
                          ![t].i_am_detached = FALSE, ![t].parent = None]
           W == IF thr[p].i_am_waiting /\ T[p].detached_children = {}
                THEN [[T EXCEPT ![p].is_scheduled = TRUE] EXCEPT ![p].i_am_waiting = FALSE]
                ELSE T
           S == [L EXCEPT ![p] = s, ![t] = x]
<1>1. /\ AtStatement(t) /\ thr[t].i_am_detached /\ thr' = Reap(W, t)
      /\ active' = IF thr[p].i_am_waiting /\ T[p].detached_children = {}
                   THEN PushFront(p) ELSE active
      /\ aborted' = ~(/\ EndAsserts(t) /\ t \in thr[p].detached_children
                      /\ thr[p].i_am_waiting /\ T[p].detached_children = {} => ~thr[p].is_scheduled
                      /\ Reapable(W, t))
      /\ running' = None /\ UNCHANGED <<sleeping, waiters, rest, dis>>
  BY <1>0, <1>0a, Zenon DEF EndDetached, Scheduled
<1>2. /\ Live(t) /\ Family /\ ~aborted /\ Runs(t) /\ ReleasedIn(thr, t, L)
      /\ p \in Threads /\ Live(p) /\ p # t /\ p \notin thr[t].detached_children
      /\ thr \in [Threads -> ThreadType] /\ Placed /\ TypeOK
  <2>1. p # None
    BY <1>0, <1>1, AtEnd, Zenon DEF Family
  <2> QED BY <1>0, <1>0a, <1>1, <2>1, AtEnd, Zenon DEF Exact
<1>3. /\ L \in [Threads -> ThreadType] /\ Alike(L[p], thr[p]) /\ L[p] \in ThreadType
      /\ L[t] \in ThreadType /\ L[p].children = thr[p].children
      /\ L[p].task_func_children = thr[p].task_func_children
  BY <1>2 DEF ReleasedIn
<1>4. T = [L EXCEPT ![p] = y, ![t] = x]
  BY <1>2, <1>3
<1>5. y \in ThreadType /\ x \in ThreadType /\ y.detached_children = d
  <2>1. d \in SUBSET Threads
    BY <1>3 DEF ThreadType
  <2> HIDE DEF d
  <2> QED BY <1>3, <2>1 DEF ThreadType
<1>6. W = S /\ (thr[p].i_am_waiting /\ T[p].detached_children = {} <=> wake)
  <2> HIDE DEF T
  <2>1. T[p] = y /\ T[t] = x /\ T \in [Threads -> ThreadType]
    BY <1>2, <1>3, <1>4, <1>5
  <2> HIDE DEF x, d
  <2>2. T[p].detached_children = d
    BY <2>1, <1>5
  <2>3. CASE wake
    <3>1. W = [[T EXCEPT ![p].is_scheduled = TRUE] EXCEPT ![p].i_am_waiting = FALSE]
      BY <2>2, <2>3
    <3>2. W = [T EXCEPT ![p] = z]
      BY <1>2, <2>1, <3>1
    <3> HIDE DEF W, y, z
    <3>3. W = [L EXCEPT ![p] = z, ![t] = x]
      BY <1>2, <1>3, <1>4, <3>2
    <3> QED BY <3>3, <2>2, <2>3
  <2>4. CASE ~wake
    BY <1>4, <2>2, <2>4
  <2> QED BY <2>3, <2>4
<1> HIDE DEF T, W
<1>7. /\ x \in ThreadType /\ x.parent = None /\ x.status = L[t].status
      /\ x.children = L[t].children /\ x.detached_children = L[t].detached_children
      /\ x.i_have_ended = L[t].i_have_ended /\ x.is_scheduled = L[t].is_scheduled
      /\ x.waiting_for_event = L[t].waiting_for_event
      /\ x.i_am_joining = L[t].i_am_joining /\ x.i_am_waiting = L[t].i_am_waiting
  BY <1>3 DEF ThreadType
<1> HIDE DEF x
<1>8. /\ s \in ThreadType /\ s.children = L[p].children
      /\ s.task_func_children = L[p].task_func_children
      /\ s.status = L[p].status /\ s.i_have_ended = L[p].i_have_ended
      /\ s.code = L[p].code /\ s.joined = L[p].joined /\ s.kids = L[p].kids
      /\ s.waiting_for_event = L[p].waiting_for_event /\ s.i_am_joining = L[p].i_am_joining
      /\ wake => s.is_scheduled = TRUE /\ s.i_am_waiting = FALSE
      /\ ~wake => Alike(s, L[p])
  <2> HIDE DEF d
  <2>1. /\ Alike(y, L[p]) /\ y.children = L[p].children
        /\ y.task_func_children = L[p].task_func_children
    BY <1>3 DEF ThreadType, Alike
  <2> HIDE DEF y
  <2>2. /\ z \in ThreadType /\ z.children = y.children
        /\ z.task_func_children = y.task_func_children
        /\ z.status = y.status /\ z.i_have_ended = y.i_have_ended
        /\ z.code = y.code /\ z.joined = y.joined /\ z.kids = y.kids
        /\ z.waiting_for_event = y.waiting_for_event /\ z.i_am_joining = y.i_am_joining
        /\ z.is_scheduled = TRUE /\ z.i_am_waiting = FALSE
    BY <1>5 DEF ThreadType
  <2> HIDE DEF z, wake
  <2>3. CASE wake
    BY <2>1, <2>2, <2>3 DEF Alike
  <2>4. CASE ~wake
    BY <1>5, <2>1, <2>4 DEF Alike
  <2> QED BY <2>3, <2>4
<1> HIDE DEF s
<1>9. /\ S \in [Threads -> ThreadType] /\ S[p] = s /\ S[t] = x
      /\ \A u \in Threads \ {p, t} : S[u] = L[u]
  BY <1>2, <1>3, <1>7, <1>8
<1> HIDE DEF S
<1>10. /\ thr[t].children = {} /\ EndAsserts(t)
       /\ S[t].children = {} /\ S[t].parent = None /\ S[t].detached_children = {}
  <2>1. thr[t].children = {} /\ EndAsserts(t)
    BY <1>1, EndHolds
  <2> QED BY <1>2, <1>7, <1>9, <2>1 DEF ReleasedIn
<1>11. wake => /\ ~thr[p].is_scheduled /\ ~thr[p].waiting_for_event /\ ~thr[p].i_am_joining
               /\ p # running
  <2>1. Suspended(p)
    BY <1>2 DEF Exact
  <2> QED BY <2>1 DEF Suspended
<1> HIDE DEF wake
<1>12. aborted' = FALSE
  <2>1. Reapable(W, t)
    BY <1>6, <1>10 DEF Reapable
  <2>2. t \in thr[p].detached_children
    BY <1>0, <1>1, <1>2 DEF Family, Siblings, ThreadAssumption
  <2> QED BY <1>1, <1>6, <1>10, <1>11, <2>1, <2>2
<1>13. ReapedIn(S, t, thr')
  <2>1. thr' = Reap(S, t)
    BY <1>1, <1>6
  <2> QED BY <1>9, <1>10, <2>1, ReapEffect DEF ThreadAssumption
<1>14. /\ thr'[t].i_have_ended /\ thr'[t].is_scheduled = thr[t].is_scheduled
       /\ thr'[t].waiting_for_event = thr[t].waiting_for_event
       /\ thr'[t].i_am_joining = thr[t].i_am_joining /\ thr'[t].i_am_waiting = thr[t].i_am_waiting
       /\ thr'[t].status = IF ~thr[t].is_scheduled /\ ~thr[t].waiting_for_event
                           THEN "deleted" ELSE "reaped"
  BY <1>2, <1>7, <1>9, <1>13 DEF ReapedIn, ReleasedIn
<1>15. Calm(t)
  BY <1>14, GoneCalm
<1>16. ASSUME NEW u \in Threads \ {t}
       PROVE  /\ Alike(thr'[u], S[u]) /\ thr'[u].children = S[u].children
              /\ thr'[u].task_func_children = S[u].task_func_children
  BY <1>10, <1>13 DEF ReapedIn, ThreadAssumption
<1>17. ASSUME NEW u \in Threads \ {t, p}
       PROVE  /\ Alike(thr'[u], thr[u]) /\ thr'[u].children = thr[u].children
              /\ thr'[u].task_func_children = thr[u].task_func_children
  <2>1. /\ Alike(thr'[u], L[u]) /\ thr'[u].children = L[u].children
        /\ thr'[u].task_func_children = L[u].task_func_children
    BY <1>9, <1>16
  <2>2. /\ Alike(L[u], thr[u]) /\ L[u].children = thr[u].children
        /\ L[u].task_func_children = thr[u].task_func_children
    BY <1>2 DEF ReleasedIn
  <2> QED BY <2>1, <2>2, AlikeTrans
<1>18. /\ thr'[p].status = thr[p].status /\ thr'[p].i_have_ended = thr[p].i_have_ended
       /\ thr'[p].waiting_for_event = thr[p].waiting_for_event /\ Idem(p)
       /\ wake => thr'[p].is_scheduled = TRUE /\ thr'[p].i_am_waiting = FALSE
  BY <1>2, <1>3, <1>8, <1>9, <1>16 DEF Alike, Idem
<1>19. rest' = rest /\ sleeping' = sleeping /\ waiters' = waiters
  BY <1>1
<1>20. CASE ~wake
  <2>1. active' = active
    BY <1>1, <1>6, <1>20
  <2>2. /\ Alike(thr'[p], thr[p]) /\ thr'[p].children = thr[p].children
        /\ thr'[p].task_func_children = thr[p].task_func_children
    <3>1. Alike(thr'[p], s) /\ Alike(s, L[p])
      BY <1>2, <1>8, <1>9, <1>16, <1>20
    <3> QED BY <1>3, <1>18, <3>1, AlikeTrans DEF Idem
  <2> QED BY <1>1, <1>12, <1>14, <1>15, <1>17, <1>19, <2>1, <2>2, ExactEnds
<1>21. CASE wake
  <2>1. active' = PushFront(p)
    BY <1>1, <1>6, <1>21
  <2>2. \A u \in Threads \ {t, p} : /\ Calm(u) /\ thr'[u].i_have_ended = thr[u].i_have_ended
                                    /\ thr'[u].is_scheduled = thr[u].is_scheduled
                                    /\ thr'[u].waiting_for_event = thr[u].waiting_for_event
    BY <1>17, AlikeCalm
  <2>3. Placed'
    <3>1. \A u \in Threads : /\ u # p => thr'[u].is_scheduled = thr[u].is_scheduled
                             /\ thr'[u].waiting_for_event = thr[u].waiting_for_event
      BY <1>14, <1>18, <2>2
    <3> QED BY <1>2, <1>11, <1>18, <1>19, <1>21, <2>1, <3>1, PlacedPush
  <2>4. EndIsFinal
    BY <1>14, <1>18, <2>2 DEF EndIsFinal
  <2>5. ~thr[p].i_have_ended => Statement(p)'
    <3>1. ~thr[p].i_have_ended => Statement(p)
      BY <1>2 DEF Exact
    <3> QED BY <1>2, <1>18, <2>4, <3>1, StatementKeeps
  <2>6. \A u \in Threads : u # running'
    BY <1>1 DEF ThreadAssumption
  <2>7. Fits(p)'
    BY <1>2, <1>11, <1>18, <1>21, <2>5, <2>6 DEF Fits, Suspended, Live, Idem
  <2>8. Exact'
    BY <1>2, <1>15, <2>2, <2>3, <2>4, <2>6, <2>7, ExactStep
  <2> QED BY <1>12, <2>8
<1> QED BY <1>20, <1>21, Zenon

-----------------------------------------------------------------------------
(* %disable and %disable/fork.                                             *)

\* A step that touches no thread and no list.
LEMMA ExactIdle ==
  ASSUME Sound, Exact, ThreadAssumption, ForkAssumption,
         UNCHANGED <<thr, active, rest, sleeping, waiters>>,
         running' = running \/ running' = None
  PROVE  Exact'
<1>1. thr \in [Threads -> ThreadType] /\ Placed
  BY DEF Sound, TypeOK, Exact
<1>2. \A u \in Threads : thr'[u] = thr[u]
  OBVIOUS
<1>3. Placed'
  BY <1>1, <1>2, PlacedSame
<1>4. \A u \in Threads : Calm(u)
  BY <1>2, StillCalm
<1>5. EndIsFinal
  BY <1>2 DEF EndIsFinal
<1>6. \A u \in Threads : u = running' => u = running
  BY DEF ThreadAssumption
<1> QED BY <1>1, <1>3, <1>4, <1>5, <1>6, ExactStep

\* The opcodes begin between two statements, where there are no children; they
\* end with the thread gone on or gone.
LEMMA ExactDisable ==
  ASSUME Sound, Exact, ThreadAssumption, ForkAssumption, NEW t \in Threads, NEW s,
         Disable(t, s) \/ DisableFork(t)
  PROVE  aborted' = FALSE /\ Exact'
<1>1. AtStatement(t) /\ UNCHANGED <<thr, active, sleeping, waiters, running, rest>>
  BY DEF Disable, DisableFork
<1>2. /\ ~thr[t].i_am_joining /\ thr[t].children = {} /\ ~aborted /\ TypeOK
  BY <1>1, AtOpcode DEF AtStatement
<1>3. aborted' = FALSE
  BY <1>2 DEF Disable, DisableFork, TypeOK
<1> QED BY <1>1, <1>3, ExactIdle

LEMMA ExactDisableDone ==
  ASSUME Sound, Exact, ThreadAssumption, ForkAssumption, DisableDone \/ DisableLeave
  PROVE  aborted' = FALSE /\ Exact'
<1>1. /\ UNCHANGED <<thr, active, sleeping, waiters, rest>>
      /\ running' = running \/ running' = None
  BY DEF DisableDone, DisableLeave
<1>2. aborted' = FALSE
  BY DEF DisableDone, DisableLeave, Activation, Sound, TypeOK
<1> QED BY <1>1, <1>2, ExactIdle

\* The loops of of_DISABLE and of_DISABLE_FORK call do_disable.
LEMMA ExactDisableNext ==
  ASSUME Sound, Exact, ThreadAssumption, ForkAssumption, DisableNext
  PROVE  aborted' = FALSE /\ Exact'
<1>1. /\ dis.on /\ ~aborted
      /\ UNCHANGED <<active, sleeping, waiters, running, rest, aborted>>
  BY DEF DisableNext
<1>2. /\ TypeOK /\ Departed /\ Family /\ Rooted /\ thr \in [Threads -> ThreadType]
      /\ running \in Threads /\ (dis.fork => Live(running)) /\ dis.fork \in BOOLEAN
  BY <1>1, AtDisable
<1>3. PICK u \in Targets : thr' = Off(thr, u)
  BY DEF DisableNext
<1>4. u \in Threads /\ Live(u)
  <2>1. CASE dis.fork
    <3>1. u \in thr[running].detached_children
      BY <2>1 DEF Targets
    <3> QED BY <1>1, <1>2, <2>1, <3>1, Parents
  <2>2. CASE ~dis.fork
    <3>1. u \in Threads /\ thr[u].in_scope
      BY <2>2 DEF Targets, InScope
    <3> QED BY <1>2, <3>1 DEF Departed
  <2> QED BY <2>1, <2>2
<1>5. /\ \A w \in Threads \ {u} : thr'[w] = thr[w]
      /\ thr'[u].status = thr[u].status /\ thr'[u].i_have_ended
      /\ thr'[u].is_scheduled = thr[u].is_scheduled
      /\ thr'[u].waiting_for_event = thr[u].waiting_for_event
      /\ thr'[u].i_am_joining = thr[u].i_am_joining /\ thr'[u].i_am_waiting = thr[u].i_am_waiting
  BY <1>2, <1>3, <1>4, OffFields
<1>6. Calm(u)
  BY <1>4, <1>5 DEF Calm, Live
<1>7. \A w \in Threads \ {u} : /\ Alike(thr'[w], thr[w]) /\ thr'[w].children = thr[w].children
                               /\ thr'[w].task_func_children = thr[w].task_func_children
  BY <1>5 DEF Alike
<1>8. /\ active' = active /\ rest' = rest /\ sleeping' = sleeping /\ waiters' = waiters
      /\ running' = running /\ aborted' = FALSE
  BY <1>1, <1>2 DEF TypeOK
<1> QED BY <1>4, <1>5, <1>6, <1>7, <1>8, ExactEnds

\* do_disable calls itself for a child, whose parent is the thread.
LEMMA ExactDisableChild ==
  ASSUME Sound, Exact, ThreadAssumption, ForkAssumption, DisableChild
  PROVE  aborted' = FALSE /\ Exact'
<1>1. /\ dis.on /\ dis.stack # <<>> /\ ~aborted
      /\ UNCHANGED <<active, sleeping, waiters, running, rest>>
  BY DEF DisableChild, Activation
<1>2. thr \in [Threads -> ThreadType] /\ Placed
  BY <1>1, AtDisable DEF Exact
<1>3. PICK u \in thr[Top].children :
        /\ thr' = Off([thr EXCEPT ![Top].i_am_joining = FALSE], u)
        /\ aborted' = (thr[u].parent # Top)
  BY DEF DisableChild
<1>4. PICK p : p = Top
  OBVIOUS
<1>5. /\ p \in Threads /\ Live(p) /\ thr[p].i_have_ended /\ thr[p] \in ThreadType
      /\ u \in Threads /\ Live(u) /\ u # p /\ aborted' = FALSE
  BY <1>1, <1>2, <1>3, <1>4, StackNew
<1> DEFINE x == [thr[p] EXCEPT !.i_am_joining = FALSE]
           T == [thr EXCEPT ![p] = x]
<1>6. /\ x \in ThreadType /\ ~x.i_am_joining /\ x.status = thr[p].status
      /\ x.i_am_waiting = thr[p].i_am_waiting
      /\ x.waiting_for_event = thr[p].waiting_for_event
      /\ x.is_scheduled = thr[p].is_scheduled /\ x.i_have_ended = thr[p].i_have_ended
  BY <1>5 DEF ThreadType
<1> HIDE DEF x
<1>7. /\ T \in [Threads -> ThreadType] /\ T[p] = x /\ \A w \in Threads \ {p} : T[w] = thr[w]
      /\ thr' = Off(T, u)
  <2>1. [thr EXCEPT ![p].i_am_joining = FALSE] = T
    BY <1>2, <1>5 DEF x
  <2> QED BY <1>2, <1>3, <1>4, <1>5, <1>6, <2>1
<1> HIDE DEF T
<1>8. /\ \A w \in Threads \ {u} : thr'[w] = T[w]
      /\ thr'[u].status = T[u].status /\ thr'[u].i_have_ended
      /\ thr'[u].is_scheduled = T[u].is_scheduled
      /\ thr'[u].waiting_for_event = T[u].waiting_for_event
      /\ thr'[u].i_am_joining = T[u].i_am_joining /\ thr'[u].i_am_waiting = T[u].i_am_waiting
  BY <1>5, <1>7, OffFields
<1>9. thr'[p] = x /\ T[u] = thr[u] /\ \A w \in Threads \ {u, p} : thr'[w] = thr[w]
  BY <1>5, <1>7, <1>8
<1>10. Calm(u)
  BY <1>5, <1>8, <1>9 DEF Calm, Live
<1>11. Calm(p)
  BY <1>5, <1>6, <1>9 DEF Calm, Live
<1>12. \A w \in Threads \ {u, p} : Calm(w)
  BY <1>9, StillCalm
<1>13. EndIsFinal
  BY <1>6, <1>8, <1>9 DEF EndIsFinal
<1>14. Placed'
  <2>1. \A w \in Threads : /\ thr'[w].is_scheduled = thr[w].is_scheduled
                           /\ thr'[w].waiting_for_event = thr[w].waiting_for_event
    BY <1>6, <1>8, <1>9
  <2>2. active' = active /\ rest' = rest /\ sleeping' = sleeping /\ waiters' = waiters
    BY <1>1
  <2> QED BY <1>2, <2>1, <2>2, PlacedSame
<1>15. running' = running
  BY <1>1
<1> QED BY <1>2, <1>5, <1>10, <1>11, <1>12, <1>13, <1>14, <1>15, ExactStep

\* do_disable reaps a thread without parent, and its caller one with a parent
\* that has ended or that it is detached from.
LEMMA ExactReaps ==
  ASSUME Sound, Exact, ThreadAssumption, ForkAssumption, ~aborted, dis.on,
         NEW t \in Threads, Live(t), thr[t].children = {}, thr[t].i_have_ended,
         thr[t].parent # None => thr[t].i_am_detached \/ thr[thr[t].parent].i_have_ended,
         thr' = Reap(thr, t), UNCHANGED <<active, rest, sleeping, waiters, running>>
  PROVE  Reapable(thr, t) /\ Exact'
<1>1. thr \in [Threads -> ThreadType] /\ Placed /\ Family
  BY AtDisable DEF Exact
<1>2. Reapable(thr, t)
  BY <1>1, FamilyReapable
<1>3. ReapedIn(thr, t, thr')
  BY ReapIsReaps
<1>4. /\ thr'[t].i_have_ended /\ thr'[t].is_scheduled = thr[t].is_scheduled
      /\ thr'[t].waiting_for_event = thr[t].waiting_for_event
      /\ thr'[t].i_am_joining = thr[t].i_am_joining /\ thr'[t].i_am_waiting = thr[t].i_am_waiting
      /\ thr'[t].status = IF ~thr[t].is_scheduled /\ ~thr[t].waiting_for_event
                          THEN "deleted" ELSE "reaped"
  BY <1>3 DEF ReapedIn
<1>5. Calm(t)
  BY <1>4, GoneCalm
<1>6. ASSUME NEW u \in Threads \ {t}
      PROVE  /\ Calm(u) /\ thr'[u].i_have_ended = thr[u].i_have_ended
             /\ thr'[u].is_scheduled = thr[u].is_scheduled
             /\ thr'[u].waiting_for_event = thr[u].waiting_for_event
  <2>1. Alike(thr'[u], thr[u]) /\ thr'[u].task_func_children = thr[u].task_func_children
    BY <1>3 DEF ReapedIn
  <2>2. CASE u = thr[t].parent /\ ~thr[t].i_am_detached
    <3>1. thr[u].i_have_ended /\ Suspended(u)
      BY <2>2 DEF ThreadAssumption, Exact
    <3> QED BY <2>1, <3>1 DEF Alike, Calm, Suspended
  <2>3. CASE u # thr[t].parent \/ thr[t].i_am_detached
    <3>1. thr'[u].children = thr[u].children
      BY <1>3, <2>3 DEF ReapedIn
    <3> QED BY <2>1, <3>1, AlikeCalm
  <2> QED BY <2>2, <2>3
<1>7. EndIsFinal
  BY <1>4, <1>6 DEF EndIsFinal
<1>8. Placed'
  <2>1. \A w \in Threads : /\ thr'[w].is_scheduled = thr[w].is_scheduled
                           /\ thr'[w].waiting_for_event = thr[w].waiting_for_event
    BY <1>4, <1>6
  <2> QED BY <1>1, <2>1, PlacedSame
<1>9. running' = running
  OBVIOUS
<1>10. Exact'
  BY <1>1, <1>5, <1>6, <1>7, <1>8, <1>9, ExactStep
<1> QED BY <1>2, <1>10

LEMMA ExactDisableAlone ==
  ASSUME Sound, Exact, ThreadAssumption, ForkAssumption, DisableAlone
  PROVE  aborted' = FALSE /\ Exact'
<1>1. /\ Activation /\ thr[Top].children = {} /\ thr[Top].parent = None
      /\ thr' = Reap(thr, Top) /\ aborted' = ~Reapable(thr, Top)
      /\ UNCHANGED <<active, sleeping, waiters, running, rest>>
  BY DEF DisableAlone
<1>2. dis.on /\ ~aborted /\ Top \in Threads /\ Live(Top) /\ thr[Top].i_have_ended
  BY <1>1, AtTop
<1>3. PICK t \in Threads : t = Top
  BY <1>2
<1>4. /\ active' = active /\ rest' = rest /\ sleeping' = sleeping /\ waiters' = waiters
      /\ running' = running
  BY <1>1
<1>5. Reapable(thr, t) /\ Exact'
  BY <1>1, <1>2, <1>3, <1>4, ExactReaps
<1> QED BY <1>1, <1>3, <1>5

LEMMA ExactDisableReap ==
  ASSUME Sound, Exact, ThreadAssumption, ForkAssumption, DisableReap
  PROVE  aborted' = FALSE /\ Exact'
<1>1. /\ dis.on /\ dis.ret # None /\ ~aborted /\ thr' = Reap(thr, dis.ret)
      /\ aborted' = (~Reapable(thr, dis.ret) \/ (dis.fork /\ dis.self))
      /\ UNCHANGED <<active, sleeping, waiters, running, rest>>
  BY DEF DisableReap
<1>2. Disabled /\ dis \in DisableType /\ dis.stack \in Seq(Threads)
  BY <1>1, AtDisable
<1>3. PICK t \in Threads : t = dis.ret
  BY <1>1, <1>2 DEF DisableType
<1>4. /\ Live(t) /\ thr[t].i_have_ended /\ thr[t].children = {}
      /\ dis.stack = <<>> => thr[t].i_am_detached
      /\ dis.stack # <<>> => thr[t].parent = Top
  BY <1>1, <1>2, <1>3 DEF Disabled
<1>5. dis.stack # <<>> => thr[Top].i_have_ended
  <2>1. dis.stack # <<>> => Len(dis.stack) \in DOMAIN dis.stack
    BY <1>2
  <2> QED BY <1>2, <2>1 DEF Top, Disabled
<1>6. /\ active' = active /\ rest' = rest /\ sleeping' = sleeping /\ waiters' = waiters
      /\ running' = running
  BY <1>1
<1>7. Reapable(thr, t) /\ Exact'
  BY <1>1, <1>3, <1>4, <1>5, <1>6, ExactReaps
<1>8. ~(dis.fork /\ dis.self)
  BY <1>1, <1>2 DEF Disabled
<1> QED BY <1>1, <1>3, <1>7, <1>8

\* do_disable wakes up a parent in a %join, which has not ended and is in no list.
LEMMA ExactDisableWake ==
  ASSUME Sound, Exact, ThreadAssumption, ForkAssumption, DisableWake
  PROVE  aborted' = FALSE /\ Exact'
<1>0. /\ Activation /\ thr[Top].children = {} /\ thr[Top].parent # None
      /\ thr[thr[Top].parent].i_am_joining
      /\ UNCHANGED <<sleeping, waiters, running, rest>>
  BY DEF DisableWake
<1>1. /\ dis.on /\ ~aborted /\ Top \in Threads /\ Live(Top) /\ thr[Top].i_have_ended
      /\ Len(dis.stack) \in Nat /\ Len(dis.stack) > 0
  BY <1>0, AtTop
<1>2. /\ TypeOK /\ Family /\ Departed /\ Rooted /\ Ended /\ Disabled /\ running \in Threads
      /\ thr \in [Threads -> ThreadType] /\ dis.fork \in BOOLEAN
  BY <1>1, AtDisable
<1>3. Len(dis.stack) = 1 /\ ~dis.fork
  <2>1. ASSUME Len(dis.stack) > 1
        PROVE  FALSE
    BY <1>0, <2>1, AtTop
  <2>2. Len(dis.stack) = 1
    BY <1>1, <2>1, OneOrMore
  <2>3. dis.fork => ~thr[running].i_am_joining
    BY <1>1, <1>2 DEF Disabled
  <2> QED BY <1>0, <2>2, <2>3, AtTop
<1>4. PICK t \in Threads : t = Top
  BY <1>1
<1>5. PICK p \in Threads : p = thr[t].parent
  BY <1>0, <1>1, <1>2, <1>4, Parents
<1>6. /\ Live(t) /\ thr[t].i_have_ended /\ thr[t].children = {} /\ ~thr[t].i_am_detached
      /\ p # t /\ Live(p) /\ t \notin thr[t].detached_children /\ p \notin thr[t].detached_children
      /\ t \in thr[p].children /\ thr[p].i_am_joining /\ thr[p] \in ThreadType
  <2>1. Live(t) /\ thr[t].i_have_ended /\ thr[t].children = {} /\ ~thr[t].i_am_detached
    BY <1>0, <1>1, <1>3, <1>4, AtTop
  <2>2. /\ p # t /\ Live(p) /\ t \notin thr[t].detached_children /\ p \notin thr[t].detached_children
    BY <1>1, <1>2, <1>5, <2>1, Parents DEF ThreadAssumption
  <2>3. t \in thr[p].children
    BY <1>1, <1>2, <1>5, <2>1, <2>2 DEF Family, Siblings, ThreadAssumption
  <2> QED BY <1>0, <1>2, <1>4, <1>5, <2>1, <2>2, <2>3
<1>7. \A w \in Threads : Stacked(w) => w = t
  BY <1>0, <1>3, <1>4, AtTop DEF Stacked
<1>8. ~thr[p].i_have_ended /\ ~thr[p].is_scheduled
  <2>1. Suspended(p)
    BY DEF Exact
  <2> QED BY <1>2, <1>6, <1>7, <2>1 DEF Ended, Suspended
<1>9. /\ thr' = DoJoin([[thr EXCEPT ![p].i_am_joining = FALSE] EXCEPT ![p].is_scheduled = TRUE], p, t)
      /\ active' = PushFront(p)
      /\ aborted' = ~((~thr[p].i_have_ended => ~thr[p].is_scheduled) /\ Reapable(thr, t))
  <2>1. ~[thr EXCEPT ![p].i_am_joining = FALSE][p].i_have_ended
    <3>1. [thr EXCEPT ![p].i_am_joining = FALSE][p] = [thr[p] EXCEPT !.i_am_joining = FALSE]
      BY <1>2
    <3> QED BY <1>6, <1>8, <3>1 DEF ThreadType
  <2> QED BY <1>4, <1>5, <1>8, <2>1 DEF DisableWake, Scheduled
<1>10. aborted' = FALSE
  BY <1>1, <1>2, <1>6, <1>8, <1>9, FamilyReapable
<1> DEFINE s == [thr[p] EXCEPT !.i_am_joining = FALSE, !.is_scheduled = TRUE]
           S == [thr EXCEPT ![p] = s]
<1>11. thr' = DoJoin(S, p, t)
  <2>1. [[thr EXCEPT ![p].i_am_joining = FALSE] EXCEPT ![p].is_scheduled = TRUE] = S
    BY <1>2
  <2> QED BY <1>9, <2>1
<1>12. /\ s \in ThreadType /\ s.is_scheduled = TRUE /\ s.i_am_joining = FALSE
       /\ s.status = thr[p].status /\ s.i_have_ended = thr[p].i_have_ended
       /\ s.waiting_for_event = thr[p].waiting_for_event /\ s.i_am_waiting = thr[p].i_am_waiting
       /\ s.children = thr[p].children /\ s.task_func_children = thr[p].task_func_children
       /\ s.code = thr[p].code /\ s.joined = thr[p].joined /\ s.kids = thr[p].kids
  BY <1>6 DEF ThreadType
<1> HIDE DEF s
<1>13. S \in [Threads -> ThreadType] /\ S[p] = s /\ \A u \in Threads \ {p} : S[u] = thr[u]
  BY <1>2, <1>12
<1> HIDE DEF S
<1>14. JoinedIn(S, p, t, thr') /\ S[t] = thr[t]
  <2>1. S[t] = thr[t]
    BY <1>6, <1>13
  <2>2. /\ S[t].children = {} /\ S[t].parent = p /\ ~S[t].i_am_detached
        /\ t \notin S[t].detached_children /\ p \notin S[t].detached_children
    BY <1>5, <1>6, <2>1
  <2> QED BY <1>6, <1>11, <1>13, <2>1, <2>2, JoinEffect
<1>15. /\ thr'[t].i_have_ended /\ thr'[t].is_scheduled = thr[t].is_scheduled
       /\ thr'[t].waiting_for_event = thr[t].waiting_for_event
       /\ thr'[t].i_am_joining = thr[t].i_am_joining /\ thr'[t].i_am_waiting = thr[t].i_am_waiting
       /\ thr'[t].status = IF ~thr[t].is_scheduled /\ ~thr[t].waiting_for_event
                           THEN "deleted" ELSE "reaped"
  BY <1>6, <1>14 DEF JoinedIn
<1>16. Calm(t)
  BY <1>15, GoneCalm
<1>17. ASSUME NEW u \in Threads \ {t, p}
       PROVE  /\ Alike(thr'[u], thr[u]) /\ thr'[u].children = thr[u].children
              /\ thr'[u].task_func_children = thr[u].task_func_children
  BY <1>13, <1>14 DEF JoinedIn
<1>18. /\ Alike(thr'[p], s) /\ thr'[p].children = s.children \ {t}
       /\ thr'[p].task_func_children = s.task_func_children \ {t}
  BY <1>6, <1>13, <1>14 DEF JoinedIn
<1>19. /\ thr'[p].status = thr[p].status /\ thr'[p].i_have_ended = thr[p].i_have_ended
       /\ thr'[p].is_scheduled /\ ~thr'[p].i_am_joining
       /\ thr'[p].i_am_waiting = thr[p].i_am_waiting
       /\ thr'[p].waiting_for_event = thr[p].waiting_for_event
       /\ thr'[p].children = thr[p].children \ {t} /\ thr'[p].kids = thr[p].kids
       /\ thr'[p].task_func_children = thr[p].task_func_children \ {t}
       /\ thr'[p].code = thr[p].code /\ thr'[p].joined = thr[p].joined
  BY <1>12, <1>18 DEF Alike
<1>20. rest' = rest /\ sleeping' = sleeping /\ waiters' = waiters /\ running' = running
  BY <1>0
<1> QED BY <1>6, <1>8, <1>9, <1>10, <1>15, <1>16, <1>17, <1>19, <1>20, ExactWakes

-----------------------------------------------------------------------------
(* The steps together.                                                     *)

\* At the start every initial thread is in the active region, once.
LEMMA ExactInit ==
  ASSUME Init, ThreadAssumption, ForkAssumption
  PROVE  Exact
<1> DEFINE first == [NewThread(Module) EXCEPT !.is_scheduled = TRUE]
<1>1. /\ first.is_scheduled /\ ~first.waiting_for_event /\ ~first.i_am_joining
      /\ ~first.i_am_waiting /\ first.status = "live" /\ ~first.i_have_ended
      /\ first.children = {} /\ first.kids = {} /\ first.joined = 0 /\ first.code = NoCode
      /\ first.task_func_children = {}
  BY DEF NewThread
<1>2. /\ ~Unborn.is_scheduled /\ ~Unborn.waiting_for_event /\ ~Unborn.i_am_joining
      /\ ~Unborn.i_am_waiting /\ Unborn.status = "unborn" /\ ~Unborn.i_have_ended
  BY DEF NewThread, Unborn
<1>3. \A t \in Threads : thr[t] = IF t \in Initial THEN first ELSE Unborn
  BY DEF Init
<1> HIDE DEF first
<1>4. Once(active) /\ \A u : Holds(active, u) <=> u \in Initial
  BY OrdersHolds, FS_Subset DEF Init, ThreadAssumption
<1>5. /\ rest = <<>> /\ sleeping = {} /\ running = None
      /\ waiters = [e \in Events |-> <<>>]
  BY DEF Init
<1>6. Once(<<rest>>) /\ \A u : ~Holds(<<rest>>, u)
  BY <1>5, NoList
<1>7. Once(waiters) /\ \A u : ~Holds(waiters, u)
  <2>1. DOMAIN <<>> = {}
    OBVIOUS
  <2>2. \A e \in DOMAIN waiters : DOMAIN waiters[e] = {}
    BY <1>5, <2>1
  <2> QED BY <2>2 DEF Once, Holds
<1>8. Placed
  BY <1>1, <1>2, <1>3, <1>4, <1>5, <1>6, <1>7 DEF Placed
<1>9. ASSUME NEW t \in Threads
      PROVE  Suspended(t)
  BY <1>1, <1>2, <1>3, <1>5 DEF Suspended, ThreadAssumption
<1>10. ASSUME NEW t \in Threads, Live(t)
       PROVE  Statement(t)
  <2>1. thr[t] = first
    BY <1>2, <1>3, <1>10 DEF Live
  <2>2. Cardinality({}) = 0
    BY FS_EmptySet
  <2>3. thr[t].code.forks = 0 /\ thr[t].code.joins = 0 /\ thr[t].code.detach = 0
    BY <1>1, <2>1 DEF NoCode
  <2>4. {u \in thr[t].kids \ thr[t].children : thr[u].i_have_ended} = {}
    BY <1>1, <2>1
  <2>5. /\ ~thr[t].i_am_joining /\ thr[t].children = {} /\ thr[t].kids = {} /\ thr[t].joined = 0
        /\ thr[t].task_func_children = {}
    BY <1>1, <2>1
  <2>6. Cardinality(thr[t].children) = 0
    BY <2>2, <2>5
  <2> QED BY <2>2, <2>3, <2>4, <2>5, <2>6 DEF Statement
<1> QED BY <1>8, <1>9, <1>10 DEF Exact

\* An opcode of a thread keeps Exact, and its assertions hold.
LEMMA ExactOpcode ==
  ASSUME Sound, Exact, ThreadAssumption, ForkAssumption, NEW t \in Threads, Opcode(t)
  PROVE  Exact' /\ ("detach_in_task" \notin Features => aborted' = FALSE)
<1>1. CASE \E s \in Scopes, n \in 1..MaxFork, j \in 0..MaxFork : BeginFork(t, s, n, j)
  BY <1>1, ExactBeginFork
<1>2. CASE Fork(t) \/ JoinZombie(t) \/ JoinWait(t) \/ JoinDetach(t)
  BY <1>2, ExactFork, ExactJoinZombie, ExactJoinWait, ExactJoinDetach
<1>3. CASE EndJoined(t) \/ EndZombie(t) \/ EndDetached(t) \/ EndAlone(t)
  BY <1>3, ExactEndJoined, ExactEndZombie, ExactEndDetached, ExactEndAlone
<1>4. CASE Delay(t) \/ Yield(t) \/ WaitFork(t)
  BY <1>4, ExactDelay, ExactYield, ExactWaitFork
<1>5. CASE \E e \in Events : Wait(t, e) \/ Trigger(t, e)
  BY <1>5, ExactWait, ExactTrigger
<1>6. CASE (\E s \in Scopes : Disable(t, s)) \/ DisableFork(t)
  BY <1>6, ExactDisable
<1> QED BY <1>1, <1>2, <1>3, <1>4, <1>5, <1>6 DEF Opcode

\* So does every step.
LEMMA ExactNext ==
  ASSUME Sound, Exact, ThreadAssumption, ForkAssumption, Next
  PROVE  Exact' /\ ("detach_in_task" \notin Features => aborted' = FALSE)
<1>1. CASE Dispatch \/ Resume \/ Zombie \/ Elapse
  BY <1>1, ExactDispatch, ExactResume, ExactZombie, ExactElapse
<1>2. CASE \E t \in Threads : Opcode(t)
  BY <1>2, ExactOpcode
<1>3. CASE Disabling
  BY <1>3, ExactDisableNext, ExactDisableChild, ExactDisableReap, ExactDisableWake,
     ExactDisableAlone, ExactDisableDone DEF Disabling
<1> QED BY <1>1, <1>2, <1>3 DEF Next

\* The invariant is one in every program that disables no scope of a detached
\* thread: until an assertion fails the flags of each thread say where it is, it
\* is suspended for one reason, and its children are those its fork statement
\* still has to join or to detach.
THEOREM ExactInvariant ==
  "disable_detached" \notin Features => (Spec => [](IInv /\ (~aborted => Exact)))
<1> SUFFICES ASSUME "disable_detached" \notin Features
             PROVE  Spec => [](IInv /\ (~aborted => Exact))
  OBVIOUS
<1> USE ThreadAssumption, ForkAssumption
<1>1. Init => (~aborted => Exact)
  BY ExactInit
<1>2. IInv /\ (~aborted => Exact) /\ [Next]_vars => (~aborted => Exact)'
  <2> SUFFICES ASSUME IInv, ~aborted => Exact, [Next]_vars PROVE (~aborted => Exact)'
    OBVIOUS
  <2>1. CASE Next
    BY <2>1, AbortedType, ExactNext DEF IInv
  <2>2. CASE UNCHANGED vars
    <3>1. /\ thr' = thr /\ active' = active /\ sleeping' = sleeping /\ waiters' = waiters
          /\ running' = running /\ rest' = rest /\ aborted' = aborted
      BY <2>2 DEF vars
    <3>2. Placed' = Placed
      BY <3>1 DEF Placed, Once, Holds
    <3>3. \A t \in Threads : /\ Suspended(t)' = Suspended(t) /\ Statement(t)' = Statement(t)
                             /\ Live(t)' = Live(t)
      BY <3>1 DEF Suspended, Statement, Live
    <3> QED BY <3>1, <3>2, <3>3 DEF Exact
  <2> QED BY <2>1, <2>2
<1> QED BY <1>1, <1>2, ThreadInvariant, PTL DEF Spec

-----------------------------------------------------------------------------
(* What the invariant is for.                                              *)

\* A thread on lists that hold no thread twice has one place or none.
LEMMA PlacesOnce ==
  ASSUME NEW A, Once(A), NEW t
  PROVE  /\ Holds(A, t) => \E p : Places(A, t) = {p}
         /\ ~Holds(A, t) => Places(A, t) = {}
<1>1. \A p : p \in Places(A, t) <=> \E i \in DOMAIN A : \E j \in DOMAIN A[i] :
                                      A[i][j] = t /\ p = <<i, j>>
  BY DEF Places
<1>2. ASSUME Holds(A, t)
      PROVE  \E p : Places(A, t) = {p}
  <2>1. PICK i \in DOMAIN A : \E j \in DOMAIN A[i] : A[i][j] = t
    BY <1>2 DEF Holds
  <2>2. PICK j \in DOMAIN A[i] : A[i][j] = t
    BY <2>1
  <2>3. <<i, j>> \in Places(A, t)
    BY <1>1, <2>2
  <2>4. ASSUME NEW p \in Places(A, t)
        PROVE  p = <<i, j>>
    <3>1. PICK k \in DOMAIN A : \E l \in DOMAIN A[k] : A[k][l] = t /\ p = <<k, l>>
      BY <1>1
    <3>2. PICK l \in DOMAIN A[k] : A[k][l] = t /\ p = <<k, l>>
      BY <3>1
    <3>3. k = i /\ l = j
      BY <2>2, <3>2, OnceAt
    <3> QED BY <3>2, <3>3
  <2>5. Places(A, t) = {<<i, j>>}
    BY <2>3, <2>4
  <2> QED BY <2>5
<1>3. ASSUME ~Holds(A, t)
      PROVE  Places(A, t) = {}
  BY <1>1, <1>3 DEF Holds
<1> QED BY <1>2, <1>3

\* The same of the list that vthread_run works through.
LEMMA RestOnce ==
  ASSUME NEW s, Once(<<s>>), NEW t, NEW R,
         \A p : p \in R <=> \E j \in DOMAIN s : s[j] = t /\ p = <<0, j>>
  PROVE  /\ Holds(<<s>>, t) => \E p : R = {p}
         /\ ~Holds(<<s>>, t) => R = {}
<1>1. \A p : p \in R <=> \E j \in DOMAIN s : s[j] = t /\ p = <<0, j>>
  OBVIOUS
<1>2. /\ Holds(<<s>>, t) <=> \E j \in DOMAIN s : s[j] = t
      /\ \A j, l \in DOMAIN s : s[j] = s[l] => j = l
  BY OneList
<1>3. ASSUME Holds(<<s>>, t)
      PROVE  \E p : R = {p}
  <2>1. PICK j \in DOMAIN s : s[j] = t
    BY <1>2, <1>3
  <2>2. <<0, j>> \in R
    BY <1>1, <2>1
  <2>3. ASSUME NEW p \in R
        PROVE  p = <<0, j>>
    <3>1. PICK l \in DOMAIN s : s[l] = t /\ p = <<0, l>>
      BY <1>1
    <3>2. l = j
      BY <1>2, <2>1, <3>1
    <3> QED BY <3>1, <3>2
  <2>4. R = {<<0, j>>}
    BY <2>2, <2>3
  <2> QED BY <2>4
<1> QED BY <1>1, <1>2, <1>3

\* What a thread in one place at most, as its flags say, means for the entries
\* of the queue and the wait lists that refer to it.
LEMMA PlacedCounts ==
  ASSUME Placed, NEW t \in Threads
  PROVE  /\ thr[t].is_scheduled => \E p : Entries(t) = {p}
         /\ ~thr[t].is_scheduled => Entries(t) = {}
         /\ thr[t].waiting_for_event => \E p : Waits(t) = {p}
         /\ ~thr[t].waiting_for_event => Waits(t) = {}
<1>0. PICK R : R = {<<0, j>> : j \in {k \in DOMAIN rest : rest[k] = t}}
  OBVIOUS
<1>1. PICK D : D = {<<-1, 0>> : u \in sleeping \cap {t}}
  OBVIOUS
<1>2. Entries(t) = Places(active, t) \cup R \cup D
  BY <1>0, <1>1 DEF Entries
<1>3. /\ Once(active) /\ Once(<<rest>>) /\ Once(waiters)
      /\ thr[t].is_scheduled <=> Holds(active, t) \/ Holds(<<rest>>, t) \/ t \in sleeping
      /\ thr[t].waiting_for_event <=> Holds(waiters, t)
      /\ ~(Holds(active, t) /\ Holds(<<rest>>, t))
      /\ t \in sleeping => ~Holds(active, t) /\ ~Holds(<<rest>>, t)
  BY DEF Placed
<1>4. /\ Holds(active, t) => \E p : Places(active, t) = {p}
      /\ ~Holds(active, t) => Places(active, t) = {}
  BY <1>3, PlacesOnce
<1>5. /\ Holds(<<rest>>, t) => \E p : R = {p}
      /\ ~Holds(<<rest>>, t) => R = {}
  <2>1. \A p : p \in R <=> \E j \in DOMAIN rest : rest[j] = t /\ p = <<0, j>>
    BY <1>0
  <2> QED BY <1>3, <2>1, RestOnce
<1>6. /\ t \in sleeping => D = {<<-1, 0>>}
      /\ t \notin sleeping => D = {}
  <2>1. \A p : p \in D <=> t \in sleeping /\ p = <<-1, 0>>
    BY <1>1
  <2> QED BY <2>1
<1>7. /\ Holds(waiters, t) => \E p : Waits(t) = {p}
      /\ ~Holds(waiters, t) => Waits(t) = {}
  BY <1>3, PlacesOnce DEF Waits
<1>8. ASSUME thr[t].is_scheduled
      PROVE  \E p : Entries(t) = {p}
  <2>1. CASE Holds(active, t)
    <3>1. R = {} /\ D = {}
      BY <1>3, <1>5, <1>6, <2>1
    <3>2. Entries(t) = Places(active, t)
      BY <1>2, <3>1
    <3> QED BY <1>4, <2>1, <3>2
  <2>2. CASE Holds(<<rest>>, t)
    <3>1. Places(active, t) = {} /\ D = {}
      BY <1>3, <1>4, <1>6, <2>2
    <3>2. Entries(t) = R
      BY <1>2, <3>1
    <3> QED BY <1>5, <2>2, <3>2
  <2>3. CASE t \in sleeping
    <3>1. Places(active, t) = {} /\ R = {}
      BY <1>3, <1>4, <1>5, <2>3
    <3>2. Entries(t) = D
      BY <1>2, <3>1
    <3> QED BY <1>6, <2>3, <3>2
  <2> QED BY <1>3, <1>8, <2>1, <2>2, <2>3
<1>9. ASSUME ~thr[t].is_scheduled
      PROVE  Entries(t) = {}
  BY <1>2, <1>3, <1>4, <1>5, <1>6, <1>9
<1> QED BY <1>3, <1>7, <1>8, <1>9

\* The flags are right.
LEMMA FlagsFollow ==
  ASSUME Sound, Exact
  PROVE  FlagsExact
<1> SUFFICES ASSUME NEW t \in Threads
             PROVE  /\ Cardinality(Entries(t)) = IF thr[t].is_scheduled THEN 1 ELSE 0
                    /\ Cardinality(Waits(t)) = IF thr[t].waiting_for_event THEN 1 ELSE 0
                    /\ ~(thr[t].is_scheduled /\ thr[t].waiting_for_event)
  BY DEF FlagsExact
<1>1. Placed /\ Suspended(t)
  BY DEF Exact
<1>2. Cardinality({}) = 0 /\ \A p : Cardinality({p}) = 1
  BY FS_EmptySet, FS_Singleton
<1>3. /\ thr[t].is_scheduled => Cardinality(Entries(t)) = 1
      /\ ~thr[t].is_scheduled => Cardinality(Entries(t)) = 0
  BY <1>1, <1>2, PlacedCounts
<1>4. /\ thr[t].waiting_for_event => Cardinality(Waits(t)) = 1
      /\ ~thr[t].waiting_for_event => Cardinality(Waits(t)) = 0
  BY <1>1, <1>2, PlacedCounts
<1> QED BY <1>1, <1>3, <1>4 DEF Suspended

\* Nothing refers to a thread that is not there.
LEMMA DanglingFollows ==
  ASSUME Sound, Exact, ThreadAssumption
  PROVE  ~aborted => NoDangling
<1> SUFFICES ASSUME ~aborted, NEW t \in Threads, ~Live(t)
             PROVE  /\ \A u \in Threads : Live(u) =>
                         /\ thr[u].parent # t
                         /\ t \notin thr[u].children \cup thr[u].detached_children
                         /\ t \in thr[u].task_func_children => thr[u].i_have_ended
                    /\ ~thr[t].in_scope
                    /\ running = t => dis.on
                    /\ dis.ret # t /\ \A i \in DOMAIN dis.stack : dis.stack[i] # t
                    /\ thr[t].status = "deleted" => Entries(t) = {} /\ Waits(t) = {}
  BY DEF NoDangling
<1>1. Departed /\ Family /\ TaskChildren /\ Disabled /\ Referred /\ Placed /\ Suspended(t)
  BY DEF Sound, KinInv, Exact
<1>2. thr[t].parent = None /\ ~thr[t].in_scope
  BY <1>1 DEF Departed
<1>3. ASSUME NEW u \in Threads, Live(u)
      PROVE  /\ thr[u].parent # t
             /\ t \notin thr[u].children \cup thr[u].detached_children
             /\ t \in thr[u].task_func_children => thr[u].i_have_ended
  <2>1. thr[u].parent # t
    BY <1>1, ThreadAssumption DEF Departed, ThreadAssumption
  <2>2. t \notin thr[u].children \cup thr[u].detached_children
    BY <1>1, <1>2, <1>3, ThreadAssumption DEF Family, ThreadAssumption
  <2> QED BY <1>1, <2>1, <2>2 DEF TaskChildren
<1>4. ASSUME running = t, ~dis.on
      PROVE  FALSE
  <2>1. ~thr[t].i_have_ended
    BY <1>1, <1>4, ThreadAssumption DEF Disabled, ThreadAssumption
  <2>2. t \in Born
    BY <1>1, <1>4, ThreadAssumption DEF Referred, ThreadAssumption
  <2>3. thr[t].status \in {"unborn", "live", "reaped", "deleted"}
    <3>1. thr[t] \in ThreadType
      BY DEF Sound, TypeOK
    <3> QED BY <3>1 DEF ThreadType
  <2> QED BY <1>1, <2>1, <2>2, <2>3 DEF Born, Departed, Live
<1>5. dis.ret # t /\ \A i \in DOMAIN dis.stack : dis.stack[i] # t
  BY <1>1, ThreadAssumption DEF Disabled, ThreadAssumption
<1>6. ASSUME thr[t].status = "deleted"
      PROVE  Entries(t) = {} /\ Waits(t) = {}
  <2>1. ~thr[t].is_scheduled /\ ~thr[t].waiting_for_event
    BY <1>1, <1>6 DEF Suspended
  <2> QED BY <1>1, <2>1, PlacedCounts
<1> QED BY <1>2, <1>3, <1>4, <1>5, <1>6

\* A %join that a thread is past has taken a child that has ended.
LEMMA JoinsFollow ==
  ASSUME Sound, Exact, ThreadAssumption, ForkAssumption
  PROVE  JoinWaits
<1> SUFFICES ASSUME NEW t \in Threads, Live(t), ~thr[t].i_have_ended, ~thr[t].i_am_joining
             PROVE  Cardinality({u \in thr[t].kids : thr[u].i_have_ended}) >= thr[t].joined
  BY DEF JoinWaits
<1>0. PICK gone : gone = {u \in thr[t].kids \ thr[t].children : thr[u].i_have_ended}
  OBVIOUS
<1>1. PICK all : all = {u \in thr[t].kids : thr[u].i_have_ended}
  OBVIOUS
<1>2. thr[t] \in ThreadType
  BY DEF Sound, TypeOK
<1>3. thr[t].joined <= Cardinality(gone) + 0
  BY <1>0 DEF Exact, Statement
<1>4. IsFiniteSet(thr[t].kids) /\ all \subseteq thr[t].kids /\ gone \subseteq all
  BY <1>0, <1>1, <1>2, FiniteKin
<1>5. IsFiniteSet(all)
  BY <1>4, FS_Subset
<1>6. Cardinality(gone) <= Cardinality(all) /\ IsFiniteSet(gone)
  BY <1>4, <1>5, FS_Subset
<1>7. Cardinality(gone) \in Nat /\ Cardinality(all) \in Nat /\ thr[t].joined \in Nat
  BY <1>2, <1>5, <1>6, FS_CardinalityType DEF ThreadType, ForkAssumption
<1> QED BY <1>1, <1>3, <1>6, <1>7

\* The flags that vthread_reap trusts when it deletes a thread are right, in
\* every program that disables no scope of a detached thread: is_scheduled says
\* that one entry of the queue refers to the thread and waiting_for_event that
\* one wait list does.
THEOREM FlagsAreRight == "disable_detached" \notin Features => (Spec => []FlagsExact)
<1>1. IInv /\ (~aborted => Exact) => FlagsExact
  BY FlagsFollow DEF IInv, FlagsExact
<1> QED BY <1>1, ExactInvariant, PTL

\* No freed thread is referred to, in every such program: not by its family, its
\* scope or vthread_run once it is reaped, by no event and no entry of the event
\* queue once it is deleted.
THEOREM NothingDangles == "disable_detached" \notin Features => (Spec => []NoDangling)
<1>1. IInv /\ (~aborted => Exact) => NoDangling
  BY DanglingFollows, ThreadAssumption DEF IInv, NoDangling
<1> QED BY <1>1, ExactInvariant, PTL

\* A %join is not passed early, in every such program: a thread that is past n
\* %join of a fork statement sees n of the threads of that statement ended.
THEOREM JoinsWait == "disable_detached" \notin Features => (Spec => []JoinWaits)
<1>1. IInv /\ (~aborted => Exact) => JoinWaits
  BY JoinsFollow, ThreadAssumption, ForkAssumption DEF IInv, JoinWaits
<1> QED BY <1>1, ExactInvariant, PTL

\* No assert() of the thread opcodes, of vthread_run, vthread_reap, do_join and
\* vthread_mark_scheduled ever fails, and the thread objects are sound, in every
\* program that disables no scope of a detached thread and has no join_any or
\* join_none of an unnamed fork in a task, whatever its threads, scopes, events
\* and branches are.
THEOREM ThreadsAreSound ==
  "disable_detached" \notin Features /\ "detach_in_task" \notin Features =>
    (Spec => []ThreadsSound)
<1> SUFFICES ASSUME "disable_detached" \notin Features, "detach_in_task" \notin Features
             PROVE  Spec => []ThreadsSound
  OBVIOUS
<1>1. Init => NoAbort
  BY DEF Init, NoAbort
<1>2. IInv /\ (~aborted => Exact) /\ NoAbort /\ [Next]_vars => NoAbort'
  <2> SUFFICES ASSUME IInv, ~aborted => Exact, ~aborted, [Next]_vars PROVE ~aborted'
    BY DEF NoAbort
  <2>1. CASE Next
    BY <2>1, ExactNext, ThreadAssumption, ForkAssumption DEF IInv
  <2>2. CASE UNCHANGED vars
    BY <2>2 DEF vars
  <2> QED BY <2>1, <2>2
<1>3. IInv /\ (~aborted => Exact) /\ NoAbort => ThreadsSound
  <2> SUFFICES ASSUME IInv, ~aborted => Exact, NoAbort PROVE ThreadsSound
    OBVIOUS
  <2>1. Sound /\ Exact /\ ~aborted
    BY DEF IInv, NoAbort
  <2>2. TypeOK /\ Family
    BY <2>1 DEF Sound, KinInv
  <2>3. FlagsExact /\ NoDangling
    BY <2>1, FlagsFollow, DanglingFollows, ThreadAssumption
  <2> QED BY <2>1, <2>2, <2>3 DEF ThreadsSound
<1> QED BY <1>1, <1>2, <1>3, ExactInvariant, PTL DEF Spec

=============================================================================
