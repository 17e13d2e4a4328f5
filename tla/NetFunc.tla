------------------------------ MODULE NetFunc ------------------------------
(***************************************************************************)
(* Functions called from nets: the .ufunc cores of vvp/ufunc.cc, which run *)
(* a Verilog function in a thread of three phantom instructions            *)
(* (%exec_ufunc, %reap_ufunc, %end), and the .sfunc cores of vvp/sfunc.cc, *)
(* which call a system function from an event.                             *)
(*                                                                         *)
(* A core keeps the last value of each input.  A user function takes its   *)
(* arguments from its port variables, which all calls of a static function *)
(* share and which an automatic function has in a context of its own.  A   *)
(* function runs to its end at once, unless it calls $stop: its thread     *)
(* then goes to the back of the active queue and the caller joins it.      *)
(***************************************************************************)
EXTENDS Integers, Sequences, SequencesExt, FiniteSets

CONSTANTS Cores,         \* the .ufunc and .sfunc devices
          Ports,         \* their inputs
          UserFuns,      \* user functions; the others are system functions
          Automatic,     \* the automatic ones
          Fun,           \* Fun[c]: the function a core calls
          Feeds,         \* Feeds[c]: the inputs <<d, p>> its output drives
          Values,        \* values of a net
          Nil,           \* an input that has no value yet
          Result(_, _),  \* what a function returns for its arguments
          MaxChanges,    \* bound on the changes of free inputs
          MaxStops,      \* bound on the calls of $stop
          MaxActive      \* bound on the active queue

FunsAssumption == Automatic \subseteq UserFuns

VARIABLES value,         \* value[c][p], the inputs seen by a core
          out,           \* the net each core drives
          thread_,       \* the core has a thread
          port,          \* port variables of the static functions
          frame,         \* port variables of each context
          live, free,    \* contexts of an automatic function, newest first
          context,       \* the context of a core's call, 0 if none
          stack,         \* the result a finished call left on its caller's stack
          copied,        \* the inputs the current call was given
          active,        \* the active queue
          changes, stops

core == <<value, out, thread_>>
store == <<port, frame, live, free, context>>
vars == <<core, store, stack, copied, active, changes, stops>>

Args == [Ports -> Values \cup {Nil}]
NoArgs == [p \in Ports |-> Nil]
IsUser(c) == Fun[c] \in UserFuns
Driven == UNION {ToSet(Feeds[c]) : c \in Cores}

Init ==
    /\ value = [c \in Cores |-> NoArgs]
    /\ out = [c \in Cores |-> Nil]
    /\ thread_ = [c \in Cores |-> FALSE]
    /\ port = [f \in UserFuns |-> NoArgs]
    /\ frame = <<>>
    /\ live = [f \in UserFuns |-> <<>>] /\ free = [f \in UserFuns |-> <<>>]
    /\ context = [c \in Cores |-> 0]
    /\ stack = [c \in Cores |-> Nil]
    /\ copied = [c \in Cores |-> NoArgs]
    /\ active = <<>>
    /\ changes = 0 /\ stops = 0

----------------------------------------------------------------------------
(* An input arrives at core d while the queue is q and the threads are t. *)

(* invoke_thread_: one thread per core at a time; a system function is
   scheduled every time. *)
invoke(d, t, q) ==
    IF ~IsUser(d) THEN [t |-> t, q |-> Append(q, <<"sfunc", d>>)]
    ELSE IF t[d] THEN [t |-> t, q |-> q]
    ELSE [t |-> [t EXCEPT ![d] = TRUE], q |-> Append(q, <<"exec", d>>)]

(* A value v reaches the inputs of a list, one after the other. *)
Deliver(inputs, v, val, t, q) ==
    FoldLeft(LAMBDA s, i : LET r == invoke(i[1], s.t, s.q)
                           IN [v |-> [s.v EXCEPT ![i[1]][i[2]] = v], t |-> r.t, q |-> r.q],
             [v |-> val, t |-> t, q |-> q], inputs)

(* propagate_vec4: the net behind a core passes a value on when it differs
   from the one it has. *)
Propagate(c, v, t, q) ==
    IF out[c] = v THEN [v |-> value, t |-> t, q |-> q]
    ELSE Deliver(Feeds[c], v, value, t, q)

(* finish_thread: the result goes out before thread_ is cleared. *)
finish_thread_Changed(c, v, t, q) ==
    LET s == Propagate(c, v, t, q)
    IN /\ value' = s.v
       /\ active' = s.q
       /\ out' = [out EXCEPT ![c] = v]
       /\ thread_' = [s.t EXCEPT ![c] = (out[c] = v)]

finish_thread(c, v, t, q) ==
    LET s == Propagate(c, v, t, q)
    IN /\ value' = s.v
       /\ active' = s.q
       /\ out' = [out EXCEPT ![c] = v]
       /\ thread_' = [s.t EXCEPT ![c] = FALSE]

(* A net outside the model changes an input. *)
Input(c, p, v) ==
    /\ changes < MaxChanges
    /\ <<c, p>> \notin Driven
    /\ value[c][p] # v
    /\ Len(active) < MaxActive
    /\ LET s == Deliver(<<<<c, p>>>>, v, value, thread_, active)
       IN value' = s.v /\ thread_' = s.t /\ active' = s.q
    /\ changes' = changes + 1
    /\ UNCHANGED <<out, store, stack, copied, stops>>

(* recv_vec4: the trigger event of a core, without a new input. *)
Trigger(c) ==
    /\ changes < MaxChanges
    /\ Len(active) < MaxActive
    /\ LET r == invoke(c, thread_, active)
       IN thread_' = r.t /\ active' = r.q
    /\ changes' = changes + 1
    /\ UNCHANGED <<value, out, store, stack, copied, stops>>

----------------------------------------------------------------------------
(* Contexts of automatic functions *)

(* vthread_alloc_context: the context freed last, or a new one. *)
Allocated(f) == IF free[f] # <<>> THEN Head(free[f]) ELSE Len(frame) + 1

vthread_alloc_context(f) ==
    /\ free' = [free EXCEPT ![f] = IF @ # <<>> THEN Tail(@) ELSE @]
    /\ live' = [live EXCEPT ![f] = <<Allocated(f)>> \o @]

vthread_free_context(f, k) ==
    /\ live' = [live EXCEPT ![f] = SelectSeq(@, LAMBDA x : x # k)]
    /\ free' = [free EXCEPT ![f] = <<k>> \o @]

(* The variables of context k set to the arguments a. *)
Filled(k, a) ==
    IF k \in DOMAIN frame THEN [frame EXCEPT ![k] = a] ELSE Append(frame, a)

(* assign_bits_to_ports, into the context or the static variables. *)
assign_bits_to_ports(c) ==
    LET f == Fun[c]
        k == Allocated(f)
    IN IF f \in Automatic
       THEN /\ vthread_alloc_context(f)
            /\ frame' = Filled(k, value[c])
            /\ context' = [context EXCEPT ![c] = k]
            /\ UNCHANGED port
       ELSE /\ port' = [port EXCEPT ![f] = value[c]]
            /\ UNCHANGED <<frame, live, free, context>>

(* of_REAP_UFUNC frees the context. *)
Reap(c) ==
    IF Fun[c] \in Automatic
    THEN /\ vthread_free_context(Fun[c], context[c])
         /\ context' = [context EXCEPT ![c] = 0]
         /\ UNCHANGED <<port, frame>>
    ELSE UNCHANGED store

----------------------------------------------------------------------------
(* The events of the active queue *)

AtHead(kind, c) == active # <<>> /\ Head(active) = <<kind, c>>

(* What a function called by c reads as its arguments. *)
Read(c) == IF Fun[c] \in Automatic THEN frame[context[c]] ELSE port[Fun[c]]

(* The thread of a core starts, and its function runs to the end:
   %exec_ufunc, %reap_ufunc, %end.  The context is allocated and freed again
   within the step. *)
ExecWhole(c) ==
    /\ AtHead("exec", c)
    /\ copied' = [copied EXCEPT ![c] = value[c]]
    /\ IF Fun[c] \in Automatic
       THEN /\ free' = [free EXCEPT ![Fun[c]] = IF @ # <<>> THEN @ ELSE <<Allocated(Fun[c])>>]
            /\ frame' = Filled(Allocated(Fun[c]), value[c])
            /\ UNCHANGED <<port, live, context>>
       ELSE assign_bits_to_ports(c)
    /\ stack' = [stack EXCEPT ![c] = Nil]
    /\ finish_thread(c, Result(Fun[c], value[c]), thread_, Tail(active))
    /\ UNCHANGED <<changes, stops>>

(* The function calls $stop: its thread is scheduled again, behind what is
   there, and the caller joins it. *)
ExecStop(c) ==
    /\ AtHead("exec", c)
    /\ stops < MaxStops
    /\ stops' = stops + 1
    /\ copied' = [copied EXCEPT ![c] = value[c]]
    /\ assign_bits_to_ports(c)
    /\ active' = Append(Tail(active), <<"function", c>>)
    /\ UNCHANGED <<core, stack, changes>>

(* The stopped function goes on and ends; %end pushes the joining caller in
   front of the queue. *)
ResumeFunction(c) ==
    /\ AtHead("function", c)
    /\ stack' = [stack EXCEPT ![c] = Result(Fun[c], Read(c))]
    /\ active' = <<<<"reap", c>>>> \o Tail(active)
    /\ UNCHANGED <<core, store, copied, changes, stops>>

RunReap(c) ==
    /\ AtHead("reap", c)
    /\ finish_thread(c, stack[c], thread_, Tail(active))
    /\ Reap(c)
    /\ stack' = [stack EXCEPT ![c] = Nil]
    /\ UNCHANGED <<copied, changes, stops>>

(* sfunc_core::run_run: the arguments were stored as they came. *)
run_run(c) ==
    /\ AtHead("sfunc", c)
    /\ LET v == Result(Fun[c], value[c])
           s == Propagate(c, v, thread_, Tail(active))
       IN /\ value' = s.v /\ thread_' = s.t /\ active' = s.q
          /\ out' = [out EXCEPT ![c] = v]
    /\ UNCHANGED <<store, stack, copied, changes, stops>>

Next ==
    \/ \E c \in Cores, p \in Ports, v \in Values : Input(c, p, v)
    \/ \E c \in Cores : \/ Trigger(c)
                        \/ ExecWhole(c)
                        \/ ExecStop(c)
                        \/ ResumeFunction(c)
                        \/ RunReap(c)
                        \/ run_run(c)

Spec == Init /\ [][Next]_vars

----------------------------------------------------------------------------
(* Properties *)

(* The type of every variable. *)
TypeOK ==
    /\ value \in [Cores -> Args] /\ copied \in [Cores -> Args]
    /\ out \in [Cores -> Values \cup {Nil}] /\ stack \in [Cores -> Values \cup {Nil}]
    /\ thread_ \in [Cores -> BOOLEAN]
    /\ port \in [UserFuns -> Args] /\ frame \in Seq(Args)
    /\ context \in [Cores -> 0 .. Len(frame)]
    /\ live \in [UserFuns -> Seq(1 .. Len(frame))] /\ free \in [UserFuns -> Seq(1 .. Len(frame))]
    /\ active \in Seq({"exec", "function", "reap", "sfunc"} \X Cores)

(* When nothing is left to run, every net driven by a function has the value
   of that function for the inputs the core has now: no change that arrived
   while a thread was waiting, running or delivering its result is lost. *)
Settled ==
    active = <<>> =>
        \A c \in Cores :
            /\ value[c] # NoArgs => out[c] = Result(Fun[c], value[c])
            /\ \A i \in ToSet(Feeds[c]) : value[i[1]][i[2]] = out[c]

(* A call reads the arguments its own core gave it, whatever other cores call
   the same function while it is stopped. *)
OwnPorts ==
    \A c \in Cores :
        (\E i \in DOMAIN active : active[i] = <<"function", c>>) => Read(c) = copied[c]

(* A core has a thread exactly when one event of the queue will end it, and
   never two: with two, the second %reap_ufunc would find no thread. *)
OneThread ==
    \A c \in Cores :
        Cardinality({i \in DOMAIN active : active[i][2] = c /\ active[i][1] # "sfunc"})
            = (IF thread_[c] THEN 1 ELSE 0)

(* The contexts of an automatic function are in use by one call each, are
   never both live and free, and none is lost. *)
ContextsApart ==
    \A f \in Automatic :
        /\ ToSet(live[f]) = {context[c] : c \in {d \in Cores : Fun[d] = f /\ context[d] # 0}}
        /\ IsInjective(live[f] \o free[f])
        /\ \A c, d \in Cores : (c # d /\ context[c] # 0) => context[c] # context[d]

============================================================================
