------------------------------- MODULE Linker -------------------------------
(***************************************************************************)
(* References between the statements of a vvp program, vvp/compile.cc and  *)
(* vvp/words.cc.  The program is read once.  A functor has its label as    *)
(* soon as it is read, and its inputs name the labels that drive them.  A  *)
(* .net is another label of the node that its reference names, and has     *)
(* its own label only once that is known.  What cannot be resolved when it *)
(* is read waits in resolv_list, which compile_cleanup goes through until  *)
(* nothing changes.                                                        *)
(***************************************************************************)
EXTENDS Integers, Sequences, SequencesExt, FiniteSets

CONSTANTS Gates,        \* functors, with one input each
          Nets,         \* .net statements
          Missing,      \* a label that nothing defines
          None

Statements == Gates \cup Nets
Labels == Statements \cup {Missing}

LinkerAssumption ==
    /\ Gates \cap Nets = {} /\ Missing \notin Statements
    /\ None \notin Labels

VARIABLES ref,          \* the program: the label each statement refers to
          unread,       \* statements not read yet
          node,         \* symbol table: the gate a label stands for, or None
          fanout,       \* the inputs linked to the output of a gate
          resolv_list,  \* postponed statements
          res,          \* those that the current pass has not looked at
          phase, last, nerrs, lnerrs,
          messages      \* references reported as unresolved

vars == <<ref, unread, node, fanout, resolv_list, res, phase, last, nerrs, lnerrs, messages>>

Init ==
    /\ ref \in [Statements -> Labels]
    /\ unread = Statements
    /\ node = [l \in Labels |-> None]
    /\ fanout = [g \in Gates |-> <<>>]
    /\ resolv_list = <<>> /\ res = <<>>
    /\ phase = "read"
    /\ last = FALSE /\ nerrs = 0 /\ lnerrs = -1
    /\ messages = <<>>

----------------------------------------------------------------------------
(* The outcome of resolving a statement, with the symbols `known'. *)
Succeeds(s, known) == known[ref[s]] # None

link(s, target) == fanout' = [fanout EXCEPT ![target] = Append(@, s)]

define_functor_symbol(known, s, target) == [known EXCEPT ![s] = target]

resolve(s, known) ==
    LET target == known[ref[s]]
    IN  IF s \in Nets
        THEN node' = define_functor_symbol(known, s, target) /\ UNCHANGED fanout
        ELSE node' = known /\ link(s, target)

resolv_submit(s, known) ==
    IF Succeeds(s, known)
    THEN resolve(s, known) /\ UNCHANGED resolv_list
    ELSE /\ resolv_list' = <<s>> \o resolv_list
         /\ node' = known
         /\ UNCHANGED fanout

(* A gate defines its label before its input is connected. *)
Read(s) ==
    /\ phase = "read" /\ s \in unread
    /\ unread' = unread \ {s}
    /\ resolv_submit(s, IF s \in Gates THEN define_functor_symbol(node, s, s) ELSE node)
    /\ UNCHANGED <<ref, res, phase, last, nerrs, lnerrs, messages>>

----------------------------------------------------------------------------
(* compile_cleanup: a pass takes the whole list, and what fails again makes
   the next one.  A pass after one that resolved nothing is the last. *)
BeginPass ==
    /\ \/ phase = "read" /\ unread = {}
       \/ phase = "pass" /\ res = <<>> /\ nerrs # 0 /\ ~last
    /\ res' = resolv_list /\ resolv_list' = <<>>
    /\ last' = (nerrs = lnerrs)
    /\ lnerrs' = nerrs /\ nerrs' = 0
    /\ phase' = "pass"
    /\ UNCHANGED <<ref, unread, node, fanout, messages>>

PassItem_Keep ==
    /\ phase = "pass" /\ res # <<>>
    /\ res' = Tail(res)
    /\ IF Succeeds(Head(res), node)
       THEN resolve(Head(res), node) /\ UNCHANGED <<nerrs, messages>>
       ELSE /\ nerrs' = nerrs + 1
            /\ messages' = IF last THEN Append(messages, Head(res)) ELSE messages
            /\ UNCHANGED <<node, fanout>>
    /\ resolv_list' = <<Head(res)>> \o resolv_list
    /\ UNCHANGED <<ref, unread, phase, last, lnerrs>>

PassItem ==
    /\ phase = "pass" /\ res # <<>>
    /\ res' = Tail(res)
    /\ IF Succeeds(Head(res), node)
       THEN resolve(Head(res), node) /\ UNCHANGED <<resolv_list, nerrs, messages>>
       ELSE /\ resolv_list' = <<Head(res)>> \o resolv_list
            /\ nerrs' = nerrs + 1
            /\ messages' = IF last THEN Append(messages, Head(res)) ELSE messages
            /\ UNCHANGED <<node, fanout>>
    /\ UNCHANGED <<ref, unread, phase, last, lnerrs>>

EndPass ==
    /\ phase = "pass" /\ res = <<>> /\ (nerrs = 0 \/ last)
    /\ phase' = "done"
    /\ UNCHANGED <<ref, unread, node, fanout, resolv_list, res, last, nerrs, lnerrs, messages>>

Next == (\E s \in Statements : Read(s)) \/ BeginPass \/ PassItem \/ EndPass

(* The parser reads the program to its end, and the loop goes on. *)
Spec == Init /\ [][Next]_vars /\ WF_vars(Next)

----------------------------------------------------------------------------
(* Properties *)

(* The gate at the end of a chain of references, None if it has no end. *)
Follow[n \in 0 .. Cardinality(Nets), l \in Labels] ==
    IF l \in Gates THEN l
    ELSE IF l = Missing \/ n = 0 THEN None ELSE Follow[n - 1, ref[l]]

Drives(s) == Follow[Cardinality(Nets), ref[s]]

(* Whatever the order of the statements, in the end every input is linked to
   the node its reference leads to, once, and nothing else is linked. *)
AllLinked ==
    phase = "done" =>
        \A g \in Gates :
            /\ ToSet(fanout[g]) = {h \in Gates : Drives(h) = g}
            /\ Len(fanout[g]) = Cardinality(ToSet(fanout[g]))

(* Exactly the references that lead nowhere are reported and counted as errors,
   each of them once. *)
ErrorsExact ==
    phase = "done" =>
        LET lost == {s \in Statements : Drives(s) = None}
        IN  ToSet(messages) = lost /\ Len(messages) = Cardinality(lost) /\ nerrs = Cardinality(lost)
=============================================================================
