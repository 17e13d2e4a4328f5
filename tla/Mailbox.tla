------------------------------ MODULE Mailbox ------------------------------
(***************************************************************************)
(* What the work queue of the LXT2 dumper promises (vpi/vcd_priv.h): the   *)
(* messages of the simulator reach the work thread once each and in order, *)
(* and each is carried out at the time it was sent with.                   *)
(***************************************************************************)
EXTENDS Sequences

CONSTANTS Messages, None

VARIABLES pending,   \* sent and not carried out
          written    \* the message carried out last

vars == <<pending, written>>

Init == pending = <<>> /\ written = None

Send(m) == pending' = Append(pending, m) /\ UNCHANGED written

CarryOut ==
    /\ pending # <<>>
    /\ written' = Head(pending)
    /\ pending' = Tail(pending)

Next == (\E m \in Messages : Send(m)) \/ CarryOut

Spec == Init /\ [][Next]_vars
============================================================================
