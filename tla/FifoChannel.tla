----------------------------- MODULE FifoChannel -----------------------------
(***************************************************************************)
(* What the protocol code relies on when it calls Send_Msg and Recv_Msg: a *)
(* channel that hands every message that was sent to exactly one receiver, *)
(* in the order of the sends, and loses none.                              *)
(*                                                                         *)
(* The channel is kept as an immutable sequence of the messages sent and   *)
(* the sequence of those delivered; what waits is the difference.          *)
(***************************************************************************)
EXTENDS Naturals, Sequences

CONSTANT Messages

VARIABLES sent, delivered

vars == <<sent, delivered>>

Init == sent = <<>> /\ delivered = <<>>

\* A message is sent once: each call of Send_Msg packs a message of its own.
Send(m) ==
    /\ \A i \in 1..Len(sent) : sent[i] # m
    /\ sent' = Append(sent, m)
    /\ UNCHANGED delivered

\* The oldest message that waits is the one delivered.
Deliver ==
    /\ Len(delivered) < Len(sent)
    /\ delivered' = Append(delivered, sent[Len(delivered) + 1])
    /\ UNCHANGED sent

Next == Deliver \/ \E m \in Messages : Send(m)

SafeSpec == Init /\ [][Next]_vars

\* No message waits for ever.
Spec == SafeSpec /\ WF_vars(Deliver)
==============================================================================
