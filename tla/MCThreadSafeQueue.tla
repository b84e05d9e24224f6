-------------------------- MODULE MCThreadSafeQueue --------------------------
(* Two senders and two receivers on one queue, three messages.               *)
EXTENDS ThreadSafeQueue
==============================================================================
