--------------------------- MODULE HypertreeChain ----------------------------
(***************************************************************************)
(* What a signing session promises of its SPX_D layers: layer 0 signs the  *)
(* FORS root, every other layer the root of the layer below it, one layer  *)
(* after the other, and no layer's one-time key is used twice.             *)
(***************************************************************************)
EXTENDS Integers, Sequences

CONSTANT SPX_D          \* the number of layers

VARIABLE chain          \* the signatures made so far, in the order they are made

\* The signature of a layer; below layer 0 lies the FORS key, as layer -1.
Signature(layer) == [layer |-> layer, signs |-> layer - 1]

Init == chain = <<>>

Extend ==
    /\ Len(chain) < SPX_D
    /\ chain' = Append(chain, Signature(Len(chain)))

SafeSpec == Init /\ [][Extend]_chain

\* All the layers get their signatures.
Spec == SafeSpec /\ WF_chain(Extend)
==============================================================================
