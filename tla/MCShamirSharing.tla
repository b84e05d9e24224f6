--------------------------- MODULE MCShamirSharing ---------------------------
(* Four players, three of them signers, modulo eleven; draws are 1 or -1.    *)
EXTENDS ShamirSharing
MCDrawn == {1, 10}
==============================================================================
