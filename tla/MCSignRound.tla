----------------------------- MODULE MCSignRound -----------------------------
(* Four layers: three of four players and the TTP sign.                      *)
EXTENDS SignRound
==============================================================================
