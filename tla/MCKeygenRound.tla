---------------------------- MODULE MCKeygenRound ----------------------------
(* Three players and the TTP.                                                *)
EXTENDS KeygenRound
==============================================================================
