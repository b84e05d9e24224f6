----------------------------- MODULE MCNetKeygen -----------------------------
(* Three players.                                                            *)
EXTENDS NetKeygen

MCParties == {TTP} \cup Players
MCConns == {c \in Players \X {"keygen"} \X MCParties : c[1] < c[3] \/ c[3] = TTP}
==============================================================================
