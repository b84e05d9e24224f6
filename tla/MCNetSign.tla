------------------------------ MODULE MCNetSign ------------------------------
(* One to three signers for four layers below the top.                       *)
EXTENDS NetSign

MCPlayers == 0..(MAX_T - 1)
MCParties == MCPlayers \cup {MAX_T, Stale}
MCConns ==
    (MCPlayers \X {"presign", "final"} \X {MAX_T})
        \cup {c \in MCPlayers \X {"root"} \X MCParties : c[1] # c[3]}
        \cup {c \in MCPlayers \X {"exch"} \X MCPlayers : c[1] < c[3]}
==============================================================================
