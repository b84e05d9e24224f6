---------------------------- MODULE ShamirSharing ----------------------------
(***************************************************************************)
(* The arithmetic behind both rounds (TSS/src/crypto/SSS.c): every player  *)
(* deals shares of its own secret, the shares are summed up to shares of   *)
(* the joint secret, and the signers turn theirs into summands of it. Who  *)
(* sends what to whom is the subject of KeygenRound and SignRound; here    *)
(* the players compute one after the other, in the code's order.           *)
(***************************************************************************)
EXTENDS Integers, FiniteSets, FiniteSetsExt

CONSTANTS
    PLAYERS,    \* the number of players
    THRESHOLD,  \* the number of signers; polynomials have degree THRESHOLD - 1
    prime,      \* the modulus, a prime of 3 * 8 * SPX_N bits in the code
    Drawn       \* the values that random draws below prime return

ASSUME SharingAssumption ==
    /\ PLAYERS \in Nat /\ THRESHOLD \in 1..PLAYERS /\ prime \in Nat /\ prime > PLAYERS
    /\ \A d \in 2..(prime - 1) : prime % d # 0
    /\ Drawn \subseteq 0..(prime - 1)

Players == 1..PLAYERS
Residues == 0..(prime - 1)

VARIABLES
    stage,      \* what the players compute: one after the other
    who,        \* whose turn it is
    coeffs,     \* each player's polynomial; coeffs[p][0] is its secret
    shares,     \* shares[p][q]: what p computed for q
    share,      \* each player's share of the joint secret, later its summand
    threshold,  \* the signers
    seed        \* what the TTP recovers from the signers' summands

sharingVars == <<stage, who, coeffs, shares, share, threshold, seed>>

\* SSS_init: secret and coefficients are drawn; BN_new is zero.
SharingInit ==
    /\ stage = "generate" /\ who = 1
    /\ coeffs \in [Players -> [0..(THRESHOLD - 1) -> Drawn]]
    /\ shares = [p \in Players |-> [q \in Players |-> 0]]
    /\ share = [p \in Players |-> 0]
    /\ threshold = {} /\ seed = 0

\* BN_mod_add, BN_mod_mul and BN_mod_inverse return the residue that is not negative.
Mod(x) == x % prime
Inverted(x) == CHOOSE y \in Residues : Mod(x * y) = 1

\* Fault: the power is raised before the term is added.
EvaluatePowerFirst(a, x, degree) ==
    LET loop[k \in 0..(degree + 1)] ==
            IF k = 0 THEN [result |-> 0, xPow |-> 1]
            ELSE [result |-> Mod(loop[k - 1].result + a[k - 1] * Mod(loop[k - 1].xPow * x)),
                  xPow |-> Mod(loop[k - 1].xPow * x)]
    IN  loop[degree + 1].result

\* evaluate_poly: result and power of x after k rounds of its loop.
EvaluatePoly(a, x, degree) ==
    LET loop[k \in 0..(degree + 1)] ==
            IF k = 0 THEN [result |-> 0, xPow |-> 1]
            ELSE [result |-> Mod(loop[k - 1].result + Mod(a[k - 1] * loop[k - 1].xPow)),
                  xPow |-> Mod(loop[k - 1].xPow * x)]
    IN  loop[degree + 1].result

\* aggregate_shares and recover_secret: the sum.
SumOf(f) == Mod(SumFunction(f))

\* What the loop over the other signers multiplies up.
Product(f) == FoldFunction(LAMBDA x, l : Mod(l * x), 1, f)

\* Fault: the factor is x_k / (x_j - x_k).
ThresholdShardSwapped(y, k) ==
    Mod(y * Product([j \in threshold \ {k} |-> Mod(Inverted(j - k) * k)]))

\* generate_threshold_shards: y_k times the product of x_j / (x_j - x_k) over the
\* other signers j.
ThresholdShard(y, k) ==
    Mod(y * Product([j \in threshold \ {k} |-> Mod(Inverted(j - k) * j)]))

------------------------------------------------------------------------------
\* The next of these players, or the next stage once all have had their turn.
Turn(players, next) ==
    LET later == {p \in players : p > who} IN
    IF later # {} THEN who' = Min(later) /\ UNCHANGED stage
    ELSE who' = 1 /\ stage' = next

\* generate_shares, called by keygen_round_player.
GenerateShares ==
    /\ stage = "generate"
    /\ shares' = [shares EXCEPT ![who] = [q \in Players |-> EvaluatePoly(coeffs[who], q, THRESHOLD - 1)]]
    /\ Turn(Players, "aggregate")
    /\ UNCHANGED <<coeffs, share, threshold, seed>>

\* aggregate_shares, called by keygen_player_recv_shares.
AggregateShares ==
    /\ stage = "aggregate"
    /\ share' = [share EXCEPT ![who] = SumOf([p \in Players |-> shares[p][who]])]
    /\ Turn(Players, "select")
    /\ UNCHANGED <<coeffs, shares, threshold, seed>>

\* main draws THRESHOLD of the players.
Select ==
    /\ stage = "select"
    /\ \E chosen \in kSubset(THRESHOLD, Players) :
           threshold' = chosen /\ who' = Min(chosen)
    /\ stage' = "presign"
    /\ UNCHANGED <<coeffs, shares, share, seed>>

\* presign_round_player: the share is replaced by the signer's summand.
Presign ==
    /\ stage = "presign"
    /\ share' = [share EXCEPT ![who] = ThresholdShard(@, who)]
    /\ Turn(threshold, "recover")
    /\ UNCHANGED <<coeffs, shares, threshold, seed>>

\* recover_secret, called by ttp_recv_lagrange_shards.
Recover ==
    /\ stage = "recover"
    /\ seed' = SumOf([p \in threshold |-> share[p]])
    /\ stage' = "done"
    /\ UNCHANGED <<who, coeffs, shares, share, threshold>>

SharingDone == stage = "done" /\ UNCHANGED sharingVars

SharingNext == GenerateShares \/ AggregateShares \/ Select \/ Presign \/ Recover \/ SharingDone

SharingSpec == SharingInit /\ [][SharingNext]_sharingVars

------------------------------------------------------------------------------
\* The joint polynomial, by Horner's rule.
Joint(x) ==
    LET a(k) == SumFunction([p \in Players |-> coeffs[p][k]])
        h[k \in 0..THRESHOLD] == IF k = 0 THEN 0 ELSE Mod(h[k - 1] * x + a(THRESHOLD - k))
    IN  h[THRESHOLD]

\* The sum of the shares that a player was dealt (SSS.c:64-102) is the value of
\* one polynomial, whose constant term nobody knows, at the player's number.
SharesOnOnePolynomial ==
    stage = "select" => \A p \in Players : share[p] = Joint(p)

\* Whichever signers are drawn, the TTP's sum of their summands (SSS.c:104-153)
\* is the secret that the public key was made from: the sum of all the players'
\* secrets, also of those that do not sign.
SameSecret ==
    stage = "done" => seed = SumOf([p \in Players |-> coeffs[p][0]])
==============================================================================
