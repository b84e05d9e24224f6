----------------------------- MODULE KeygenRound -----------------------------
(***************************************************************************)
(* Distributed key generation of the threaded build: keygen_round_player   *)
(* and keygen_round_ttp (TSS/src/thread/round.c) over the queues and the   *)
(* message functions of TSS/src/thread/communication.c.                    *)
(*                                                                         *)
(* No message says what it is: a receiver takes the next message of its    *)
(* queue and computes with whatever number is inside. Numbers modulo the   *)
(* prime are therefore formal sums over the random values the participants *)
(* drew, so that the checks hold for every draw, and a message that is     *)
(* read in the wrong place spoils the sum instead of being noticed.        *)
(***************************************************************************)
EXTENDS Integers, Sequences, FiniteSets

CONSTANT PLAYERS        \* params.h: the number of players; player 0 is the TTP

ASSUME PlayersAssumption == PLAYERS \in Nat /\ PLAYERS >= 2

Players == 1..PLAYERS
TTP == 0
Parties == 0..PLAYERS

------------------------------------------------------------------------------
(* Numbers.                                                                  *)

\* What a number can be made of: player q's polynomial at p, player q's secret,
\* the random value p drew for q, and the public key of a seed. The TTP copies
\* CRYPTO_SEEDBYTES from a buffer of BN_num_bytes(Seed) bytes, so a seed with a
\* leading zero byte is completed with whatever follows the buffer: "stray".
Poly(q, p)  == <<"poly", q, p>>
Secret(q)   == <<"secret", q, 0>>
Random(p, q) == <<"random", p, q>>
PkJoint     == <<"pk", 0, 0>>       \* key of the joint secret
PkStray     == <<"pk", 1, 0>>       \* key of a short joint secret and stray bytes
PkOther     == <<"pk", 2, 0>>       \* key of any other number

Atoms ==
    {Poly(q, p) : q \in Players, p \in Players} \cup {Secret(q) : q \in Players}
        \cup {Random(p, q) : p \in Players, q \in Players} \cup {PkJoint, PkStray, PkOther}

Zero == [a \in Atoms |-> 0]
Unit(b) == [a \in Atoms |-> IF a = b THEN 1 ELSE 0]
Plus(x, y) == [a \in Atoms |-> x[a] + y[a]]
Minus(x, y) == [a \in Atoms |-> x[a] - y[a]]

\* aggregate_shares of f_1(p), ..., f_n(p): player p's share of the joint secret.
JointShare(p) == [a \in Atoms |-> IF a \in {Poly(q, p) : q \in Players} THEN 1 ELSE 0]
\* recover_secret of all the players' secrets.
JointSecret == [a \in Atoms |-> IF a \in {Secret(q) : q \in Players} THEN 1 ELSE 0]

------------------------------------------------------------------------------
VARIABLES
    pc,         \* where each player is in keygen_player_logic
    i,          \* the loop counter of the player's current loop
    queue,      \* what waits in each party's self_channel
    share,      \* sss_ctx->share, summed up as it is received
    rlist,      \* sss_ctx->random_list
    blinded,    \* blinding_shard of keygen_player_p2ttp_shards
    pk,         \* ctx->pk
    ttp,        \* where the TTP is in keygen_round_ttp
    k,          \* its loop counter
    sk,         \* the sum of the shards it received
    shortSeed   \* whether the joint secret has a leading zero byte

playerVars == <<pc, i, share, rlist, blinded, pk>>
ttpVars == <<ttp, k, sk>>
vars == <<pc, i, queue, share, rlist, blinded, pk, ttp, k, sk, shortSeed>>

Init ==
    /\ pc = [p \in Players |-> "send_shares"]
    /\ i = [p \in Players |-> 1]
    /\ queue = [x \in Parties |-> <<>>]
    /\ share = [p \in Players |-> Zero]
    /\ rlist = [p \in Players |-> [q \in Players |-> Unit(Random(p, q))]]
    /\ blinded = [p \in Players |-> Unit(Secret(p))]
    /\ pk = [p \in Players |-> Zero]
    /\ ttp = "recv_shards" /\ k = 0 /\ sk = Zero
    /\ shortSeed \in BOOLEAN

\* Send_Msg to one party: Pack_Msg, then ThreadSafeQueue_Push.
SendMsg(from, to, data) ==
    queue' = [queue EXCEPT ![to] = Append(@, [from |-> from, data |-> data])]

\* Recv_Msg: ThreadSafeQueue_Pop waits until the queue holds a message.
HasMsg(x) == queue[x] # <<>>
Received(x) == Head(queue[x])
RecvMsg(x) == queue' = [queue EXCEPT ![x] = Tail(@)]

Goto(p, to) == pc' = [pc EXCEPT ![p] = to]

\* One round of a loop of player p that runs while its counter is below last.
Loop(p, last, next) ==
    IF i[p] < last
    THEN i' = [i EXCEPT ![p] = @ + 1] /\ UNCHANGED pc
    ELSE i' = [i EXCEPT ![p] = 1] /\ Goto(p, next)

------------------------------------------------------------------------------
(* keygen_round_player and keygen_player_logic.                              *)

\* keygen_player_p2p_shares: f_p(i) to every player i, itself included.
SendShare(p) ==
    /\ pc[p] = "send_shares"
    /\ SendMsg(p, i[p], Unit(Poly(p, i[p])))
    /\ Loop(p, PLAYERS, "recv_shares")
    /\ UNCHANGED <<share, rlist, blinded, pk, ttpVars, shortSeed>>

\* keygen_player_recv_shares: the next PLAYERS messages are summed up.
RecvShare(p) ==
    /\ pc[p] = "recv_shares"
    /\ HasMsg(p) /\ RecvMsg(p)
    /\ share' = [share EXCEPT ![p] = Plus(@, Received(p).data)]
    /\ Loop(p, PLAYERS, "barrier")
    /\ UNCHANGED <<rlist, blinded, pk, ttpVars, shortSeed>>

\* pthread_barrier_wait, called at two places (round.c:66 and logic.c:12): the
\* last of PLAYERS arrivals sets all of them free, wherever they wait.
AtBarrier == {p \in Players : pc[p] \in {"wait_shares", "wait_end"}}
Resume(at) == IF at \in {"barrier", "wait_shares"} THEN "send_randoms" ELSE "done"

\* Fault: nobody waits.
BarrierIgnored(p) ==
    /\ pc[p] \in {"barrier", "end_barrier"}
    /\ Goto(p, Resume(pc[p]))
    /\ UNCHANGED <<i, queue, share, rlist, blinded, pk, ttpVars, shortSeed>>

BarrierWait(p) ==
    /\ pc[p] \in {"barrier", "end_barrier"}
    /\ IF Cardinality(AtBarrier) + 1 < PLAYERS
       THEN Goto(p, IF pc[p] = "barrier" THEN "wait_shares" ELSE "wait_end")
       ELSE pc' = [q \in Players |-> IF q \in AtBarrier \cup {p} THEN Resume(pc[q]) ELSE pc[q]]
    /\ UNCHANGED <<i, queue, share, rlist, blinded, pk, ttpVars, shortSeed>>

\* Fault: the test that skips the player itself is missing.
SendRandomToAll(p) ==
    /\ pc[p] = "send_randoms"
    /\ SendMsg(p, i[p], rlist[p][i[p]])
    /\ Loop(p, PLAYERS, "recv_randoms")
    /\ UNCHANGED <<share, rlist, blinded, pk, ttpVars, shortSeed>>

\* The first loop of keygen_randome_agreement: random_list[i] to every other i.
SendRandom(p) ==
    /\ pc[p] = "send_randoms"
    /\ IF i[p] = p THEN UNCHANGED queue ELSE SendMsg(p, i[p], rlist[p][i[p]])
    /\ Loop(p, PLAYERS, "recv_randoms")
    /\ UNCHANGED <<share, rlist, blinded, pk, ttpVars, shortSeed>>

\* Fault: a message is expected from the player itself, too.
RecvRandomOfAll(p) ==
    /\ pc[p] = "recv_randoms"
    /\ HasMsg(p) /\ RecvMsg(p)
    /\ rlist' = [rlist EXCEPT ![p][Received(p).from] = Plus(@, Received(p).data)]
    /\ Loop(p, PLAYERS, "blind")
    /\ UNCHANGED <<share, blinded, pk, ttpVars, shortSeed>>

\* Its second loop: PLAYERS - 1 messages, each added to the sender's entry.
RecvRandom(p) ==
    /\ pc[p] = "recv_randoms"
    /\ HasMsg(p) /\ RecvMsg(p)
    /\ rlist' = [rlist EXCEPT ![p][Received(p).from] = Plus(@, Received(p).data)]
    /\ Loop(p, PLAYERS - 1, "blind")
    /\ UNCHANGED <<share, blinded, pk, ttpVars, shortSeed>>

\* Fault: every entry is added.
BlindAdding(p) ==
    /\ pc[p] = "blind"
    /\ blinded' = [blinded EXCEPT ![p] = IF i[p] # p THEN Plus(@, rlist[p][i[p]]) ELSE @]
    /\ Loop(p, PLAYERS, "send_shard")
    /\ UNCHANGED <<queue, share, rlist, pk, ttpVars, shortSeed>>

\* The loop of keygen_player_p2ttp_shards: to the secret are added the entries of
\* the players before p, and the entries of the players after p are subtracted.
Blind(p) ==
    /\ pc[p] = "blind"
    /\ blinded' = [blinded EXCEPT ![p] =
           IF i[p] < p THEN Plus(@, rlist[p][i[p]])
           ELSE IF i[p] > p THEN Minus(@, rlist[p][i[p]]) ELSE @]
    /\ Loop(p, PLAYERS, "send_shard")
    /\ UNCHANGED <<queue, share, rlist, pk, ttpVars, shortSeed>>

\* Its end: the blinded secret goes to the TTP.
SendShard(p) ==
    /\ pc[p] = "send_shard"
    /\ SendMsg(p, TTP, blinded[p])
    /\ Goto(p, "recv_pk")
    /\ UNCHANGED <<i, share, rlist, blinded, pk, ttpVars, shortSeed>>

\* keygen_recv_pk: the next message is the public key.
RecvPk(p) ==
    /\ pc[p] = "recv_pk"
    /\ HasMsg(p) /\ RecvMsg(p)
    /\ pk' = [pk EXCEPT ![p] = Received(p).data]
    /\ Goto(p, "end_barrier")
    /\ UNCHANGED <<i, share, rlist, blinded, ttpVars, shortSeed>>

------------------------------------------------------------------------------
(* keygen_round_ttp.                                                         *)

\* Fault: the last shard is not waited for.
TtpRecvFewer ==
    /\ ttp = "recv_shards"
    /\ HasMsg(TTP) /\ RecvMsg(TTP)
    /\ sk' = Plus(sk, Received(TTP).data)
    /\ IF k + 2 < PLAYERS
       THEN k' = k + 1 /\ UNCHANGED ttp
       ELSE k' = 1 /\ ttp' = "bc_pk"
    /\ UNCHANGED <<playerVars, shortSeed>>

\* keygen_ttp_recv_shards: PLAYERS messages, summed up by recover_secret.
TtpRecvShard ==
    /\ ttp = "recv_shards"
    /\ HasMsg(TTP) /\ RecvMsg(TTP)
    /\ sk' = Plus(sk, Received(TTP).data)
    /\ IF k + 1 < PLAYERS
       THEN k' = k + 1 /\ UNCHANGED ttp
       ELSE k' = 1 /\ ttp' = "bc_pk"
    /\ UNCHANGED <<playerVars, shortSeed>>

\* tss_crypto_sign_keypair: the public key of the seed.
PublicKey(seed) ==
    IF seed # JointSecret THEN PkOther ELSE IF shortSeed THEN PkStray ELSE PkJoint

\* keygen_ttp_bc_pk: Broadcast_Msg pushes to one player after the other.
TtpSendPk ==
    /\ ttp = "bc_pk"
    /\ SendMsg(TTP, k, Unit(PublicKey(sk)))
    /\ IF k < PLAYERS
       THEN k' = k + 1 /\ UNCHANGED ttp
       ELSE k' = 0 /\ ttp' = "done"
    /\ UNCHANGED <<playerVars, sk, shortSeed>>

------------------------------------------------------------------------------
Player(p) ==
    \/ SendShare(p) \/ RecvShare(p) \/ BarrierWait(p) \/ SendRandom(p)
    \/ RecvRandom(p) \/ Blind(p) \/ SendShard(p) \/ RecvPk(p)

TrustedParty == TtpRecvShard \/ TtpSendPk

\* main joins all the threads once they have returned.
Joined == ttp = "done" /\ \A p \in Players : pc[p] = "done"
Join == Joined /\ UNCHANGED vars

Next == TrustedParty \/ Join \/ \E p \in Players : Player(p)

SafeSpec == Init /\ [][Next]_vars

\* Every thread is scheduled again and again.
Spec == SafeSpec /\ WF_vars(TrustedParty) /\ \A p \in Players : WF_vars(Player(p))

------------------------------------------------------------------------------
(* Properties.                                                               *)

\* A player that has counted PLAYERS shares holds the sum of one share from each
\* player and of nothing else. The receiver tells messages apart only by their
\* position in the queue: it is the barrier of round.c:66 that keeps the random
\* values of a fast player out of the sum of a slow one.
SharesUnmixed ==
    \A p \in Players :
        pc[p] \notin {"send_shares", "recv_shares"} => share[p] = JointShare(p)

\* What the TTP recovers is the sum of the players' secrets: the random values
\* the players blind their shards with (communication.c:78-95) cancel, each of
\* them being added by one player and subtracted by the other.
BlindingCancels == ttp # "recv_shards" => sk = JointSecret

\* Every player that has a public key has the same one, the key of the joint
\* secret, completed by stray bytes only if the seed is short (round.c:29-36).
KeysAgree ==
    \A p \in Players : pc[p] \in {"end_barrier", "wait_end", "done"} =>
        pk[p] = Unit(IF shortSeed THEN PkStray ELSE PkJoint)

\* Nothing is left in a queue when the threads are joined: main hands the same
\* queues to the signing threads (TSS-multi-thread.c:126-203), which would take
\* the rest for signing messages.
QueuesDrained == Joined => \A x \in Parties : queue[x] = <<>>

\* No thread waits for ever for a message or at the barrier.
Terminates == <>Joined
==============================================================================
