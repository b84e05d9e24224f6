------------------------------ MODULE SignRound ------------------------------
(***************************************************************************)
(* Threshold signing of the threaded build: presign_round_player,          *)
(* sign_round_player, sign_round_ttp and vrfy_round_player                 *)
(* (TSS/src/thread/round.c) over the message functions of                  *)
(* TSS/src/thread/communication.c.                                         *)
(*                                                                         *)
(* THRESHOLD of the PLAYERS sign. The i-th of them signs layer i of the    *)
(* hypertree and the TTP signs the top layer; every signature shard goes   *)
(* to all players, and each signer appends the shards to its own copy of   *)
(* the signed message in the order it receives them. As in key generation  *)
(* a message does not say what it is.                                      *)
(***************************************************************************)
EXTENDS Integers, Sequences, FiniteSets

CONSTANT SPX_D          \* the layers of the hypertree

ASSUME LayersAssumption == SPX_D \in Nat /\ SPX_D >= 3

\* params.h: a layer for each player but one, which the TTP signs. So a signer
\* has SPX_WOTS_AVG = SPX_WOTS_LAST = 1 layer, and signer idx starts at layer idx.
PLAYERS == SPX_D
THRESHOLD == PLAYERS - 1

Players == 1..PLAYERS
TTP == 0
Parties == 0..PLAYERS

------------------------------------------------------------------------------
(* What messages carry.                                                      *)

RandR == <<"R">>                                \* the randomizer of the signature
ForsSeed == <<"seed">>
Share(p) == <<"share", p>>                      \* p's share times its Lagrange factor
ForsSig(r, s) == <<"fors_sig", r, s>>           \* made with seed s on the digest of r
ForsRoot(r, s) == <<"fors_root", r, s>>
\* The address that n shifts of tss_gen_addr lead to from the digest of r, a
\* signature at an address with the key of x, and the root of the tree there.
At(r, n) == <<r, n>>
Sig(x, at, m) == <<"sig", x, at, m>>
TreeRoot(x, at) == <<"root", x, at>>

Kind(data) == data[1]

------------------------------------------------------------------------------
VARIABLES
    threshold,  \* the players that sign, ascending
    pc,         \* where each signer is in sign_player_logic
    i,          \* the loop counter of sign_round_player
    to,         \* the loop counter of Broadcast_Msg
    queue,      \* what waits in each party's self_channel
    sm,         \* the signed message as far as it is written
    root,       \* ctx->root
    ttp,        \* where the TTP is in sign_round_ttp
    k,          \* its loop counter
    shares,     \* the shares it received
    key,        \* the key it recovered
    top,        \* the signature of the top layer, once it is made
    shortSeed,  \* whether the joint secret has a leading zero byte
    verdict     \* what the verification of the signature says, once it is made

playerVars == <<pc, i, to, sm, root>>
ttpVars == <<ttp, k, shares, key, top>>
vars == <<threshold, pc, i, to, queue, sm, root, ttp, k, shares, key, top, shortSeed, verdict>>

Signers == {threshold[j] : j \in 1..THRESHOLD}
Idx(p) == (CHOOSE j \in 1..THRESHOLD : threshold[j] = p) - 1

\* main shuffles the players, keeps THRESHOLD of them and sorts these.
Ascending == {s \in [1..THRESHOLD -> Players] :
                 \A a, b \in 1..THRESHOLD : a < b => s[a] < s[b]}

Init ==
    /\ threshold \in Ascending
    /\ pc = [p \in Players |-> IF p \in Signers THEN "send_share" ELSE "idle"]
    /\ i = [p \in Players |-> 1]
    /\ to = [x \in Parties |-> 1]
    /\ queue = [x \in Parties |-> <<>>]
    /\ sm = [p \in Players |-> <<>>]
    /\ root = [x \in Parties |-> <<>>]
    /\ ttp = "recv_shares" /\ k = 0 /\ shares = <<>> /\ key = "none" /\ top = <<>>
    /\ shortSeed \in BOOLEAN
    /\ verdict = "none"

SendMsg(x, data) == queue' = [queue EXCEPT ![x] = Append(@, data)]
HasMsg(x) == queue[x] # <<>>
Received(x) == Head(queue[x])
RecvMsg(x) == queue' = [queue EXCEPT ![x] = Tail(@)]

Goto(p, label) == pc' = [pc EXCEPT ![p] = label]

\* One round of the loop of Broadcast_Msg: a push to player to[x], but for x
\* itself. The TTP is no player and never gets a broadcast.
Push(x, data) == IF to[x] = x THEN UNCHANGED queue ELSE SendMsg(to[x], data)

LastPush(x) == to[x] = PLAYERS
CountPush(x) == to' = [to EXCEPT ![x] = IF LastPush(x) THEN 1 ELSE @ + 1]

------------------------------------------------------------------------------
(* presign_round_player.                                                     *)

\* presign_player_p2ttp_shards.
SendShare(p) ==
    /\ pc[p] = "send_share"
    /\ SendMsg(TTP, Share(p))
    /\ Goto(p, "recv_R")
    /\ UNCHANGED <<threshold, i, to, sm, root, ttpVars, shortSeed, verdict>>

\* presign_player_recv_R.
RecvR(p) ==
    /\ pc[p] = "recv_R"
    /\ HasMsg(p) /\ RecvMsg(p)
    /\ sm' = [sm EXCEPT ![p] = <<Received(p)>>]
    /\ Goto(p, "recv_seed")
    /\ UNCHANGED <<threshold, i, to, root, ttpVars, shortSeed, verdict>>

\* presign_player_recv_seed, then tss_sign_FORS.
RecvSeed(p) ==
    /\ pc[p] = "recv_seed"
    /\ HasMsg(p) /\ RecvMsg(p)
    /\ LET r == sm[p][1]
       IN  /\ sm' = [sm EXCEPT ![p] = <<r, ForsSig(r, Received(p))>>]
           /\ root' = [root EXCEPT ![p] = ForsRoot(r, Received(p))]
    /\ Goto(p, "barrier")
    /\ UNCHANGED <<threshold, i, to, ttpVars, shortSeed, verdict>>

\* The first signer signs at once, the others wait for their predecessors.
Begin(p) == IF Idx(p) = 0 THEN "first_sign" ELSE "recv_shard"

\* Fault: nobody waits.
BarrierIgnored(p) ==
    /\ pc[p] = "barrier"
    /\ Goto(p, Begin(p))
    /\ UNCHANGED <<threshold, i, to, queue, sm, root, ttpVars, shortSeed, verdict>>

\* pthread_barrier_wait of logic.c:38, initialised for THRESHOLD threads.
BarrierWait(p) ==
    /\ pc[p] = "barrier"
    /\ LET arrived == {q \in Players : pc[q] = "wait"} \cup {p}
       IN  pc' = IF Cardinality(arrived) < THRESHOLD
                 THEN [pc EXCEPT ![p] = "wait"]
                 ELSE [q \in Players |-> IF q \in arrived THEN Begin(q) ELSE pc[q]]
    /\ UNCHANGED <<threshold, i, to, queue, sm, root, ttpVars, shortSeed, verdict>>

------------------------------------------------------------------------------
(* sign_round_player.                                                        *)

\* The address tss_gen_addr leaves in the context of p.
Address(p) == At(sm[p][1], Idx(p))

\* tss_sign_WOTS of p's layer, on message m; the signature joins the signed message.
SignWOTS(p, written, m) ==
    /\ sm' = [sm EXCEPT ![p] = Append(written, Sig(p, Address(p), m))]
    /\ root' = [root EXCEPT ![p] = TreeRoot(p, Address(p))]

\* Fault: every signer sends its root before its shard.
RootFirst(p) == <<"send_root", "bc">>

\* What a signer does with its signature: the last signer sends its root before it
\* broadcasts the shard, the others after that.
AfterSigning(p) ==
    IF Idx(p) = THRESHOLD - 1 THEN <<"send_root", "bc">> ELSE <<"bc", "send_root">>

\* Round i of the receiving loop ends; when p has just signed, the flag makes it
\* skip the next one. After THRESHOLD rounds there is one more shard to come.
NextRound(p, rounds) ==
    /\ i' = [i EXCEPT ![p] = IF @ + rounds > THRESHOLD THEN 1 ELSE @ + rounds]
    /\ Goto(p, IF i[p] + rounds > THRESHOLD THEN "recv_final" ELSE "recv_shard")

\* Fault: the flag is never set.
AfterOwnRoundForgotten(p) == NextRound(p, IF Idx(p) = 0 THEN 0 ELSE 1)

\* The first signer has yet to enter the loop, whose first round it skips.
AfterOwnRound(p) == NextRound(p, IF Idx(p) = 0 THEN 1 ELSE 2)

Then(p, label) ==
    IF label = AfterSigning(p)[1]
    THEN Goto(p, AfterSigning(p)[2]) /\ UNCHANGED i
    ELSE AfterOwnRound(p)

FirstSign(p) ==
    /\ pc[p] = "first_sign"
    /\ SignWOTS(p, sm[p], root[p])
    /\ Goto(p, AfterSigning(p)[1])
    /\ UNCHANGED <<threshold, i, to, queue, ttpVars, shortSeed, verdict>>

\* Fault: the shard is not appended.
RecvShardDropped(p) ==
    /\ pc[p] = "recv_shard"
    /\ HasMsg(p) /\ RecvMsg(p)
    /\ IF i[p] = Idx(p) THEN Goto(p, "recv_root") /\ UNCHANGED i ELSE NextRound(p, 1)
    /\ UNCHANGED <<threshold, to, sm, root, ttpVars, shortSeed, verdict>>

\* sign_recv_sig_shards in round i of the loop: in round idx, p's turn comes next.
RecvShard(p) ==
    /\ pc[p] = "recv_shard"
    /\ HasMsg(p) /\ RecvMsg(p)
    /\ sm' = [sm EXCEPT ![p] = Append(@, Received(p))]
    /\ IF i[p] = Idx(p) THEN Goto(p, "recv_root") /\ UNCHANGED i ELSE NextRound(p, 1)
    /\ UNCHANGED <<threshold, to, root, ttpVars, shortSeed, verdict>>

\* sign_recv_root, then tss_sign_WOTS.
RecvRoot(p) ==
    /\ pc[p] = "recv_root"
    /\ HasMsg(p) /\ RecvMsg(p)
    /\ SignWOTS(p, sm[p], Received(p))
    /\ Goto(p, AfterSigning(p)[1])
    /\ UNCHANGED <<threshold, i, to, ttpVars, shortSeed, verdict>>

\* sign_bc_sig_shards: one push.
Broadcast(p) ==
    /\ pc[p] = "bc"
    /\ Push(p, sm[p][Len(sm[p])])
    /\ CountPush(p)
    /\ IF LastPush(p) THEN Then(p, "bc") ELSE UNCHANGED <<pc, i>>
    /\ UNCHANGED <<threshold, sm, root, ttpVars, shortSeed, verdict>>

\* sign_p2p_root to the next signer, or from the last one to the TTP.
SendRoot(p) ==
    /\ pc[p] = "send_root"
    /\ SendMsg(IF Idx(p) = THRESHOLD - 1 THEN TTP ELSE threshold[Idx(p) + 2], root[p])
    /\ Then(p, "send_root")
    /\ UNCHANGED <<threshold, to, sm, root, ttpVars, shortSeed, verdict>>

\* The receive after the loop.
RecvFinal(p) ==
    /\ pc[p] = "recv_final"
    /\ HasMsg(p) /\ RecvMsg(p)
    /\ sm' = [sm EXCEPT ![p] = Append(@, Received(p))]
    /\ Goto(p, "done")
    /\ UNCHANGED <<threshold, i, to, root, ttpVars, shortSeed, verdict>>

------------------------------------------------------------------------------
(* sign_round_ttp.                                                           *)

\* The Lagrange shares of all the signers sum up to the joint secret. As in key
\* generation a short secret is completed with the bytes behind its buffer, which
\* are or are not the ones they were then.
Recovered(s) ==
    IF {s[j] : j \in DOMAIN s} # {Share(p) : p \in Signers} THEN {"other"}
    ELSE IF shortSeed THEN {"joint", "stray"} ELSE {"joint"}

\* Fault: the last share is not waited for.
TtpRecvFewer ==
    /\ ttp = "recv_shares"
    /\ HasMsg(TTP) /\ RecvMsg(TTP)
    /\ shares' = Append(shares, Received(TTP))
    /\ IF k + 2 < THRESHOLD
       THEN k' = k + 1 /\ UNCHANGED <<ttp, key>>
       ELSE k' = 0 /\ ttp' = "bc_R" /\ key' \in Recovered(shares')
    /\ UNCHANGED <<threshold, playerVars, top, shortSeed, verdict>>

\* ttp_recv_lagrange_shards, and after the last share tss_crypto_sign_keypair.
TtpRecvShare ==
    /\ ttp = "recv_shares"
    /\ HasMsg(TTP) /\ RecvMsg(TTP)
    /\ shares' = Append(shares, Received(TTP))
    /\ IF k + 1 < THRESHOLD
       THEN k' = k + 1 /\ UNCHANGED <<ttp, key>>
       ELSE k' = 0 /\ ttp' = "bc_R" /\ key' \in Recovered(shares')
    /\ UNCHANGED <<threshold, playerVars, top, shortSeed, verdict>>

\* What each of its three broadcasts carries, and what follows it.
TtpData == CASE ttp = "bc_R" -> RandR [] ttp = "bc_seed" -> ForsSeed [] ttp = "bc_top" -> top
TtpNext == CASE ttp = "bc_R" -> "bc_seed" [] ttp = "bc_seed" -> "recv_root" [] ttp = "bc_top" -> "done"

\* presign_ttp_bc_R, presign_ttp_bc_FORS_seed, sign_bc_sig_shards: one push.
TtpBroadcast ==
    /\ ttp \in {"bc_R", "bc_seed", "bc_top"}
    /\ Push(TTP, TtpData)
    /\ CountPush(TTP)
    /\ ttp' = IF LastPush(TTP) THEN TtpNext ELSE ttp
    /\ UNCHANGED <<threshold, pc, i, sm, root, k, shares, key, top, shortSeed, verdict>>

\* sign_recv_root, then tss_sign_WOTS_ttp at the address of tss_gen_ttp_addr.
TtpRecvRoot ==
    /\ ttp = "recv_root"
    /\ HasMsg(TTP) /\ RecvMsg(TTP)
    /\ root' = [root EXCEPT ![TTP] = Received(TTP)]
    /\ top' = Sig(TTP, At(RandR, SPX_D - 1), Received(TTP))
    /\ ttp' = "bc_top"
    /\ UNCHANGED <<threshold, pc, i, to, sm, k, shares, key, shortSeed, verdict>>

------------------------------------------------------------------------------
Player(p) ==
    \/ SendShare(p) \/ RecvR(p) \/ RecvSeed(p) \/ BarrierWait(p) \/ FirstSign(p)
    \/ RecvShard(p) \/ RecvRoot(p) \/ Broadcast(p) \/ SendRoot(p) \/ RecvFinal(p)

TrustedParty == TtpRecvShare \/ TtpBroadcast \/ TtpRecvRoot

\* main joins the signers and the TTP.
Joined == ttp = "done" /\ \A p \in Signers : pc[p] = "done"

\* tss_crypto_sign_verify: from the FORS signature each layer gives the root that the
\* next one has signed, up to the public key that p has had since key generation.
Accepts(p) ==
    LET layer(l) == IF l + 3 <= Len(sm[p]) THEN sm[p][l + 3] ELSE <<"nothing", -1>>
        r == sm[p][1]
        Below(l) == IF l = 0 THEN ForsRoot(r, ForsSeed) ELSE TreeRoot(layer(l - 1)[2], At(r, l - 1))
    IN  /\ key = "joint" /\ layer(SPX_D - 1)[2] = TTP
        /\ sm[p][2] = ForsSig(r, ForsSeed)
        /\ \A l \in 0..(SPX_D - 1) :
               Kind(layer(l)) = "sig" /\ layer(l) = Sig(layer(l)[2], At(r, l), Below(l))

\* vrfy_round_player, in a thread that main starts for the first signer and joins.
Verify ==
    /\ Joined /\ verdict = "none"
    /\ verdict' = IF Accepts(threshold[1]) THEN "successful" ELSE "failed"
    /\ UNCHANGED <<threshold, playerVars, queue, to, ttpVars, shortSeed>>

Finished == verdict # "none"
Finish == Finished /\ UNCHANGED vars

Next == TrustedParty \/ Verify \/ Finish \/ \E p \in Signers : Player(p)

SafeSpec == Init /\ [][Next]_vars

\* Every thread is scheduled again and again.
Spec == SafeSpec /\ WF_vars(TrustedParty) /\ WF_vars(Verify) /\ \A p \in Players : WF_vars(p \in Signers /\ Player(p))

------------------------------------------------------------------------------
(* Properties.                                                               *)

\* A signer that has left the presigning round made its FORS signature with the
\* randomizer and the seed of the TTP. Only the barrier of logic.c:38 keeps the
\* first signer's shard from overtaking the TTP's seed to another signer.
PresignedAlike ==
    \A p \in Signers : pc[p] \notin {"send_share", "recv_R", "recv_seed"} =>
        /\ sm[p][1] = RandR
        /\ sm[p][2] = ForsSig(RandR, ForsSeed)

\* Who signs a layer, at which address, and what: the FORS root at layer 0, above
\* it the root of the tree below.
Layers == 0..SPX_D - 1
SignerOf(l) == IF l = SPX_D - 1 THEN TTP ELSE threshold[l + 1]
RootBelow(l) ==
    IF l = 0 THEN ForsRoot(RandR, ForsSeed) ELSE TreeRoot(SignerOf(l - 1), At(RandR, l - 1))
Right(l) == Sig(SignerOf(l), At(RandR, l), RootBelow(l))

\* Every signature that exists, in a signed message or under way, is the right one
\* of a layer: a signer that is at a wrong place of its queue takes a shard for a
\* root and signs it with its one-time key, or signs at another layer's address.
SignaturesRight ==
    LET right == {Right(l) : l \in Layers}
        Sigs(s) == {s[j] : j \in {n \in DOMAIN s : Kind(s[n]) = "sig"}}
    IN  /\ \A p \in Signers : Sigs(sm[p]) \subseteq right
        /\ \A x \in Parties : Sigs(queue[x]) \subseteq right

\* A signed message is complete when its signer is done: the FORS signature, the
\* layers up to the last signer's in order, and the last two in one order or the
\* other. The last signer itself has them in order.
SignedMessageComplete ==
    \A p \in Signers : pc[p] = "done" =>
        /\ Len(sm[p]) = SPX_D + 2
        /\ \A l \in 0..SPX_D - 3 : sm[p][l + 3] = Right(l)
        /\ \/ sm[p][SPX_D + 1] = Right(SPX_D - 2) /\ sm[p][SPX_D + 2] = Right(SPX_D - 1)
           \/ /\ Idx(p) # THRESHOLD - 1
              /\ sm[p][SPX_D + 1] = Right(SPX_D - 1) /\ sm[p][SPX_D + 2] = Right(SPX_D - 2)

\* The signature of the first signer verifies, for the key of key generation
\* (TSS-multi-thread.c:231-241), but for a short joint secret that is completed in an
\* other way than it was then, and for a top layer that overtakes the one below.
VerifiesUnlessOvertaken ==
    verdict = "failed" =>
        \/ shortSeed /\ key = "stray"
        \/ Len(sm[threshold[1]]) = SPX_D + 2 /\ sm[threshold[1]][SPX_D + 1] = Right(SPX_D - 1)

\* No thread waits for ever for a message or at the barrier, and main comes to an end.
Terminates == <>Finished

\* The signatures that have been made, layer by layer: a signer's own is in its
\* signed message, after the ones it received.
MadeBy(l) ==
    IF l = SPX_D - 1 THEN IF top = <<>> THEN {} ELSE {top}
    ELSE {s \in {sm[SignerOf(l)][j] : j \in DOMAIN sm[SignerOf(l)]} :
              Kind(s) = "sig" /\ s[2] = SignerOf(l)}
Made == {l \in Layers : MadeBy(l) # {}}
LayerOf(m) == IF Kind(m) = "root" /\ \E l \in Layers : m = TreeRoot(SignerOf(l), At(RandR, l))
              THEN CHOOSE l \in Layers : m = TreeRoot(SignerOf(l), At(RandR, l))
              ELSE -1
Signatures ==
    [n \in 1..Cardinality(Made) |->
        [layer |-> n - 1,
         signs |-> IF n - 1 \in Made THEN LayerOf((CHOOSE s \in MadeBy(n - 1) : TRUE)[4]) ELSE -2]]
Chain == INSTANCE HypertreeChain WITH chain <- Signatures

\* A session makes the layers' signatures one after the other, each over the root of
\* the one before, each once, and makes them all.
SignsInTurn == Chain!Spec

\* round.c:193, "wait to receive the final signature shard": the last shard that a
\* signer appends is the TTP's, of the top layer.
FinalShardLast ==
    \A p \in Signers : pc[p] = "done" => sm[p][Len(sm[p])] = Right(SPX_D - 1)
==============================================================================
