------------------------------ MODULE NetKeygen ------------------------------
(***************************************************************************)
(* Key generation over the network (TSS/network/round/keygen_round.c and   *)
(* handler/keygen_handler.c). A player lets the lower ones connect, then   *)
(* connects to the higher ones and at last to the TTP; each pair swaps     *)
(* shares, then random numbers, on its connection. A number is the tuple   *)
(* of its purpose, who drew it and for whom; a sum is the set of its       *)
(* terms. A number is sent as its bytes, and zero has none.                *)
(***************************************************************************)
EXTENDS Connections, FiniteSets

CONSTANT PLAYERS

TTP == 0
Players == 1..PLAYERS

\* Every two players have one connection, which the lower one makes, and each has one
\* to the TTP.
ASSUME NetKeygenAssumption ==
    /\ PLAYERS \in Nat /\ PLAYERS >= 2
    /\ Parties = {TTP} \cup Players
    /\ Conns = {c \in Players \X {"keygen"} \X Parties : c[1] < c[3] \/ c[3] = TTP}

VARIABLES
    zero,           \* the number that happens to be zero, if any
    pc, peer,       \* a main thread's step and the other side
    toAccept,       \* conn_numbers
    hpc,            \* the step of the handler of a connection
    tmp_shares,     \* a player's own shares for the others, then theirs; the TTP's
    random_list,    \* per other player, the terms of the random number
    pk,             \* the shards that the public key is made from
    gaveUp          \* a player's connection attempts were exhausted

mainVars == <<pc, peer, toAccept>>
numbers == <<tmp_shares, random_list, pk>>
vars == <<netVars, zero, mainVars, hpc, numbers, gaveUp>>

Number(what, from, to) == <<what, from, to>>
NoNumber == Number("none", 0, 0)
Bytes(number) == IF number = zero THEN <<>> ELSE <<number>>

Share(p, q) == Number("share", p, q)
Random(p, q) == Number("random", p, q)

\* A sum at the TTP, before it has received any.
NoShard == [secret |-> TTP, added |-> {}, subtracted |-> {}]

Init ==
    /\ NetInit
    /\ zero \in {NoNumber} \cup {Number(what, p, q) : what \in {"share", "random"}, p \in Players, q \in Players}
    /\ pc = [q \in {TTP} \cup Players |-> IF q = 1 THEN "connect" ELSE "listen"]
    /\ peer = [p \in Players |-> 2]
    /\ toAccept = [q \in {TTP} \cup Players |-> 0]
    /\ hpc = [c \in Conns |-> "none"]
    /\ tmp_shares = [p \in {TTP} \cup Players |-> [q \in Players |-> IF p = TTP THEN NoShard ELSE Share(p, q)]]
    /\ random_list = [p \in Players |-> [q \in Players |-> {Random(p, q)}]]
    /\ pk = [q \in {TTP} \cup Players |-> {}]
    /\ gaveUp = FALSE

------------------------------------------------------------------------------
(* The main threads.                                                         *)

Me(p) == <<p, "keygen", peer[p]>>

Step(p, step) == pc' = [pc EXCEPT ![p] = step] /\ UNCHANGED <<peer, toAccept>>

\* keygen_round_player: the next higher player, at last the TTP.
ConnectNext(p, next) ==
    /\ pc' = [pc EXCEPT ![p] = "connect"]
    /\ peer' = [peer EXCEPT ![p] = IF next <= PLAYERS THEN next ELSE TTP]
    /\ UNCHANGED toAccept

Dial(p) ==
    /\ pc[p] = "connect"
    /\ Connect(Me(p)) /\ Step(p, "id")
    /\ UNCHANGED <<zero, hpc, numbers, gaveUp>>

\* After so many refused attempts the process exits.
GiveUp(p) ==
    /\ pc[p] = "connect" /\ ~listening[peer[p]]
    /\ Step(p, "exited")
    /\ gaveUp' = TRUE
    /\ UNCHANGED <<netVars, zero, hpc, numbers>>

\* keygen_listen_local_port.
Listen(q) ==
    /\ pc[q] = "listen"
    /\ OpenListener(q)
    /\ toAccept' = [toAccept EXCEPT ![q] = IF q = TTP THEN PLAYERS ELSE q - 1]
    /\ pc' = [pc EXCEPT ![q] = "accept"]
    /\ UNCHANGED <<peer, zero, hpc, numbers, gaveUp>>

\* Fault: the loop ends one connection early.
EnoughEarly(q) == toAccept[q] <= 2

\* Is the next connection the last one?
Enough(q) == toAccept[q] = 1

Accept(q) ==
    /\ pc[q] = "accept"
    /\ AcceptFirst(q)
    /\ hpc' = [hpc EXCEPT ![Head(backlog[q])] = IF q = TTP THEN "recvShard" ELSE "recvShare"]
    /\ toAccept' = [toAccept EXCEPT ![q] = @ - 1]
    /\ pc' = [pc EXCEPT ![q] = IF Enough(q) THEN "destroy" ELSE "accept"]
    /\ UNCHANGED <<peer, zero, numbers, gaveUp>>

HandlersOf(q) == {c \in Conns : Server(c) = q}

\* threadpool_destroy and close; a player goes on to connect.
Close(q) ==
    /\ pc[q] = "destroy"
    /\ \A c \in HandlersOf(q) : hpc[c] \in {"none", "over"}
    /\ CloseListener(q)
    /\ IF q = TTP THEN Step(q, "done") ELSE ConnectNext(q, q + 1)
    /\ UNCHANGED <<zero, hpc, numbers, gaveUp>>

------------------------------------------------------------------------------
(* player_handler_send, on the connections a player has made.                *)

SendShare(p) ==
    /\ pc[p] = "id" /\ peer[p] # TTP /\ conn[Me(p)].state = "open"
    /\ Put(Me(p), "up", Bytes(tmp_shares[p][peer[p]])) /\ Step(p, "recvShare")
    /\ UNCHANGED <<zero, hpc, numbers, gaveUp>>

\* The share is replaced by the other's; then the random number is sent.
RecvShare(p) ==
    /\ pc[p] = "recvShare"
    /\ \E got \in Receivable(Me(p), "down", 1) :
        /\ tmp_shares' = [tmp_shares EXCEPT ![p][peer[p]] = Head(got)]
        /\ TakeAndPut(Me(p), "down", "up", got, Bytes(Random(p, peer[p])))
    /\ Step(p, "recvRandom")
    /\ UNCHANGED <<zero, hpc, random_list, pk, gaveUp>>

RecvRandom(p) ==
    /\ pc[p] = "recvRandom"
    /\ \E got \in Receivable(Me(p), "down", 1) :
        /\ random_list' = [random_list EXCEPT ![p][peer[p]] = @ \cup {Head(got)}]
        /\ Take(Me(p), "down", got)
    /\ ConnectNext(p, peer[p] + 1)
    /\ UNCHANGED <<zero, hpc, tmp_shares, pk, gaveUp>>

\* player_handler_send_ttp: the shard is the player's secret with its random numbers,
\* those of lower players added, those of higher ones subtracted, its own left out.
Shard(p) ==
    [secret |-> p,
     added |-> UNION {random_list[p][q] : q \in {r \in Players : r < p}},
     subtracted |-> UNION {random_list[p][q] : q \in {r \in Players : r > p}}]

SendShard(p) ==
    /\ pc[p] = "id" /\ peer[p] = TTP /\ conn[Me(p)].state = "open"
    /\ Put(Me(p), "up", <<Shard(p)>>) /\ Step(p, "recvPk")
    /\ UNCHANGED <<zero, hpc, numbers, gaveUp>>

RecvPk(p) ==
    /\ pc[p] = "recvPk"
    /\ \E got \in Receivable(Me(p), "down", 1) :
        /\ pk' = [pk EXCEPT ![p] = Head(got)]
        /\ Take(Me(p), "down", got)
    /\ Step(p, "done")
    /\ UNCHANGED <<zero, hpc, tmp_shares, random_list, gaveUp>>

------------------------------------------------------------------------------
(* player_handler_recv and ttp_handler_recv, on accepted connections.        *)

HStep(c, step) == hpc' = [hpc EXCEPT ![c] = step]

\* Fault: the other's share is stored before the own one is sent.
AnswerLate(p, q, got) == got

\* What a player answers to the share of q: its own for q.
Answer(p, q, got) == tmp_shares[p][q]

AnswerShare(c) ==
    /\ hpc[c] = "recvShare"
    /\ LET p == Server(c)
           q == Client(c)
       IN  \E got \in Receivable(c, "up", 1) :
               /\ TakeAndPut(c, "up", "down", got, Bytes(Answer(p, q, Head(got))))
               /\ tmp_shares' = [tmp_shares EXCEPT ![p][q] = Head(got)]
    /\ HStep(c, "recvRandom")
    /\ UNCHANGED <<zero, mainVars, random_list, pk, gaveUp>>

AnswerRandom(c) ==
    /\ hpc[c] = "recvRandom"
    /\ LET p == Server(c)
           q == Client(c)
       IN  \E got \in Receivable(c, "up", 1) :
               /\ TakeAndPut(c, "up", "down", got, Bytes(Random(p, q)))
               /\ random_list' = [random_list EXCEPT ![p][q] = @ \cup {Head(got)}]
    /\ HStep(c, "over")
    /\ UNCHANGED <<zero, mainVars, tmp_shares, pk, gaveUp>>

RecvShard(c) ==
    /\ hpc[c] = "recvShard"
    /\ \E got \in Receivable(c, "up", 1) :
        /\ Take(c, "up", got)
        /\ tmp_shares' = [tmp_shares EXCEPT ![TTP][Client(c)] = Head(got)]
    /\ HStep(c, "barrier")
    /\ UNCHANGED <<zero, mainVars, random_list, pk, gaveUp>>

\* Fault: the barrier is made for those who sign.
AtBarrierSigners == Cardinality({c \in Conns : hpc[c] = "barrier"}) = PLAYERS - 1

\* All the handlers and complete_pk meet.
AtBarrier == Cardinality({c \in Conns : hpc[c] = "barrier"}) = PLAYERS

\* complete_pk, from the first barrier to the second.
CompletePk ==
    /\ AtBarrier
    /\ pk' = [pk EXCEPT ![TTP] = {tmp_shares[TTP][p] : p \in Players}]
    /\ hpc' = [c \in Conns |-> IF hpc[c] = "barrier" THEN "sendPk" ELSE hpc[c]]
    /\ UNCHANGED <<netVars, zero, mainVars, tmp_shares, random_list, gaveUp>>

SendPk(c) ==
    /\ hpc[c] = "sendPk"
    /\ Put(c, "down", <<pk[TTP]>>) /\ HStep(c, "over")
    /\ UNCHANGED <<zero, mainVars, numbers, gaveUp>>

------------------------------------------------------------------------------
Call(p) ==
    Dial(p) \/ SendShare(p) \/ RecvShare(p) \/ RecvRandom(p) \/ SendShard(p) \/ RecvPk(p)
Serve(q) == Listen(q) \/ Accept(q) \/ Close(q)
Handle(c) == AnswerShare(c) \/ AnswerRandom(c) \/ RecvShard(c) \/ SendPk(c)

Next ==
    \/ \E p \in Players : Call(p) \/ GiveUp(p)
    \/ \E q \in {TTP} \cup Players : Serve(q)
    \/ CompletePk
    \/ \E c \in Conns : Handle(c)

SafeSpec == Init /\ [][Next]_vars

\* Threads are scheduled, what is sent arrives, and connecting is tried again.
Spec ==
    /\ SafeSpec
    /\ \A p \in Players : WF_vars(Call(p))
    /\ \A q \in {TTP} \cup Players : WF_vars(Serve(q))
    /\ WF_vars(CompletePk)
    /\ \A c \in Conns : WF_vars(Handle(c))

------------------------------------------------------------------------------
\* The players that add a random number to their shards, and those that subtract it.
AddedBy(shards, number) == {s.secret : s \in {x \in shards : number \in x.added}}
SubtractedBy(shards, number) == {s.secret : s \in {x \in shards : number \in x.subtracted}}

\* In the sum of the shards what q has drawn for r cancels, and hides the shards of both.
Cancels(shards, q, r) ==
    {AddedBy(shards, Random(q, r)), SubtractedBy(shards, Random(q, r))} = IF q = r THEN {{}} ELSE {{q}, {r}}

\* When a player is done its shares are those that the others have made for it, and
\* it has the TTP's key. That is made from one shard of every player, so that each
\* secret is in it once, and in their sum the blinding cancels: a number that one player
\* has drawn for another is added at one of the two and subtracted at the other
\* (keygen_handler.c:58-167, 187-220), though they have swapped in different roles.
KeyAgreed ==
    \A p \in Players : pc[p] = "done" =>
        /\ \A q \in Players : tmp_shares[p][q] = Share(q, p)
        /\ pk[p] = pk[TTP]
        /\ {s.secret : s \in pk[p]} = Players /\ Cardinality(pk[p]) = PLAYERS
        /\ \A q, r \in Players : Cancels(pk[p], q, r)

\* Nobody connects to a listener that will not accept it any more: unlike a signing
\* session this one has one listener for each participant, and no second phase.
NoConnectionReset == \A c \in Conns : conn[c].state # "reset"

\* Everybody ends and has a key, unless a number is zero (it is sent as nothing and
\* waited for) or a process has exited since its attempts to connect were refused.
KeygenEnds == zero = NoNumber => <>(gaveUp \/ \A q \in {TTP} \cup Players : pc[q] = "done")
==============================================================================
