------------------------------- MODULE NetSign -------------------------------
(***************************************************************************)
(* A signing session over the network (TSS/network/round/sign_round.c and  *)
(* handler/sign_handler.c). Signers are numbered by their place in         *)
(* threshold[]. Each participant's main thread connects to others or       *)
(* listens; while it listens a pool's threads run a handler for each       *)
(* connection, on a context that they share. A message is a sequence of    *)
(* units, a layer's signature is one. sm, the pointer to the part of the   *)
(* signed message that holds the layers, is a number of layers.            *)
(***************************************************************************)
EXTENDS Connections, FiniteSets

CONSTANTS
    MAX_T,          \* signers at most
    SPX_D,          \* layers
    BUFFER_SIZE,    \* layers that a buffer holds
    Stale           \* a player that does not sign

TTP == MAX_T
Players == 0..(MAX_T - 1)

\* A signer calls the TTP twice, one participant with its root, and higher signers.
ASSUME NetSignAssumption ==
    /\ MAX_T \in Nat \ {0} /\ SPX_D \in Nat /\ SPX_D > MAX_T /\ BUFFER_SIZE \in Nat \ {0}
    /\ Parties = Players \cup {TTP, Stale} /\ Stale \notin Players \cup {TTP}
    /\ Conns = (Players \X {"presign", "final"} \X {TTP})
                   \cup {c \in Players \X {"root"} \X Parties : c[1] # c[3]}
                   \cup {c \in Players \X {"exch"} \X Players : c[1] < c[3]}

VARIABLES
    t,          \* the number of signers
    last,       \* threshold[t] as it was left: the TTP's 0, or a player
    pc, kind, peer,     \* where a main thread is: its step, phase and other side
    toAccept,   \* conn_numbers
    hpc,        \* the step of the handler of a connection
    buf, reg,   \* what a handler has received, and the number it computes with
    sm, smlen, mem,     \* a signer's signed message
    root, shard,        \* the root received and the layers signed
    trouble     \* what has gone wrong at whom: only to state properties

params == <<t, last>>
mainVars == <<pc, kind, peer, toAccept>>
handlerVars == <<hpc, buf, reg>>
message == <<sm, smlen, mem>>
signing == <<root, shard>>
vars == <<netVars, params, mainVars, handlerVars, message, signing, trouble>>

Signers == 0..(t - 1)

------------------------------------------------------------------------------
(* Which layers are whose, and the signed message.                           *)

SPX_WOTS_AVG == (SPX_D - 1) \div t
Levels(p) == IF p = t - 1 THEN SPX_WOTS_AVG + ((SPX_D - 1) % t) ELSE SPX_WOTS_AVG
Place(p) == p * SPX_WOTS_AVG

\* The layers of p, which are right only over the root of the layer below.
Layers(p) ==
    [k \in 1..Levels(p) |->
        <<IF p = 0 \/ root[p] = <<"root", Place(p)>> THEN "layer" ELSE "bad", Place(p) + k - 1>>]

\* memcpy of units to a place in the memory of p's signed message.
Written(p, place, units) ==
    [l \in 0..(SPX_D - 1) |->
        IF l - place + 1 \in DOMAIN units THEN units[l - place + 1] ELSE mem[p][l]]

------------------------------------------------------------------------------
(* A main thread's way through the phases.                                   *)

Me(p) == <<p, kind[p], peer[p]>>

Go(p, step, phase, other) ==
    /\ pc' = [pc EXCEPT ![p] = step]
    /\ kind' = [kind EXCEPT ![p] = phase]
    /\ peer' = [peer EXCEPT ![p] = other]
    /\ UNCHANGED toAccept

Step(p, step) == Go(p, step, kind[p], peer[p])

\* The next signer to exchange with, and at last the TTP.
Exchange(p, next) ==
    IF next < t THEN Go(p, "connect", "exch", next) ELSE Go(p, "connect", "final", TTP)

\* After a handler of a connection that the signer itself has made.
AfterCall(p) ==
    \/ kind[p] = "presign" /\ p = 0 /\ Go(p, "sign", "root", p)
    \/ kind[p] = "presign" /\ p > 0 /\ Go(p, "listen", "root", p)
    \/ kind[p] = "root" /\ p = 0 /\ Exchange(p, 1)
    \/ kind[p] = "root" /\ p > 0 /\ Go(p, "listen", "exch", p)
    \/ kind[p] = "exch" /\ Exchange(p, peer[p] + 1)
    \/ kind[p] = "final" /\ Step(p, "done")

\* After a listener is closed.
AfterServing(q) ==
    \/ q # TTP /\ kind[q] = "root" /\ Go(q, "sign", "root", q)
    \/ q # TTP /\ kind[q] = "exch" /\ Exchange(q, q + 1)
    \/ q = TTP /\ kind[q] = "presign" /\ Go(q, "listen", "root", q)
    \/ q = TTP /\ kind[q] = "root" /\ Go(q, "sign", "root", q)
    \/ q = TTP /\ kind[q] = "final" /\ Step(q, "done")

\* Who gets a signer's root: threshold[index + 1], from the last one the TTP.
NextSigner(p) ==
    IF p = 0 /\ t = 1 THEN last
    ELSE IF p = t - 1 THEN TTP
    ELSE p + 1

\* Fault: a signer's root comes from all that are below.
ExpectedBelow(q) == IF q = TTP /\ kind[q] = "root" THEN 1 ELSE IF q = TTP THEN t ELSE q

\* For how many connections a listener is opened.
Expected(q) ==
    IF kind[q] = "root" THEN 1
    ELSE IF q = TTP THEN t
    ELSE q

Init ==
    /\ NetInit
    /\ t \in 1..MAX_T /\ last \in {TTP, Stale}
    /\ pc = [q \in Players \cup {TTP} |->
                IF q = TTP THEN "listen" ELSE IF q < t THEN "connect" ELSE "done"]
    /\ kind = [q \in Players \cup {TTP} |-> "presign"]
    /\ peer = [q \in Players \cup {TTP} |-> TTP]
    /\ toAccept = [q \in Players \cup {TTP} |-> 0]
    /\ hpc = [c \in Conns |-> "none"]
    /\ buf = [c \in Conns |-> <<>>] /\ reg = [c \in Conns |-> 0]
    /\ sm = [p \in Players |-> 0] /\ smlen = [p \in Players |-> 0]
    /\ mem = [p \in Players |-> [l \in 0..(SPX_D - 1) |-> <<"none", l>>]]
    /\ root = [q \in Players \cup {TTP} |-> <<"none", 0>>]
    /\ shard = [q \in Players \cup {TTP} |-> <<>>]
    /\ trouble = [p \in Players |-> {}]

------------------------------------------------------------------------------
(* sign_create_connection_p2p and the handlers it runs.                      *)

Dial(p) ==
    /\ pc[p] = "connect"
    /\ Connect(Me(p)) /\ Step(p, "id")
    /\ UNCHANGED <<params, handlerVars, message, signing, trouble>>

\* After so many refused attempts the process exits.
GiveUp(p) ==
    /\ pc[p] = "connect" /\ ~listening[peer[p]]
    /\ Step(p, "exited")
    /\ trouble' = [trouble EXCEPT ![p] = @ \cup {"refused"}]
    /\ UNCHANGED <<netVars, params, handlerVars, message, signing>>

\* No id came, the connection was reset. Two handlers refuse the id -1. The third
\* one sends, which fails or ends the process by SIGPIPE; final_sig reads nothing.
NoId(p) ==
    /\ pc[p] = "id" /\ conn[Me(p)].state = "reset"
    /\ AfterCall(p) \/ (kind[p] = "exch" /\ Step(p, "exited"))
    /\ sm' = IF kind[p] = "final" THEN [sm EXCEPT ![p] = @ + (SPX_D - 1) - smlen[p]] ELSE sm
    /\ UNCHANGED <<netVars, params, handlerVars, smlen, mem, signing, trouble>>

HasId(p, phase) == pc[p] = "id" /\ kind[p] = phase /\ conn[Me(p)].state = "open"

\* player_conn_to_ttp.
SendShare(p) ==
    /\ HasId(p, "presign")
    /\ Put(Me(p), "up", <<<<"share", p>>>>) /\ Step(p, "recvR")
    /\ UNCHANGED <<params, handlerVars, message, signing, trouble>>

\* One recv may take the seed that follows R, too; only R is copied.
RecvR(p) ==
    /\ pc[p] = "recvR"
    /\ \E got \in Receivable(Me(p), "down", 2) :
        /\ Take(Me(p), "down", got)
        /\ trouble' = IF Len(got) > 1 THEN [trouble EXCEPT ![p] = @ \cup {"merged"}] ELSE trouble
    /\ Step(p, "recvSeed")
    /\ UNCHANGED <<params, handlerVars, message, signing>>

RecvSeed(p) ==
    /\ pc[p] = "recvSeed"
    /\ \E got \in Receivable(Me(p), "down", 1) : Take(Me(p), "down", got)
    /\ AfterCall(p)
    /\ UNCHANGED <<params, handlerVars, message, signing, trouble>>

\* tss_sign_WOTS, and the layers' copy into the signed message.
Sign(p) ==
    /\ pc[p] = "sign" /\ p # TTP
    /\ shard' = [shard EXCEPT ![p] = Layers(p)]
    /\ mem' = [mem EXCEPT ![p] = Written(p, sm[p] + Place(p), Layers(p))]
    /\ smlen' = [smlen EXCEPT ![p] = @ + Levels(p)]
    /\ Go(p, "connect", "root", NextSigner(p))
    /\ UNCHANGED <<netVars, params, handlerVars, sm, root, trouble>>

\* send_root.
SendRoot(p) ==
    /\ HasId(p, "root")
    /\ Put(Me(p), "up", <<<<"root", Place(p) + Levels(p)>>>>)
    /\ AfterCall(p)
    /\ UNCHANGED <<params, handlerVars, message, signing, trouble>>

\* conn_exchange_sig: sends, ...
SendShard(p) ==
    /\ HasId(p, "exch")
    /\ Put(Me(p), "up", shard[p]) /\ Step(p, "recvShard")
    /\ UNCHANGED <<params, handlerVars, message, signing, trouble>>

\* Fault: what is received goes behind what is there.
PlaceNext(p, q) == smlen[p]

\* Where the shard of q goes in the message of p.
PlaceOf(p, q) == Place(q)

Short(p, q, got) ==
    trouble' = IF Len(got) < Levels(q) THEN [trouble EXCEPT ![p] = @ \cup {"short"}] ELSE trouble

\* ... and receives. No handler runs at the same time.
RecvShard(p) ==
    /\ pc[p] = "recvShard"
    /\ \E got \in Receivable(Me(p), "down", BUFFER_SIZE) :
        /\ Take(Me(p), "down", got)
        /\ mem' = [mem EXCEPT ![p] = Written(p, sm[p] + PlaceOf(p, peer[p]), got)]
        /\ smlen' = [smlen EXCEPT ![p] = @ + Len(got)]
        /\ Short(p, peer[p], got)
    /\ AfterCall(p)
    /\ UNCHANGED <<params, handlerVars, sm, signing>>

\* final_sig; then sm goes back by what smlen has counted.
RecvTop(p) ==
    /\ HasId(p, "final")
    /\ \E got \in Receivable(Me(p), "down", BUFFER_SIZE) :
        /\ Take(Me(p), "down", got)
        /\ mem' = [mem EXCEPT ![p] = Written(p, sm[p] + SPX_D - 1, got)]
    /\ sm' = [sm EXCEPT ![p] = @ + (SPX_D - 1) - smlen[p]]
    /\ AfterCall(p)
    /\ UNCHANGED <<params, handlerVars, smlen, signing, trouble>>

------------------------------------------------------------------------------
(* sign_listen_local_port.                                                   *)

Listen(q) ==
    /\ pc[q] = "listen"
    /\ OpenListener(q)
    /\ toAccept' = [toAccept EXCEPT ![q] = Expected(q)]
    /\ pc' = [pc EXCEPT ![q] = "accept"]
    /\ UNCHANGED <<kind, peer, params, handlerVars, message, signing, trouble>>

\* The handler that a connection is given in each phase.
FirstStep ==
    [presign |-> "recvShare", root |-> "recvRoot", exch |-> "recvShard", final |-> "sendTop"]

Accept(q) ==
    /\ pc[q] = "accept"
    /\ AcceptFirst(q)
    /\ hpc' = [hpc EXCEPT ![Head(backlog[q])] = FirstStep[kind[q]]]
    /\ toAccept' = [toAccept EXCEPT ![q] = @ - 1]
    /\ pc' = [pc EXCEPT ![q] = IF toAccept[q] = 1 THEN "destroy" ELSE "accept"]
    /\ UNCHANGED <<kind, peer, buf, reg, params, message, signing, trouble>>

HandlersOf(q) == {c \in Conns : Server(c) = q}

\* threadpool_destroy waits for the handlers; close resets what is in the backlog.
Close(q) ==
    /\ pc[q] = "destroy"
    /\ \A c \in HandlersOf(q) : hpc[c] \in {"none", "over"}
    /\ CloseListener(q)
    /\ trouble' = [p \in Players |->
                    IF \E c \in ToSet(backlog[q]) : Client(c) = p THEN trouble[p] \cup {"reset"} ELSE trouble[p]]
    /\ AfterServing(q)
    /\ UNCHANGED <<params, handlerVars, message, signing>>

\* tss_sign_WOTS_ttp.
SignTop ==
    /\ pc[TTP] = "sign"
    /\ shard' = [shard EXCEPT ![TTP] =
                    <<<<IF root[TTP] = <<"root", SPX_D - 1>> THEN "layer" ELSE "bad", SPX_D - 1>>>>]
    /\ Go(TTP, "listen", "final", TTP)
    /\ UNCHANGED <<netVars, params, handlerVars, message, root, trouble>>

------------------------------------------------------------------------------
(* Handlers of accepted connections.                                         *)

HStep(c, step) == hpc' = [hpc EXCEPT ![c] = step]

\* ttp_listen_player, up to the first barrier.
RecvShare(c) ==
    /\ hpc[c] = "recvShare"
    /\ \E got \in Receivable(c, "up", 1) : Take(c, "up", got)
    /\ HStep(c, "barrier")
    /\ UNCHANGED <<params, mainVars, buf, reg, message, signing, trouble>>

\* Fault: the barrier is made for all the players.
AtBarrierAll == Cardinality({c \in Conns : hpc[c] = "barrier"}) = MAX_T + 1

\* t handlers and aggregate_seed meet.
AtBarrier == Cardinality({c \in Conns : hpc[c] = "barrier"}) = t

\* aggregate_seed, from the first barrier to the second.
Aggregate ==
    /\ AtBarrier
    /\ hpc' = [c \in Conns |-> IF hpc[c] = "barrier" THEN "sendR" ELSE hpc[c]]
    /\ UNCHANGED <<netVars, params, mainVars, buf, reg, message, signing, trouble>>

SendR(c) ==
    /\ hpc[c] = "sendR"
    /\ Put(c, "down", <<<<"R", 0>>>>) /\ HStep(c, "sendSeed")
    /\ UNCHANGED <<params, mainVars, buf, reg, message, signing, trouble>>

SendSeed(c) ==
    /\ hpc[c] = "sendSeed"
    /\ Put(c, "down", <<<<"seed", 0>>>>) /\ HStep(c, "over")
    /\ UNCHANGED <<params, mainVars, buf, reg, message, signing, trouble>>

\* recv_root, ttp_recv_root.
RecvRoot(c) ==
    /\ hpc[c] = "recvRoot"
    /\ \E got \in Receivable(c, "up", BUFFER_SIZE) :
        /\ Take(c, "up", got)
        /\ root' = [root EXCEPT ![Server(c)] = Head(got)]
    /\ HStep(c, "over")
    /\ UNCHANGED <<params, mainVars, buf, reg, message, shard, trouble>>

\* bc_top_sig.
SendTop(c) ==
    /\ hpc[c] = "sendTop"
    /\ Put(c, "down", shard[TTP]) /\ HStep(c, "over")
    /\ UNCHANGED <<params, mainVars, buf, reg, message, signing, trouble>>

(* listen_exchange_sig. The handlers of one signer share sm and smlen, and   *)
(* hold no lock: every access to them is a step.                             *)

Updating == {"addOffset", "copy", "loadBack", "subOffset", "loadLen", "addLen"}

HandlerRecvShard(c) ==
    /\ hpc[c] = "recvShard"
    /\ \E got \in Receivable(c, "up", BUFFER_SIZE) :
        /\ Take(c, "up", got)
        /\ buf' = [buf EXCEPT ![c] = got]
        /\ Short(Server(c), Client(c), got)
    /\ HStep(c, "load")
    /\ UNCHANGED <<params, mainVars, reg, message, signing>>

\* sm is read to be increased.
Load(c) ==
    /\ hpc[c] = "load"
    /\ reg' = [reg EXCEPT ![c] = sm[Server(c)]]
    /\ HStep(c, "addOffset")
    /\ trouble' = IF \E d \in HandlersOf(Server(c)) : hpc[d] \in Updating
                  THEN [trouble EXCEPT ![Server(c)] = @ \cup {"raced"}] ELSE trouble
    /\ UNCHANGED <<netVars, params, mainVars, buf, message, signing>>

Offset(c) == PlaceOf(Server(c), Client(c))

AddOffset(c) ==
    /\ hpc[c] = "addOffset"
    /\ reg' = [reg EXCEPT ![c] = @ + Offset(c)]
    /\ sm' = [sm EXCEPT ![Server(c)] = reg[c] + Offset(c)]
    /\ HStep(c, "copy")
    /\ UNCHANGED <<netVars, params, mainVars, buf, smlen, mem, signing, trouble>>

\* The compiler may use the value it has or read sm again.
Copy(c) ==
    /\ hpc[c] = "copy"
    /\ \E to \in {reg[c], sm[Server(c)]} :
           mem' = [mem EXCEPT ![Server(c)] = Written(Server(c), to, buf[c])]
    /\ HStep(c, "loadBack")
    /\ UNCHANGED <<netVars, params, mainVars, buf, reg, sm, smlen, signing, trouble>>

LoadBack(c) ==
    /\ hpc[c] = "loadBack"
    /\ reg' = [reg EXCEPT ![c] = sm[Server(c)]]
    /\ HStep(c, "subOffset")
    /\ UNCHANGED <<netVars, params, mainVars, buf, message, signing, trouble>>

SubOffset(c) ==
    /\ hpc[c] = "subOffset"
    /\ sm' = [sm EXCEPT ![Server(c)] = reg[c] - Offset(c)]
    /\ HStep(c, "loadLen")
    /\ UNCHANGED <<netVars, params, mainVars, buf, reg, smlen, mem, signing, trouble>>

LoadLen(c) ==
    /\ hpc[c] = "loadLen"
    /\ reg' = [reg EXCEPT ![c] = smlen[Server(c)]]
    /\ HStep(c, "addLen")
    /\ UNCHANGED <<netVars, params, mainVars, buf, message, signing, trouble>>

AddLen(c) ==
    /\ hpc[c] = "addLen"
    /\ smlen' = [smlen EXCEPT ![Server(c)] = reg[c] + Len(buf[c])]
    /\ HStep(c, "sendShard")
    /\ UNCHANGED <<netVars, params, mainVars, buf, reg, sm, mem, signing, trouble>>

\* The answer, and the handler returns.
HandlerSendShard(c) ==
    /\ hpc[c] = "sendShard"
    /\ Put(c, "down", shard[Server(c)]) /\ HStep(c, "over")
    /\ UNCHANGED <<params, mainVars, buf, reg, message, signing, trouble>>

------------------------------------------------------------------------------
Call(p) ==
    \/ Dial(p) \/ NoId(p) \/ SendShare(p) \/ RecvR(p) \/ RecvSeed(p) \/ Sign(p) \/ SendRoot(p)
    \/ SendShard(p) \/ RecvShard(p) \/ RecvTop(p)
Serve(q) == Listen(q) \/ Accept(q) \/ Close(q)
Handle(c) ==
    \/ RecvShare(c) \/ SendR(c) \/ SendSeed(c) \/ RecvRoot(c) \/ SendTop(c)
    \/ HandlerRecvShard(c) \/ Load(c) \/ AddOffset(c) \/ Copy(c) \/ LoadBack(c) \/ SubOffset(c)
    \/ LoadLen(c) \/ AddLen(c) \/ HandlerSendShard(c)

Next ==
    \/ \E p \in Players : Call(p) \/ GiveUp(p)
    \/ \E q \in Players \cup {TTP} : Serve(q)
    \/ SignTop \/ Aggregate
    \/ \E c \in Conns : Handle(c)

SafeSpec == Init /\ [][Next]_vars

\* Threads are scheduled, what is sent arrives, and connecting is tried again, but
\* not for ever.
Spec ==
    /\ SafeSpec
    /\ \A p \in Players : WF_vars(Call(p)) /\ WF_vars(GiveUp(p))
    /\ \A q \in Players \cup {TTP} : WF_vars(Serve(q))
    /\ WF_vars(SignTop) /\ WF_vars(Aggregate)
    /\ \A c \in Conns : WF_vars(Handle(c))

------------------------------------------------------------------------------
(* Properties.                                                               *)

Complete(p) == sm[p] = 0 /\ \A l \in 0..(SPX_D - 1) : mem[p][l] = <<"layer", l>>

\* A signer that has ended holds all the layers at their places, and main's
\* pointer is back at the start (client.c:65, Web_api.c:168, sign_round.c:114-118), unless
\* something went wrong at that very signer. A connection that is reset spoils more:
\* its client goes on to the next signer, who may take its call for a root, and whose
\* layers are then wrong for all who get them, from four signers on.
CompleteUnlessTroubled ==
    (\A p \in Signers : "reset" \notin trouble[p]) =>
        \A p \in Signers : pc[p] = "done" /\ trouble[p] = {} => Complete(p)

StepsOf(phase) ==
    CASE phase = "presign" -> {"recvShare", "barrier", "sendR", "sendSeed"}
      [] phase = "root" -> {"recvRoot"}
      [] phase = "exch" -> {"recvShard", "load", "sendShard"} \cup Updating
      [] phase = "final" -> {"sendTop"}

\* A listener has one handler and does not know what a connection is for: no
\* connection is accepted in a phase that it was not made for, though a participant
\* may be a phase ahead of the one it connects to (sign_round.c:56-116, 141-160).
\* That ends when a connection has been reset, since its client goes on without it.
ServedInPhase ==
    (\A p \in Signers : "reset" \notin trouble[p]) =>
        \A c \in Conns : hpc[c] \in StepsOf(Phase(c)) \cup {"none", "over"}

\* Everybody ends, unless something goes wrong somewhere.
SessionEnds ==
    <>(\/ \A q \in Signers \cup {TTP} : pc[q] = "done"
       \/ \E p \in Signers : trouble[p] # {})

\* sign_handler.c:316, "receive the other side's signature share first and aggregate
\* it": when a signer's handlers are done, and nothing else went wrong, the length is
\* that of its own share and of those received.
AggregatedWhenServed ==
    \A q \in Signers :
        /\ pc[q] = "destroy" /\ kind[q] = "exch"
        /\ \A c \in HandlersOf(q) : hpc[c] \in {"none", "over"}
        /\ \A p \in Signers : trouble[p] \subseteq {"raced"}
        => smlen[q] = Levels(q)
               + FoldSet(LAMBDA c, sum : sum + Len(buf[c]), 0, {d \in HandlersOf(q) : Phase(d) = "exch"})
==============================================================================
