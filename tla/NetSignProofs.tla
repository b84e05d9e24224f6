---------------------------- MODULE NetSignProofs ----------------------------
(***************************************************************************)
(* Proofs about the networked signing session, for any number of signers.  *)
(***************************************************************************)
EXTENDS NetSign, FiniteSetTheorems, SequenceTheorems, TLAPS

------------------------------------------------------------------------------
(* The invariant.                                                            *)

Nodes == Players \cup {TTP}
Phases == {"presign", "root", "exch", "final"}
Rank(phase) == IF phase = "presign" THEN 1 ELSE IF phase = "root" THEN 2 ELSE IF phase = "exch" THEN 3 ELSE 4

Serving == {"listen", "accept", "destroy"}
Calling == {"connect", "id", "exited"}
Steps == Serving \cup Calling \cup {"recvR", "recvSeed", "sign", "recvShard", "done"}

State(p, phase, q) == conn[<<p, phase, q>>].state

\* Whose root q gets, and who gets p's if threshold[t] is the TTP's.
Below(q) == IF q = TTP THEN t - 1 ELSE q - 1
Above(p) == IF p = t - 1 THEN TTP ELSE p + 1

TypeOK ==
    /\ listening \in [Parties -> BOOLEAN]
    /\ backlog \in [Parties -> Seq(Conns)]
    /\ DOMAIN conn = Conns /\ \A c \in Conns : DOMAIN conn[c] = {"state", "up", "down"}
    /\ pc \in [Nodes -> Steps] /\ kind \in [Nodes -> Phases] /\ peer \in [Nodes -> Parties]
    /\ toAccept \in [Nodes -> Int]
    /\ DOMAIN hpc = Conns

\* Where a signer can be, and the TTP.
PlayerAt(p) ==
    \/ kind[p] = "presign" /\ pc[p] \in Calling \cup {"recvR", "recvSeed"} /\ peer[p] = TTP
    \/ kind[p] = "root" /\ pc[p] \in Serving /\ p # 0
    \/ kind[p] = "root" /\ pc[p] = "sign"
    \/ kind[p] = "root" /\ pc[p] \in Calling /\ peer[p] = NextSigner(p)
    \/ kind[p] = "exch" /\ pc[p] \in Serving /\ p # 0
    \/ kind[p] = "exch" /\ pc[p] \in Calling \cup {"recvShard"} /\ peer[p] \in Signers /\ p < peer[p]
    \/ kind[p] = "final" /\ pc[p] \in Calling \cup {"done"} /\ peer[p] = TTP

TtpAt ==
    \/ kind[TTP] \in {"presign", "root"} /\ pc[TTP] \in Serving
    \/ kind[TTP] = "root" /\ pc[TTP] = "sign"
    \/ kind[TTP] = "final" /\ pc[TTP] \in Serving \cup {"done"}

\* p has still to call q in a phase.
Ahead(p, phase, q) ==
    \/ Rank(phase) > Rank(kind[p])
    \/ /\ phase = kind[p] /\ pc[p] \in Serving \cup {"sign", "connect"}
       /\ phase = "exch" /\ pc[p] = "connect" => q >= peer[p]
    \/ phase = kind[p] /\ phase = "exch" /\ pc[p] \notin Serving /\ q > peer[p]

AllPresigned == \A p \in Signers : State(p, "presign", TTP) = "open"
NotPresigned == {p \in Signers : State(p, "presign", TTP) # "open"}

\* p has exchanged its shard with r.
Exchanged(p, r) == kind[p] = "final" \/ (kind[p] = "exch" /\ pc[p] \notin Serving /\ r < peer[p])

\* A signer has been let in wherever it has been, and has called nobody in advance.
CallerInv(p) ==
    /\ PlayerAt(p)
    /\ \A phase \in Phases, q \in Parties :
           <<p, phase, q>> \in Conns /\ Ahead(p, phase, q) => State(p, phase, q) = "none"
    /\ kind[p] # "presign" \/ pc[p] = "recvSeed" => AllPresigned
    /\ kind[p] \in {"exch", "final"} \/ (kind[p] = "root" /\ pc[p] = "id") => NextSigner(p) = Above(p)
    /\ kind[p] \in {"exch", "final"} => State(p, "root", Above(p)) = "open"
    /\ pc[p] = "recvShard" => State(p, "exch", peer[p]) = "open"
    /\ \A r \in Signers : p < r /\ Exchanged(p, r) => State(p, "exch", r) = "open"

\* q has got the root from below, which it gets once, ...
RootDone(q) == kind[q] \in {"exch", "final"} \/ (kind[q] = "root" /\ pc[q] \notin {"listen", "accept"})

RootInv(q) ==
    /\ State(Below(q), "root", q) = "open" <=> RootDone(q)
    /\ kind[q] = "root" /\ pc[q] = "accept" => toAccept[q] = 1

\* ... and has swapped no shard before that.
ExchangeInv(q) ==
    \A p \in Signers : p < q /\ State(p, "exch", q) = "open" => kind[q] \in {"exch", "final"}

\* The TTP gives nobody R and the seed before it has accepted all.
TtpInv ==
    /\ TtpAt
    /\ kind[TTP] = "presign" /\ pc[TTP] = "listen" => NotPresigned = Signers
    /\ kind[TTP] = "presign" /\ pc[TTP] = "accept" =>
           toAccept[TTP] = Cardinality(NotPresigned) /\ NotPresigned # {}
    /\ kind[TTP] # "presign" \/ pc[TTP] = "destroy" => AllPresigned

\* Who waits at q: while q accepts, only callers of its phase.
Waiting(c, q) ==
    /\ Server(c) = q /\ Client(c) \in Signers
    /\ pc[Client(c)] = "id" /\ Me(Client(c)) = c /\ conn[c].state = "waiting"
    /\ pc[q] = "accept" => kind[q] = Phase(c)

ListenerInv(q) ==
    /\ listening[q] <=> q \in Nodes /\ pc[q] \in {"accept", "destroy"}
    /\ ~listening[q] => backlog[q] = <<>>
    /\ \A j \in DOMAIN backlog[q] : Waiting(backlog[q][j], q)
    /\ \A j, n \in DOMAIN backlog[q] : backlog[q][j] = backlog[q][n] => j = n

HandlerInv(c) ==
    /\ hpc[c] \in StepsOf(Phase(c)) \cup {"none", "over"}
    /\ hpc[c] \in {"sendR", "sendSeed"} => AllPresigned
    /\ Phase(c) = "presign" /\ conn[c].down # <<>> => AllPresigned
    /\ hpc[c] \in {"recvShare", "barrier"} => Client(c) \in Signers /\ conn[c].state = "open"
    /\ conn[c].state # "reset"

\* As long as no connection has been reset.
Undisturbed ==
    /\ TypeOK
    /\ \A p \in Signers : CallerInv(p)
    /\ \A p \in Signers : p # 0 => RootInv(p) /\ ExchangeInv(p)
    /\ \A p \in Players \ Signers : pc[p] = "done"
    /\ TtpInv /\ RootInv(TTP)
    /\ \A q \in Parties : ListenerInv(q)
    /\ \A c \in Conns : HandlerInv(c)

NoReset == \A p \in Signers : "reset" \notin trouble[p]

NetSignInv ==
    /\ t \in 1..MAX_T /\ last \in {TTP, Stale} /\ DOMAIN trouble = Players
    /\ NoReset => Undisturbed

------------------------------------------------------------------------------
(* Participants, connections and phases.                                     *)

LEMMA Sizes ==
  /\ MAX_T \in Nat /\ MAX_T >= 1 /\ TTP = MAX_T /\ 0 \in Players
  /\ Parties = Nodes \cup {Stale} /\ Stale \notin Nodes
  /\ Nodes = Players \cup {TTP} /\ TTP \notin Players
  /\ \A p : p \in Players <=> p \in Nat /\ p < MAX_T
  BY NetSignAssumption DEF TTP, Players, Nodes

LEMMA SignersAre ==
  ASSUME t \in 1..MAX_T
  PROVE  /\ t \in Nat /\ 1 <= t /\ t <= MAX_T /\ 0 \in Signers /\ t - 1 \in Signers
         /\ \A p : p \in Signers <=> p \in Nat /\ p < t
         /\ \A p \in Signers : p \in Players /\ p \in Nodes /\ p \in Parties /\ p # TTP
         /\ TTP \in Nodes /\ TTP \in Parties
         /\ IsFiniteSet(Signers) /\ Cardinality(Signers) = t
<1>1. /\ t \in Nat /\ 1 <= t /\ t <= MAX_T /\ 0 \in Signers /\ t - 1 \in Signers
      /\ \A p : p \in Signers <=> p \in Nat /\ p < t
  BY Sizes DEF Signers
<1>2. /\ \A p \in Signers : p \in Players /\ p \in Nodes /\ p \in Parties /\ p # TTP
      /\ TTP \in Nodes /\ TTP \in Parties
  BY <1>1, Sizes
<1>3. IsFiniteSet(Signers) /\ Cardinality(Signers) = t
  BY <1>1, FS_Interval DEF Signers
<1>. QED
  BY <1>1, <1>2, <1>3

LEMMA ConnsAre ==
  /\ \A c \in Conns : /\ c = <<Client(c), Phase(c), Server(c)>>
                      /\ Client(c) \in Players /\ Phase(c) \in Phases /\ Server(c) \in Parties
                      /\ Phase(c) \in {"presign", "final"} => Server(c) = TTP
                      /\ Phase(c) = "exch" => Server(c) \in Players /\ Client(c) < Server(c)
  /\ \A p \in Players : <<p, "presign", TTP>> \in Conns /\ <<p, "final", TTP>> \in Conns
  /\ \A p \in Players, q \in Parties : p # q => <<p, "root", q>> \in Conns
  /\ \A p \in Players, q \in Players : p < q => <<p, "exch", q>> \in Conns
  BY NetSignAssumption DEF Client, Phase, Server, Phases

LEMMA ConnParts ==
  \A p, phase, q :
      /\ Client(<<p, phase, q>>) = p /\ Phase(<<p, phase, q>>) = phase /\ Server(<<p, phase, q>>) = q
      /\ \A r, other, s : <<p, phase, q>> = <<r, other, s>> <=> p = r /\ phase = other /\ q = s
  BY DEF Client, Phase, Server

LEMMA StepsAre ==
  /\ StepsOf("presign") = {"recvShare", "barrier", "sendR", "sendSeed"}
  /\ StepsOf("root") = {"recvRoot"}
  /\ StepsOf("exch") = {"recvShard", "load", "sendShard"} \cup Updating
  /\ StepsOf("final") = {"sendTop"}
  BY DEF StepsOf

\* What a step of a handler says of its connection.
LEMMA PhaseOfStep ==
  ASSUME NEW c \in Conns, hpc[c] \in StepsOf(Phase(c)) \cup {"none", "over"}
  PROVE  /\ hpc[c] \in {"recvShare", "barrier", "sendR", "sendSeed"} => Phase(c) = "presign"
         /\ hpc[c] = "recvRoot" => Phase(c) = "root"
         /\ hpc[c] \in {"recvShard", "load", "sendShard"} \cup Updating => Phase(c) = "exch"
         /\ hpc[c] = "sendTop" => Phase(c) = "final"
<1>1. Phase(c) \in {"presign", "root", "exch", "final"}
  BY ConnsAre DEF Phases
<1>. QED
  BY <1>1, StepsAre DEF Updating

------------------------------------------------------------------------------
(* What a step leaves as it is.                                              *)

\* Nothing but a stream of c changes.
StreamOnly(c, way) ==
    /\ DOMAIN conn' = Conns
    /\ \A d \in Conns :
           /\ DOMAIN conn'[d] = {"state", "up", "down"} /\ conn'[d].state = conn[d].state
           /\ (d = c /\ way = "down") \/ conn'[d].down = conn[d].down

LEMMA PutKeeps ==
  ASSUME TypeOK, NEW c \in Conns, NEW way \in {"up", "down"}, NEW x, Put(c, way, x)
  PROVE  StreamOnly(c, way) /\ listening' = listening /\ backlog' = backlog
<1>1. conn' = [conn EXCEPT ![c] = [conn[c] EXCEPT ![way] = conn[c][way] \o x]]
  BY DEF Put
<1>2. \A y : LET r == [conn[c] EXCEPT ![way] = y] IN
          DOMAIN r = {"state", "up", "down"} /\ r.state = conn[c].state /\ (way = "up" => r.down = conn[c].down)
  BY DEF TypeOK
<1>. QED
  BY <1>1, <1>2 DEF TypeOK, StreamOnly, Put

LEMMA TakeKeeps ==
  ASSUME TypeOK, NEW c \in Conns, NEW way \in {"up", "down"}, NEW x, Take(c, way, x)
  PROVE  StreamOnly(c, way) /\ listening' = listening /\ backlog' = backlog
<1>1. conn' = [conn EXCEPT ![c] = [conn[c] EXCEPT ![way] = SubSeq(conn[c][way], Len(x) + 1, Len(conn[c][way]))]]
  BY DEF Take
<1>2. \A y : LET r == [conn[c] EXCEPT ![way] = y] IN
          DOMAIN r = {"state", "up", "down"} /\ r.state = conn[c].state /\ (way = "up" => r.down = conn[c].down)
  BY DEF TypeOK
<1>. QED
  BY <1>1, <1>2 DEF TypeOK, StreamOnly, Take

\* Something is received only from a stream that is not empty.
LEMMA SomethingSent ==
  ASSUME NEW c, NEW way, NEW limit \in Nat, NEW got \in Receivable(c, way, limit)
  PROVE  conn[c][way] # <<>>
<1>. SUFFICES ASSUME conn[c][way] = <<>> PROVE FALSE
  OBVIOUS
<1>1. Len(conn[c][way]) = 0
  OBVIOUS
<1>. QED
  BY <1>1 DEF Receivable

\* The signers are the same ones, and what is said of a connection is, if its state is.
SameSession == t' = t /\ last' = last

LEMMA SessionSame ==
  ASSUME SameSession
  PROVE  /\ Signers' = Signers
         /\ \A p : Below(p)' = Below(p) /\ Above(p)' = Above(p) /\ NextSigner(p)' = NextSigner(p)
  BY DEF SameSession, Signers, Below, Above, NextSigner

StatesSame == \A c \in Conns : conn'[c].state = conn[c].state

LEMMA PresignedSame ==
  ASSUME t \in 1..MAX_T, SameSession,
         \A p \in Signers : conn'[<<p, "presign", TTP>>].state = "open" <=> conn[<<p, "presign", TTP>>].state = "open"
  PROVE  (AllPresigned' <=> AllPresigned) /\ NotPresigned' = NotPresigned
  BY SessionSame DEF AllPresigned, NotPresigned, State

\* A signer that does not move, while its connections are as open as they were.
LEMMA CallerKept ==
  ASSUME t \in 1..MAX_T, SameSession, NEW p \in Signers, CallerInv(p), AllPresigned => AllPresigned',
         \A c \in Conns : Client(c) = p =>
             /\ conn[c].state = "open" => conn'[c].state = "open"
             /\ conn[c].state = "none" => conn'[c].state = "none",
         pc'[p] = pc[p] \/ (pc[p] \in Serving /\ pc'[p] \in Serving),
         kind'[p] = kind[p], peer'[p] = peer[p]
  PROVE  CallerInv(p)'
<1>1. /\ Signers' = Signers /\ Above(p)' = Above(p) /\ NextSigner(p)' = NextSigner(p)
      /\ p \in Players /\ \A r \in Signers : r \in Players
  BY SessionSame, SignersAre
<1>2. PlayerAt(p)'
  BY <1>1 DEF CallerInv, PlayerAt, Serving, Calling
<1>3. ASSUME NEW phase \in Phases, NEW q \in Parties, <<p, phase, q>> \in Conns, Ahead(p, phase, q)'
      PROVE  State(p, phase, q)' = "none"
  <2>1. Ahead(p, phase, q)
    BY <1>3 DEF Ahead, Serving
  <2>. QED
    BY <1>3, <2>1, ConnParts DEF CallerInv, State
<1>4. kind'[p] # "presign" \/ pc'[p] = "recvSeed" => AllPresigned'
  BY DEF CallerInv, Serving
<1>5. kind'[p] \in {"exch", "final"} \/ (kind'[p] = "root" /\ pc'[p] = "id") => NextSigner(p)' = Above(p)'
  BY <1>1 DEF CallerInv, Serving
<1>6. kind'[p] \in {"exch", "final"} => State(p, "root", Above(p))' = "open"
  <2>. SUFFICES ASSUME kind[p] \in {"exch", "final"} PROVE State(p, "root", Above(p))' = "open"
    OBVIOUS
  <2>1. State(p, "root", Above(p)) = "open"
    BY DEF CallerInv
  <2>2. <<p, "root", Above(p)>> \in Conns
    BY <1>1, Sizes, SignersAre, ConnsAre DEF Above
  <2>. QED
    BY <1>1, <2>1, <2>2, ConnParts DEF State
<1>7. pc'[p] = "recvShard" => State(p, "exch", peer[p])' = "open"
  <2>. SUFFICES ASSUME pc'[p] = "recvShard" PROVE State(p, "exch", peer[p])' = "open"
    OBVIOUS
  <2>1. pc[p] = "recvShard" /\ State(p, "exch", peer[p]) = "open"
    BY DEF CallerInv, Serving
  <2>2. peer[p] \in Signers /\ p < peer[p]
    BY <2>1 DEF CallerInv, PlayerAt, Serving, Calling
  <2>3. <<p, "exch", peer[p]>> \in Conns
    BY <1>1, <2>2, ConnsAre
  <2>. QED
    BY <2>1, <2>3, ConnParts DEF State
<1>8. ASSUME NEW r \in Signers, p < r, Exchanged(p, r)' PROVE State(p, "exch", r)' = "open"
  <2>1. Exchanged(p, r)
    BY <1>8 DEF Exchanged, Serving
  <2>2. State(p, "exch", r) = "open" /\ <<p, "exch", r>> \in Conns
    BY <1>1, <1>8, <2>1, ConnsAre DEF CallerInv
  <2>. QED
    BY <2>2, ConnParts DEF State
<1>. QED
  BY <1>1, <1>2, <1>3, <1>4, <1>5, <1>6, <1>7, <1>8 DEF CallerInv

LEMMA RootKept ==
  ASSUME SameSession, NEW q, RootInv(q),
         conn'[<<Below(q), "root", q>>].state = "open" <=> conn[<<Below(q), "root", q>>].state = "open",
         RootDone(q)' <=> RootDone(q),
         kind'[q] = "root" /\ pc'[q] = "accept" => toAccept'[q] = 1
  PROVE  RootInv(q)'
<1>1. Below(q)' = Below(q)
  BY SessionSame
<1>2. State(Below(q), "root", q)' = "open" <=> State(Below(q), "root", q) = "open"
  BY <1>1 DEF State
<1>. QED
  BY <1>2 DEF RootInv

LEMMA TtpKept ==
  ASSUME TtpInv, Signers' = Signers, NotPresigned' = NotPresigned, AllPresigned' <=> AllPresigned,
         pc'[TTP] = pc[TTP], kind'[TTP] = kind[TTP], toAccept'[TTP] = toAccept[TTP]
  PROVE  TtpInv'
  BY DEF TtpInv, TtpAt

LEMMA WaitingKept ==
  ASSUME NEW c \in Conns, NEW q \in Parties, Waiting(c, q), SameSession,
         pc'[Client(c)] = pc[Client(c)], kind'[Client(c)] = kind[Client(c)], peer'[Client(c)] = peer[Client(c)],
         conn'[c].state = conn[c].state,
         pc'[q] = "accept" => pc[q] = "accept" /\ kind'[q] = kind[q]
  PROVE  Waiting(c, q)'
  BY SessionSame DEF Waiting, Me, Client, Server, Phase

\* A listener to whose clients nothing happens.
LEMMA ListenerKept ==
  ASSUME SameSession, TypeOK, NEW q \in Parties, ListenerInv(q),
         listening'[q] = listening[q], backlog'[q] = backlog[q],
         q \in Nodes => (pc'[q] \in {"accept", "destroy"} <=> pc[q] \in {"accept", "destroy"}),
         q \in Nodes /\ pc'[q] = "accept" => pc[q] = "accept" /\ kind'[q] = kind[q],
         \A j \in DOMAIN backlog[q] : \A c \in Conns : c = backlog[q][j] =>
             /\ pc'[Client(c)] = pc[Client(c)] /\ kind'[Client(c)] = kind[Client(c)]
             /\ peer'[Client(c)] = peer[Client(c)] /\ conn'[c].state = conn[c].state
  PROVE  ListenerInv(q)'
<1>1. backlog[q] \in Seq(Conns)
  BY DEF TypeOK
<1>2. CASE backlog[q] = <<>>
  BY <1>2 DEF ListenerInv
<1>3. CASE backlog[q] # <<>>
  <2>1. q \in Nodes
    BY <1>3 DEF ListenerInv
  <2>2. ASSUME NEW j \in DOMAIN backlog[q] PROVE Waiting(backlog[q][j], q)'
    <3>1. PICK c \in Conns : c = backlog[q][j]
      BY <1>1, LenProperties
    <3>2. Waiting(c, q)
      BY <3>1 DEF ListenerInv
    <3>3. Waiting(c, q)'
      BY <2>1, <3>1, <3>2, WaitingKept
    <3>. QED
      BY <3>1, <3>3 DEF Waiting, Me
  <2>. QED
    BY <1>3, <2>1, <2>2 DEF ListenerInv
<1>. QED
  BY <1>2, <1>3

\* Only n moves, and opens or closes its listener.
OnlyMoves(n) ==
    /\ \A q \in Nodes : q # n =>
           pc'[q] = pc[q] /\ kind'[q] = kind[q] /\ peer'[q] = peer[q] /\ toAccept'[q] = toAccept[q]
    /\ \A q \in Parties : q # n => listening'[q] = listening[q] /\ backlog'[q] = backlog[q]

\* n moves as it may.
MovesRightly(n) ==
    /\ n \in Signers => CallerInv(n)' /\ (kind[n] \in {"exch", "final"} => kind'[n] \in {"exch", "final"})
    /\ n = TTP => TtpInv'
    /\ n # 0 => (RootDone(n)' <=> RootDone(n)) /\ (kind'[n] = "root" /\ pc'[n] = "accept" => toAccept'[n] = 1)
    /\ n \in Players \ Signers => pc'[n] = pc[n]
    /\ ListenerInv(n)'
    /\ \/ pc[n] # "id" \/ conn[Me(n)].state # "waiting"
       \/ pc'[n] = pc[n] /\ kind'[n] = kind[n] /\ peer'[n] = peer[n]

LEMMA StepKeeps ==
  ASSUME Undisturbed, t \in 1..MAX_T, SameSession, NEW n \in Nodes,
         OnlyMoves(n), MovesRightly(n), StatesSame, TypeOK', \A c \in Conns : HandlerInv(c)'
  PROVE  Undisturbed'
<1>. USE DEF OnlyMoves
<1>1. /\ Signers' = Signers /\ \A p \in Signers : p \in Players /\ p \in Nodes /\ p \in Parties /\ p # TTP
      /\ TTP \in Nodes /\ TTP \in Parties /\ TypeOK
  BY SessionSame, SignersAre DEF Undisturbed
<1>2. (AllPresigned' <=> AllPresigned) /\ NotPresigned' = NotPresigned
  BY <1>1, PresignedSame, ConnsAre DEF StatesSame
<1>3. ASSUME NEW p \in Signers PROVE CallerInv(p)'
  <2>1. CASE p = n
    BY <2>1 DEF MovesRightly
  <2>2. CASE p # n
    BY <1>1, <1>2, <2>2, CallerKept DEF StatesSame, Undisturbed
  <2>. QED
    BY <2>1, <2>2
<1>4. ASSUME NEW q \in Nodes, q = TTP \/ (q \in Signers /\ q # 0) PROVE RootInv(q)'
  <2>1. RootInv(q) /\ <<Below(q), "root", q>> \in Conns
    <3>1. Below(q) \in Players /\ q \in Parties /\ Below(q) # q
      BY <1>4, Sizes, SignersAre DEF Below
    <3>. QED
      BY <1>4, <3>1, ConnsAre DEF Undisturbed
  <2>2. CASE q = n
    <3>1. q # 0
      BY <1>4, Sizes
    <3>. QED
      BY <2>1, <2>2, <3>1, RootKept DEF StatesSame, MovesRightly
  <2>3. CASE q # n
    <3>1. pc'[q] = pc[q] /\ kind'[q] = kind[q] /\ toAccept'[q] = toAccept[q]
      BY <2>3
    <3>2. RootDone(q)' <=> RootDone(q)
      BY <3>1 DEF RootDone
    <3>. QED
      BY <2>1, <3>1, <3>2, RootKept DEF StatesSame, RootInv
  <2>. QED
    BY <2>2, <2>3
<1>5. ASSUME NEW q \in Signers, q # 0 PROVE ExchangeInv(q)'
  <2>. SUFFICES ASSUME NEW p \in Signers, p < q, State(p, "exch", q)' = "open"
                PROVE  kind'[q] \in {"exch", "final"}
    BY <1>1 DEF ExchangeInv
  <2>1. <<p, "exch", q>> \in Conns
    BY <1>1, ConnsAre
  <2>2. kind[q] \in {"exch", "final"}
    BY <1>5, <2>1 DEF Undisturbed, ExchangeInv, State, StatesSame
  <2>. QED
    BY <1>1, <2>2 DEF MovesRightly
<1>6. ASSUME NEW q \in Players \ Signers PROVE pc'[q] = "done"
  <2>1. q \in Nodes /\ pc[q] = "done"
    BY Sizes DEF Undisturbed
  <2>. QED
    BY <2>1 DEF MovesRightly
<1>7. TtpInv'
  <2>1. CASE TTP = n
    BY <2>1 DEF MovesRightly
  <2>2. CASE TTP # n
    BY <1>1, <1>2, <2>2, TtpKept DEF Undisturbed
  <2>. QED
    BY <2>1, <2>2
<1>8. ASSUME NEW q \in Parties PROVE ListenerInv(q)'
  <2>1. CASE q = n
    BY <2>1 DEF MovesRightly
  <2>2. CASE q # n
    <3>1. ListenerInv(q)
      BY DEF Undisturbed
    <3>2. ASSUME NEW j \in DOMAIN backlog[q], NEW c \in Conns, c = backlog[q][j]
          PROVE  /\ pc'[Client(c)] = pc[Client(c)] /\ kind'[Client(c)] = kind[Client(c)]
                 /\ peer'[Client(c)] = peer[Client(c)] /\ conn'[c].state = conn[c].state
      <4>1. Waiting(c, q)
        BY <3>1, <3>2 DEF ListenerInv
      <4>2. Client(c) \in Nodes /\ pc[Client(c)] = "id" /\ Me(Client(c)) = c /\ conn[c].state = "waiting"
        BY <1>1, <4>1 DEF Waiting
      <4>3. CASE Client(c) = n
        BY <4>2, <4>3 DEF MovesRightly, StatesSame
      <4>4. CASE Client(c) # n
        BY <4>2, <4>4 DEF StatesSame
      <4>. QED
        BY <4>3, <4>4
    <3>3. q \in Nodes => pc'[q] = pc[q] /\ kind'[q] = kind[q]
      BY <2>2
    <3>4. listening'[q] = listening[q] /\ backlog'[q] = backlog[q]
      BY <2>2
    <3>. QED
      BY <1>1, <3>1, <3>2, <3>3, <3>4, ListenerKept
  <2>. QED
    BY <2>1, <2>2
<1>. QED
  BY <1>1, <1>3, <1>4, <1>5, <1>6, <1>7, <1>8 DEF Undisturbed

------------------------------------------------------------------------------
(* The handlers' steps.                                                      *)

\* Only streams and handlers change.
MainSame == UNCHANGED <<listening, backlog, t, last, pc, kind, peer, toAccept>>

LEMMA MainSameKeeps ==
  ASSUME Undisturbed, t \in 1..MAX_T, MainSame, StatesSame, TypeOK', \A c \in Conns : HandlerInv(c)'
  PROVE  Undisturbed'
<1>. USE DEF MainSame
<1>1. SameSession /\ OnlyMoves(TTP) /\ TypeOK /\ TTP \in Nodes /\ TTP \in Parties /\ Signers' = Signers
  BY SignersAre, SessionSame DEF SameSession, OnlyMoves, Undisturbed
<1>2. (AllPresigned' <=> AllPresigned) /\ NotPresigned' = NotPresigned
  BY <1>1, PresignedSame, SignersAre, ConnsAre DEF StatesSame
<1>3. TtpInv'
  BY <1>1, <1>2, TtpKept DEF Undisturbed
<1>4. ListenerInv(TTP)'
  BY <1>1, ListenerKept DEF Undisturbed, StatesSame
<1>5. (RootDone(TTP)' <=> RootDone(TTP)) /\ (kind'[TTP] = "root" /\ pc'[TTP] = "accept" => toAccept'[TTP] = 1)
  BY DEF RootDone, Undisturbed, RootInv
<1>6. TTP \notin Players /\ TTP \notin Signers
  BY Sizes, SignersAre
<1>7. MovesRightly(TTP)
  BY <1>3, <1>4, <1>5, <1>6 DEF MovesRightly
<1>. QED
  BY <1>1, <1>7, StepKeeps

\* The handler of c goes on to a step of the same phase.
HandlerStep(c, step, way) ==
    /\ StreamOnly(c, way)
    /\ hpc' = [hpc EXCEPT ![c] = step]
    /\ step \in StepsOf(Phase(c)) \cup {"over"}
    /\ step \in {"sendR", "sendSeed"} => AllPresigned
    /\ step \in {"recvShare", "barrier"} => hpc[c] \in {"recvShare", "barrier"}
    /\ way = "down" /\ Phase(c) = "presign" => AllPresigned
    /\ MainSame

LEMMA HandlerInvAfter ==
  ASSUME Undisturbed, t \in 1..MAX_T, NEW c \in Conns, NEW step, NEW way, HandlerStep(c, step, way)
  PROVE  Undisturbed'
<1>. USE DEF HandlerStep
<1>1. StatesSame /\ TypeOK /\ SameSession /\ Signers' = Signers /\ DOMAIN hpc = Conns
  BY SessionSame DEF StreamOnly, StatesSame, Undisturbed, TypeOK, MainSame, SameSession
<1>2. AllPresigned' <=> AllPresigned
  BY <1>1, PresignedSame, SignersAre, ConnsAre DEF StatesSame
<1>3. TypeOK'
  BY <1>1 DEF TypeOK, StreamOnly, MainSame
<1>4. ASSUME NEW d \in Conns PROVE HandlerInv(d)'
  <2>1. HandlerInv(d) /\ conn'[d].state = conn[d].state
    BY DEF Undisturbed, StreamOnly
  <2>2. CASE d = c
    <3>1. hpc'[d] = step
      BY <1>1, <2>2
    <3>2. Phase(d) = "presign" /\ conn'[d].down # <<>> => AllPresigned
      BY <2>1, <2>2 DEF HandlerInv, StreamOnly
    <3>. QED
      BY <1>1, <1>2, <2>1, <2>2, <3>1, <3>2 DEF HandlerInv, Phase, Client
  <2>3. CASE d # c
    <3>1. hpc'[d] = hpc[d] /\ conn'[d].down = conn[d].down
      BY <1>1, <2>3 DEF StreamOnly
    <3>. QED
      BY <1>1, <1>2, <2>1, <3>1 DEF HandlerInv, Phase, Client
  <2>. QED
    BY <2>2, <2>3
<1>. QED
  BY <1>1, <1>3, <1>4, MainSameKeeps

LEMMA NoStream ==
  ASSUME TypeOK, conn' = conn, NEW c
  PROVE  StreamOnly(c, "up")
  BY DEF TypeOK, StreamOnly

LEMMA HandleInv ==
  ASSUME Undisturbed, t \in 1..MAX_T, NEW c \in Conns, Handle(c)
  PROVE  Undisturbed'
<1>. USE StepsAre DEF MainSame, params, mainVars, message, signing, netVars
<1>1. TypeOK /\ HandlerInv(c) /\ hpc[c] \in StepsOf(Phase(c)) \cup {"none", "over"}
  BY DEF Undisturbed, HandlerInv
<1>2. CASE RecvShare(c)
  <2>1. Phase(c) = "presign" /\ hpc[c] = "recvShare"
    BY <1>1, <1>2, PhaseOfStep DEF RecvShare
  <2>2. StreamOnly(c, "up") /\ listening' = listening /\ backlog' = backlog
    BY <1>1, <1>2, TakeKeeps DEF RecvShare
  <2>3. HandlerStep(c, "barrier", "up")
    BY <1>2, <2>1, <2>2 DEF HandlerStep, RecvShare, HStep
  <2>. QED
    BY <2>3, HandlerInvAfter
<1>3. CASE SendR(c)
  <2>1. Phase(c) = "presign" /\ AllPresigned
    BY <1>1, <1>3, PhaseOfStep DEF SendR, HandlerInv
  <2>2. StreamOnly(c, "down") /\ listening' = listening /\ backlog' = backlog
    BY <1>1, <1>3, PutKeeps DEF SendR
  <2>3. HandlerStep(c, "sendSeed", "down")
    BY <1>3, <2>1, <2>2 DEF HandlerStep, SendR, HStep
  <2>. QED
    BY <2>3, HandlerInvAfter
<1>4. CASE SendSeed(c)
  <2>1. AllPresigned
    BY <1>1, <1>4 DEF SendSeed, HandlerInv
  <2>2. StreamOnly(c, "down") /\ listening' = listening /\ backlog' = backlog
    BY <1>1, <1>4, PutKeeps DEF SendSeed
  <2>3. HandlerStep(c, "over", "down")
    BY <1>4, <2>1, <2>2 DEF HandlerStep, SendSeed, HStep
  <2>. QED
    BY <2>3, HandlerInvAfter
<1>5. CASE RecvRoot(c)
  <2>1. StreamOnly(c, "up") /\ listening' = listening /\ backlog' = backlog
    BY <1>1, <1>5, TakeKeeps DEF RecvRoot
  <2>2. HandlerStep(c, "over", "up")
    BY <1>5, <2>1 DEF HandlerStep, RecvRoot, HStep
  <2>. QED
    BY <2>2, HandlerInvAfter
<1>6. CASE SendTop(c)
  <2>1. Phase(c) = "final"
    BY <1>1, <1>6, PhaseOfStep DEF SendTop
  <2>2. StreamOnly(c, "down") /\ listening' = listening /\ backlog' = backlog
    BY <1>1, <1>6, PutKeeps DEF SendTop
  <2>3. HandlerStep(c, "over", "down")
    BY <1>6, <2>1, <2>2 DEF HandlerStep, SendTop, HStep
  <2>. QED
    BY <2>3, HandlerInvAfter
<1>7. CASE HandlerRecvShard(c)
  <2>1. Phase(c) = "exch"
    BY <1>1, <1>7, PhaseOfStep DEF HandlerRecvShard
  <2>2. StreamOnly(c, "up") /\ listening' = listening /\ backlog' = backlog
    BY <1>1, <1>7, TakeKeeps DEF HandlerRecvShard
  <2>3. HandlerStep(c, "load", "up")
    BY <1>7, <2>1, <2>2 DEF HandlerStep, HandlerRecvShard, HStep
  <2>. QED
    BY <2>3, HandlerInvAfter
<1>8. CASE HandlerSendShard(c)
  <2>1. Phase(c) = "exch"
    BY <1>1, <1>8, PhaseOfStep DEF HandlerSendShard
  <2>2. StreamOnly(c, "down") /\ listening' = listening /\ backlog' = backlog
    BY <1>1, <1>8, PutKeeps DEF HandlerSendShard
  <2>3. HandlerStep(c, "over", "down")
    BY <1>8, <2>1, <2>2 DEF HandlerStep, HandlerSendShard, HStep
  <2>. QED
    BY <2>3, HandlerInvAfter
<1>9. CASE Load(c) \/ AddOffset(c) \/ Copy(c) \/ LoadBack(c) \/ SubOffset(c) \/ LoadLen(c) \/ AddLen(c)
  <2>1. PICK step \in Updating \cup {"sendShard"} :
            /\ hpc[c] \in Updating \cup {"load"}
            /\ hpc' = [hpc EXCEPT ![c] = step] /\ conn' = conn /\ MainSame
    BY <1>9 DEF Updating, Load, AddOffset, Copy, LoadBack, SubOffset, LoadLen, AddLen, HStep
  <2>2. Phase(c) = "exch"
    BY <1>1, <2>1, PhaseOfStep
  <2>3. step \notin {"sendR", "sendSeed", "recvShare", "barrier"}
    BY DEF Updating
  <2>4. HandlerStep(c, step, "up")
    BY <1>1, <2>1, <2>2, <2>3, NoStream DEF HandlerStep
  <2>. QED
    BY <2>4, HandlerInvAfter
<1>. QED
  BY <1>2, <1>3, <1>4, <1>5, <1>6, <1>7, <1>8, <1>9 DEF Handle

LEMMA AggregateInv ==
  ASSUME Undisturbed, t \in 1..MAX_T, Aggregate
  PROVE  Undisturbed'
<1>1. /\ AtBarrier /\ MainSame /\ conn' = conn
      /\ hpc' = [c \in Conns |-> IF hpc[c] = "barrier" THEN "sendR" ELSE hpc[c]]
  BY DEF Aggregate, MainSame, netVars, params, mainVars
<1>2. TypeOK /\ \A c \in Conns : HandlerInv(c)
  BY DEF Undisturbed
<1>3. AllPresigned
  <2>1. PICK B : B = {c \in Conns : hpc[c] = "barrier"}
    OBVIOUS
  <2>2. PICK f : f = [c \in B |-> Client(c)]
    OBVIOUS
  <2>3. \A c \in B : /\ Client(c) \in Signers /\ c = <<Client(c), "presign", TTP>>
                     /\ conn[c].state = "open"
    <3>. SUFFICES ASSUME NEW c \in B
                  PROVE  Client(c) \in Signers /\ c = <<Client(c), "presign", TTP>> /\ conn[c].state = "open"
      OBVIOUS
    <3>1. c \in Conns /\ hpc[c] = "barrier" /\ HandlerInv(c)
      BY <1>2, <2>1
    <3>2. Phase(c) = "presign"
      BY <3>1, PhaseOfStep DEF HandlerInv
    <3>. QED
      BY <3>1, <3>2, ConnsAre DEF HandlerInv
  <2>4. f \in Injection(B, Signers)
    BY <2>2, <2>3 DEF Injection, IsInjective
  <2>5. IsFiniteSet(Signers) /\ Cardinality(B) = Cardinality(Signers)
    BY <1>1, <2>1, SignersAre DEF AtBarrier
  <2>6. f \in Surjection(B, Signers)
    BY ONLY <2>4, <2>5, FS_Injection
  <2>7. ASSUME NEW p \in Signers PROVE State(p, "presign", TTP) = "open"
    <3>1. PICK c \in B : f[c] = p
      BY <2>6 DEF Surjection
    <3>. QED
      BY <2>2, <2>3, <3>1 DEF State
  <2>. QED
    BY <2>7 DEF AllPresigned
<1>4. StatesSame /\ SameSession /\ TypeOK' /\ Signers' = Signers
  BY <1>1, <1>2, SessionSame DEF StatesSame, SameSession, MainSame, TypeOK
<1>5. AllPresigned'
  BY <1>3, <1>4, PresignedSame, SignersAre, ConnsAre DEF StatesSame
<1>6. ASSUME NEW c \in Conns PROVE HandlerInv(c)'
  <2>1. HandlerInv(c) /\ hpc'[c] = (IF hpc[c] = "barrier" THEN "sendR" ELSE hpc[c])
    BY <1>1, <1>2
  <2>2. CASE hpc[c] = "barrier"
    <3>1. Phase(c) = "presign"
      BY <2>1, <2>2, PhaseOfStep DEF HandlerInv
    <3>2. hpc'[c] = "sendR" /\ "sendR" \in StepsOf(Phase(c))
      BY <2>1, <2>2, <3>1, StepsAre
    <3>. QED
      BY <1>1, <1>5, <2>1, <3>1, <3>2 DEF HandlerInv, Phase, Client
  <2>3. CASE hpc[c] # "barrier"
    BY <1>1, <1>4, <1>5, <2>1, <2>3 DEF HandlerInv, Phase, Client
  <2>. QED
    BY <2>2, <2>3
<1>. QED
  BY <1>1, <1>4, <1>6, MainSameKeeps

------------------------------------------------------------------------------
(* The steps of a signer's main thread.                                      *)

LEMMA MeIs ==
  ASSUME t \in 1..MAX_T, last \in {TTP, Stale}, NEW p \in Signers, PlayerAt(p), pc[p] \notin Serving, pc[p] # "sign"
  PROVE  Me(p) \in Conns /\ peer[p] \in Parties /\ peer[p] # p
<1>1. /\ p \in Players /\ p \in Nat /\ p < t /\ t <= MAX_T /\ \A r \in Signers : r \in Players /\ r \in Parties
      /\ TTP = MAX_T /\ TTP \in Parties /\ Stale \in Parties /\ Stale \notin Players
  BY SignersAre, Sizes
<1>2. CASE kind[p] \in {"presign", "final"}
  <2>1. peer[p] = TTP /\ TTP # p
    BY <1>1, <1>2, Sizes DEF PlayerAt
  <2>2. Me(p) = <<p, kind[p], TTP>>
    BY <2>1 DEF Me
  <2>3. <<p, "presign", TTP>> \in Conns /\ <<p, "final", TTP>> \in Conns
    BY <1>1, ConnsAre
  <2>4. <<p, kind[p], TTP>> \in Conns
    BY <1>2, <2>3
  <2>. QED
    BY <1>1, <2>1, <2>2, <2>4
<1>3. CASE kind[p] = "root"
  <2>1. peer[p] = NextSigner(p)
    BY <1>3 DEF PlayerAt
  <2>2. NextSigner(p) \in Parties /\ NextSigner(p) # p
    BY <1>1, Sizes DEF NextSigner
  <2>. QED
    BY <1>1, <1>3, <2>1, <2>2, ConnsAre DEF Me
<1>4. CASE kind[p] = "exch"
  <2>1. peer[p] \in Signers /\ p < peer[p]
    BY <1>4 DEF PlayerAt
  <2>2. <<p, "exch", peer[p]>> \in Conns
    BY <1>1, <2>1, ConnsAre
  <2>3. Me(p) = <<p, "exch", peer[p]>>
    BY <1>4 DEF Me
  <2>4. peer[p] \in Parties
    BY <1>1, <2>1
  <2>5. peer[p] # p
    <3>. SUFFICES ASSUME peer[p] = p PROVE FALSE
      OBVIOUS
    <3>1. p < p
      BY <2>1
    <3>. QED
      BY <1>1, <3>1
  <2>. QED
    BY <2>2, <2>3, <2>4, <2>5
<1>. QED
  BY <1>2, <1>3, <1>4 DEF PlayerAt

\* p, which does not listen, goes on to x, in a phase and with another participant.
PlayerMove(p, x, phase, other, way) ==
    /\ Go(p, x, phase, other)
    /\ x \in Steps \ {"accept", "destroy"} /\ phase \in Phases /\ other \in Parties
    /\ pc[p] \notin Serving /\ (pc[p] = "id" => conn[Me(p)].state # "waiting")
    /\ StreamOnly(Me(p), way)
    /\ way = "down" /\ kind[p] = "presign" => AllPresigned
    /\ UNCHANGED <<listening, backlog, t, last, hpc>>

\* It calls nobody in advance and has been let in wherever it has been.
GoesRightly(p, x, phase, other) ==
    /\ PlayerAt(p)'
    /\ \A f \in Phases, q \in Parties : <<p, f, q>> \in Conns /\ Ahead(p, f, q)' => Ahead(p, f, q)
    /\ phase # "presign" \/ x = "recvSeed" => AllPresigned
    /\ phase \in {"exch", "final"} \/ (phase = "root" /\ x = "id") => NextSigner(p) = Above(p)
    /\ phase \in {"exch", "final"} => State(p, "root", Above(p)) = "open"
    /\ x = "recvShard" => State(p, "exch", other) = "open"
    /\ \A r \in Signers : p < r /\ Exchanged(p, r)' => State(p, "exch", r) = "open"
    /\ p # 0 => (RootDone(p)' <=> RootDone(p))
    /\ kind[p] \in {"exch", "final"} => phase \in {"exch", "final"}

LEMMA MovedTo ==
  ASSUME Undisturbed, t \in 1..MAX_T, NEW p \in Signers, NEW x, NEW phase, NEW other, NEW way,
         PlayerMove(p, x, phase, other, way)
  PROVE  /\ pc'[p] = x /\ kind'[p] = phase /\ peer'[p] = other
         /\ SameSession /\ Signers' = Signers /\ NextSigner(p)' = NextSigner(p) /\ Above(p)' = Above(p)
         /\ OnlyMoves(p) /\ TypeOK' /\ StatesSame /\ p \in Nodes
         /\ (AllPresigned' <=> AllPresigned) /\ \A c \in Conns : HandlerInv(c)'
<1>. USE DEF PlayerMove
<1>1. /\ TypeOK /\ p \in Nodes /\ SameSession /\ StatesSame
      /\ Signers' = Signers /\ NextSigner(p)' = NextSigner(p) /\ Above(p)' = Above(p)
  BY SignersAre, SessionSame DEF Undisturbed, SameSession, StatesSame, StreamOnly
<1>2. /\ pc' = [pc EXCEPT ![p] = x] /\ kind' = [kind EXCEPT ![p] = phase]
      /\ peer' = [peer EXCEPT ![p] = other] /\ toAccept' = toAccept
  BY DEF Go
<1>3. pc'[p] = x /\ kind'[p] = phase /\ peer'[p] = other /\ OnlyMoves(p)
  BY <1>1, <1>2 DEF TypeOK, OnlyMoves
<1>4. TypeOK'
  BY <1>1, <1>2 DEF TypeOK, StreamOnly
<1>5. AllPresigned' <=> AllPresigned
  BY <1>1, PresignedSame, SignersAre, ConnsAre DEF StatesSame
<1>6. ASSUME NEW c \in Conns PROVE HandlerInv(c)'
  <2>1. HandlerInv(c) /\ hpc'[c] = hpc[c] /\ conn'[c].state = conn[c].state
    BY <1>1 DEF Undisturbed, StatesSame
  <2>2. Phase(c) = "presign" /\ conn'[c].down # <<>> => AllPresigned
    <3>1. CASE conn'[c].down = conn[c].down
      BY <2>1, <3>1 DEF HandlerInv
    <3>2. CASE c = Me(p) /\ way = "down"
      BY <3>2 DEF Me, Phase
    <3>. QED
      BY <3>1, <3>2 DEF StreamOnly
  <2>. QED
    BY <1>1, <1>5, <2>1, <2>2 DEF HandlerInv, Phase, Client
<1>. QED
  BY <1>1, <1>3, <1>4, <1>5, <1>6

\* It has then been let in wherever it has been, too.
LEMMA CallerGoes ==
  ASSUME Undisturbed, t \in 1..MAX_T, NEW p \in Signers, NEW x, NEW phase, NEW other, GoesRightly(p, x, phase, other),
         pc'[p] = x, kind'[p] = phase, peer'[p] = other, SameSession, StatesSame, AllPresigned' <=> AllPresigned
  PROVE  CallerInv(p)'
<1>. USE DEF GoesRightly
<1>1. /\ pc'[p] = x /\ kind'[p] = phase /\ peer'[p] = other
      /\ Signers' = Signers /\ NextSigner(p)' = NextSigner(p) /\ Above(p)' = Above(p)
      /\ StatesSame /\ (AllPresigned' <=> AllPresigned)
  BY SessionSame
<1>2. CallerInv(p) /\ p \in Players /\ p # TTP /\ \A r \in Signers : r \in Players
  BY SignersAre DEF Undisturbed
<1>3. \A f, q : <<p, f, q>> \in Conns => State(p, f, q)' = State(p, f, q)
  BY DEF State, StatesSame
<1>4. \A f \in Phases, q \in Parties : <<p, f, q>> \in Conns /\ Ahead(p, f, q)' => State(p, f, q)' = "none"
  BY <1>2, <1>3 DEF CallerInv
<1>5. kind'[p] \in {"exch", "final"} => State(p, "root", Above(p))' = "open"
  <2>1. <<p, "root", Above(p)>> \in Conns
    BY <1>2, Sizes, SignersAre, ConnsAre DEF Above
  <2>. QED
    BY <1>1, <2>1 DEF State, StatesSame
<1>6. pc'[p] = "recvShard" => State(p, "exch", peer[p])' = "open"
  <2>. SUFFICES ASSUME x = "recvShard" PROVE State(p, "exch", peer[p])' = "open"
    BY <1>1
  <2>1. other \in Signers /\ p < other
    BY <1>1 DEF PlayerAt, Serving, Calling
  <2>2. <<p, "exch", other>> \in Conns
    BY <1>2, <2>1, ConnsAre
  <2>. QED
    BY <1>1, <2>2 DEF State, StatesSame
<1>7. \A r \in Signers : p < r /\ Exchanged(p, r)' => State(p, "exch", r)' = "open"
  BY <1>2, <1>3, ConnsAre
<1>. QED
  BY <1>1, <1>4, <1>5, <1>6, <1>7 DEF CallerInv

LEMMA PlayerMoveInv ==
  ASSUME Undisturbed, t \in 1..MAX_T, NEW p \in Signers, NEW x, NEW phase, NEW other, NEW way,
         PlayerMove(p, x, phase, other, way), GoesRightly(p, x, phase, other)
  PROVE  Undisturbed'
<1>. USE DEF GoesRightly
<1>1. /\ pc'[p] = x /\ kind'[p] = phase /\ peer'[p] = other
      /\ SameSession /\ Signers' = Signers /\ NextSigner(p)' = NextSigner(p) /\ Above(p)' = Above(p)
      /\ OnlyMoves(p) /\ TypeOK' /\ StatesSame /\ p \in Nodes
      /\ (AllPresigned' <=> AllPresigned) /\ \A c \in Conns : HandlerInv(c)'
  BY MovedTo
<1>2. CallerInv(p) /\ TypeOK /\ p \in Players /\ p \in Parties /\ p # TTP /\ \A r \in Signers : r \in Players
  BY SignersAre DEF Undisturbed
<1>3. CallerInv(p)'
  BY <1>1, CallerGoes
<1>4. ListenerInv(p)'
  <2>1. ListenerInv(p) /\ ~listening[p] /\ backlog[p] = <<>>
    BY <1>1, <1>2 DEF Undisturbed, ListenerInv, PlayerMove, Serving
  <2>2. listening'[p] = listening[p] /\ backlog'[p] = backlog[p] /\ pc'[p] \notin {"accept", "destroy"}
    BY <1>1 DEF PlayerMove
  <2>. QED
    BY <2>1, <2>2 DEF ListenerInv
<1>5. MovesRightly(p)
  <2>1. pc'[p] # "accept"
    BY <1>1 DEF PlayerMove
  <2>2. pc[p] # "id" \/ conn[Me(p)].state # "waiting"
    BY DEF PlayerMove
  <2>3. kind'[p] = phase
    BY <1>1
  <2>. QED
    BY <1>2, <1>3, <1>4, <2>1, <2>2, <2>3 DEF MovesRightly
<1>. QED
  BY <1>1, <1>5, StepKeeps

------------------------------------------------------------------------------
(* A signer's ways through the phases.                                       *)

Arrived(p, x, phase, other) ==
    /\ pc'[p] = x /\ kind'[p] = phase /\ peer'[p] = other
    /\ Signers' = Signers /\ NextSigner(p)' = NextSigner(p)

LEMMA CallerFacts ==
  ASSUME Undisturbed, t \in 1..MAX_T, last \in {TTP, Stale}, NEW p \in Signers
  PROVE  /\ TypeOK /\ CallerInv(p) /\ PlayerAt(p) /\ p \in Players /\ p \in Parties /\ p \in Nodes
         /\ p \in Nat /\ p < t /\ t \in Nat /\ p # TTP /\ TTP \in Parties
         /\ \A r : r \in Signers <=> r \in Nat /\ r < t
         /\ pc[p] \notin Serving /\ pc[p] # "sign" =>
                /\ Me(p) \in Conns /\ peer[p] \in Parties /\ peer[p] # p
                /\ Phase(Me(p)) = kind[p] /\ conn[Me(p)].state = State(p, kind[p], peer[p])
<1>1. TypeOK /\ CallerInv(p) /\ PlayerAt(p)
  BY DEF Undisturbed, CallerInv
<1>2. Phase(Me(p)) = kind[p] /\ conn[Me(p)].state = State(p, kind[p], peer[p])
  BY DEF Me, Phase, State
<1>. QED
  BY <1>1, <1>2, MeIs, SignersAre

\* Within a phase.
LEMMA StaysRight ==
  ASSUME Undisturbed, t \in 1..MAX_T, last \in {TTP, Stale}, NEW p \in Signers,
         pc[p] \notin Serving, pc[p] # "sign",
         NEW x \in {"recvR", "recvSeed", "recvShard", "exited", "done"},
         Arrived(p, x, kind[p], peer[p]),
         x \in {"recvR", "recvSeed"} => kind[p] = "presign",
         x = "recvSeed" => AllPresigned,
         x = "recvShard" => kind[p] = "exch" /\ State(p, "exch", peer[p]) = "open",
         x = "done" => kind[p] = "final"
  PROVE  GoesRightly(p, x, kind[p], peer[p])
<1>. USE DEF Arrived
<1>1. CallerInv(p) /\ PlayerAt(p)
  BY CallerFacts
<1>2. x \notin Serving /\ x \notin {"sign", "connect", "id", "listen", "accept"}
  BY DEF Serving
<1>3. PlayerAt(p)'
  BY <1>1 DEF PlayerAt, Calling, Serving
<1>4. \A f \in Phases, q \in Parties : <<p, f, q>> \in Conns /\ Ahead(p, f, q)' => Ahead(p, f, q)
  BY <1>2 DEF Ahead
<1>5. \A r \in Signers : p < r /\ Exchanged(p, r)' => State(p, "exch", r) = "open"
  BY <1>1 DEF Exchanged, CallerInv
<1>6. RootDone(p)' <=> RootDone(p)
  BY <1>2 DEF RootDone, Serving
<1>7. /\ kind[p] # "presign" \/ x = "recvSeed" => AllPresigned
      /\ kind[p] \in {"exch", "final"} => NextSigner(p) = Above(p) /\ State(p, "root", Above(p)) = "open"
  BY <1>1 DEF CallerInv
<1>. QED
  BY <1>2, <1>3, <1>4, <1>5, <1>6, <1>7 DEF GoesRightly

\* From R and the seed to the root.
LEMMA RootRight ==
  ASSUME Undisturbed, t \in 1..MAX_T, last \in {TTP, Stale}, NEW p \in Signers,
         kind[p] = "presign", AllPresigned,
         NEW x, (p = 0 /\ x = "sign") \/ (p > 0 /\ x = "listen"), Arrived(p, x, "root", p)
  PROVE  GoesRightly(p, x, "root", p)
<1>. USE DEF Arrived
<1>1. x \in {"sign", "listen"} /\ p \in Nat
  BY CallerFacts
<1>2. PlayerAt(p)'
  BY <1>1 DEF PlayerAt, Serving
<1>3. \A f \in Phases, q \in Parties : <<p, f, q>> \in Conns /\ Ahead(p, f, q)' => Ahead(p, f, q)
  BY DEF Ahead, Rank
<1>4. \A r \in Signers : ~Exchanged(p, r)'
  BY DEF Exchanged
<1>5. p # 0 => ~RootDone(p)' /\ ~RootDone(p)
  BY <1>1 DEF RootDone
<1>. QED
  BY <1>1, <1>2, <1>3, <1>4, <1>5 DEF GoesRightly

\* With its shard to who gets the root.
LEMMA SignedRight ==
  ASSUME Undisturbed, t \in 1..MAX_T, last \in {TTP, Stale}, NEW p \in Signers,
         kind[p] = "root", pc[p] = "sign", Arrived(p, "connect", "root", NextSigner(p))
  PROVE  GoesRightly(p, "connect", "root", NextSigner(p))
<1>. USE DEF Arrived
<1>1. CallerInv(p)
  BY CallerFacts
<1>2. PlayerAt(p)'
  BY DEF PlayerAt, Calling
<1>3. \A f \in Phases, q \in Parties : <<p, f, q>> \in Conns /\ Ahead(p, f, q)' => Ahead(p, f, q)
  BY DEF Ahead
<1>4. \A r \in Signers : ~Exchanged(p, r)'
  BY DEF Exchanged
<1>5. RootDone(p)' /\ RootDone(p)
  BY DEF RootDone
<1>6. AllPresigned
  BY <1>1 DEF CallerInv
<1>. QED
  BY <1>2, <1>3, <1>4, <1>5, <1>6 DEF GoesRightly

\* From the root to the listener for the lower signers.
LEMMA ListensRight ==
  ASSUME Undisturbed, t \in 1..MAX_T, last \in {TTP, Stale}, NEW p \in Signers,
         kind[p] = "root", pc[p] = "id", p > 0, State(p, "root", peer[p]) = "open",
         Arrived(p, "listen", "exch", p)
  PROVE  GoesRightly(p, "listen", "exch", p)
<1>. USE DEF Arrived
<1>1. CallerInv(p) /\ PlayerAt(p)
  BY CallerFacts
<1>2. PlayerAt(p)'
  BY CallerFacts DEF PlayerAt, Serving
<1>3. \A f \in Phases, q \in Parties : <<p, f, q>> \in Conns /\ Ahead(p, f, q)' => Ahead(p, f, q)
  BY DEF Ahead, Rank
<1>4. \A r \in Signers : ~Exchanged(p, r)'
  BY DEF Exchanged, Serving
<1>5. RootDone(p)' /\ RootDone(p)
  BY DEF RootDone
<1>6. AllPresigned /\ NextSigner(p) = Above(p) /\ peer[p] = NextSigner(p)
  BY <1>1 DEF CallerInv, PlayerAt, Serving
<1>. QED
  BY <1>2, <1>3, <1>4, <1>5, <1>6 DEF GoesRightly

\* To exchange shards with the next one, or to the TTP.
LEMMA ExchangeRight ==
  ASSUME Undisturbed, t \in 1..MAX_T, last \in {TTP, Stale}, NEW p \in Signers,
         NEW next \in Nat, p < next, next <= t, NEW phase, NEW other,
         next < t => phase = "exch" /\ other = next,
         ~(next < t) => phase = "final" /\ other = TTP,
         Arrived(p, "connect", phase, other),
         \/ kind[p] = "root" /\ pc[p] \notin {"listen", "accept"}
         \/ kind[p] = "exch" /\ pc[p] \in Serving
         \/ kind[p] = "exch" /\ peer[p] \in Nat /\ peer[p] < next,
         AllPresigned, NextSigner(p) = Above(p), State(p, "root", Above(p)) = "open",
         \A r \in Signers : p < r /\ r < next => State(p, "exch", r) = "open"
  PROVE  GoesRightly(p, "connect", phase, other)
<1>. USE DEF Arrived
<1>1. p \in Nat /\ t \in Nat /\ (\A r : r \in Signers <=> r \in Nat /\ r < t)
  BY CallerFacts
<1>2. phase \in {"exch", "final"} /\ "connect" \notin Serving /\ "connect" \in Calling
  BY DEF Serving, Calling
<1>3. PlayerAt(p)'
  <2>1. CASE next < t
    <3>1. next \in Signers /\ phase = "exch" /\ other = next
      BY <1>1, <2>1
    <3>. QED
      BY <1>2, <3>1 DEF PlayerAt
  <2>2. CASE ~(next < t)
    BY <1>2, <2>2 DEF PlayerAt
  <2>. QED
    BY <2>1, <2>2
<1>4. ASSUME NEW f \in Phases, NEW q \in Parties, <<p, f, q>> \in Conns, Ahead(p, f, q)'
      PROVE  Ahead(p, f, q)
  <2>1. CASE f = "final"
    BY <2>1 DEF Ahead, Rank
  <2>2. CASE f = "exch"
    <3>1. q \in Nat
      BY <1>4, <2>2, ConnsAre, ConnParts, Sizes
    <3>2. next < t /\ q >= next
      BY <1>1, <1>4, <2>2, <3>1, <1>2 DEF Ahead, Rank
    <3>3. CASE kind[p] = "root"
      BY <2>2, <3>3 DEF Ahead, Rank
    <3>4. CASE kind[p] = "exch" /\ pc[p] \in Serving
      BY <2>2, <3>4, <1>2 DEF Ahead
    <3>5. CASE kind[p] = "exch" /\ peer[p] \in Nat /\ peer[p] < next
      <4>1. q > peer[p]
        BY <3>1, <3>2, <3>5
      <4>2. CASE pc[p] \in Serving
        BY <3>4, <3>5, <4>2
      <4>3. CASE pc[p] \notin Serving
        BY <2>2, <3>5, <4>1, <4>3 DEF Ahead
      <4>. QED
        BY <4>2, <4>3
    <3>. QED
      BY <3>3, <3>4, <3>5
  <2>3. CASE f \in {"presign", "root"}
    BY <1>2, <1>4, <2>3 DEF Ahead, Rank
  <2>. QED
    BY <2>1, <2>2, <2>3 DEF Phases
<1>5. ASSUME NEW r \in Signers, p < r, Exchanged(p, r)' PROVE State(p, "exch", r) = "open"
  <2>1. r < next
    BY <1>1, <1>5 DEF Exchanged
  <2>. QED
    BY <1>5, <2>1
<1>6. RootDone(p)' /\ RootDone(p)
  BY <1>2 DEF RootDone
<1>. QED
  BY <1>2, <1>3, <1>4, <1>5, <1>6 DEF GoesRightly

------------------------------------------------------------------------------
(* What a signer does on a connection that it has made.                      *)

\* Of a move p's next phase and other side are what Go says.
LEMMA MoveArrives ==
  ASSUME Undisturbed, t \in 1..MAX_T, NEW p \in Signers, NEW x, NEW phase, NEW other, NEW way,
         PlayerMove(p, x, phase, other, way)
  PROVE  Arrived(p, x, phase, other)
  BY MovedTo DEF Arrived

LEMMA ExchangeMove ==
  ASSUME Undisturbed, t \in 1..MAX_T, last \in {TTP, Stale}, NEW p \in Signers,
         pc[p] \notin Serving, pc[p] = "id" => conn[Me(p)].state # "waiting",
         NEW next \in Nat, p < next, next <= t, Exchange(p, next), NEW way, StreamOnly(Me(p), way),
         UNCHANGED <<listening, backlog, t, last, hpc>>,
         \/ kind[p] = "root"
         \/ kind[p] = "exch" /\ peer[p] \in Nat /\ peer[p] < next,
         AllPresigned, NextSigner(p) = Above(p), State(p, "root", Above(p)) = "open",
         \A r \in Signers : p < r /\ r < next => State(p, "exch", r) = "open"
  PROVE  Undisturbed'
<1>1. PICK phase, other : /\ next < t => phase = "exch" /\ other = next
                          /\ ~(next < t) => phase = "final" /\ other = TTP
  <2>1. CASE next < t
    BY <2>1
  <2>2. CASE ~(next < t)
    BY <2>2
  <2>. QED
    BY <2>1, <2>2
<1>2. Go(p, "connect", phase, other)
  BY <1>1 DEF Exchange
<1>3. phase \in Phases /\ other \in Parties /\ kind[p] # "presign"
  <2>1. next < t => next \in Signers /\ next \in Parties
    BY SignersAre
  <2>. QED
    BY <1>1, <2>1, CallerFacts DEF Phases
<1>4. PlayerMove(p, "connect", phase, other, way)
  BY <1>2, <1>3 DEF PlayerMove, Steps, Calling
<1>5. Arrived(p, "connect", phase, other)
  BY <1>4, MoveArrives
<1>6. GoesRightly(p, "connect", phase, other)
  <2>1. pc[p] \notin {"listen", "accept"}
    BY DEF Serving
  <2>. QED
    BY <1>1, <1>5, <2>1, ExchangeRight
<1>. QED
  BY <1>4, <1>6, PlayerMoveInv

LEMMA StayMove ==
  ASSUME Undisturbed, t \in 1..MAX_T, last \in {TTP, Stale}, NEW p \in Signers,
         pc[p] \notin Serving, pc[p] # "sign", pc[p] = "id" => conn[Me(p)].state # "waiting",
         NEW x \in {"recvR", "recvSeed", "recvShard", "exited", "done"}, Step(p, x),
         NEW way, StreamOnly(Me(p), way), way = "down" /\ kind[p] = "presign" => AllPresigned,
         UNCHANGED <<listening, backlog, t, last, hpc>>,
         x \in {"recvR", "recvSeed"} => kind[p] = "presign",
         x = "recvSeed" => AllPresigned,
         x = "recvShard" => kind[p] = "exch" /\ State(p, "exch", peer[p]) = "open",
         x = "done" => kind[p] = "final"
  PROVE  Undisturbed'
<1>1. kind[p] \in Phases /\ peer[p] \in Parties
  BY CallerFacts DEF TypeOK
<1>2. PlayerMove(p, x, kind[p], peer[p], way)
  BY <1>1 DEF PlayerMove, Step, Steps, Calling
<1>3. GoesRightly(p, x, kind[p], peer[p])
  BY <1>2, MoveArrives, StaysRight
<1>. QED
  BY <1>2, <1>3, PlayerMoveInv

\* What p receives in answer to its share.
LEMMA AnsweredR ==
  ASSUME Undisturbed, t \in 1..MAX_T, last \in {TTP, Stale}, NEW p \in Signers,
         pc[p] \in {"recvR", "recvSeed"},
         NEW limit \in Nat, NEW got \in Receivable(Me(p), "down", limit)
  PROVE  kind[p] = "presign" /\ AllPresigned
<1>1. kind[p] = "presign" /\ pc[p] \notin Serving /\ pc[p] # "sign"
  BY CallerFacts DEF PlayerAt, Serving, Calling
<1>2. Me(p) \in Conns /\ Phase(Me(p)) = "presign"
  BY <1>1, CallerFacts
<1>3. conn[Me(p)].down # <<>>
  BY SomethingSent
<1>. QED
  BY <1>1, <1>2, <1>3 DEF Undisturbed, HandlerInv

LEMMA GiveUpInv ==
  ASSUME Undisturbed, t \in 1..MAX_T, last \in {TTP, Stale}, NEW p \in Signers, GiveUp(p)
  PROVE  Undisturbed'
<1>1. /\ pc[p] = "connect" /\ Step(p, "exited") /\ conn' = conn
      /\ UNCHANGED <<listening, backlog, t, last, hpc>>
  BY DEF GiveUp, netVars, params, handlerVars
<1>2. StreamOnly(Me(p), "up")
  BY <1>1, NoStream, CallerFacts
<1>. QED
  BY <1>1, <1>2, StayMove DEF Serving

LEMMA SendShareInv ==
  ASSUME Undisturbed, t \in 1..MAX_T, last \in {TTP, Stale}, NEW p \in Signers, SendShare(p)
  PROVE  Undisturbed'
<1>1. /\ pc[p] = "id" /\ kind[p] = "presign" /\ Step(p, "recvR") /\ conn[Me(p)].state = "open"
      /\ UNCHANGED <<t, last, hpc>>
  BY DEF SendShare, HasId, params, handlerVars
<1>2. StreamOnly(Me(p), "up") /\ UNCHANGED <<listening, backlog>>
  BY <1>1, PutKeeps, CallerFacts DEF SendShare, Serving
<1>. QED
  BY <1>1, <1>2, StayMove DEF Serving

LEMMA RecvRInv ==
  ASSUME Undisturbed, t \in 1..MAX_T, last \in {TTP, Stale}, NEW p \in Signers, RecvR(p)
  PROVE  Undisturbed'
<1>1. /\ pc[p] = "recvR" /\ Step(p, "recvSeed") /\ UNCHANGED <<t, last, hpc>>
  BY DEF RecvR, params, handlerVars
<1>2. PICK got \in Receivable(Me(p), "down", 2) : Take(Me(p), "down", got)
  BY DEF RecvR
<1>3. kind[p] = "presign" /\ AllPresigned
  BY <1>1, AnsweredR
<1>4. StreamOnly(Me(p), "down") /\ UNCHANGED <<listening, backlog>>
  BY <1>1, <1>2, TakeKeeps, CallerFacts DEF Serving
<1>. QED
  BY <1>1, <1>3, <1>4, StayMove DEF Serving

LEMMA RecvSeedInv ==
  ASSUME Undisturbed, t \in 1..MAX_T, last \in {TTP, Stale}, NEW p \in Signers, RecvSeed(p)
  PROVE  Undisturbed'
<1>1. pc[p] = "recvSeed" /\ AfterCall(p) /\ UNCHANGED <<t, last, hpc>>
  BY DEF RecvSeed, params, handlerVars
<1>2. PICK got \in Receivable(Me(p), "down", 1) : Take(Me(p), "down", got)
  BY DEF RecvSeed
<1>3. kind[p] = "presign" /\ AllPresigned
  BY <1>1, AnsweredR
<1>4. StreamOnly(Me(p), "down") /\ UNCHANGED <<listening, backlog>>
  BY <1>1, <1>2, TakeKeeps, CallerFacts DEF Serving
<1>5. PICK x : Go(p, x, "root", p) /\ ((p = 0 /\ x = "sign") \/ (p > 0 /\ x = "listen"))
  BY <1>1, <1>3 DEF AfterCall
<1>6. PlayerMove(p, x, "root", p, "down")
  BY <1>1, <1>3, <1>4, <1>5, CallerFacts DEF PlayerMove, Steps, Serving, Phases
<1>7. GoesRightly(p, x, "root", p)
  BY <1>3, <1>5, <1>6, MoveArrives, RootRight
<1>. QED
  BY <1>6, <1>7, PlayerMoveInv

LEMMA SignInv ==
  ASSUME Undisturbed, t \in 1..MAX_T, last \in {TTP, Stale}, NEW p \in Signers, Sign(p)
  PROVE  Undisturbed'
<1>1. /\ pc[p] = "sign" /\ Go(p, "connect", "root", NextSigner(p)) /\ conn' = conn
      /\ UNCHANGED <<listening, backlog, t, last, hpc>>
  BY DEF Sign, netVars, params, handlerVars
<1>2. kind[p] = "root"
  BY <1>1, CallerFacts DEF PlayerAt, Serving, Calling
<1>3. NextSigner(p) \in Parties
  BY SignersAre, Sizes DEF NextSigner
<1>4. PlayerMove(p, "connect", "root", NextSigner(p), "up")
  BY <1>1, <1>3, NoStream, CallerFacts DEF PlayerMove, Steps, Calling, Serving, Phases
<1>5. Arrived(p, "connect", "root", NextSigner(p))
  BY <1>4, MoveArrives
<1>6. GoesRightly(p, "connect", "root", NextSigner(p))
  BY <1>1, <1>2, <1>5, SignedRight
<1>. QED
  BY <1>4, <1>6, PlayerMoveInv

LEMMA SendRootInv ==
  ASSUME Undisturbed, t \in 1..MAX_T, last \in {TTP, Stale}, NEW p \in Signers, SendRoot(p)
  PROVE  Undisturbed'
<1>1. /\ pc[p] = "id" /\ kind[p] = "root" /\ AfterCall(p) /\ conn[Me(p)].state = "open"
      /\ UNCHANGED <<t, last, hpc>>
  BY DEF SendRoot, HasId, params, handlerVars
<1>2. StreamOnly(Me(p), "up") /\ UNCHANGED <<listening, backlog>>
  BY <1>1, PutKeeps, CallerFacts DEF SendRoot, Serving
<1>3. /\ NextSigner(p) = Above(p) /\ AllPresigned /\ peer[p] = NextSigner(p)
      /\ State(p, "root", peer[p]) = "open" /\ State(p, "root", Above(p)) = "open"
  BY <1>1, CallerFacts DEF CallerInv, PlayerAt, Serving
<1>4. CASE p = 0
  <2>1. Exchange(p, 1)
    BY <1>1, <1>4 DEF AfterCall
  <2>2. p < 1 /\ 1 <= t /\ \A r \in Signers : ~(p < r /\ r < 1)
    BY <1>4, SignersAre
  <2>. QED
    BY <1>1, <1>2, <1>3, <2>1, <2>2, ExchangeMove DEF Serving
<1>5. CASE p # 0
  <2>1. p > 0 /\ Go(p, "listen", "exch", p)
    BY <1>1, <1>5, CallerFacts DEF AfterCall
  <2>2. PlayerMove(p, "listen", "exch", p, "up")
    BY <1>1, <1>2, <2>1, CallerFacts DEF PlayerMove, Steps, Serving, Phases
  <2>3. GoesRightly(p, "listen", "exch", p)
    BY <1>1, <1>3, <2>1, <2>2, MoveArrives, ListensRight
  <2>. QED
    BY <2>2, <2>3, PlayerMoveInv
<1>. QED
  BY <1>4, <1>5

LEMMA SendShardInv ==
  ASSUME Undisturbed, t \in 1..MAX_T, last \in {TTP, Stale}, NEW p \in Signers, SendShard(p)
  PROVE  Undisturbed'
<1>1. /\ pc[p] = "id" /\ kind[p] = "exch" /\ Step(p, "recvShard") /\ conn[Me(p)].state = "open"
      /\ UNCHANGED <<t, last, hpc>>
  BY DEF SendShard, HasId, params, handlerVars
<1>2. StreamOnly(Me(p), "up") /\ UNCHANGED <<listening, backlog>>
  BY <1>1, PutKeeps, CallerFacts DEF SendShard, Serving
<1>3. State(p, "exch", peer[p]) = "open"
  BY <1>1, CallerFacts DEF Serving
<1>. QED
  BY <1>1, <1>2, <1>3, StayMove DEF Serving

LEMMA RecvShardInv ==
  ASSUME Undisturbed, t \in 1..MAX_T, last \in {TTP, Stale}, NEW p \in Signers, RecvShard(p)
  PROVE  Undisturbed'
<1>1. pc[p] = "recvShard" /\ AfterCall(p) /\ UNCHANGED <<t, last, hpc>>
  BY DEF RecvShard, params, handlerVars
<1>2. PICK got \in Receivable(Me(p), "down", BUFFER_SIZE) : Take(Me(p), "down", got)
  BY DEF RecvShard
<1>3. StreamOnly(Me(p), "down") /\ UNCHANGED <<listening, backlog>>
  BY <1>1, <1>2, TakeKeeps, CallerFacts DEF Serving
<1>4. kind[p] = "exch" /\ peer[p] \in Signers /\ p < peer[p]
  BY <1>1, CallerFacts DEF PlayerAt, Serving, Calling
<1>5. /\ AllPresigned /\ NextSigner(p) = Above(p) /\ State(p, "root", Above(p)) = "open"
      /\ State(p, "exch", peer[p]) = "open"
      /\ \A r \in Signers : p < r /\ r < peer[p] => State(p, "exch", r) = "open"
  BY <1>1, <1>4, CallerFacts DEF CallerInv, Exchanged, Serving
<1>6. PICK next : next = peer[p] + 1
  OBVIOUS
<1>7. next \in Nat /\ peer[p] \in Nat /\ p < next /\ next <= t /\ peer[p] < next
  BY <1>4, <1>6, CallerFacts
<1>8. \A r \in Signers : p < r /\ r < next => State(p, "exch", r) = "open"
  <2>. SUFFICES ASSUME NEW r \in Signers, p < r, r < next PROVE State(p, "exch", r) = "open"
    OBVIOUS
  <2>1. r = peer[p] \/ r < peer[p]
    BY <1>6, <1>7, CallerFacts
  <2>. QED
    BY <1>5, <2>1
<1>9. Exchange(p, next)
  BY <1>1, <1>4, <1>6 DEF AfterCall
<1>. QED
  BY <1>1, <1>3, <1>4, <1>5, <1>7, <1>8, <1>9, ExchangeMove DEF Serving

LEMMA RecvTopInv ==
  ASSUME Undisturbed, t \in 1..MAX_T, last \in {TTP, Stale}, NEW p \in Signers, RecvTop(p)
  PROVE  Undisturbed'
<1>1. /\ pc[p] = "id" /\ kind[p] = "final" /\ AfterCall(p) /\ conn[Me(p)].state = "open"
      /\ UNCHANGED <<t, last, hpc>>
  BY DEF RecvTop, HasId, params, handlerVars
<1>2. PICK got \in Receivable(Me(p), "down", BUFFER_SIZE) : Take(Me(p), "down", got)
  BY DEF RecvTop
<1>3. StreamOnly(Me(p), "down") /\ UNCHANGED <<listening, backlog>>
  BY <1>1, <1>2, TakeKeeps, CallerFacts DEF Serving
<1>4. Step(p, "done")
  BY <1>1 DEF AfterCall
<1>. QED
  BY <1>1, <1>3, <1>4, StayMove DEF Serving

\* Nobody is left without an id.
LEMMA NoIdNever ==
  ASSUME Undisturbed, t \in 1..MAX_T, last \in {TTP, Stale}, NEW p \in Signers
  PROVE  ~NoId(p)
<1>. SUFFICES ASSUME NoId(p) PROVE FALSE
  OBVIOUS
<1>1. pc[p] = "id" /\ conn[Me(p)].state = "reset"
  BY DEF NoId
<1>2. Me(p) \in Conns
  BY <1>1, CallerFacts DEF Serving
<1>. QED
  BY <1>1, <1>2 DEF Undisturbed, HandlerInv

------------------------------------------------------------------------------
(* A listener that is opened, and closed.                                    *)

\* Handlers to whose connections nothing happens.
LEMMA HandlersSame ==
  ASSUME Undisturbed, t \in 1..MAX_T, SameSession, hpc' = hpc, \A c \in Conns : conn'[c] = conn[c]
  PROVE  /\ StatesSame /\ (AllPresigned' <=> AllPresigned) /\ NotPresigned' = NotPresigned
         /\ \A c \in Conns : HandlerInv(c)'
<1>1. StatesSame
  BY DEF StatesSame
<1>2. (AllPresigned' <=> AllPresigned) /\ NotPresigned' = NotPresigned /\ Signers' = Signers
  BY <1>1, PresignedSame, SessionSame, SignersAre, ConnsAre DEF StatesSame
<1>3. ASSUME NEW c \in Conns PROVE HandlerInv(c)'
  BY <1>2 DEF HandlerInv, Undisturbed, Phase, Client
<1>. QED
  BY <1>1, <1>2, <1>3

LEMMA ListenInv ==
  ASSUME Undisturbed, t \in 1..MAX_T, last \in {TTP, Stale}, NEW q \in Nodes, Listen(q)
  PROVE  Undisturbed'
<1>1. /\ pc[q] = "listen" /\ pc' = [pc EXCEPT ![q] = "accept"] /\ kind' = kind /\ peer' = peer
      /\ toAccept' = [toAccept EXCEPT ![q] = Expected(q)]
      /\ listening' = [listening EXCEPT ![q] = TRUE] /\ backlog' = backlog
      /\ hpc' = hpc /\ conn' = conn /\ t' = t /\ last' = last
  BY DEF Listen, OpenListener, params, handlerVars
<1>2. /\ SameSession /\ TypeOK /\ q \in Parties /\ TTP \in Nodes /\ Signers' = Signers
      /\ t \in Nat /\ 0 \in Signers /\ Cardinality(Signers) = t
  BY <1>1, Sizes, SignersAre, SessionSame DEF SameSession, Undisturbed
<1>3. /\ StatesSame /\ (AllPresigned' <=> AllPresigned) /\ NotPresigned' = NotPresigned
      /\ \A c \in Conns : HandlerInv(c)'
  BY <1>1, <1>2, HandlersSame
<1>4. Expected(q) \in Int /\ "accept" \in Steps
  <2>1. q # TTP => q \in Int
    BY Sizes
  <2>. QED
    BY <1>2, <2>1 DEF Expected, Steps, Serving
<1>5. TypeOK' /\ OnlyMoves(q) /\ pc'[q] = "accept" /\ kind'[q] = kind[q] /\ peer'[q] = peer[q]
      /\ toAccept'[q] = Expected(q)
  BY <1>1, <1>2, <1>4 DEF TypeOK, OnlyMoves
<1>6. ASSUME q \in Signers PROVE CallerInv(q)'
  <2>1. CallerInv(q) /\ pc[q] \in Serving /\ pc'[q] \in Serving
    BY <1>1, <1>5, <1>6 DEF Undisturbed, Serving
  <2>2. /\ AllPresigned => AllPresigned'
        /\ \A c \in Conns : Client(c) = q =>
               /\ conn[c].state = "open" => conn'[c].state = "open"
               /\ conn[c].state = "none" => conn'[c].state = "none"
        /\ kind'[q] = kind[q] /\ peer'[q] = peer[q] /\ t \in 1..MAX_T /\ SameSession
    BY <1>2, <1>3, <1>5 DEF StatesSame
  <2>. QED
    BY ONLY <1>6, <2>1, <2>2, CallerKept
<1>7. ASSUME q = TTP PROVE TtpInv'
  <2>1. TtpInv
    BY DEF Undisturbed
  <2>2. TtpAt'
    BY <1>1, <1>5, <1>7, <2>1 DEF TtpInv, TtpAt, Serving
  <2>3. kind[TTP] = "presign" => toAccept'[TTP] = Cardinality(NotPresigned) /\ NotPresigned # {}
    BY <1>1, <1>2, <1>5, <1>7, <2>1 DEF TtpInv, Expected
  <2>4. kind[TTP] # "presign" => AllPresigned
    BY <2>1 DEF TtpInv
  <2>. QED
    BY <1>3, <1>5, <1>7, <2>2, <2>3, <2>4 DEF TtpInv
<1>8. (RootDone(q)' <=> RootDone(q)) /\ (kind'[q] = "root" => toAccept'[q] = 1)
  BY <1>1, <1>5 DEF RootDone, Expected
<1>9. ListenerInv(q)'
  <2>1. backlog[q] = <<>>
    BY <1>1, <1>2 DEF Undisturbed, ListenerInv
  <2>2. listening'[q] = TRUE /\ backlog'[q] = <<>>
    BY <1>1, <1>2, <2>1 DEF TypeOK
  <2>. QED
    BY <1>5, <2>2 DEF ListenerInv
<1>10. q \in Players => q \in Signers
  BY <1>1 DEF Undisturbed
<1>11. MovesRightly(q)
  BY <1>1, <1>5, <1>6, <1>7, <1>8, <1>9, <1>10 DEF MovesRightly
<1>. QED
  BY <1>2, <1>3, <1>5, <1>11, StepKeeps

LEMMA SignTopInv ==
  ASSUME Undisturbed, t \in 1..MAX_T, last \in {TTP, Stale}, SignTop
  PROVE  Undisturbed'
<1>1. /\ pc[TTP] = "sign" /\ pc' = [pc EXCEPT ![TTP] = "listen"] /\ kind' = [kind EXCEPT ![TTP] = "final"]
      /\ peer' = [peer EXCEPT ![TTP] = TTP] /\ toAccept' = toAccept
      /\ listening' = listening /\ backlog' = backlog
      /\ hpc' = hpc /\ conn' = conn /\ t' = t /\ last' = last
  BY DEF SignTop, Go, netVars, params, handlerVars
<1>2. SameSession /\ TypeOK /\ TTP \in Parties /\ TTP \in Nodes /\ TTP \notin Players /\ TTP \notin Signers
  BY <1>1, Sizes, SignersAre DEF SameSession, Undisturbed
<1>3. /\ StatesSame /\ (AllPresigned' <=> AllPresigned) /\ \A c \in Conns : HandlerInv(c)'
  BY <1>1, <1>2, HandlersSame
<1>4. TypeOK' /\ OnlyMoves(TTP) /\ pc'[TTP] = "listen" /\ kind'[TTP] = "final"
  BY <1>1, <1>2 DEF TypeOK, OnlyMoves, Steps, Serving, Phases
<1>5. kind[TTP] = "root" /\ TtpInv
  BY <1>1 DEF Undisturbed, TtpInv, TtpAt, Serving
<1>6. TtpInv'
  BY <1>3, <1>4, <1>5 DEF TtpInv, TtpAt, Serving
<1>7. RootDone(TTP)' /\ RootDone(TTP)
  BY <1>1, <1>4, <1>5 DEF RootDone
<1>8. ListenerInv(TTP)'
  <2>1. ListenerInv(TTP)
    BY <1>2 DEF Undisturbed
  <2>2. ~listening[TTP] /\ backlog[TTP] = <<>>
    BY <1>1, <2>1 DEF ListenerInv
  <2>. QED
    BY <1>1, <1>4, <2>2 DEF ListenerInv
<1>9. MovesRightly(TTP)
  BY <1>1, <1>2, <1>4, <1>6, <1>7, <1>8 DEF MovesRightly
<1>. QED
  BY <1>2, <1>3, <1>4, <1>9, StepKeeps

\* A listener is closed that nobody waits at.
Closed(q) ==
    /\ pc[q] = "destroy"
    /\ DOMAIN conn' = Conns /\ \A c \in Conns : conn'[c] = conn[c]
    /\ listening' = [listening EXCEPT ![q] = FALSE] /\ backlog' = [backlog EXCEPT ![q] = <<>>]
    /\ hpc' = hpc /\ SameSession

LEMMA ClosedFacts ==
  ASSUME Undisturbed, t \in 1..MAX_T, NEW q \in Nodes, Closed(q), NEW x, NEW phase, NEW other,
         Go(q, x, phase, other), x \in Steps \ Serving \/ x = "listen", phase \in Phases, other \in Parties
  PROVE  /\ pc'[q] = x /\ kind'[q] = phase /\ peer'[q] = other /\ SameSession
         /\ OnlyMoves(q) /\ TypeOK' /\ ListenerInv(q)' /\ StatesSame
         /\ (AllPresigned' <=> AllPresigned) /\ \A c \in Conns : HandlerInv(c)'
         /\ Signers' = Signers /\ NextSigner(q)' = NextSigner(q)
<1>. USE DEF Closed
<1>1. TypeOK /\ q \in Parties /\ Signers' = Signers /\ NextSigner(q)' = NextSigner(q)
  BY Sizes, SessionSame DEF Undisturbed
<1>2. StatesSame /\ (AllPresigned' <=> AllPresigned) /\ \A c \in Conns : HandlerInv(c)'
  BY HandlersSame
<1>3. /\ pc' = [pc EXCEPT ![q] = x] /\ kind' = [kind EXCEPT ![q] = phase]
      /\ peer' = [peer EXCEPT ![q] = other] /\ toAccept' = toAccept
  BY DEF Go
<1>4. x \in Steps /\ x \notin {"accept", "destroy"}
  BY DEF Steps, Serving
<1>5. pc'[q] = x /\ kind'[q] = phase /\ peer'[q] = other /\ OnlyMoves(q)
  BY <1>1, <1>3 DEF TypeOK, OnlyMoves
<1>6. TypeOK'
  <2>1. <<>> \in Seq(Conns)
    OBVIOUS
  <2>2. backlog' \in [Parties -> Seq(Conns)] /\ listening' \in [Parties -> BOOLEAN]
    BY <1>1, <2>1 DEF TypeOK
  <2>3. pc' \in [Nodes -> Steps] /\ kind' \in [Nodes -> Phases] /\ peer' \in [Nodes -> Parties]
    BY <1>1, <1>3, <1>4 DEF TypeOK
  <2>. QED
    BY <1>1, <1>3, <2>2, <2>3 DEF TypeOK
<1>7. ListenerInv(q)'
  <2>1. ~listening'[q] /\ backlog'[q] = <<>> /\ pc'[q] \notin {"accept", "destroy"}
    BY <1>1, <1>4, <1>5 DEF TypeOK
  <2>. QED
    BY <2>1 DEF ListenerInv
<1>. QED
  BY <1>1, <1>2, <1>5, <1>6, <1>7

LEMMA SignerCloses ==
  ASSUME Undisturbed, t \in 1..MAX_T, NEW q \in Signers, Closed(q), NEW x, NEW phase, NEW other,
         Go(q, x, phase, other), x \in Steps \ Serving, phase \in Phases, other \in Parties,
         GoesRightly(q, x, phase, other)
  PROVE  Undisturbed'
<1>1. q \in Nodes /\ q \in Players /\ q # TTP
  BY SignersAre
<1>2. /\ pc'[q] = x /\ kind'[q] = phase /\ peer'[q] = other /\ SameSession
      /\ OnlyMoves(q) /\ TypeOK' /\ ListenerInv(q)' /\ StatesSame
      /\ (AllPresigned' <=> AllPresigned) /\ \A c \in Conns : HandlerInv(c)'
  BY <1>1, ClosedFacts
<1>3. CallerInv(q)'
  BY <1>2, CallerGoes
<1>4. MovesRightly(q)
  BY <1>1, <1>2, <1>3 DEF MovesRightly, GoesRightly, Closed, Serving
<1>. QED
  BY <1>1, <1>2, <1>4, StepKeeps DEF Closed

LEMMA TtpCloses ==
  ASSUME Undisturbed, t \in 1..MAX_T, Closed(TTP), NEW x, NEW phase, NEW other \in Parties,
         Go(TTP, x, phase, other),
         \/ kind[TTP] = "presign" /\ x = "listen" /\ phase = "root"
         \/ kind[TTP] = "root" /\ x = "sign" /\ phase = "root"
         \/ kind[TTP] = "final" /\ x = "done" /\ phase = "final"
  PROVE  Undisturbed'
<1>1. TTP \in Nodes /\ TTP \in Parties /\ TTP \notin Signers /\ TTP \notin Players
  BY Sizes, SignersAre
<1>2. (x \in Steps \ Serving \/ x = "listen") /\ phase \in Phases
  BY DEF Steps, Serving, Phases
<1>3. /\ pc'[TTP] = x /\ kind'[TTP] = phase /\ OnlyMoves(TTP) /\ TypeOK' /\ ListenerInv(TTP)' /\ StatesSame
      /\ (AllPresigned' <=> AllPresigned) /\ (\A c \in Conns : HandlerInv(c)') /\ SameSession
  BY <1>1, <1>2, ClosedFacts
<1>4. TtpInv'
  <2>1. AllPresigned
    BY DEF Undisturbed, TtpInv, Closed
  <2>2. TtpAt'
    BY <1>3 DEF TtpAt, Serving
  <2>. QED
    BY <1>3, <2>1, <2>2 DEF TtpInv
<1>5. RootDone(TTP)' <=> RootDone(TTP)
  BY <1>3 DEF RootDone, Closed
<1>6. MovesRightly(TTP)
  BY <1>1, <1>3, <1>4, <1>5 DEF MovesRightly, Closed
<1>. QED
  BY <1>1, <1>3, <1>6, StepKeeps

LEMMA CloseInv ==
  ASSUME Undisturbed, t \in 1..MAX_T, last \in {TTP, Stale}, NEW q \in Nodes,
         Close(q), NoReset'
  PROVE  Undisturbed'
<1>1. /\ pc[q] = "destroy" /\ AfterServing(q) /\ hpc' = hpc /\ SameSession
      /\ listening' = [listening EXCEPT ![q] = FALSE] /\ backlog' = [backlog EXCEPT ![q] = <<>>]
      /\ conn' = [c \in Conns |->
                    IF c \in ToSet(backlog[q]) THEN [conn[c] EXCEPT !.state = "reset"] ELSE conn[c]]
      /\ trouble' = [p \in Players |->
                    IF \E c \in ToSet(backlog[q]) : Client(c) = p THEN trouble[p] \cup {"reset"} ELSE trouble[p]]
  BY DEF Close, CloseListener, params, handlerVars, SameSession
<1>2. TypeOK /\ q \in Parties /\ Signers' = Signers /\ \A p \in Signers : p \in Players
  BY <1>1, Sizes, SessionSame, SignersAre DEF Undisturbed
<1>3. ToSet(backlog[q]) = {}
  <2>. SUFFICES ASSUME NEW c \in ToSet(backlog[q]) PROVE FALSE
    OBVIOUS
  <2>1. PICK j \in DOMAIN backlog[q] : c = backlog[q][j]
    BY DEF ToSet
  <2>2. Client(c) \in Signers
    BY <1>2, <2>1 DEF Undisturbed, ListenerInv, Waiting
  <2>3. "reset" \in trouble'[Client(c)]
    BY <1>1, <1>2, <2>2
  <2>. QED
    BY <1>2, <2>2, <2>3 DEF NoReset
<1>4. Closed(q)
  BY <1>1, <1>3 DEF Closed
<1>5. CASE q # TTP
  <2>1. q \in Signers
    BY <1>1, <1>5, Sizes DEF Undisturbed
  <2>2. /\ CallerInv(q) /\ PlayerAt(q) /\ pc[q] \in Serving /\ q \in Nat /\ q < t /\ t \in Nat
        /\ NextSigner(q) \in Parties
    BY <1>1, <2>1, CallerFacts, Sizes, SignersAre DEF Serving, NextSigner
  <2>3. CASE kind[q] = "root"
    <3>1. Go(q, "sign", "root", q)
      BY <1>1, <1>5, <2>3 DEF AfterServing
    <3>2. /\ "sign" \in Steps \ Serving /\ "root" \in Phases
      BY DEF Steps, Serving, Phases
    <3>3. Arrived(q, "sign", "root", q)
      BY <1>2, <1>4, <2>1, <3>1, <3>2, SignersAre, ClosedFacts DEF Arrived
    <3>4. GoesRightly(q, "sign", "root", q)
      <4>. USE DEF Arrived
      <4>1. PlayerAt(q)'
        BY <3>3 DEF PlayerAt
      <4>2. \A f \in Phases, r \in Parties : <<q, f, r>> \in Conns /\ Ahead(q, f, r)' => Ahead(q, f, r)
        BY <2>2, <2>3, <3>3 DEF Ahead
      <4>3. \A r \in Signers : ~Exchanged(q, r)'
        BY <3>3 DEF Exchanged
      <4>4. RootDone(q)' /\ RootDone(q)
        BY <1>1, <2>3, <3>3 DEF RootDone
      <4>5. AllPresigned
        BY <2>2, <2>3 DEF CallerInv
      <4>. QED
        BY <2>3, <4>1, <4>2, <4>3, <4>4, <4>5 DEF GoesRightly
    <3>. QED
      BY <1>2, <1>4, <2>1, <3>1, <3>2, <3>4, SignerCloses
  <2>4. CASE kind[q] = "exch"
    <3>1. PICK next : next = q + 1
      OBVIOUS
    <3>2. Exchange(q, next) /\ next \in Nat /\ q < next /\ next <= t
      BY <1>1, <1>5, <2>2, <2>4, <3>1 DEF AfterServing
    <3>3. PICK phase, other : /\ next < t => phase = "exch" /\ other = next
                              /\ ~(next < t) => phase = "final" /\ other = TTP
      <4>1. CASE next < t
        BY <4>1
      <4>2. CASE ~(next < t)
        BY <4>2
      <4>. QED
        BY <4>1, <4>2
    <3>4. Go(q, "connect", phase, other)
      BY <3>2, <3>3 DEF Exchange
    <3>5. "connect" \in Steps \ Serving /\ phase \in Phases /\ other \in Parties
      <4>1. next < t => next \in Parties
        BY <3>2, SignersAre
      <4>. QED
        BY <3>3, <4>1, SignersAre DEF Steps, Serving, Calling, Phases
    <3>6. Arrived(q, "connect", phase, other)
      BY <1>2, <1>4, <2>1, <3>4, <3>5, SignersAre, ClosedFacts DEF Arrived
    <3>7. AllPresigned /\ NextSigner(q) = Above(q) /\ State(q, "root", Above(q)) = "open"
      BY <2>2, <2>4 DEF CallerInv
    <3>8. \A r \in Signers : ~(q < r /\ r < next)
      BY <2>2, <3>1, SignersAre
    <3>9. GoesRightly(q, "connect", phase, other)
      BY <2>1, <2>2, <2>4, <3>2, <3>3, <3>6, <3>7, <3>8, ExchangeRight
    <3>. QED
      BY <1>4, <2>1, <3>4, <3>5, <3>9, SignerCloses
  <2>. QED
    BY <1>1, <1>5, <2>3, <2>4 DEF AfterServing
<1>6. CASE q = TTP
  <2>1. CASE kind[TTP] = "presign"
    BY <1>1, <1>2, <1>4, <1>6, <2>1, TtpCloses DEF AfterServing
  <2>2. CASE kind[TTP] = "root"
    BY <1>1, <1>2, <1>4, <1>6, <2>2, TtpCloses DEF AfterServing
  <2>3. CASE kind[TTP] = "final"
    <3>1. Go(TTP, "done", "final", peer[TTP])
      BY <1>1, <1>6, <2>3 DEF AfterServing, Step
    <3>2. peer[TTP] \in Parties
      BY <1>2, <1>6 DEF TypeOK
    <3>. QED
      BY <1>4, <1>6, <2>3, <3>1, <3>2, TtpCloses
  <2>. QED
    BY <1>1, <1>6, <2>1, <2>2, <2>3 DEF AfterServing
<1>. QED
  BY <1>5, <1>6

------------------------------------------------------------------------------
(* Who gets through to a listener that accepts, calls in its phase.          *)

LEMMA AboveIs ==
  ASSUME t \in 1..MAX_T, NEW p \in Signers
  PROVE  /\ Above(p) = TTP \/ (Above(p) \in Signers /\ Above(p) # 0)
         /\ Below(Above(p)) = p /\ <<p, "root", Above(p)>> \in Conns
         /\ Above(t - 1) = TTP /\ (p # t - 1 => Above(p) = p + 1)
<1>1. /\ p \in Nat /\ p < t /\ p \in Players /\ t \in Nat /\ t <= MAX_T /\ TTP = MAX_T /\ TTP \in Parties
      /\ \A r : r \in Signers <=> r \in Nat /\ r < t
      /\ \A r \in Signers : r \in Parties
  BY SignersAre, Sizes
<1>2. Above(t - 1) = TTP /\ (p # t - 1 => Above(p) = p + 1)
  BY DEF Above
<1>3. Above(p) = TTP \/ (Above(p) \in Signers /\ Above(p) # 0)
  BY <1>1 DEF Above
<1>4. Below(Above(p)) = p
  BY <1>1 DEF Above, Below
<1>5. Above(p) \in Parties /\ Above(p) # p
  BY <1>1 DEF Above
<1>. QED
  BY <1>1, <1>2, <1>3, <1>4, <1>5, ConnsAre

\* Who has exchanged its shard with all below q finds q past the root.
LEMMA PastRoot ==
  ASSUME Undisturbed, t \in 1..MAX_T, NEW p \in Signers, kind[p] \in {"exch", "final"},
         NEW q \in Signers, p < q, \A r \in Signers : p < r /\ r < q => Exchanged(p, r)
  PROVE  RootDone(q)
<1>1. /\ p \in Nat /\ p < t /\ t \in Nat /\ q \in Nat /\ q < t /\ q # TTP
      /\ \A r : r \in Signers <=> r \in Nat /\ r < t
  BY SignersAre
<1>2. PICK r : r = q - 1
  OBVIOUS
<1>3. r \in Signers /\ p <= r /\ r < q /\ r # t - 1 /\ r + 1 = q
  BY <1>1, <1>2
<1>4. kind[r] \in {"exch", "final"}
  <2>1. CASE r = p
    BY <2>1
  <2>2. CASE r # p
    <3>1. p < r /\ r # 0
      BY <1>1, <1>3, <2>2
    <3>2. State(p, "exch", r) = "open"
      BY <1>3, <3>1 DEF Undisturbed, CallerInv
    <3>. QED
      BY <1>3, <3>1, <3>2 DEF Undisturbed, ExchangeInv
  <2>. QED
    BY <2>1, <2>2
<1>5. Above(r) = q
  BY <1>3, AboveIs
<1>6. State(r, "root", q) = "open"
  BY <1>3, <1>4, <1>5 DEF Undisturbed, CallerInv
<1>7. Below(q) = r /\ RootInv(q)
  BY <1>1, <1>2, <1>3 DEF Below, Undisturbed
<1>. QED
  BY <1>6, <1>7 DEF RootInv

LEMMA CallsIn ==
  ASSUME Undisturbed, t \in 1..MAX_T, last \in {TTP, Stale}, NEW p \in Signers,
         pc[p] = "connect", NEW q, q = peer[p], listening[q]
  PROVE  /\ q \in Nodes /\ pc[q] \in {"accept", "destroy"} /\ State(p, kind[p], q) = "none"
         /\ kind[p] = "root" => NextSigner(p) = Above(p)
         /\ pc[q] = "accept" => kind[q] = kind[p]
<1>1. /\ CallerInv(p) /\ PlayerAt(p) /\ pc[p] \notin Serving /\ pc[p] # "sign"
      /\ q \in Parties /\ <<p, kind[p], q>> \in Conns /\ kind[p] \in Phases
      /\ p \in Nat /\ p < t /\ t \in Nat /\ \A r : r \in Signers <=> r \in Nat /\ r < t
  BY CallerFacts DEF Serving, Me, TypeOK
<1>2. q \in Nodes /\ pc[q] \in {"accept", "destroy"} /\ ListenerInv(q)
  BY <1>1 DEF Undisturbed, ListenerInv
<1>3. State(p, kind[p], q) = "none"
  <2>1. kind[p] = "exch" => q >= peer[p]
    BY <1>1 DEF PlayerAt, Serving, Calling
  <2>2. Ahead(p, kind[p], q)
    BY <1>1, <2>1 DEF Ahead
  <2>. QED
    BY <1>1, <2>2 DEF CallerInv
<1>4. kind[p] # "presign" => AllPresigned
  BY <1>1 DEF CallerInv
<1>5. q = TTP /\ AllPresigned /\ pc[q] = "accept" => kind[q] \in {"root", "final"}
  <2>1. TtpInv /\ Phases = {"presign", "root", "exch", "final"}
    BY DEF Undisturbed, Phases
  <2>2. AllPresigned => NotPresigned = {}
    BY DEF AllPresigned, NotPresigned
  <2>. QED
    BY <2>1, <2>2 DEF TtpInv, TtpAt
<1>6. q \in Signers => q # TTP /\ CallerInv(q) /\ kind[q] \in {"root", "exch"}
  <2>. SUFFICES ASSUME q \in Signers PROVE q # TTP /\ CallerInv(q) /\ kind[q] \in {"root", "exch"}
    OBVIOUS
  <2>1. q # TTP /\ CallerInv(q)
    BY SignersAre DEF Undisturbed
  <2>. QED
    BY <1>2, <2>1 DEF CallerInv, PlayerAt, Calling
<1>7. CASE kind[p] = "presign"
  <2>1. q = TTP
    BY <1>1, <1>7 DEF PlayerAt
  <2>2. ~AllPresigned
    BY <1>3, <1>7, <2>1 DEF AllPresigned
  <2>3. kind[TTP] = "presign"
    BY <2>2 DEF Undisturbed, TtpInv
  <2>. QED
    BY <1>2, <1>3, <1>7, <2>1, <2>3
<1>8. CASE kind[p] = "root"
  <2>1. q = NextSigner(p) /\ q # Stale
    BY <1>1, <1>2, <1>8, Sizes DEF PlayerAt, Serving
  <2>2. q = Above(p)
    BY <1>1, <2>1 DEF NextSigner, Above
  <2>3. RootInv(q) /\ Below(q) = p
    BY <2>2, AboveIs DEF Undisturbed
  <2>4. ~RootDone(q)
    BY <1>3, <1>8, <2>3 DEF RootInv
  <2>5. CASE q = TTP
    BY <1>2, <1>3, <1>4, <1>5, <1>8, <2>1, <2>2, <2>4, <2>5 DEF RootDone
  <2>6. CASE q # TTP
    <3>1. q \in Signers
      BY <2>2, <2>6, AboveIs
    <3>. QED
      BY <1>2, <1>3, <1>6, <1>8, <2>1, <2>2, <2>4, <3>1 DEF RootDone
  <2>. QED
    BY <2>5, <2>6
<1>9. CASE kind[p] = "exch"
  <2>1. q \in Signers /\ p < q
    BY <1>1, <1>9 DEF PlayerAt
  <2>2. \A r \in Signers : p < r /\ r < q => Exchanged(p, r)
    BY <1>1, <1>9 DEF Exchanged
  <2>3. RootDone(q)
    BY <1>9, <2>1, <2>2, PastRoot
  <2>4. pc[q] = "accept" => kind[q] = "exch"
    BY <1>6, <2>1, <2>3 DEF RootDone
  <2>. QED
    BY <1>2, <1>3, <1>9, <2>4
<1>10. CASE kind[p] = "final"
  <2>1. q = TTP
    BY <1>1, <1>10 DEF PlayerAt, Serving
  <2>2. PICK r : r = t - 1
    OBVIOUS
  <2>3. r \in Signers /\ p <= r /\ Above(r) = TTP /\ Below(TTP) = r
    <3>1. r \in Signers /\ p <= r
      BY <1>1, <2>2
    <3>2. Above(r) = TTP
      BY <2>2, AboveIs
    <3>. QED
      BY <2>2, <3>1, <3>2 DEF Below
  <2>4. kind[r] \in {"exch", "final"}
    <3>1. CASE r = p
      BY <1>10, <3>1
    <3>2. CASE r # p
      <4>1. p < r /\ r # 0
        BY <1>1, <2>3, <3>2
      <4>2. State(p, "exch", r) = "open"
        BY <1>1, <1>10, <2>3, <4>1 DEF CallerInv, Exchanged
      <4>. QED
        BY <2>3, <4>1, <4>2 DEF Undisturbed, ExchangeInv
    <3>. QED
      BY <3>1, <3>2
  <2>5. State(r, "root", TTP) = "open"
    BY <2>3, <2>4 DEF Undisturbed, CallerInv
  <2>6. RootDone(TTP)
    BY <2>3, <2>5 DEF Undisturbed, RootInv
  <2>7. pc[TTP] = "accept" => kind[TTP] = "final"
    BY <1>4, <1>5, <1>10, <2>1, <2>6 DEF RootDone
  <2>. QED
    BY <1>2, <1>3, <1>10, <2>1, <2>7
<1>. QED
  BY <1>1, <1>7, <1>8, <1>9, <1>10 DEF Phases

\* One connection's state changes.
LEMMA StateSet ==
  ASSUME TypeOK, NEW c \in Conns, NEW s, conn' = [conn EXCEPT ![c] = [conn[c] EXCEPT !.state = s]]
  PROVE  /\ DOMAIN conn' = Conns /\ conn'[c].state = s
         /\ \A d \in Conns : /\ DOMAIN conn'[d] = {"state", "up", "down"} /\ conn'[d].down = conn[d].down
                             /\ d # c => conn'[d].state = conn[d].state
<1>1. LET r == [conn[c] EXCEPT !.state = s] IN
          DOMAIN r = {"state", "up", "down"} /\ r.state = s /\ r.down = conn[c].down
  BY DEF TypeOK
<1>. QED
  BY <1>1 DEF TypeOK

LEMMA DialInv ==
  ASSUME Undisturbed, t \in 1..MAX_T, last \in {TTP, Stale}, NEW p \in Signers, Dial(p)
  PROVE  Undisturbed'
<1>1. PICK q, f, c : q = peer[p] /\ f = kind[p] /\ c = <<p, f, q>>
  OBVIOUS
<1>2. Me(p) = c /\ Server(c) = q /\ Client(c) = p /\ Phase(c) = f
  BY <1>1, ConnParts DEF Me
<1>3. /\ pc[p] = "connect" /\ listening[q] /\ listening' = listening
      /\ backlog' = [backlog EXCEPT ![q] = Append(backlog[q], c)]
      /\ conn' = [conn EXCEPT ![c] = [conn[c] EXCEPT !.state = "waiting"]]
      /\ pc' = [pc EXCEPT ![p] = "id"] /\ kind' = [kind EXCEPT ![p] = f]
      /\ peer' = [peer EXCEPT ![p] = q] /\ toAccept' = toAccept
      /\ hpc' = hpc /\ SameSession
  BY <1>1, <1>2 DEF Dial, Connect, Step, Go, params, handlerVars, SameSession
<1>4. /\ TypeOK /\ CallerInv(p) /\ PlayerAt(p) /\ p \in Players /\ p \in Parties /\ p \in Nodes /\ p # TTP
      /\ c \in Conns /\ q \in Parties /\ q # p /\ f \in Phases
  <2>1. pc[p] \notin Serving /\ pc[p] # "sign"
    BY <1>3 DEF Serving
  <2>2. TypeOK /\ CallerInv(p) /\ PlayerAt(p) /\ p \in Players /\ p \in Parties /\ p \in Nodes /\ p # TTP
    BY CallerFacts
  <2>3. Me(p) \in Conns /\ peer[p] \in Parties /\ peer[p] # p
    BY <2>1, CallerFacts
  <2>. QED
    BY <1>1, <1>2, <2>2, <2>3, ConnsAre
<1>5. /\ q \in Nodes /\ pc[q] \in {"accept", "destroy"} /\ conn[c].state = "none"
      /\ f = "root" => NextSigner(p) = Above(p)
      /\ pc[q] = "accept" => kind[q] = f
  BY <1>1, <1>3, CallsIn DEF State
<1>6. /\ DOMAIN conn' = Conns /\ conn'[c].state = "waiting"
      /\ \A d \in Conns : /\ DOMAIN conn'[d] = {"state", "up", "down"} /\ conn'[d].down = conn[d].down
                          /\ d # c => conn'[d].state = conn[d].state
  BY <1>3, <1>4, StateSet
<1>7. \A d \in Conns : conn'[d].state = "open" <=> conn[d].state = "open"
  BY <1>5, <1>6
<1>8. (AllPresigned' <=> AllPresigned) /\ NotPresigned' = NotPresigned
  BY <1>3, <1>7, PresignedSame, SignersAre, ConnsAre
<1>9. /\ pc'[p] = "id" /\ kind' = kind /\ peer' = peer
      /\ \A r \in Nodes : r # p => pc'[r] = pc[r]
  BY <1>1, <1>3, <1>4 DEF TypeOK
<1>10. TypeOK'
  <2>1. "id" \in Steps
    BY DEF Steps, Calling
  <2>2. pc' \in [Nodes -> Steps]
    BY <1>3, <1>4, <2>1 DEF TypeOK
  <2>3. Append(backlog[q], c) \in Seq(Conns)
    BY <1>4, AppendProperties DEF TypeOK
  <2>4. backlog' \in [Parties -> Seq(Conns)]
    BY <1>3, <1>4, <2>3 DEF TypeOK
  <2>. QED
    BY <1>3, <1>4, <1>6, <1>9, <2>2, <2>4 DEF TypeOK
<1>11. Signers' = Signers /\ NextSigner(p)' = NextSigner(p) /\ Above(p)' = Above(p)
       /\ \A r \in Signers : r \in Nodes /\ r \in Players /\ r \in Parties /\ r # TTP
  BY <1>3, SessionSame, SignersAre
<1>12. \A g, r : <<p, g, r>> \in Conns => (State(p, g, r)' = "open" <=> State(p, g, r) = "open")
  BY <1>7 DEF State
<1>13. CallerInv(p)'
  <2>1. PlayerAt(p)'
    BY <1>3, <1>4, <1>9, <1>11 DEF PlayerAt, Calling, Serving
  <2>2. ASSUME NEW g \in Phases, NEW r \in Parties, <<p, g, r>> \in Conns, Ahead(p, g, r)'
        PROVE  State(p, g, r)' = "none"
    <3>1. "id" \notin Serving \cup {"sign", "connect"}
      BY DEF Serving
    <3>2. Rank(g) > Rank(f) \/ (g = "exch" /\ g = f /\ r > q)
      BY <1>1, <1>9, <2>2, <3>1 DEF Ahead
    <3>3. <<p, g, r>> # c
      <4>1. f = "exch" => q \in Nat /\ ~(q > q)
        BY <1>2, <1>4, ConnsAre, Sizes
      <4>2. ~(Rank(f) > Rank(f))
        BY DEF Rank
      <4>. QED
        BY <1>1, <3>2, <4>1, <4>2
    <3>4. Ahead(p, g, r)
      BY <1>1, <1>3, <3>2 DEF Ahead, Serving
    <3>. QED
      BY <1>4, <1>6, <2>2, <3>3, <3>4 DEF CallerInv, State
  <2>3. kind'[p] # "presign" \/ pc'[p] = "recvSeed" => AllPresigned'
    BY <1>4, <1>8, <1>9 DEF CallerInv
  <2>4. kind'[p] \in {"exch", "final"} \/ (kind'[p] = "root" /\ pc'[p] = "id") => NextSigner(p)' = Above(p)'
    BY <1>1, <1>4, <1>5, <1>9, <1>11 DEF CallerInv
  <2>5. kind'[p] \in {"exch", "final"} => State(p, "root", Above(p))' = "open"
    <3>1. <<p, "root", Above(p)>> \in Conns
      BY AboveIs
    <3>. QED
      BY <1>4, <1>6, <1>7, <1>9, <1>11, <3>1 DEF CallerInv, State
  <2>6. ASSUME NEW r \in Signers, p < r, Exchanged(p, r)' PROVE State(p, "exch", r)' = "open"
    <3>1. Exchanged(p, r)
      BY <1>3, <1>9, <2>6 DEF Exchanged, Serving
    <3>. QED
      BY <1>4, <1>11, <1>12, <2>6, <3>1, ConnsAre DEF CallerInv
  <2>. QED
    BY <1>9, <1>11, <2>1, <2>2, <2>3, <2>4, <2>5, <2>6 DEF CallerInv
<1>14. ASSUME NEW r \in Signers PROVE CallerInv(r)'
  <2>1. CASE r = p
    BY <1>13, <2>1
  <2>2. CASE r # p
    <3>1. \A d \in Conns : Client(d) = r =>
             /\ conn[d].state = "open" => conn'[d].state = "open"
             /\ conn[d].state = "none" => conn'[d].state = "none"
      BY <1>2, <1>6, <2>2
    <3>2. CallerInv(r) /\ pc'[r] = pc[r] /\ kind'[r] = kind[r] /\ peer'[r] = peer[r]
      BY <1>9, <1>11, <2>2 DEF Undisturbed
    <3>. QED
      BY <1>3, <1>8, <3>1, <3>2, CallerKept
  <2>. QED
    BY <2>1, <2>2
<1>15. ASSUME NEW r \in Nodes, r = TTP \/ (r \in Signers /\ r # 0) PROVE RootInv(r)'
  <2>1. RootInv(r) /\ <<Below(r), "root", r>> \in Conns
    <3>1. Below(r) \in Players /\ r \in Parties /\ Below(r) # r
      BY <1>15, Sizes, SignersAre DEF Below
    <3>. QED
      BY <1>15, <3>1, ConnsAre DEF Undisturbed
  <2>2. RootDone(r)' <=> RootDone(r)
    BY <1>3, <1>9 DEF RootDone
  <2>3. kind'[r] = "root" /\ pc'[r] = "accept" => toAccept'[r] = 1
    BY <1>3, <1>9, <2>1 DEF RootInv
  <2>. QED
    BY <1>3, <1>7, <2>1, <2>2, <2>3, RootKept
<1>16. ASSUME NEW r \in Signers, r # 0 PROVE ExchangeInv(r)'
  <2>1. ExchangeInv(r)
    BY <1>16 DEF Undisturbed
  <2>2. \A s \in Signers : s < r => <<s, "exch", r>> \in Conns
    BY <1>11, ConnsAre
  <2>. QED
    BY <1>7, <1>9, <1>11, <2>1, <2>2 DEF ExchangeInv, State
<1>17. TtpInv'
  BY <1>3, <1>4, <1>8, <1>9, <1>11, TtpKept, Sizes DEF Undisturbed
<1>18. ASSUME NEW r \in Parties, NEW j \in DOMAIN backlog[r], NEW d, d = backlog[r][j]
       PROVE  Waiting(d, r)' /\ d # c
  <2>1. d \in Conns
    BY <1>4, <1>18, LenProperties DEF TypeOK
  <2>2. Waiting(d, r) /\ r \in Nodes
    <3>1. ListenerInv(r)
      BY DEF Undisturbed
    <3>. QED
      BY <1>18, <3>1 DEF ListenerInv
  <2>3. Client(d) \in Signers /\ Client(d) # p /\ d # c
    BY <1>2, <1>3, <2>2 DEF Waiting
  <2>4. pc'[r] = "accept" => pc[r] = "accept" /\ kind'[r] = kind[r]
    BY <1>9, <2>2
  <2>5. /\ pc'[Client(d)] = pc[Client(d)] /\ kind'[Client(d)] = kind[Client(d)]
        /\ peer'[Client(d)] = peer[Client(d)] /\ conn'[d].state = conn[d].state
    BY <1>6, <1>9, <1>11, <2>1, <2>3
  <2>6. Waiting(d, r)'
    BY <1>3, <2>1, <2>2, <2>4, <2>5, WaitingKept
  <2>. QED
    BY <2>3, <2>6
<1>19. ASSUME NEW r \in Parties PROVE ListenerInv(r)'
  <2>1. ListenerInv(r) /\ listening'[r] = listening[r]
    BY <1>3 DEF Undisturbed
  <2>2. r \in Nodes => (pc'[r] \in {"accept", "destroy"} <=> pc[r] \in {"accept", "destroy"})
    BY <1>3, <1>9
  <2>3. CASE r # q
    <3>1. backlog'[r] = backlog[r]
      BY <1>3, <1>4, <2>3 DEF TypeOK
    <3>2. ASSUME NEW j \in DOMAIN backlog[r] PROVE Waiting(backlog[r][j], r)'
      <4>1. PICK d : d = backlog[r][j]
        OBVIOUS
      <4>2. Waiting(d, r)' /\ d = backlog'[r][j]
        BY <1>18, <3>1, <4>1
      <4>. QED
        BY <4>2 DEF Waiting, Me
    <3>. QED
      BY <2>1, <2>2, <3>1, <3>2 DEF ListenerInv
  <2>4. CASE r = q
    <3>1. backlog[q] \in Seq(Conns) /\ backlog'[q] = Append(backlog[q], c)
      BY <1>3, <1>4 DEF TypeOK
    <3>2. /\ Len(backlog[q]) \in Nat /\ DOMAIN backlog[q] = 1..Len(backlog[q])
          /\ DOMAIN backlog'[q] = 1..(Len(backlog[q]) + 1)
          /\ \A j \in 1..Len(backlog[q]) : backlog'[q][j] = backlog[q][j]
          /\ backlog'[q][Len(backlog[q]) + 1] = c
      BY <1>4, <3>1, AppendProperties, LenProperties
    <3>3. Waiting(c, q)'
      BY <1>1, <1>2, <1>3, <1>4, <1>5, <1>6, <1>9, <1>11 DEF Waiting, Me, Client, Server, Phase
    <3>4. ASSUME NEW j \in DOMAIN backlog'[q] PROVE Waiting(backlog[q][j], q)'
      <4>1. PICK d : d = backlog'[q][j]
        OBVIOUS
      <4>2. Waiting(d, q)'
        <5>1. CASE j = Len(backlog[q]) + 1
          <6>1. d = c
            BY <3>2, <4>1, <5>1
          <6>. QED
            BY <3>3, <6>1
        <5>2. CASE j \in 1..Len(backlog[q])
          <6>1. d = backlog[q][j] /\ j \in DOMAIN backlog[q]
            BY <3>2, <4>1, <5>2
          <6>. QED
            BY <1>4, <1>18, <6>1
        <5>. QED
          BY <3>2, <5>1, <5>2
      <4>. QED
        BY <4>1, <4>2 DEF Waiting, Me
    <3>5. \A j, n \in DOMAIN backlog'[q] : backlog'[q][j] = backlog'[q][n] => j = n
      <4>1. \A j, n \in DOMAIN backlog[q] : backlog[q][j] = backlog[q][n] => j = n
        BY <2>1, <2>4 DEF ListenerInv
      <4>2. \A j \in DOMAIN backlog[q] : backlog[q][j] # c
        BY <1>4, <1>18
      <4>. SUFFICES ASSUME NEW j \in DOMAIN backlog'[q], NEW n \in DOMAIN backlog'[q],
                           backlog'[q][j] = backlog'[q][n], j # n
                    PROVE  FALSE
        OBVIOUS
      <4>3. CASE j = Len(backlog[q]) + 1
        <5>1. n \in DOMAIN backlog[q] /\ backlog[q][n] = c
          BY <3>2, <4>3
        <5>. QED
          BY <4>2, <5>1
      <4>4. CASE n = Len(backlog[q]) + 1
        <5>1. j \in DOMAIN backlog[q] /\ backlog[q][j] = c
          BY <3>2, <4>4
        <5>. QED
          BY <4>2, <5>1
      <4>5. CASE j # Len(backlog[q]) + 1 /\ n # Len(backlog[q]) + 1
        <5>1. j \in DOMAIN backlog[q] /\ n \in DOMAIN backlog[q] /\ backlog[q][j] = backlog[q][n]
          BY <3>2, <4>5
        <5>. QED
          BY <4>1, <5>1
      <4>. QED
        BY <4>3, <4>4, <4>5
    <3>6. listening'[q] /\ q \in Nodes /\ pc'[q] \in {"accept", "destroy"}
      BY <1>3, <1>5, <2>2, <2>4
    <3>. QED
      BY <2>4, <3>4, <3>5, <3>6 DEF ListenerInv
  <2>. QED
    BY <2>3, <2>4
<1>20. ASSUME NEW d \in Conns PROVE HandlerInv(d)'
  <2>1. HandlerInv(d) /\ hpc'[d] = hpc[d] /\ conn'[d].down = conn[d].down /\ conn'[d].state # "reset"
    BY <1>3, <1>6 DEF Undisturbed, HandlerInv
  <2>. QED
    BY <1>7, <1>8, <1>11, <2>1 DEF HandlerInv, Phase, Client
<1>21. ASSUME NEW r \in Players \ Signers PROVE pc'[r] = "done"
  BY <1>9, Sizes DEF Undisturbed
<1>22. TTP \in Nodes
  BY SignersAre
<1>. QED
  BY <1>10, <1>11, <1>14, <1>15, <1>16, <1>17, <1>19, <1>20, <1>21, <1>22 DEF Undisturbed

LEMMA FirstStepIs ==
  ASSUME NEW f \in Phases
  PROVE  /\ FirstStep[f] \in StepsOf(f) /\ FirstStep[f] \notin {"sendR", "sendSeed", "barrier"}
         /\ FirstStep[f] = "recvShare" => f = "presign"
  BY StepsAre DEF FirstStep, Phases

LEMMA AcceptInv ==
  ASSUME Undisturbed, t \in 1..MAX_T, last \in {TTP, Stale}, NEW q \in Nodes, Accept(q)
  PROVE  Undisturbed'
<1>1. PICK c : c = Head(backlog[q])
  OBVIOUS
<1>2. PICK p, f : p = Client(c) /\ f = Phase(c)
  OBVIOUS
<1>3. /\ pc[q] = "accept" /\ backlog[q] # <<>> /\ listening' = listening
      /\ conn' = [conn EXCEPT ![c] = [conn[c] EXCEPT !.state = "open"]]
      /\ backlog' = [backlog EXCEPT ![q] = Tail(backlog[q])]
      /\ hpc' = [hpc EXCEPT ![c] = FirstStep[kind[q]]]
      /\ toAccept' = [toAccept EXCEPT ![q] = toAccept[q] - 1]
      /\ pc' = [pc EXCEPT ![q] = IF toAccept[q] = 1 THEN "destroy" ELSE "accept"]
      /\ kind' = kind /\ peer' = peer /\ SameSession
  BY <1>1 DEF Accept, AcceptFirst, params, SameSession
<1>4. /\ TypeOK /\ q \in Parties /\ Signers' = Signers /\ TTP \in Nodes /\ TTP \in Parties
      /\ ListenerInv(q) /\ IsFiniteSet(Signers)
      /\ \A r \in Signers : r \in Nodes /\ r \in Players /\ r \in Parties /\ r # TTP
  BY <1>3, Sizes, SessionSame, SignersAre DEF Undisturbed
<1>5. /\ backlog[q] \in Seq(Conns) /\ Len(backlog[q]) \in Nat \ {0}
      /\ DOMAIN backlog[q] = 1..Len(backlog[q]) /\ 1 \in DOMAIN backlog[q]
      /\ c = backlog[q][1] /\ c \in Conns
      /\ Tail(backlog[q]) \in Seq(Conns) /\ DOMAIN Tail(backlog[q]) = 1..(Len(backlog[q]) - 1)
      /\ \A j \in 1..(Len(backlog[q]) - 1) : Tail(backlog[q])[j] = backlog[q][j + 1]
  <2>1. backlog[q] \in Seq(Conns)
    BY <1>4 DEF TypeOK
  <2>2. Len(backlog[q]) \in Nat \ {0} /\ DOMAIN backlog[q] = 1..Len(backlog[q])
    BY <1>3, <2>1, EmptySeq, LenProperties
  <2>. QED
    BY <1>1, <1>3, <2>1, <2>2, HeadTailProperties
<1>6. /\ Server(c) = q /\ p \in Signers /\ pc[p] = "id" /\ Me(p) = c /\ conn[c].state = "waiting"
      /\ kind[q] = f /\ f \in Phases /\ c = <<p, f, q>> /\ kind[p] = f /\ peer[p] = q /\ p # q
  <2>1. Waiting(c, q)
    BY <1>4, <1>5 DEF ListenerInv
  <2>2. c = <<p, f, q>> /\ f \in Phases
    BY <1>2, <1>5, <2>1, ConnsAre DEF Waiting
  <2>3. <<p, kind[p], peer[p]>> = <<p, f, q>>
    BY <1>2, <2>1, <2>2 DEF Waiting, Me
  <2>4. kind[p] = f /\ peer[p] = q
    BY <2>3
  <2>. QED
    BY <1>2, <1>3, <2>1, <2>2, <2>4 DEF Waiting
<1>7. /\ DOMAIN conn' = Conns /\ conn'[c].state = "open"
      /\ \A d \in Conns : /\ DOMAIN conn'[d] = {"state", "up", "down"} /\ conn'[d].down = conn[d].down
                          /\ d # c => conn'[d].state = conn[d].state
  BY <1>3, <1>4, <1>5, StateSet
<1>8. /\ pc'[q] = (IF toAccept[q] = 1 THEN "destroy" ELSE "accept") /\ toAccept'[q] = toAccept[q] - 1
      /\ \A r \in Nodes : r # q => pc'[r] = pc[r] /\ toAccept'[r] = toAccept[r]
      /\ hpc'[c] = FirstStep[f] /\ \A d \in Conns : d # c => hpc'[d] = hpc[d]
  BY <1>3, <1>4, <1>5, <1>6 DEF TypeOK
<1>9. TypeOK'
  <2>1. pc' \in [Nodes -> Steps]
    BY <1>3, <1>4 DEF TypeOK, Steps, Serving
  <2>2. backlog' \in [Parties -> Seq(Conns)]
    BY <1>3, <1>4, <1>5 DEF TypeOK
  <2>3. toAccept' \in [Nodes -> Int] /\ DOMAIN hpc' = Conns
    BY <1>3, <1>4 DEF TypeOK
  <2>. QED
    BY <1>3, <1>4, <1>7, <2>1, <2>2, <2>3 DEF TypeOK
<1>10. \A d \in Conns : /\ conn[d].state = "open" => conn'[d].state = "open"
                        /\ conn[d].state = "none" => conn'[d].state = "none"
  BY <1>6, <1>7
<1>11. AllPresigned => AllPresigned'
  BY <1>4, <1>10, ConnsAre DEF AllPresigned, State
<1>12. ASSUME NEW r \in Signers PROVE CallerInv(r)'
  <2>1. pc'[r] = pc[r] \/ (pc[r] \in Serving /\ pc'[r] \in Serving)
    BY <1>3, <1>4, <1>8 DEF Serving
  <2>2. CallerInv(r) /\ kind'[r] = kind[r] /\ peer'[r] = peer[r]
    BY <1>3 DEF Undisturbed
  <2>. QED
    BY <1>3, <1>10, <1>11, <2>1, <2>2, CallerKept
<1>13. f = "root" => p = Below(q) /\ toAccept[q] = 1
  <2>. SUFFICES ASSUME f = "root" PROVE p = Below(q) /\ toAccept[q] = 1
    OBVIOUS
  <2>1. q = Above(p)
    BY <1>6, CallerFacts DEF CallerInv, PlayerAt, Serving
  <2>2. Below(q) = p /\ RootInv(q)
    BY <1>6, <2>1, AboveIs DEF Undisturbed
  <2>. QED
    BY <1>3, <1>6, <2>2 DEF RootInv
<1>14. ASSUME NEW r \in Nodes, r = TTP \/ (r \in Signers /\ r # 0) PROVE RootInv(r)'
  <2>1. RootInv(r) /\ <<Below(r), "root", r>> \in Conns
    <3>1. Below(r) \in Players /\ r \in Parties /\ Below(r) # r
      BY <1>14, Sizes, SignersAre DEF Below
    <3>. QED
      BY <1>14, <3>1, ConnsAre DEF Undisturbed
  <2>2. CASE r = q /\ f = "root"
    <3>1. State(Below(r), "root", r)' = "open"
      <4>1. Below(r)' = p
        BY <1>3, <1>13, <2>2, SessionSame
      <4>. QED
        BY <1>6, <1>7, <2>2, <4>1 DEF State
    <3>2. pc'[r] = "destroy" /\ kind'[r] = "root"
      BY <1>3, <1>6, <1>8, <1>13, <2>2
    <3>. QED
      BY <3>1, <3>2 DEF RootInv, RootDone
  <2>3. CASE ~(r = q /\ f = "root")
    <3>1. <<Below(r), "root", r>> # c
      BY <1>6, <2>3
    <3>2. RootDone(r)' <=> RootDone(r)
      BY <1>3, <1>6, <1>8, <2>3 DEF RootDone
    <3>3. kind'[r] = "root" /\ pc'[r] = "accept" => toAccept'[r] = 1
      BY <1>3, <1>6, <1>8, <2>1, <2>3 DEF RootInv
    <3>. QED
      BY <1>3, <1>7, <2>1, <3>1, <3>2, <3>3, RootKept
  <2>. QED
    BY <2>2, <2>3
<1>15. ASSUME NEW r \in Signers, r # 0 PROVE ExchangeInv(r)'
  <2>. SUFFICES ASSUME NEW s \in Signers, s < r, State(s, "exch", r)' = "open"
                PROVE  kind'[r] \in {"exch", "final"}
    BY <1>4 DEF ExchangeInv
  <2>1. <<s, "exch", r>> \in Conns
    BY <1>4, ConnsAre
  <2>2. CASE <<s, "exch", r>> = c
    BY <1>3, <1>6, <2>2
  <2>3. CASE <<s, "exch", r>> # c
    BY <1>3, <1>7, <1>15, <2>1, <2>3 DEF Undisturbed, ExchangeInv, State
  <2>. QED
    BY <2>2, <2>3
<1>16. TtpInv'
  <2>1. TtpInv
    BY DEF Undisturbed
  <2>2. \A r \in Signers : r # p \/ f # "presign" => State(r, "presign", TTP)' = State(r, "presign", TTP)
    <3>1. \A r \in Signers : <<r, "presign", TTP>> \in Conns
      BY <1>4, ConnsAre
    <3>2. \A r \in Signers : r # p \/ f # "presign" => <<r, "presign", TTP>> # c
      BY <1>6
    <3>. QED
      BY <1>7, <3>1, <3>2 DEF State
  <2>3. CASE f = "presign"
    <3>1. q = TTP
      BY <1>5, <1>6, <2>3, ConnsAre, ConnParts
    <3>2. p \in NotPresigned /\ State(p, "presign", TTP)' = "open"
      BY <1>6, <1>7, <2>3, <3>1 DEF NotPresigned, State
    <3>3. NotPresigned' = NotPresigned \ {p}
      BY <1>4, <2>2, <3>2 DEF NotPresigned
    <3>4. toAccept[TTP] = Cardinality(NotPresigned)
      BY <1>3, <1>6, <2>1, <2>3, <3>1 DEF TtpInv
    <3>5. IsFiniteSet(NotPresigned)
      BY <1>4, FS_Subset DEF NotPresigned
    <3>6. Cardinality(NotPresigned') = Cardinality(NotPresigned) - 1 /\ IsFiniteSet(NotPresigned')
      BY <3>2, <3>3, <3>5, FS_RemoveElement
    <3>7. CASE toAccept[TTP] = 1
      <4>1. Cardinality(NotPresigned') = 0
        BY <3>4, <3>6, <3>7
      <4>2. NotPresigned' = {}
        BY <3>6, <4>1, FS_EmptySet
      <4>3. AllPresigned'
        BY <4>2 DEF AllPresigned, NotPresigned
      <4>4. pc'[TTP] = "destroy" /\ kind'[TTP] = "presign"
        BY <1>3, <1>6, <1>8, <2>3, <3>1, <3>7
      <4>. QED
        BY <4>3, <4>4 DEF TtpInv, TtpAt, Serving
    <3>8. CASE toAccept[TTP] # 1
      <4>1. toAccept'[TTP] = Cardinality(NotPresigned')
        BY <1>8, <3>1, <3>4, <3>6
      <4>2. toAccept[TTP] \in Int
        BY <1>4 DEF TypeOK
      <4>3. Cardinality(NotPresigned') # 0
        BY <3>4, <3>6, <3>8, <4>2
      <4>4. NotPresigned' # {}
        BY <4>3, FS_EmptySet
      <4>5. pc'[TTP] = "accept" /\ kind'[TTP] = "presign"
        BY <1>3, <1>6, <1>8, <2>3, <3>1, <3>8
      <4>. QED
        BY <4>1, <4>4, <4>5 DEF TtpInv, TtpAt, Serving
    <3>. QED
      BY <3>7, <3>8
  <2>4. CASE f # "presign"
    <3>1. (AllPresigned' <=> AllPresigned) /\ NotPresigned' = NotPresigned
      BY <1>4, <2>2, <2>4 DEF AllPresigned, NotPresigned
    <3>2. CASE q = TTP
      <4>1. AllPresigned /\ kind'[TTP] = f
        BY <1>3, <1>6, <2>1, <2>4, <3>2 DEF TtpInv
      <4>2. TtpAt'
        BY <1>3, <1>6, <1>8, <2>1, <2>4, <3>2, <4>1 DEF TtpInv, TtpAt, Serving
      <4>. QED
        BY <2>4, <3>1, <4>1, <4>2 DEF TtpInv
    <3>3. CASE q # TTP
      BY <1>3, <1>4, <1>8, <2>1, <3>1, <3>3, TtpKept
    <3>. QED
      BY <3>2, <3>3
  <2>. QED
    BY <2>3, <2>4
<1>17. ASSUME NEW r \in Parties, NEW j \in DOMAIN backlog[r], NEW d, d = backlog[r][j], d # c
       PROVE  Waiting(d, r)'
  <2>1. d \in Conns
    BY <1>4, <1>17, LenProperties DEF TypeOK
  <2>2. Waiting(d, r) /\ r \in Nodes
    <3>1. ListenerInv(r)
      BY DEF Undisturbed
    <3>. QED
      BY <1>17, <3>1 DEF ListenerInv
  <2>3. Client(d) \in Signers /\ Client(d) # q
    BY <1>3, <2>2 DEF Waiting
  <2>4. pc'[r] = "accept" => pc[r] = "accept" /\ kind'[r] = kind[r]
    BY <1>3, <1>8, <2>2
  <2>5. /\ pc'[Client(d)] = pc[Client(d)] /\ kind'[Client(d)] = kind[Client(d)]
        /\ peer'[Client(d)] = peer[Client(d)] /\ conn'[d].state = conn[d].state
    BY <1>3, <1>4, <1>7, <1>8, <1>17, <2>1, <2>3
  <2>. QED
    BY <1>3, <2>1, <2>2, <2>4, <2>5, WaitingKept
<1>18. ASSUME NEW r \in Parties PROVE ListenerInv(r)'
  <2>1. ListenerInv(r) /\ listening'[r] = listening[r]
    BY <1>3 DEF Undisturbed
  <2>2. r \in Nodes => (pc'[r] \in {"accept", "destroy"} <=> pc[r] \in {"accept", "destroy"})
    BY <1>3, <1>8
  <2>3. CASE r # q
    <3>1. backlog'[r] = backlog[r]
      BY <1>3, <1>4, <2>3 DEF TypeOK
    <3>2. ASSUME NEW j \in DOMAIN backlog[r] PROVE Waiting(backlog[r][j], r)'
      <4>1. PICK d : d = backlog[r][j]
        OBVIOUS
      <4>2. d # c
        <5>1. Server(d) = r
          BY <2>1, <4>1 DEF ListenerInv, Waiting
        <5>. QED
          BY <1>6, <2>3, <5>1
      <4>3. Waiting(d, r)' /\ d = backlog'[r][j]
        BY <1>17, <3>1, <4>1, <4>2
      <4>. QED
        BY <4>3 DEF Waiting, Me
    <3>. QED
      BY <2>1, <2>2, <3>1, <3>2 DEF ListenerInv
  <2>4. CASE r = q
    <3>1. backlog'[q] = Tail(backlog[q])
      BY <1>3, <1>4 DEF TypeOK
    <3>2. /\ DOMAIN backlog'[q] = 1..(Len(backlog[q]) - 1)
          /\ \A j \in DOMAIN backlog'[q] :
                 backlog'[q][j] = backlog[q][j + 1] /\ j + 1 \in DOMAIN backlog[q] /\ j + 1 # 1 /\ j \in Nat
      BY <1>5, <3>1
    <3>3. \A j, n \in DOMAIN backlog[q] : backlog[q][j] = backlog[q][n] => j = n
      BY <1>4 DEF ListenerInv
    <3>4. ASSUME NEW j \in DOMAIN backlog'[q] PROVE Waiting(backlog[q][j], q)'
      <4>1. PICK d : d = backlog'[q][j]
        OBVIOUS
      <4>2. d = backlog[q][j + 1] /\ d # c /\ j + 1 \in DOMAIN backlog[q]
        BY <1>5, <3>2, <3>3, <4>1
      <4>3. Waiting(d, q)'
        BY <1>4, <1>17, <4>2
      <4>. QED
        BY <4>1, <4>3 DEF Waiting, Me
    <3>5. \A j, n \in DOMAIN backlog'[q] : backlog'[q][j] = backlog'[q][n] => j = n
      <4>. SUFFICES ASSUME NEW j \in DOMAIN backlog'[q], NEW n \in DOMAIN backlog'[q],
                           backlog'[q][j] = backlog'[q][n]
                    PROVE  j = n
        OBVIOUS
      <4>1. j + 1 = n + 1
        BY <3>2, <3>3
      <4>. QED
        BY <3>2, <4>1
    <3>6. listening'[q] /\ q \in Nodes /\ pc'[q] \in {"accept", "destroy"}
      BY <1>3, <1>4, <2>1, <2>2, <2>4 DEF ListenerInv
    <3>. QED
      BY <2>4, <3>4, <3>5, <3>6 DEF ListenerInv
  <2>. QED
    BY <2>3, <2>4
<1>19. ASSUME NEW d \in Conns PROVE HandlerInv(d)'
  <2>1. HandlerInv(d) /\ conn'[d].down = conn[d].down
    BY <1>7 DEF Undisturbed
  <2>2. CASE d = c
    <3>1. hpc'[d] = FirstStep[Phase(d)] /\ conn'[d].state = "open" /\ Client(d) \in Signers /\ Phase(d) \in Phases
      BY <1>2, <1>6, <1>7, <1>8, <2>2
    <3>2. /\ hpc'[d] \in StepsOf(Phase(d)) /\ hpc'[d] \notin {"sendR", "sendSeed"}
      BY <3>1, FirstStepIs
    <3>. QED
      BY <1>4, <1>11, <2>1, <3>1, <3>2 DEF HandlerInv, Phase, Client
  <2>3. CASE d # c
    <3>1. hpc'[d] = hpc[d] /\ conn'[d].state = conn[d].state
      BY <1>7, <1>8, <2>3
    <3>. QED
      BY <1>4, <1>11, <2>1, <3>1 DEF HandlerInv, Phase, Client
  <2>. QED
    BY <2>2, <2>3
<1>20. ASSUME NEW r \in Players \ Signers PROVE pc'[r] = "done"
  <2>1. pc[r] = "done" /\ r \in Nodes
    BY Sizes DEF Undisturbed
  <2>. QED
    BY <1>3, <1>8, <2>1
<1>. QED
  BY <1>4, <1>9, <1>12, <1>14, <1>15, <1>16, <1>18, <1>19, <1>20 DEF Undisturbed

------------------------------------------------------------------------------
(* The theorems.                                                             *)

\* What has gone wrong is not forgotten.
Grows ==
    /\ SameSession /\ DOMAIN trouble' = Players
    /\ \A p \in Players : trouble[p] \subseteq trouble'[p]

LEMMA TroubleGrows ==
  ASSUME DOMAIN trouble = Players, [Next]_vars
  PROVE  Grows
<1>1. \A x, y : trouble' = [trouble EXCEPT ![x] = trouble[x] \cup y] \/ trouble' = trouble
                    => DOMAIN trouble' = Players /\ \A p \in Players : trouble[p] \subseteq trouble'[p]
  OBVIOUS
<1>. USE DEF SameSession, Grows, params
<1>2. CASE UNCHANGED vars
  BY <1>2 DEF vars
<1>3. ASSUME NEW p \in Players, Call(p) PROVE Grows
  <2>1. CASE Dial(p) \/ NoId(p) \/ SendShare(p) \/ RecvSeed(p) \/ Sign(p) \/ SendRoot(p)
               \/ SendShard(p) \/ RecvTop(p)
    BY <2>1 DEF Dial, NoId, SendShare, RecvSeed, Sign, SendRoot, SendShard, RecvTop
  <2>2. CASE RecvR(p)
    BY <1>1, <2>2 DEF RecvR
  <2>3. CASE RecvShard(p)
    BY <1>1, <2>3 DEF RecvShard, Short
  <2>. QED
    BY <1>3, <2>1, <2>2, <2>3 DEF Call
<1>4. ASSUME NEW p \in Players, GiveUp(p) PROVE Grows
  BY <1>1, <1>4 DEF GiveUp
<1>5. ASSUME NEW q \in Nodes, Serve(q) PROVE Grows
  <2>1. CASE Listen(q) \/ Accept(q)
    BY <2>1 DEF Listen, Accept
  <2>2. CASE Close(q)
    BY <2>2 DEF Close
  <2>. QED
    BY <1>5, <2>1, <2>2 DEF Serve
<1>6. CASE SignTop \/ Aggregate
  BY <1>6 DEF SignTop, Aggregate
<1>7. ASSUME NEW c \in Conns, Handle(c) PROVE Grows
  <2>1. CASE HandlerRecvShard(c)
    BY <1>1, <2>1 DEF HandlerRecvShard, Short
  <2>2. CASE Load(c)
    BY <1>1, <2>2 DEF Load
  <2>3. CASE RecvShare(c) \/ SendR(c) \/ SendSeed(c) \/ RecvRoot(c) \/ SendTop(c) \/ AddOffset(c) \/ Copy(c)
               \/ LoadBack(c) \/ SubOffset(c) \/ LoadLen(c) \/ AddLen(c) \/ HandlerSendShard(c)
    BY <2>3 DEF RecvShare, SendR, SendSeed, RecvRoot, SendTop, AddOffset, Copy, LoadBack, SubOffset, LoadLen,
                AddLen, HandlerSendShard
  <2>. QED
    BY <1>7, <2>1, <2>2, <2>3 DEF Handle
<1>. QED
  BY <1>2, <1>3, <1>4, <1>5, <1>6, <1>7 DEF Next, Nodes

LEMMA InitInv == Init => NetSignInv
<1>. SUFFICES ASSUME Init PROVE NetSignInv
  OBVIOUS
<1>1. /\ t \in 1..MAX_T /\ last \in {TTP, Stale} /\ DOMAIN trouble = Players
      /\ listening = [q \in Parties |-> FALSE] /\ backlog = [q \in Parties |-> <<>>]
      /\ conn = [c \in Conns |-> [state |-> "none", up |-> <<>>, down |-> <<>>]]
      /\ pc = [q \in Nodes |-> IF q = TTP THEN "listen" ELSE IF q < t THEN "connect" ELSE "done"]
      /\ kind = [q \in Nodes |-> "presign"] /\ peer = [q \in Nodes |-> TTP]
      /\ toAccept = [q \in Nodes |-> 0] /\ hpc = [c \in Conns |-> "none"]
  BY DEF Init, NetInit, Nodes
<1>2. /\ TTP \in Parties /\ TTP \in Nodes /\ \A q \in Nodes : q # TTP <=> q \in Players
      /\ \A p \in Signers : p \in Players /\ p \in Nodes /\ p \in Parties /\ p # TTP
      /\ \A p \in Players : p \in Nodes /\ p # TTP /\ (p < t <=> p \in Signers)
      /\ \A q \in Nodes : q \in Parties
  BY <1>1, Sizes, SignersAre
<1>3. /\ pc[TTP] = "listen" /\ \A p \in Signers : pc[p] = "connect"
      /\ \A p \in Players \ Signers : pc[p] = "done"
      /\ \A q \in Nodes : kind[q] = "presign" /\ peer[q] = TTP
      /\ \A q \in Nodes : pc[q] \in {"listen", "connect", "done"}
      /\ \A c \in Conns : conn[c].state = "none" /\ conn[c].down = <<>> /\ hpc[c] = "none"
      /\ \A q \in Parties : ~listening[q] /\ backlog[q] = <<>>
  BY <1>1, <1>2
<1>4. TypeOK
  <2>1. <<>> \in Seq(Conns)
    OBVIOUS
  <2>2. pc \in [Nodes -> Steps]
    BY <1>1, <1>3 DEF Steps, Serving, Calling
  <2>. QED
    BY <1>1, <1>2, <2>1, <2>2 DEF TypeOK, Phases
<1>5. \A p, phase, q : <<p, phase, q>> \in Conns => State(p, phase, q) = "none"
  BY <1>3 DEF State
<1>6. ASSUME NEW p \in Signers PROVE CallerInv(p)
  <2>1. pc[p] = "connect" /\ kind[p] = "presign" /\ peer[p] = TTP
    BY <1>2, <1>3
  <2>. QED
    BY <1>5, <2>1 DEF CallerInv, PlayerAt, Calling, Exchanged
<1>7. ASSUME NEW q \in Nodes, q = TTP \/ (q \in Signers /\ q # 0) PROVE RootInv(q)
  <2>1. <<Below(q), "root", q>> \in Conns
    <3>1. Below(q) \in Players /\ q \in Parties /\ Below(q) # q
      BY <1>1, <1>7, Sizes, SignersAre DEF Below
    <3>. QED
      BY <1>7, <3>1, ConnsAre
  <2>. QED
    BY <1>3, <1>5, <2>1 DEF RootInv, RootDone
<1>8. ASSUME NEW q \in Signers PROVE ExchangeInv(q)
  BY <1>2, <1>5, ConnsAre DEF ExchangeInv
<1>9. TtpInv
  <2>1. NotPresigned = Signers
    BY <1>2, <1>5, ConnsAre DEF NotPresigned
  <2>. QED
    BY <1>2, <1>3, <2>1 DEF TtpInv, TtpAt, Serving
<1>10. ASSUME NEW q \in Parties PROVE ListenerInv(q)
  BY <1>3 DEF ListenerInv
<1>11. ASSUME NEW c \in Conns PROVE HandlerInv(c)
  BY <1>3 DEF HandlerInv
<1>. QED
  BY <1>1, <1>2, <1>3, <1>4, <1>6, <1>7, <1>8, <1>9, <1>10, <1>11 DEF NetSignInv, Undisturbed

LEMMA CallInv ==
  ASSUME Undisturbed, t \in 1..MAX_T, last \in {TTP, Stale}, NEW p \in Players, Call(p) \/ GiveUp(p)
  PROVE  Undisturbed'
<1>1. p \in Signers
  <2>1. pc[p] # "done"
    BY DEF Call, Dial, NoId, SendShare, RecvR, RecvSeed, Sign, SendRoot, SendShard, RecvShard, RecvTop, GiveUp, HasId
  <2>. QED
    BY <2>1 DEF Undisturbed
<1>. QED
  BY <1>1, DialInv, NoIdNever, SendShareInv, RecvRInv, RecvSeedInv, SignInv, SendRootInv, SendShardInv,
     RecvShardInv, RecvTopInv, GiveUpInv DEF Call

LEMMA StepInv ==
  ASSUME NetSignInv, [Next]_vars
  PROVE  NetSignInv'
<1>1. Grows /\ t \in 1..MAX_T /\ last \in {TTP, Stale}
  BY TroubleGrows DEF NetSignInv
<1>2. t' \in 1..MAX_T /\ last' \in {TTP, Stale} /\ DOMAIN trouble' = Players /\ Signers' = Signers
  BY <1>1, SessionSame DEF Grows, SameSession
<1>. SUFFICES ASSUME NoReset' PROVE Undisturbed'
  BY <1>2 DEF NetSignInv
<1>3. NoReset
  BY <1>1, <1>2, SignersAre DEF NoReset, Grows
<1>4. Undisturbed
  BY <1>3 DEF NetSignInv
<1>5. CASE UNCHANGED vars
  <2>1. MainSame /\ hpc' = hpc /\ conn' = conn /\ SameSession
    BY <1>5 DEF vars, netVars, params, mainVars, handlerVars, MainSame, SameSession
  <2>2. StatesSame /\ \A c \in Conns : HandlerInv(c)'
    BY <1>1, <1>4, <2>1, HandlersSame
  <2>3. TypeOK'
    BY <1>4, <2>1 DEF Undisturbed, TypeOK, MainSame
  <2>. QED
    BY <1>1, <1>4, <2>1, <2>2, <2>3, MainSameKeeps
<1>6. ASSUME NEW p \in Players, Call(p) \/ GiveUp(p) PROVE Undisturbed'
  BY <1>1, <1>4, <1>6, CallInv
<1>7. ASSUME NEW q \in Nodes, Serve(q) PROVE Undisturbed'
  BY <1>1, <1>4, <1>7, ListenInv, AcceptInv, CloseInv DEF Serve
<1>8. CASE SignTop
  BY <1>1, <1>4, <1>8, SignTopInv
<1>9. CASE Aggregate
  BY <1>1, <1>4, <1>9, AggregateInv
<1>10. ASSUME NEW c \in Conns, Handle(c) PROVE Undisturbed'
  BY <1>1, <1>4, <1>10, HandleInv
<1>. QED
  BY <1>5, <1>6, <1>7, <1>8, <1>9, <1>10 DEF Next, Nodes

\* As long as no connection has been reset, every main thread is where the others'
\* connections show it to be, and nobody waits at a listener of another phase.
THEOREM SessionUndisturbed == SafeSpec => []NetSignInv
  BY InitInv, StepInv, PTL DEF SafeSpec

\* No connection is accepted in a phase that it was not made for, until one has been
\* reset.
THEOREM PhaseServed == SafeSpec => []ServedInPhase
<1>1. NetSignInv => ServedInPhase
  BY DEF NetSignInv, NoReset, Undisturbed, HandlerInv, ServedInPhase
<1>. QED
  BY <1>1, SessionUndisturbed, PTL

------------------------------------------------------------------------------
(* What a signer holds.                                                      *)

\* The TTP's shard, and what r passes on, its own layers from the lowest.
Top == <<"layer", SPX_D - 1>>
Shard(r) == [k \in 1..Levels(r) |-> <<"layer", Place(r) + k - 1>>]

\* The root that q signs first.
Start(q) == <<"root", IF q = TTP THEN SPX_D - 1 ELSE Place(q)>>

\* p has signed its layers.
Signed(p) == kind[p] \in {"exch", "final"} \/ (kind[p] = "root" /\ pc[p] \in Calling)

\* The client of c has not sent yet.
Unsent(c) == conn[c].state # "open" \/ (pc[Client(c)] = "id" /\ Me(Client(c)) = c)

\* p has the layers of r in its memory.
Holds(p, r) ==
    \A l \in 0..(SPX_D - 1) : Place(r) <= l /\ l < Place(r) + Levels(r) => mem[p][l] = <<"layer", l>>

\* Handlers that have moved sm, and those that have copied.
Moved == {"copy", "loadBack", "subOffset"}
Copied == {"loadBack", "subOffset", "loadLen", "addLen", "sendShard", "over"}

Units == {"share", "R", "seed", "root", "layer", "bad"} \X Int

\* Enough of the types to read what the code changes.
DataOK ==
    /\ DOMAIN sm = Players /\ DOMAIN smlen = Players /\ DOMAIN mem = Players
    /\ \A p \in Players : DOMAIN mem[p] = 0..(SPX_D - 1)
    /\ buf \in [Conns -> Seq(Units)] /\ DOMAIN reg = Conns
    /\ DOMAIN root = Nodes /\ shard \in [Nodes -> Seq(Units)]
    /\ \A c \in Conns : conn[c].up \in Seq(Units) /\ conn[c].down \in Seq(Units)

\* A connection is open from when it has a handler, which runs while its listener is open.
ConnInv(c) ==
    /\ hpc[c] # "none" <=> conn[c].state = "open"
    /\ hpc[c] # "none" => Client(c) \in Signers
    /\ hpc[c] \notin {"none", "over"} => pc[Server(c)] \in {"accept", "destroy"} /\ kind[Server(c)] = Phase(c)
    /\ hpc[c] # "none" /\ Phase(c) = "root" => Server(c) = Above(Client(c))
    /\ hpc[c] # "none" /\ Phase(c) = "exch" => Server(c) \in Signers /\ kind[Server(c)] \in {"exch", "final"}

\* Those below q that it has still to accept for an exchange.
Missing(q) == {r \in Signers : r < q /\ hpc[<<r, "exch", q>>] = "none"}

SwapInv(q) ==
    /\ kind[q] = "exch" /\ pc[q] = "listen" => \A r \in Signers : r < q => hpc[<<r, "exch", q>>] = "none"
    /\ kind[q] = "exch" /\ pc[q] = "accept" => toAccept[q] = Cardinality(Missing(q)) /\ Missing(q) # {}
    /\ kind[q] = "exch" /\ pc[q] = "destroy" => Missing(q) = {}
    /\ Exchanged(q, q) => \A r \in Signers : r < q => hpc[<<r, "exch", q>>] = "over"

\* What is in the streams of c.
RootStream(c) ==
    Phase(c) = "root" =>
        /\ \A j \in DOMAIN conn[c].up : conn[c].up[j] = <<"root", Place(Client(c)) + Levels(Client(c))>>
        /\ hpc[c] = "over" => root[Server(c)] = Start(Server(c))

ShardStreams(c) ==
    Phase(c) = "exch" =>
        /\ Unsent(c) => conn[c].up = <<>> /\ hpc[c] \in {"none", "recvShard"}
        /\ hpc[c] \in {"none", "recvShard"} => conn[c].up \in {<<>>, Shard(Client(c))}
        /\ hpc[c] # "over" => conn[c].down = <<>>
        /\ pc[Client(c)] = "recvShard" /\ Me(Client(c)) = c => conn[c].down \in {<<>>, Shard(Server(c))}

TopStream(c) == Phase(c) = "final" => \A j \in DOMAIN conn[c].down : conn[c].down[j] = Top

\* A shard is complete before it is sent.
ShardInv ==
    /\ \A p \in Signers : Signed(p) => shard[p] = Shard(p)
    /\ kind[TTP] = "final" => shard[TTP] = <<Top>>

\* A handler of a listener, with what it has of the signed message.
UpdateInv(c) ==
    /\ hpc[c] \in {"load"} \cup Updating => buf[c] = Shard(Client(c))
    /\ hpc[c] = "addOffset" => reg[c] = 0
    /\ hpc[c] \in {"copy", "subOffset"} => reg[c] = Place(Client(c))
    /\ hpc[c] \in Moved => sm[Server(c)] = Place(Client(c))
    /\ hpc[c] = "addLen" => reg[c] = smlen[Server(c)]
    /\ Phase(c) = "exch" /\ hpc[c] \in Copied => Holds(Server(c), Client(c))

\* Whose lengths q has added while it listened.
Added(q) == {r \in Signers : r < q /\ hpc[<<r, "exch", q>>] \in {"sendShard", "over"}}

\* At a signer one handler at a time is between moving sm and adding to smlen, so smlen
\* counts what q has, and q has what it has exchanged.
MessageInv(q) ==
    /\ \A c, d \in HandlersOf(q) : hpc[c] \in Updating /\ hpc[d] \in Updating => c = d
    /\ (\A c \in HandlersOf(q) : hpc[c] \notin Moved) => sm[q] = 0
    /\ ~Signed(q) => smlen[q] = 0
    /\ Signed(q) /\ ~Exchanged(q, q) => smlen[q] = Levels(q) + SPX_WOTS_AVG * Cardinality(Added(q))
    /\ kind[q] = "exch" /\ pc[q] \notin Serving => smlen[q] = SPX_WOTS_AVG * peer[q]
    /\ kind[q] = "final" /\ pc[q] # "done" => smlen[q] = SPX_D - 1
    /\ Signed(q) => Holds(q, q)
    /\ \A r \in Signers : q < r /\ Exchanged(q, r) => Holds(q, r)
    /\ kind[q] = "final" /\ pc[q] = "done" => Complete(q)

\* Where handlers have overlapped, nothing is said of the message.
SignerInv(q) ==
    trouble[q] = {} => MessageInv(q) /\ \A c \in HandlersOf(q) : UpdateInv(c)

PlacesInv == (\A c \in Conns : ConnInv(c)) /\ (\A q \in Signers : SwapInv(q))

StreamsInv == \A c \in Conns : RootStream(c) /\ ShardStreams(c) /\ TopStream(c)

Progress == DataOK /\ PlacesInv /\ StreamsInv /\ ShardInv /\ \A q \in Signers : SignerInv(q)

CompleteInv == NoReset => Progress

------------------------------------------------------------------------------
(* Layers.                                                                   *)

LEMMA Distributes ==
  ASSUME NEW a \in Int, NEW b \in Int, NEW x \in Int
  PROVE  (a + b) * x = a * x + b * x
  OBVIOUS

LEMMA Divides ==
  ASSUME NEW n \in Nat, NEW m \in Nat, n >= m, m >= 1
  PROVE  /\ n \div m \in Nat /\ n \div m >= 1 /\ n % m \in 0..(m - 1)
         /\ n = m * (n \div m) + (n % m)
  OBVIOUS

LEMMA LayoutIs ==
  ASSUME t \in 1..MAX_T
  PROVE  /\ SPX_WOTS_AVG \in Nat /\ SPX_WOTS_AVG >= 1 /\ SPX_D \in Nat /\ SPX_D >= 2
         /\ Place(0) = 0
         /\ \A r \in Signers :
                /\ Place(r) \in Nat /\ Levels(r) \in Nat /\ Levels(r) >= 1
                /\ Place(r) = SPX_WOTS_AVG * r
                /\ r # t - 1 => Levels(r) = SPX_WOTS_AVG /\ Place(r) + Levels(r) = Place(r + 1)
                /\ r = t - 1 => Place(r) + Levels(r) = SPX_D - 1
                /\ Place(r) + Levels(r) <= SPX_D - 1
<1>1. /\ t \in Nat /\ 1 <= t /\ t <= MAX_T /\ SPX_D \in Nat /\ SPX_D > MAX_T /\ MAX_T \in Nat
      /\ \A r : r \in Signers <=> r \in Nat /\ r < t
  BY SignersAre, NetSignAssumption
<1>2. PICK n, w, x : n = SPX_D - 1 /\ w = SPX_WOTS_AVG /\ x = n % t
  OBVIOUS
<1>3. n \in Nat /\ n >= t /\ w = n \div t
  BY <1>1, <1>2 DEF SPX_WOTS_AVG
<1>4. w \in Nat /\ w >= 1 /\ x \in 0..(t - 1) /\ n = t * w + x
  BY <1>1, <1>2, <1>3, Divides
<1>5. 0 * w = 0
  BY <1>4
<1>6. ASSUME NEW r \in Signers
      PROVE  /\ r * w \in Nat /\ r * w = w * r /\ (r + 1) * w = r * w + w
             /\ r = t - 1 => r * w + w + x = n
             /\ r * w + w <= t * w
  <2>1. r \in Nat /\ r < t
    BY <1>1
  <2>2. r * w \in Nat /\ r * w = w * r /\ 1 * w = w /\ (r + 1) * w = r * w + 1 * w
    BY <1>4, <2>1, Distributes
  <2>3. t - (r + 1) \in Nat /\ (t - (r + 1)) * w \in Nat
    <3>1. \A a \in Nat : a * w \in Nat
      BY <1>4
    <3>2. t - (r + 1) \in Nat
      BY <1>1, <2>1
    <3>. QED
      BY <3>1, <3>2
  <2>4. t * w = (r + 1) * w + (t - (r + 1)) * w
    <3>1. t = (r + 1) + (t - (r + 1)) /\ r + 1 \in Int /\ t - (r + 1) \in Int
      BY <1>1, <2>1
    <3>2. ((r + 1) + (t - (r + 1))) * w = (r + 1) * w + (t - (r + 1)) * w
      BY <1>4, <3>1, Distributes
    <3>. QED
      BY <3>1, <3>2
  <2>5. r = t - 1 => r + 1 = t
    BY <1>1, <2>1
  <2>6. PICK a, b, d : a = r * w /\ b = t * w /\ d = (t - (r + 1)) * w
    OBVIOUS
  <2>7. a \in Nat /\ d \in Nat /\ (r + 1) * w = a + w /\ b = a + w + d /\ (r = t - 1 => b = a + w) /\ n = b + x
    BY <1>4, <2>2, <2>3, <2>4, <2>5, <2>6
  <2>8. r * w + w <= t * w /\ (r = t - 1 => r * w + w + x = n)
    BY <1>4, <2>6, <2>7
  <2>. QED
    BY <2>2, <2>8
<1>7. ASSUME NEW r \in Signers
      PROVE  /\ Place(r) = r * w /\ Levels(r) = IF r = t - 1 THEN w + x ELSE w
             /\ Place(r + 1) = (r + 1) * w
  BY <1>2, <1>3 DEF Place, Levels
<1>8. ASSUME NEW r \in Signers
      PROVE  /\ Place(r) \in Nat /\ Levels(r) \in Nat /\ Levels(r) >= 1 /\ Place(r) = w * r
             /\ r # t - 1 => Levels(r) = w /\ Place(r) + Levels(r) = Place(r + 1)
             /\ r = t - 1 => Place(r) + Levels(r) = n
             /\ Place(r) + Levels(r) <= n
  <2>1. PICK a, b : a = r * w /\ b = t * w
    OBVIOUS
  <2>2. a \in Nat /\ b = n - x /\ a + w <= b /\ (r + 1) * w = a + w /\ (r = t - 1 => a + w + x = n) /\ a = w * r
    <3>1. b \in Int
      BY <1>1, <1>4, <2>1
    <3>. QED
      BY <1>3, <1>4, <1>6, <2>1, <3>1
  <2>3. Place(r) = a /\ Levels(r) = (IF r = t - 1 THEN w + x ELSE w) /\ Place(r + 1) = a + w
    BY <1>7, <2>1, <2>2
  <2>4. w \in Nat /\ w >= 1 /\ x \in Nat /\ n \in Nat
    BY <1>3, <1>4
  <2>5. Place(r) \in Nat /\ Levels(r) \in Nat /\ Levels(r) >= 1 /\ Place(r) = w * r
    BY <2>2, <2>3, <2>4
  <2>6. r # t - 1 => Levels(r) = w /\ Place(r) + Levels(r) = Place(r + 1)
    BY <2>3
  <2>7. r = t - 1 => Place(r) + Levels(r) = n
    BY <2>2, <2>3, <2>4
  <2>8. Place(r) + Levels(r) <= n
    BY <2>2, <2>3, <2>4
  <2>. QED
    BY <2>5, <2>6, <2>7, <2>8
<1>9. Place(0) = 0 /\ SPX_D >= 2
  BY <1>1, <1>2, <1>5 DEF Place
<1>. QED
  BY <1>1, <1>2, <1>4, <1>8, <1>9

\* The root that a signer passes on is the one that the next one starts from.
LEMMA PassedOn ==
  ASSUME t \in 1..MAX_T, NEW p \in Signers
  PROVE  <<"root", Place(p) + Levels(p)>> = Start(Above(p))
<1>1. p = t - 1 => Above(p) = TTP
  BY DEF Above
<1>2. p # t - 1 => Above(p) = p + 1 /\ p + 1 # TTP
  BY SignersAre, Sizes DEF Above
<1>. QED
  BY <1>1, <1>2, LayoutIs DEF Start

\* Every layer below the top is a signer's.
LEMMA Covered ==
  ASSUME t \in 1..MAX_T, NEW l \in 0..(SPX_D - 2)
  PROVE  \E r \in Signers : Place(r) <= l /\ l < Place(r) + Levels(r)
<1>1. PICK w, r : w = SPX_WOTS_AVG /\ r = l \div w
  OBVIOUS
<1>2. /\ w \in Nat /\ w >= 1 /\ l \in Nat /\ SPX_D \in Nat /\ t \in Nat /\ t >= 1 /\ l < SPX_D - 1
      /\ \A s : s \in Signers <=> s \in Nat /\ s < t
  BY <1>1, LayoutIs, SignersAre
<1>3. /\ r \in Nat /\ w * r <= l /\ l < w * r + w
  BY <1>1, <1>2
<1>4. CASE r < t - 1
  <2>1. r \in Signers /\ r # t - 1
    BY <1>2, <1>3, <1>4
  <2>2. Place(r) = w * r /\ Levels(r) = w
    BY <1>1, <2>1, LayoutIs
  <2>. QED
    BY <1>3, <2>1, <2>2
<1>5. CASE ~(r < t - 1)
  <2>1. t - 1 \in Signers /\ r - (t - 1) \in Nat
    BY <1>2, <1>3, <1>5
  <2>2. w * (t - 1) <= w * r
    <3>1. r = (t - 1) + (r - (t - 1)) /\ t - 1 \in Int
      BY <1>2, <1>3
    <3>2. ((t - 1) + (r - (t - 1))) * w = (t - 1) * w + (r - (t - 1)) * w
      BY <1>2, <2>1, <3>1, Distributes
    <3>3. \A a \in Nat : a * w \in Nat /\ a * w = w * a
      BY <1>2
    <3>4. t - 1 \in Nat
      BY <1>2
    <3>. QED
      BY <1>2, <1>3, <2>1, <3>1, <3>2, <3>3, <3>4
  <2>3. Place(t - 1) = w * (t - 1) /\ Place(t - 1) + Levels(t - 1) = SPX_D - 1 /\ Place(t - 1) \in Nat
    BY <1>1, <2>1, LayoutIs
  <2>4. PICK a, b : a = w * r /\ b = w * (t - 1)
    OBVIOUS
  <2>5. a \in Nat /\ b <= a /\ a <= l /\ Place(t - 1) = b /\ b \in Nat
    <3>1. \A x \in Nat : w * x \in Nat
      BY <1>2
    <3>. QED
      BY <1>3, <2>2, <2>3, <2>4, <3>1
  <2>6. Place(t - 1) <= l /\ l < Place(t - 1) + Levels(t - 1)
    BY <1>2, <2>3, <2>5
  <2>. QED
    BY <2>1, <2>6
<1>. QED
  BY <1>4, <1>5

LEMMA ShardIs ==
  ASSUME t \in 1..MAX_T, NEW r \in Signers
  PROVE  /\ Shard(r) \in Seq(Units) /\ Len(Shard(r)) = Levels(r) /\ Shard(r) # <<>>
         /\ DOMAIN Shard(r) = 1..Levels(r)
<1>1. Levels(r) \in Nat /\ Levels(r) >= 1 /\ Place(r) \in Nat
  BY LayoutIs
<1>2. \A k \in 1..Levels(r) : <<"layer", Place(r) + k - 1>> \in Units
  BY <1>1 DEF Units
<1>3. Shard(r) \in [1..Levels(r) -> Units]
  BY <1>2 DEF Shard
<1>4. Shard(r) \in Seq(Units) /\ Len(Shard(r)) = Levels(r)
  BY <1>1, <1>3
<1>. QED
  BY <1>1, <1>3, <1>4

\* A shard in its place spoils nobody's.
LEMMA WrittenShard ==
  ASSUME t \in 1..MAX_T, DataOK, NEW p \in Players, NEW r \in Signers,
         mem' = [mem EXCEPT ![p] = Written(p, Place(r), Shard(r))], t' = t
  PROVE  /\ DOMAIN mem' = Players /\ \A q \in Players : DOMAIN mem'[q] = 0..(SPX_D - 1)
         /\ \A q \in Players : q # p => mem'[q] = mem[q]
         /\ Holds(p, r)' /\ \A s \in Signers : Holds(p, s) => Holds(p, s)'
<1>1. mem'[p] = Written(p, Place(r), Shard(r)) /\ DOMAIN mem' = Players /\ \A q \in Players : q # p => mem'[q] = mem[q]
  BY DEF DataOK
<1>2. Place(r) \in Nat /\ Levels(r) \in Nat /\ SPX_D \in Nat
  BY LayoutIs
<1>3. ASSUME NEW l \in 0..(SPX_D - 1)
      PROVE  /\ Place(r) <= l /\ l < Place(r) + Levels(r) => mem'[p][l] = <<"layer", l>>
             /\ mem'[p][l] \in {<<"layer", l>>, mem[p][l]}
  <2>1. mem'[p][l] = IF l - Place(r) + 1 \in DOMAIN Shard(r) THEN Shard(r)[l - Place(r) + 1] ELSE mem[p][l]
    BY <1>1 DEF Written
  <2>2. DOMAIN Shard(r) = 1..Levels(r)
    BY ShardIs
  <2>3. l - Place(r) + 1 \in 1..Levels(r) <=> Place(r) <= l /\ l < Place(r) + Levels(r)
    BY <1>2
  <2>4. l - Place(r) + 1 \in 1..Levels(r) => Shard(r)[l - Place(r) + 1] = <<"layer", l>>
    <3>. SUFFICES ASSUME NEW k \in 1..Levels(r), k = l - Place(r) + 1 PROVE Shard(r)[k] = <<"layer", l>>
      OBVIOUS
    <3>1. Shard(r)[k] = <<"layer", Place(r) + k - 1>> /\ Place(r) + k - 1 = l
      BY <1>2 DEF Shard
    <3>. QED
      BY <3>1
  <2>. QED
    BY <2>1, <2>2, <2>3, <2>4
<1>4. \A s : Place(s)' = Place(s) /\ Levels(s)' = Levels(s)
  BY DEF Place, Levels, SPX_WOTS_AVG
<1>5. \A q \in Players : DOMAIN mem'[q] = 0..(SPX_D - 1)
  BY <1>1 DEF DataOK, Written
<1>. QED
  BY <1>1, <1>3, <1>4, <1>5 DEF Holds

------------------------------------------------------------------------------
(* Streams.                                                                  *)

\* got was taken from the front of s, of which rest is left.
Received(s, got, rest) ==
    /\ s \in Seq(Units) /\ got \in Seq(Units) /\ rest \in Seq(Units)
    /\ Len(got) \in 1..Len(s)
    /\ \A j \in 1..Len(got) : got[j] = s[j]
    /\ \A j \in DOMAIN rest : \E k \in DOMAIN s : rest[j] = s[k]

LEMMA SplitSeq ==
  ASSUME NEW s \in Seq(Units), NEW n \in Nat, n >= 1, n <= Len(s)
  PROVE  Received(s, SubSeq(s, 1, n), SubSeq(s, Len(SubSeq(s, 1, n)) + 1, Len(s)))
<1>1. PICK got, rest : got = SubSeq(s, 1, n) /\ rest = SubSeq(s, n + 1, Len(s))
  OBVIOUS
<1>2. Len(s) \in Nat /\ DOMAIN s = 1..Len(s) /\ \A j \in 1..Len(s) : s[j] \in Units
  BY LenProperties, ElementOfSeq
<1>3. got \in Seq(Units) /\ Len(got) = n /\ \A j \in 1..n : got[j] = s[j]
  BY <1>1, <1>2, SubSeqProperties
<1>4. rest \in Seq(Units) /\ \A j \in DOMAIN rest : j + n \in DOMAIN s /\ rest[j] = s[j + n]
  <2>1. CASE n = Len(s)
    <3>1. rest = <<>>
      BY <1>1, <1>2, <2>1, SubSeqProperties
    <3>. QED
      BY <3>1
  <2>2. CASE n # Len(s)
    <3>1. PICK m, k : m = n + 1 /\ k = Len(s) - n
      OBVIOUS
    <3>2. m \in Nat /\ m >= 1 /\ m <= Len(s) /\ k \in Nat /\ Len(s) - m + 1 = k
      <4>1. \A z \in Nat : n <= z /\ n # z =>
                n + 1 \in Nat /\ n + 1 >= 1 /\ n + 1 <= z /\ z - n \in Nat /\ z - (n + 1) + 1 = z - n
        OBVIOUS
      <4>2. n <= Len(s) /\ n # Len(s) /\ Len(s) \in Nat
        BY <1>2, <2>2
      <4>3. PICK z \in Nat : z = Len(s)
        BY <4>2
      <4>. QED
        BY <3>1, <4>1, <4>2, <4>3
    <3>3. rest = SubSeq(s, m, Len(s)) /\ \A i \in m..Len(s) : s[i] \in Units
      BY <1>1, <1>2, <3>1, <3>2
    <3>4. rest \in Seq(Units) /\ Len(rest) = k /\ \A i \in 1..k : rest[i] = s[m + i - 1]
      BY <1>2, <3>2, <3>3, SubSeqProperties
    <3>5. \A i \in 1..k : m + i - 1 = i + n /\ i + n \in 1..Len(s)
      BY <1>2, <3>1, <3>2
    <3>6. DOMAIN rest = 1..k
      BY <3>4, LenProperties
    <3>. QED
      BY <1>2, <3>4, <3>5, <3>6
  <2>. QED
    BY <2>1, <2>2
<1>. QED
  BY <1>1, <1>2, <1>3, <1>4 DEF Received

\* Only the streams of c change.
StreamsOnly(c) ==
    \A d \in Conns : conn'[d].state = conn[d].state
                     /\ (d # c => conn'[d].up = conn[d].up /\ conn'[d].down = conn[d].down)

StreamsOK == \A c \in Conns : conn[c].up \in Seq(Units) /\ conn[c].down \in Seq(Units)

LEMMA PutUp ==
  ASSUME TypeOK, DataOK, NEW c \in Conns, NEW x \in Seq(Units), Put(c, "up", x)
  PROVE  /\ StreamsOnly(c) /\ conn'[c].up = conn[c].up \o x /\ conn'[c].down = conn[c].down
         /\ StreamsOK'
<1>1. conn' = [conn EXCEPT ![c] = [conn[c] EXCEPT !["up"] = conn[c].up \o x]]
  BY DEF Put
<1>2. \A y : LET r == [conn[c] EXCEPT !["up"] = y] IN
          r.state = conn[c].state /\ r.up = y /\ r.down = conn[c].down
  BY DEF TypeOK
<1>3. StreamsOnly(c) /\ conn'[c].up = conn[c].up \o x /\ conn'[c].down = conn[c].down
  BY <1>1, <1>2 DEF TypeOK, StreamsOnly
<1>4. conn[c].up \o x \in Seq(Units)
  BY ConcatProperties DEF DataOK
<1>. QED
  BY <1>3, <1>4 DEF StreamsOK, StreamsOnly, DataOK

LEMMA PutDown ==
  ASSUME TypeOK, DataOK, NEW c \in Conns, NEW x \in Seq(Units), Put(c, "down", x)
  PROVE  /\ StreamsOnly(c) /\ conn'[c].down = conn[c].down \o x /\ conn'[c].up = conn[c].up
         /\ StreamsOK'
<1>1. conn' = [conn EXCEPT ![c] = [conn[c] EXCEPT !["down"] = conn[c].down \o x]]
  BY DEF Put
<1>2. \A y : LET r == [conn[c] EXCEPT !["down"] = y] IN
          r.state = conn[c].state /\ r.down = y /\ r.up = conn[c].up
  BY DEF TypeOK
<1>3. StreamsOnly(c) /\ conn'[c].down = conn[c].down \o x /\ conn'[c].up = conn[c].up
  BY <1>1, <1>2 DEF TypeOK, StreamsOnly
<1>4. conn[c].down \o x \in Seq(Units)
  BY ConcatProperties DEF DataOK
<1>. QED
  BY <1>3, <1>4 DEF StreamsOK, StreamsOnly, DataOK

LEMMA TakeUp ==
  ASSUME TypeOK, DataOK, NEW c \in Conns, NEW limit \in Nat,
         NEW got \in Receivable(c, "up", limit), Take(c, "up", got)
  PROVE  /\ StreamsOnly(c) /\ Received(conn[c].up, got, conn'[c].up) /\ conn'[c].down = conn[c].down
         /\ StreamsOK' /\ Len(got) <= limit
<1>1. PICK s : s = conn[c].up
  OBVIOUS
<1>2. conn' = [conn EXCEPT ![c] = [conn[c] EXCEPT !["up"] = SubSeq(s, Len(got) + 1, Len(s))]]
  BY <1>1 DEF Take
<1>3. \A y : LET r == [conn[c] EXCEPT !["up"] = y] IN
          r.state = conn[c].state /\ r.up = y /\ r.down = conn[c].down
  BY DEF TypeOK
<1>4. /\ StreamsOnly(c) /\ conn'[c].up = SubSeq(s, Len(got) + 1, Len(s)) /\ conn'[c].down = conn[c].down
  BY <1>2, <1>3 DEF TypeOK, StreamsOnly
<1>5. s \in Seq(Units) /\ Len(s) \in Nat
  BY <1>1 DEF DataOK
<1>6. PICK n \in Nat : n >= 1 /\ n <= Len(s) /\ n <= limit /\ got = SubSeq(s, 1, n)
  BY <1>1, <1>5 DEF Receivable
<1>7. Received(s, got, SubSeq(s, Len(got) + 1, Len(s)))
  BY <1>5, <1>6, SplitSeq
<1>8. Len(got) = n
  BY <1>5, <1>6, SubSeqProperties
<1>9. Len(got) <= limit /\ SubSeq(s, Len(got) + 1, Len(s)) \in Seq(Units)
  BY <1>6, <1>7, <1>8 DEF Received
<1>10. StreamsOK'
  BY <1>4, <1>9 DEF StreamsOK, StreamsOnly, DataOK
<1>. QED
  BY <1>1, <1>4, <1>7, <1>9, <1>10

LEMMA TakeDown ==
  ASSUME TypeOK, DataOK, NEW c \in Conns, NEW limit \in Nat,
         NEW got \in Receivable(c, "down", limit), Take(c, "down", got)
  PROVE  /\ StreamsOnly(c) /\ Received(conn[c].down, got, conn'[c].down) /\ conn'[c].up = conn[c].up
         /\ StreamsOK' /\ Len(got) <= limit
<1>1. PICK s : s = conn[c].down
  OBVIOUS
<1>2. conn' = [conn EXCEPT ![c] = [conn[c] EXCEPT !["down"] = SubSeq(s, Len(got) + 1, Len(s))]]
  BY <1>1 DEF Take
<1>3. \A y : LET r == [conn[c] EXCEPT !["down"] = y] IN
          r.state = conn[c].state /\ r.down = y /\ r.up = conn[c].up
  BY DEF TypeOK
<1>4. /\ StreamsOnly(c) /\ conn'[c].down = SubSeq(s, Len(got) + 1, Len(s)) /\ conn'[c].up = conn[c].up
  BY <1>2, <1>3 DEF TypeOK, StreamsOnly
<1>5. s \in Seq(Units) /\ Len(s) \in Nat
  BY <1>1 DEF DataOK
<1>6. PICK n \in Nat : n >= 1 /\ n <= Len(s) /\ n <= limit /\ got = SubSeq(s, 1, n)
  BY <1>1, <1>5 DEF Receivable
<1>7. Received(s, got, SubSeq(s, Len(got) + 1, Len(s)))
  BY <1>5, <1>6, SplitSeq
<1>8. Len(got) = n
  BY <1>5, <1>6, SubSeqProperties
<1>9. Len(got) <= limit /\ SubSeq(s, Len(got) + 1, Len(s)) \in Seq(Units)
  BY <1>6, <1>7, <1>8 DEF Received
<1>10. StreamsOK'
  BY <1>4, <1>9 DEF StreamsOK, StreamsOnly, DataOK
<1>. QED
  BY <1>1, <1>4, <1>7, <1>9, <1>10

\* A shard is received whole if it is not short.
LEMMA WholeShard ==
  ASSUME t \in 1..MAX_T, NEW r \in Signers, NEW s \in {<<>>, Shard(r)}, NEW got, NEW rest, Received(s, got, rest),
         ~(Len(got) < Levels(r))
  PROVE  got = Shard(r)
<1>1. s = Shard(r) /\ Len(s) = Levels(r) /\ Levels(r) \in Nat
  <2>1. s # <<>>
    BY DEF Received
  <2>. QED
    BY <2>1, ShardIs, LayoutIs
<1>2. got \in Seq(Units) /\ s \in Seq(Units) /\ Len(got) = Len(s) /\ \A j \in 1..Len(got) : got[j] = s[j]
  BY <1>1 DEF Received
<1>. QED
  BY <1>1, <1>2, SeqEqual

------------------------------------------------------------------------------
(* Who goes where.                                                           *)

Idle(n) == \A c \in HandlersOf(n) : hpc[c] \in {"none", "over"}

OthersStay(n) ==
    \A q \in Nodes : q # n =>
        pc'[q] = pc[q] /\ kind'[q] = kind[q] /\ peer'[q] = peer[q] /\ toAccept'[q] = toAccept[q]

OpenSame == \A c \in Conns : conn'[c].state = "open" <=> conn[c].state = "open"

\* From where to where a signer goes that does not listen.
Stays(p) == /\ kind'[p] = kind[p] /\ peer'[p] = peer[p] /\ pc[p] # "sign" /\ pc'[p] \notin Serving \cup {"sign"}
            /\ pc'[p] = "done" => kind[p] = "final" /\ pc[p] = "id"
Presigns(p) == kind[p] = "presign" /\ kind'[p] = "root" /\ pc'[p] \in {"sign", "listen"}
Signs(p) == kind[p] = "root" /\ pc[p] = "sign" /\ kind'[p] = "root" /\ pc'[p] = "connect"
Hears(p) == p # 0 /\ kind[p] = "root" /\ pc[p] = "id" /\ kind'[p] = "exch" /\ pc'[p] = "listen"

\* p calls the next one, and at last the TTP.
Calls(p, next) ==
    /\ pc'[p] = "connect"
    /\ next < t => kind'[p] = "exch" /\ peer'[p] = next
    /\ ~(next < t) => kind'[p] = "final" /\ peer'[p] = TTP

Starts(p) == p = 0 /\ kind[p] = "root" /\ pc[p] = "id" /\ Calls(p, 1)
Continues(p) == kind[p] = "exch" /\ pc[p] = "recvShard" /\ Calls(p, peer[p] + 1)

LEMMA Goes ==
  ASSUME TypeOK, NEW n \in Nodes, NEW x, NEW f, NEW other, Go(n, x, f, other)
  PROVE  /\ pc'[n] = x /\ kind'[n] = f /\ peer'[n] = other /\ toAccept' = toAccept
         /\ OthersStay(n)
  BY DEF Go, TypeOK, OthersStay

LEMMA GoesOn ==
  ASSUME TypeOK, NEW n \in Nodes, NEW x, Step(n, x)
  PROVE  /\ pc'[n] = x /\ kind'[n] = kind[n] /\ peer'[n] = peer[n] /\ toAccept' = toAccept
         /\ OthersStay(n)
  BY Goes DEF Step

LEMMA GoesToExchange ==
  ASSUME TypeOK, NEW n \in Nodes, NEW next, Exchange(n, next)
  PROVE  /\ Calls(n, next) /\ toAccept' = toAccept /\ OthersStay(n)
<1>1. CASE next < t
  BY <1>1, Goes DEF Exchange, Calls
<1>2. CASE ~(next < t)
  BY <1>2, Goes DEF Exchange, Calls
<1>. QED
  BY <1>1, <1>2

CallMove(p) ==
    /\ SameSession /\ hpc' = hpc /\ OthersStay(p) /\ OpenSame
    /\ pc[p] \notin Serving
    /\ Stays(p) \/ Presigns(p) \/ Signs(p) \/ Hears(p) \/ Starts(p) \/ Continues(p)

LEMMA CallMoves ==
  ASSUME Undisturbed, t \in 1..MAX_T, last \in {TTP, Stale}, NEW p \in Signers, Call(p) \/ GiveUp(p)
  PROVE  CallMove(p)
<1>1. /\ TypeOK /\ p \in Nodes /\ PlayerAt(p) /\ p \in Nat
      /\ pc[p] \notin Serving /\ pc[p] # "sign" => Me(p) \in Conns
  BY CallerFacts
<1>2. \A c, way : StreamOnly(c, way) => OpenSame
  BY DEF StreamOnly, OpenSame
<1>3. SameSession /\ hpc' = hpc
  BY DEF Call, Dial, NoId, SendShare, RecvR, RecvSeed, Sign, SendRoot, SendShard, RecvShard, RecvTop, GiveUp,
         SameSession, params, handlerVars
<1>4. \A x : x \in Calling \cup {"recvR", "recvSeed", "recvShard", "sign", "done"} => x \notin Serving
  BY DEF Serving, Calling
<1>5. CASE Dial(p)
  <2>1. pc[p] = "connect" /\ Step(p, "id") /\ Me(p) \in Conns
    BY <1>1, <1>4, <1>5 DEF Dial, Calling
  <2>2. OpenSame
    <3>1. conn' = [conn EXCEPT ![Me(p)] = [conn[Me(p)] EXCEPT !.state = "waiting"]]
      BY <1>5 DEF Dial, Connect
    <3>2. /\ conn'[Me(p)].state = "waiting" /\ \A d \in Conns : d # Me(p) => conn'[d].state = conn[d].state
      BY <1>1, <2>1, <3>1, StateSet
    <3>3. conn[Me(p)].state = "none"
      <4>1. listening[peer[p]]
        BY <1>5, ConnParts DEF Dial, Connect, Me
      <4>2. State(p, kind[p], peer[p]) = "none"
        BY <2>1, <4>1, CallsIn
      <4>. QED
        BY <4>2 DEF State, Me
    <3>. QED
      BY <3>2, <3>3 DEF OpenSame
  <2>. QED
    BY <1>1, <1>3, <1>4, <2>1, <2>2, GoesOn DEF CallMove, Stays, Calling, Serving
<1>6. CASE GiveUp(p)
  <2>1. pc[p] = "connect" /\ Step(p, "exited") /\ conn' = conn
    BY <1>6 DEF GiveUp, netVars
  <2>2. OpenSame
    BY <2>1 DEF OpenSame
  <2>. QED
    BY <1>1, <1>3, <2>1, <2>2, GoesOn DEF CallMove, Stays, Serving
<1>7. CASE SendShare(p) \/ SendShard(p) \/ RecvTop(p)
  <2>1. PICK x \in {"recvR", "recvShard", "done"} : Step(p, x) /\ pc[p] = "id" /\ (x = "done" => kind[p] = "final")
    BY <1>7 DEF SendShare, SendShard, RecvTop, HasId, AfterCall
  <2>2. OpenSame
    BY <1>1, <1>2, <1>7, <2>1, PutKeeps, TakeKeeps DEF SendShare, SendShard, RecvTop, Serving
  <2>. QED
    BY <1>1, <1>3, <2>1, <2>2, GoesOn DEF CallMove, Stays, Serving
<1>8. CASE RecvR(p)
  <2>1. Step(p, "recvSeed") /\ pc[p] = "recvR"
    BY <1>8 DEF RecvR
  <2>2. OpenSame
    BY <1>1, <1>2, <1>8, <2>1, TakeKeeps DEF RecvR, Serving
  <2>. QED
    BY <1>1, <1>3, <2>1, <2>2, GoesOn DEF CallMove, Stays, Serving
<1>9. CASE RecvSeed(p)
  <2>1. pc[p] = "recvSeed" /\ kind[p] = "presign"
    BY <1>1, <1>9 DEF RecvSeed, PlayerAt, Serving, Calling
  <2>2. PICK x \in {"sign", "listen"} : Go(p, x, "root", p)
    BY <1>9, <2>1 DEF RecvSeed, AfterCall
  <2>3. OpenSame
    BY <1>1, <1>2, <1>9, <2>1, TakeKeeps DEF RecvSeed, Serving
  <2>. QED
    BY <1>1, <1>3, <2>1, <2>2, <2>3, Goes DEF CallMove, Presigns, Serving
<1>10. CASE Sign(p)
  <2>1. pc[p] = "sign" /\ kind[p] = "root" /\ Go(p, "connect", "root", NextSigner(p)) /\ conn' = conn
    BY <1>1, <1>10 DEF Sign, netVars, PlayerAt, Serving, Calling
  <2>2. OpenSame
    BY <2>1 DEF OpenSame
  <2>. QED
    BY <1>1, <1>3, <2>1, <2>2, Goes DEF CallMove, Signs, Serving
<1>11. CASE SendRoot(p)
  <2>1. pc[p] = "id" /\ kind[p] = "root" /\ AfterCall(p)
    BY <1>11 DEF SendRoot, HasId
  <2>2. OpenSame
    BY <1>1, <1>2, <1>11, <2>1, PutKeeps DEF SendRoot, Serving
  <2>3. CASE p = 0
    <3>1. Exchange(p, 1)
      BY <2>1, <2>3 DEF AfterCall
    <3>. QED
      BY <1>1, <1>3, <2>1, <2>2, <2>3, <3>1, GoesToExchange DEF CallMove, Starts, Serving
  <2>4. CASE p # 0
    <3>1. Go(p, "listen", "exch", p)
      BY <2>1, <2>4 DEF AfterCall
    <3>. QED
      BY <1>1, <1>3, <2>1, <2>2, <2>4, <3>1, Goes DEF CallMove, Hears, Serving
  <2>. QED
    BY <2>3, <2>4
<1>12. CASE RecvShard(p)
  <2>1. pc[p] = "recvShard" /\ kind[p] = "exch"
    BY <1>1, <1>12 DEF RecvShard, PlayerAt, Serving, Calling
  <2>2. OpenSame
    BY <1>1, <1>2, <1>12, <2>1, TakeKeeps DEF RecvShard, Serving
  <2>3. Exchange(p, peer[p] + 1)
    BY <1>12, <2>1 DEF RecvShard, AfterCall
  <2>. QED
    BY <1>1, <1>3, <2>1, <2>2, <2>3, GoesToExchange DEF CallMove, Continues, Serving
<1>. QED
  BY <1>5, <1>6, <1>7, <1>8, <1>9, <1>10, <1>11, <1>12, NoIdNever DEF Call

------------------------------------------------------------------------------
(* Which handlers run.                                                       *)

LEMMA ServerIs ==
  ASSUME t \in 1..MAX_T, NEW c \in Conns, ConnInv(c), hpc[c] # "none"
  PROVE  Server(c) \in Nodes /\ Client(c) \in Signers
<1>1. Client(c) \in Signers
  BY DEF ConnInv
<1>2. CASE Phase(c) \in {"presign", "final"}
  BY <1>1, <1>2, ConnsAre, SignersAre
<1>3. CASE Phase(c) = "root"
  BY <1>1, <1>3, AboveIs, SignersAre DEF ConnInv
<1>4. CASE Phase(c) = "exch"
  BY <1>1, <1>4, SignersAre DEF ConnInv
<1>. QED
  BY <1>1, <1>2, <1>3, <1>4, ConnsAre DEF Phases

LEMMA IdleWhen ==
  ASSUME NEW n, \A c \in Conns : ConnInv(c), pc[n] \notin {"accept", "destroy"}
  PROVE  Idle(n)
  BY DEF Idle, HandlersOf, ConnInv

LEMMA ConnMoves ==
  ASSUME t \in 1..MAX_T, NEW n \in Nodes, \A c \in Conns : ConnInv(c),
         SameSession, hpc' = hpc, OthersStay(n), OpenSame,
         Idle(n) \/ (pc'[n] \in {"accept", "destroy"} /\ kind'[n] = kind[n]),
         kind[n] \in {"exch", "final"} => kind'[n] \in {"exch", "final"}
  PROVE  \A c \in Conns : ConnInv(c)'
<1>. SUFFICES ASSUME NEW c \in Conns PROVE ConnInv(c)'
  OBVIOUS
<1>1. /\ ConnInv(c) /\ (conn'[c].state = "open" <=> conn[c].state = "open") /\ hpc'[c] = hpc[c]
      /\ Signers' = Signers /\ \A p : Above(p)' = Above(p)
  BY SessionSame DEF OpenSame
<1>2. CASE hpc[c] = "none"
  BY <1>1, <1>2 DEF ConnInv
<1>3. CASE hpc[c] # "none"
  <2>1. PICK s, p, f : s = Server(c) /\ p = Client(c) /\ f = Phase(c)
    OBVIOUS
  <2>2. s \in Nodes
    BY <1>1, <1>3, <2>1, ServerIs
  <2>3. s # n => pc'[s] = pc[s] /\ kind'[s] = kind[s]
    BY <2>2 DEF OthersStay
  <2>4. hpc[c] \notin {"none", "over"} => pc'[s] \in {"accept", "destroy"} /\ kind'[s] = f
    BY <1>1, <2>1, <2>3 DEF ConnInv, Idle, HandlersOf
  <2>5. f = "exch" => s \in Signers /\ kind'[s] \in {"exch", "final"}
    BY <1>1, <1>3, <2>1, <2>3 DEF ConnInv
  <2>. QED
    BY <1>1, <1>3, <2>1, <2>4, <2>5 DEF ConnInv, Server, Client, Phase
<1>. QED
  BY <1>2, <1>3

LEMMA SwapKept ==
  ASSUME t \in 1..MAX_T, SameSession, NEW q \in Signers, SwapInv(q),
         pc'[q] = pc[q], kind'[q] = kind[q], peer'[q] = peer[q], toAccept'[q] = toAccept[q],
         \A r \in Signers : r < q =>
             /\ hpc'[<<r, "exch", q>>] = "none" <=> hpc[<<r, "exch", q>>] = "none"
             /\ hpc[<<r, "exch", q>>] = "over" => hpc'[<<r, "exch", q>>] = "over"
  PROVE  SwapInv(q)'
<1>1. Signers' = Signers
  BY SessionSame
<1>2. Missing(q)' = Missing(q)
  BY <1>1 DEF Missing
<1>3. Exchanged(q, q)' <=> Exchanged(q, q)
  BY DEF Exchanged
<1>. QED
  BY <1>1, <1>2, <1>3 DEF SwapInv

\* Nobody has swapped shards with one that has not passed on its root.
LEMMA NotSwapped ==
  ASSUME Undisturbed, t \in 1..MAX_T, NEW q \in Signers, \A c \in Conns : ConnInv(c),
         kind[q] \notin {"exch", "final"}, NEW r \in Signers, r < q
  PROVE  hpc[<<r, "exch", q>>] = "none"
<1>1. <<r, "exch", q>> \in Conns /\ q # 0
  BY SignersAre, ConnsAre
<1>2. State(r, "exch", q) # "open"
  BY <1>1 DEF Undisturbed, ExchangeInv
<1>. QED
  BY <1>1, <1>2 DEF ConnInv, State

LEMMA CallPlaces ==
  ASSUME Undisturbed, t \in 1..MAX_T, last \in {TTP, Stale}, NEW p \in Signers, Call(p) \/ GiveUp(p), PlacesInv
  PROVE  PlacesInv'
<1>1. CallMove(p) /\ Signers' = Signers
  BY CallMoves, SessionSame DEF CallMove
<1>. USE DEF CallMove
<1>2. p \in Nodes /\ PlayerAt(p) /\ p \in Nat /\ \A q \in Signers : q \in Nodes /\ q \in Nat /\ q # TTP
  BY CallerFacts, SignersAre
<1>3. kind[p] \in {"exch", "final"} => kind'[p] \in {"exch", "final"}
  BY <1>1 DEF Stays, Presigns, Signs, Hears, Starts, Continues, Calls
<1>4. \A c \in Conns : ConnInv(c)'
  <2>1. Idle(p)
    BY <1>1, IdleWhen DEF PlacesInv, Serving
  <2>. QED
    BY <1>1, <1>2, <1>3, <2>1, ConnMoves DEF PlacesInv
<1>5. ASSUME NEW q \in Signers PROVE SwapInv(q)'
  <2>1. CASE q # p
    <3>1. pc'[q] = pc[q] /\ kind'[q] = kind[q] /\ peer'[q] = peer[q] /\ toAccept'[q] = toAccept[q]
      BY <1>1, <1>2, <2>1 DEF OthersStay
    <3>. QED
      BY <1>1, <3>1, SwapKept DEF PlacesInv
  <2>2. CASE q = p
    <3>1. CASE Stays(p)
      <4>1. Exchanged(p, p)' => Exchanged(p, p)
        BY <1>1, <1>2, <3>1 DEF Exchanged, Stays
      <4>2. kind'[p] = "exch" => pc'[p] \notin Serving
        BY <3>1 DEF Stays
      <4>. QED
        BY <1>1, <2>2, <4>1, <4>2 DEF PlacesInv, SwapInv, Serving
    <3>2. CASE Presigns(p) \/ Signs(p)
      <4>1. kind'[p] = "root"
        BY <3>2 DEF Presigns, Signs
      <4>. QED
        BY <2>2, <4>1 DEF SwapInv, Exchanged
    <3>3. CASE Hears(p)
      <4>1. \A r \in Signers : r < p => hpc[<<r, "exch", p>>] = "none"
        BY <3>3, NotSwapped DEF Hears, PlacesInv
      <4>. QED
        BY <1>1, <2>2, <3>3, <4>1 DEF SwapInv, Exchanged, Hears, Serving
    <3>4. CASE Starts(p)
      <4>1. p = 0 /\ pc'[p] = "connect"
        BY <3>4 DEF Starts, Calls
      <4>2. \A r \in Signers : ~(r < p)
        BY <1>2, <4>1
      <4>. QED
        BY <1>1, <2>2, <4>1, <4>2 DEF SwapInv
    <3>5. CASE Continues(p)
      <4>1. pc'[p] = "connect" /\ kind[p] = "exch" /\ pc[p] = "recvShard"
        BY <3>5 DEF Continues, Calls
      <4>2. Exchanged(p, p)
        BY <1>2, <4>1 DEF Exchanged, PlayerAt, Serving
      <4>. QED
        BY <1>1, <2>2, <4>1, <4>2 DEF PlacesInv, SwapInv
    <3>. QED
      BY <1>1, <3>1, <3>2, <3>3, <3>4, <3>5
  <2>. QED
    BY <2>1, <2>2
<1>. QED
  BY <1>1, <1>4, <1>5 DEF PlacesInv

LEMMA ListenPlaces ==
  ASSUME Undisturbed, t \in 1..MAX_T, last \in {TTP, Stale}, NEW n \in Nodes, Listen(n), PlacesInv
  PROVE  PlacesInv'
<1>1. /\ pc[n] = "listen" /\ pc' = [pc EXCEPT ![n] = "accept"] /\ kind' = kind /\ peer' = peer
      /\ toAccept' = [toAccept EXCEPT ![n] = Expected(n)] /\ hpc' = hpc /\ conn' = conn /\ SameSession
  BY DEF Listen, OpenListener, params, handlerVars, SameSession
<1>2. Signers' = Signers /\ \A q \in Signers : q \in Nodes /\ q \in Nat /\ q < t /\ t \in Nat /\ q # TTP
  BY <1>1, SessionSame, SignersAre
<1>3. /\ pc'[n] = "accept" /\ toAccept'[n] = Expected(n) /\ OthersStay(n) /\ OpenSame
  BY <1>1 DEF Undisturbed, TypeOK, OthersStay, OpenSame
<1>4. \A c \in Conns : ConnInv(c)'
  BY <1>1, <1>3, ConnMoves DEF PlacesInv
<1>5. ASSUME NEW q \in Signers PROVE SwapInv(q)'
  <2>1. CASE q # n
    <3>1. pc'[q] = pc[q] /\ kind'[q] = kind[q] /\ peer'[q] = peer[q] /\ toAccept'[q] = toAccept[q]
      BY <1>2, <1>3, <2>1 DEF OthersStay
    <3>. QED
      BY <1>1, <3>1, SwapKept DEF PlacesInv
  <2>2. CASE q = n
    <3>1. kind[q] \in {"root", "exch"} /\ q # 0
      <4>1. PlayerAt(q)
        BY CallerFacts
      <4>. QED
        BY <1>1, <2>2, <4>1 DEF PlayerAt, Serving, Calling
    <3>2. kind[q] = "exch" => toAccept'[q] = Cardinality(Missing(q)') /\ Missing(q)' # {}
      <4>. SUFFICES ASSUME kind[q] = "exch" PROVE toAccept'[q] = Cardinality(Missing(q)') /\ Missing(q)' # {}
        OBVIOUS
      <4>1. \A r \in Signers : r < q => hpc[<<r, "exch", q>>] = "none"
        BY <1>1, <2>2 DEF PlacesInv, SwapInv
      <4>2. Missing(q)' = {r \in Signers : r < q}
        BY <1>1, <1>2, <4>1 DEF Missing
      <4>3. {r \in Signers : r < q} = 0..(q - 1) /\ q - 1 >= 0
        BY <1>2, <3>1, SignersAre
      <4>4. Cardinality(0..(q - 1)) = q /\ 0 \in 0..(q - 1)
        BY <1>2, <4>3, FS_Interval
      <4>5. toAccept'[q] = q
        BY <1>2, <1>3, <2>2 DEF Expected
      <4>. QED
        BY <4>2, <4>3, <4>4, <4>5
    <3>. QED
      BY <1>1, <1>3, <2>2, <3>1, <3>2 DEF SwapInv, Exchanged, Serving
  <2>. QED
    BY <2>1, <2>2
<1>. QED
  BY <1>2, <1>4, <1>5 DEF PlacesInv

\* What accepting c does.
Accepted(n, c) ==
    /\ pc[n] = "accept" /\ Server(c) = n /\ kind[n] = Phase(c) /\ Client(c) \in Signers
    /\ pc[Client(c)] = "id" /\ Me(Client(c)) = c /\ conn[c].state = "waiting"
    /\ conn'[c].state = "open" /\ \A d \in Conns : d # c => conn'[d].state = conn[d].state
    /\ \A d \in Conns : conn'[d].up = conn[d].up /\ conn'[d].down = conn[d].down
    /\ hpc'[c] = FirstStep[Phase(c)] /\ \A d \in Conns : d # c => hpc'[d] = hpc[d]
    /\ pc'[n] = (IF toAccept[n] = 1 THEN "destroy" ELSE "accept") /\ toAccept'[n] = toAccept[n] - 1
    /\ OthersStay(n) /\ kind' = kind /\ peer' = peer /\ SameSession

LEMMA AcceptIs ==
  ASSUME Undisturbed, t \in 1..MAX_T, NEW n \in Nodes, Accept(n)
  PROVE  \E c \in Conns : Accepted(n, c)
<1>1. PICK c : c = Head(backlog[n])
  OBVIOUS
<1>2. /\ pc[n] = "accept" /\ backlog[n] # <<>>
      /\ conn' = [conn EXCEPT ![c] = [conn[c] EXCEPT !.state = "open"]]
      /\ hpc' = [hpc EXCEPT ![c] = FirstStep[kind[n]]]
      /\ toAccept' = [toAccept EXCEPT ![n] = toAccept[n] - 1]
      /\ pc' = [pc EXCEPT ![n] = IF toAccept[n] = 1 THEN "destroy" ELSE "accept"]
      /\ kind' = kind /\ peer' = peer /\ SameSession
  BY <1>1 DEF Accept, AcceptFirst, params, SameSession
<1>3. TypeOK /\ ListenerInv(n) /\ backlog[n] \in Seq(Conns)
  BY Sizes DEF Undisturbed, TypeOK
<1>4. c \in Conns /\ 1 \in DOMAIN backlog[n] /\ c = backlog[n][1]
  BY <1>1, <1>2, <1>3, EmptySeq, LenProperties, HeadTailProperties
<1>5. Waiting(c, n)
  BY <1>3, <1>4 DEF ListenerInv
<1>6. \A y \in {conn[c]} : /\ [y EXCEPT !.state = "open"].state = "open"
                           /\ [y EXCEPT !.state = "open"].up = y.up /\ [y EXCEPT !.state = "open"].down = y.down
  BY <1>3, <1>4 DEF TypeOK
<1>7. /\ conn'[c].state = "open" /\ \A d \in Conns : d # c => conn'[d].state = conn[d].state
      /\ \A d \in Conns : conn'[d].up = conn[d].up /\ conn'[d].down = conn[d].down
  BY <1>2, <1>3, <1>4, <1>6 DEF TypeOK
<1>8. /\ hpc'[c] = FirstStep[kind[n]] /\ \A d \in Conns : d # c => hpc'[d] = hpc[d]
      /\ pc'[n] = (IF toAccept[n] = 1 THEN "destroy" ELSE "accept") /\ toAccept'[n] = toAccept[n] - 1
      /\ OthersStay(n)
  BY <1>2, <1>3, <1>4 DEF TypeOK, OthersStay
<1>. QED
  BY <1>2, <1>4, <1>5, <1>7, <1>8 DEF Accepted, Waiting

LEMMA AcceptPlaces ==
  ASSUME Undisturbed, t \in 1..MAX_T, last \in {TTP, Stale}, NEW n \in Nodes, Accept(n), PlacesInv
  PROVE  PlacesInv'
<1>1. PICK c \in Conns : Accepted(n, c)
  BY AcceptIs
<1>2. PICK p, f : p = Client(c) /\ f = Phase(c)
  OBVIOUS
<1>3. /\ Server(c) = n /\ kind[n] = f /\ p \in Signers /\ pc[p] = "id" /\ conn[c].state = "waiting"
      /\ f \in Phases /\ c = <<p, f, n>> /\ kind[p] = f /\ peer[p] = n
  <2>1. Me(p) = c /\ c = <<p, f, n>> /\ f \in Phases
    BY <1>1, <1>2, ConnsAre DEF Accepted
  <2>2. <<p, kind[p], peer[p]>> = <<p, f, n>>
    BY <2>1 DEF Me
  <2>. QED
    BY <1>1, <1>2, <2>1, <2>2 DEF Accepted
<1>4. /\ Signers' = Signers /\ \A r : Above(r)' = Above(r)
      /\ \A q \in Signers : q \in Nodes /\ q \in Nat /\ q # TTP
      /\ pc'[n] \in {"accept", "destroy"} /\ pc[n] = "accept" /\ kind' = kind /\ peer' = peer /\ OthersStay(n)
  BY <1>1, SessionSame, SignersAre DEF Accepted
<1>5. hpc'[c] # "none" /\ hpc'[c] # "over" /\ hpc[c] = "none"
  <2>1. hpc'[c] = FirstStep[f]
    BY <1>1, <1>2 DEF Accepted
  <2>2. ConnInv(c)
    BY DEF PlacesInv
  <2>. QED
    BY <1>3, <2>1, <2>2 DEF FirstStep, Phases, ConnInv
<1>6. \A d \in Conns : d # c => hpc'[d] = hpc[d] /\ conn'[d].state = conn[d].state
  BY <1>1 DEF Accepted
<1>7. ASSUME NEW d \in Conns PROVE ConnInv(d)'
  <2>1. CASE d = c
    <3>1. conn'[c].state = "open"
      BY <1>1 DEF Accepted
    <3>2. CallerInv(p) /\ PlayerAt(p)
      BY <1>3, CallerFacts
    <3>3. f = "root" => n = Above(p)
      BY <1>3, <3>2 DEF CallerInv, PlayerAt, Serving, Calling
    <3>4. f = "exch" => n \in Signers
      BY <1>3, <3>2 DEF PlayerAt, Serving, Calling
    <3>. QED
      BY <1>2, <1>3, <1>4, <1>5, <2>1, <3>1, <3>3, <3>4 DEF ConnInv, Server, Client, Phase
  <2>2. CASE d # c
    <3>1. ConnInv(d) /\ hpc'[d] = hpc[d] /\ conn'[d].state = conn[d].state
      BY <1>6, <2>2 DEF PlacesInv
    <3>2. CASE hpc[d] = "none"
      BY <3>1, <3>2 DEF ConnInv
    <3>3. CASE hpc[d] # "none"
      <4>1. Server(d) \in Nodes
        BY <3>1, <3>3, ServerIs
      <4>2. Server(d) # n => pc'[Server(d)] = pc[Server(d)]
        BY <1>4, <4>1 DEF OthersStay
      <4>. QED
        BY <1>4, <3>1, <3>3, <4>2 DEF ConnInv, Server, Client, Phase
    <3>. QED
      BY <3>2, <3>3
  <2>. QED
    BY <2>1, <2>2
<1>8. ASSUME NEW q \in Signers PROVE SwapInv(q)'
  <2>1. \A r \in Signers : r < q => <<r, "exch", q>> \in Conns
    BY SignersAre, ConnsAre
  <2>2. CASE q # n
    <3>1. pc'[q] = pc[q] /\ kind'[q] = kind[q] /\ peer'[q] = peer[q] /\ toAccept'[q] = toAccept[q]
      BY <1>4, <2>2 DEF OthersStay
    <3>2. \A r \in Signers : r < q => hpc'[<<r, "exch", q>>] = hpc[<<r, "exch", q>>]
      BY <1>3, <1>6, <2>1, <2>2
    <3>. QED
      BY <1>1, <3>1, <3>2, SwapKept DEF PlacesInv, Accepted
  <2>3. CASE q = n
    <3>1. f \in {"root", "exch"}
      <4>1. PlayerAt(q)
        BY CallerFacts
      <4>. QED
        BY <1>3, <1>4, <2>3, <4>1 DEF PlayerAt, Serving, Calling
    <3>2. ~Exchanged(q, q)' /\ pc'[q] # "listen" /\ kind'[q] = f
      BY <1>3, <1>4, <2>3, <3>1 DEF Exchanged, Serving
    <3>3. CASE f = "root"
      BY <3>2, <3>3 DEF SwapInv
    <3>4. CASE f = "exch"
      <4>1. p < q /\ c = <<p, "exch", q>>
        BY <1>2, <1>3, <2>3, <3>4, ConnsAre
      <4>2. p \in Missing(q)
        BY <1>3, <1>5, <4>1 DEF Missing
      <4>3. Missing(q)' = Missing(q) \ {p}
        <5>1. \A r \in Signers : r < q /\ r # p => hpc'[<<r, "exch", q>>] = hpc[<<r, "exch", q>>]
          BY <1>6, <2>1, <4>1
        <5>. QED
          BY <1>4, <1>5, <4>1, <5>1 DEF Missing
      <4>4. IsFiniteSet(Missing(q))
        BY SignersAre, FS_Subset DEF Missing
      <4>5. /\ Cardinality(Missing(q)') = Cardinality(Missing(q)) - 1 /\ IsFiniteSet(Missing(q)')
            /\ Cardinality(Missing(q)) \in Nat
        BY <4>2, <4>3, <4>4, FS_RemoveElement, FS_CardinalityType
      <4>6. toAccept[q] = Cardinality(Missing(q)) /\ toAccept'[q] = toAccept[q] - 1
        BY <1>1, <1>3, <1>4, <2>3, <3>4 DEF PlacesInv, SwapInv, Accepted
      <4>7. CASE toAccept[q] = 1
        <5>1. Missing(q)' = {}
          BY <4>5, <4>6, <4>7, FS_EmptySet
        <5>2. pc'[q] = "destroy"
          BY <1>1, <2>3, <4>7 DEF Accepted
        <5>. QED
          BY <3>2, <5>1, <5>2 DEF SwapInv
      <4>8. CASE toAccept[q] # 1
        <5>1. Cardinality(Missing(q)') # 0
          BY <4>5, <4>6, <4>8
        <5>2. Missing(q)' # {}
          BY <5>1, FS_EmptySet
        <5>3. pc'[q] = "accept" /\ toAccept'[q] = Cardinality(Missing(q)')
          BY <1>1, <2>3, <4>5, <4>6, <4>8 DEF Accepted
        <5>. QED
          BY <3>2, <5>2, <5>3 DEF SwapInv
      <4>. QED
        BY <4>7, <4>8
    <3>. QED
      BY <3>1, <3>3, <3>4
  <2>. QED
    BY <2>2, <2>3
<1>. QED
  BY <1>4, <1>7, <1>8 DEF PlacesInv

\* Without a reset a listener is closed when nobody waits.
LEMMA CloseIs ==
  ASSUME Undisturbed, t \in 1..MAX_T, NEW n \in Nodes, Close(n), NoReset'
  PROVE  Closed(n) /\ Idle(n) /\ AfterServing(n)
<1>1. /\ pc[n] = "destroy" /\ AfterServing(n) /\ hpc' = hpc /\ SameSession
      /\ listening' = [listening EXCEPT ![n] = FALSE] /\ backlog' = [backlog EXCEPT ![n] = <<>>]
      /\ conn' = [c \in Conns |->
                    IF c \in ToSet(backlog[n]) THEN [conn[c] EXCEPT !.state = "reset"] ELSE conn[c]]
      /\ trouble' = [p \in Players |->
                    IF \E c \in ToSet(backlog[n]) : Client(c) = p THEN trouble[p] \cup {"reset"} ELSE trouble[p]]
  BY DEF Close, CloseListener, params, handlerVars, SameSession
<1>2. n \in Parties /\ Signers' = Signers /\ \A p \in Signers : p \in Players
  BY <1>1, Sizes, SessionSame, SignersAre
<1>3. ToSet(backlog[n]) = {}
  <2>. SUFFICES ASSUME NEW c \in ToSet(backlog[n]) PROVE FALSE
    OBVIOUS
  <2>1. PICK j \in DOMAIN backlog[n] : c = backlog[n][j]
    BY DEF ToSet
  <2>2. Client(c) \in Signers
    BY <1>2, <2>1 DEF Undisturbed, ListenerInv, Waiting
  <2>3. "reset" \in trouble'[Client(c)]
    BY <1>1, <1>2, <2>2
  <2>. QED
    BY <1>2, <2>2, <2>3 DEF NoReset
<1>4. Idle(n)
  BY DEF Close, Idle
<1>. QED
  BY <1>1, <1>3, <1>4 DEF Closed

\* How a participant goes on that has closed its listener.
LEMMA AfterClose ==
  ASSUME Undisturbed, t \in 1..MAX_T, NEW n \in Nodes, Closed(n), AfterServing(n)
  PROVE  /\ OthersStay(n) /\ OpenSame
         /\ \/ n \in Signers /\ kind[n] = "root" /\ kind'[n] = "root" /\ pc'[n] = "sign"
            \/ n \in Signers /\ kind[n] = "exch" /\ Calls(n, n + 1)
            \/ n = TTP /\ kind[n] \in {"presign", "root"} /\ kind'[n] = "root" /\ pc'[n] \in {"listen", "sign"}
            \/ n = TTP /\ kind[n] = "final" /\ kind'[n] = "final" /\ pc'[n] = "done"
<1>1. /\ TypeOK /\ pc[n] = "destroy" /\ OpenSame
  BY DEF Undisturbed, Closed, OpenSame
<1>2. n = TTP \/ n \in Signers
  BY <1>1, Sizes DEF Undisturbed
<1>3. CASE n # TTP /\ kind[n] = "root" /\ Go(n, "sign", "root", n)
  BY <1>1, <1>2, <1>3, Goes
<1>4. CASE n # TTP /\ kind[n] = "exch" /\ Exchange(n, n + 1)
  BY <1>1, <1>2, <1>4, GoesToExchange
<1>5. CASE n = TTP /\ kind[n] = "presign" /\ Go(n, "listen", "root", n)
  BY <1>1, <1>5, Goes
<1>6. CASE n = TTP /\ kind[n] = "root" /\ Go(n, "sign", "root", n)
  BY <1>1, <1>6, Goes
<1>7. CASE n = TTP /\ kind[n] = "final" /\ Step(n, "done")
  BY <1>1, <1>7, GoesOn
<1>. QED
  BY <1>3, <1>4, <1>5, <1>6, <1>7 DEF AfterServing

LEMMA ClosePlaces ==
  ASSUME Undisturbed, t \in 1..MAX_T, NEW n \in Nodes, Closed(n), Idle(n), AfterServing(n), PlacesInv
  PROVE  PlacesInv'
<1>1. /\ OthersStay(n) /\ OpenSame
      /\ \/ n \in Signers /\ kind[n] = "root" /\ kind'[n] = "root" /\ pc'[n] = "sign"
         \/ n \in Signers /\ kind[n] = "exch" /\ Calls(n, n + 1)
         \/ n = TTP /\ kind[n] \in {"presign", "root"} /\ kind'[n] = "root"
         \/ n = TTP /\ kind[n] = "final" /\ kind'[n] = "final" /\ pc'[n] = "done"
  BY AfterClose
<1>2. pc[n] = "destroy" /\ hpc' = hpc /\ SameSession /\ Signers' = Signers
      /\ \A q \in Signers : q \in Nodes /\ q \in Nat /\ q # TTP
  BY SessionSame, SignersAre DEF Closed
<1>3. kind[n] \in {"exch", "final"} => kind'[n] \in {"exch", "final"}
  BY <1>1 DEF Calls
<1>4. \A c \in Conns : ConnInv(c)'
  BY <1>1, <1>2, <1>3, ConnMoves DEF PlacesInv
<1>5. ASSUME NEW q \in Signers PROVE SwapInv(q)'
  <2>1. CASE q # n
    <3>1. pc'[q] = pc[q] /\ kind'[q] = kind[q] /\ peer'[q] = peer[q] /\ toAccept'[q] = toAccept[q]
      BY <1>1, <1>2, <2>1 DEF OthersStay
    <3>. QED
      BY <1>2, <3>1, SwapKept DEF PlacesInv
  <2>2. CASE q = n /\ kind'[n] = "root"
    BY <2>2 DEF SwapInv, Exchanged
  <2>3. CASE q = n /\ kind[n] = "exch" /\ Calls(n, n + 1)
    <3>1. Missing(q) = {}
      BY <1>2, <2>3 DEF PlacesInv, SwapInv
    <3>2. \A r \in Signers : r < q => hpc[<<r, "exch", q>>] = "over"
      <4>1. \A r \in Signers : r < q => <<r, "exch", q>> \in HandlersOf(q)
        BY SignersAre, ConnsAre, ConnParts DEF HandlersOf
      <4>. QED
        BY <2>3, <3>1, <4>1 DEF Idle, Missing
    <3>3. pc'[q] = "connect"
      BY <2>3 DEF Calls
    <3>. QED
      BY <1>2, <3>2, <3>3 DEF SwapInv
  <2>. QED
    BY <1>1, <1>2, <2>1, <2>2, <2>3
<1>. QED
  BY <1>2, <1>4, <1>5 DEF PlacesInv

LEMMA SignTopPlaces ==
  ASSUME Undisturbed, t \in 1..MAX_T, SignTop, PlacesInv
  PROVE  /\ PlacesInv' /\ OthersStay(TTP) /\ conn' = conn /\ hpc' = hpc /\ SameSession /\ kind'[TTP] = "final"
         /\ kind[TTP] = "root" /\ Idle(TTP)
<1>1. /\ pc[TTP] = "sign" /\ Go(TTP, "listen", "final", TTP) /\ conn' = conn /\ hpc' = hpc /\ SameSession
  BY DEF SignTop, netVars, params, handlerVars, SameSession
<1>2. TypeOK /\ TTP \in Nodes /\ kind[TTP] = "root"
  BY <1>1, SignersAre DEF Undisturbed, TtpInv, TtpAt, Serving
<1>3. OthersStay(TTP) /\ kind'[TTP] = "final"
  BY <1>1, <1>2, Goes
<1>4. Idle(TTP) /\ OpenSame
  BY <1>1, IdleWhen DEF PlacesInv, OpenSame
<1>5. \A c \in Conns : ConnInv(c)'
  BY <1>1, <1>2, <1>3, <1>4, ConnMoves DEF PlacesInv
<1>6. Signers' = Signers /\ \A q \in Signers : q \in Nodes /\ q # TTP
  BY <1>1, SessionSame, SignersAre
<1>7. ASSUME NEW q \in Signers PROVE SwapInv(q)'
  <2>1. pc'[q] = pc[q] /\ kind'[q] = kind[q] /\ peer'[q] = peer[q] /\ toAccept'[q] = toAccept[q]
    BY <1>3, <1>6 DEF OthersStay
  <2>. QED
    BY <1>1, <2>1, SwapKept DEF PlacesInv
<1>. QED
  BY <1>1, <1>2, <1>3, <1>4, <1>5, <1>6, <1>7 DEF PlacesInv

\* Handlers go on.
HandlersGo ==
    /\ SameSession /\ pc' = pc /\ kind' = kind /\ peer' = peer /\ toAccept' = toAccept
    /\ \A c \in Conns : /\ conn'[c].state = conn[c].state
                        /\ hpc'[c] # hpc[c] => hpc[c] \notin {"none", "over"} /\ hpc'[c] # "none"

LEMMA HandlersPlaces ==
  ASSUME t \in 1..MAX_T, HandlersGo, PlacesInv
  PROVE  PlacesInv'
<1>. USE DEF HandlersGo
<1>1. Signers' = Signers /\ (\A p : Above(p)' = Above(p)) /\ \A r, q \in Signers : r < q => <<r, "exch", q>> \in Conns
  BY SessionSame, SignersAre, ConnsAre
<1>2. ASSUME NEW c \in Conns PROVE ConnInv(c)'
  <2>1. ConnInv(c) /\ (hpc'[c] = "none" <=> hpc[c] = "none") /\ conn'[c].state = conn[c].state
    BY DEF PlacesInv
  <2>2. hpc'[c] \notin {"none", "over"} => hpc[c] \notin {"none", "over"}
    OBVIOUS
  <2>. QED
    BY <1>1, <2>1, <2>2 DEF ConnInv, Server, Client, Phase
<1>3. ASSUME NEW q \in Signers PROVE SwapInv(q)'
  <2>1. \A r \in Signers : r < q =>
             /\ hpc'[<<r, "exch", q>>] = "none" <=> hpc[<<r, "exch", q>>] = "none"
             /\ hpc[<<r, "exch", q>>] = "over" => hpc'[<<r, "exch", q>>] = "over"
    BY <1>1
  <2>. QED
    BY <2>1, SwapKept DEF PlacesInv
<1>. QED
  BY <1>1, <1>2, <1>3 DEF PlacesInv

\* The handler of c goes on.
HandlerGoes(c) ==
    /\ HandlersGo /\ hpc[c] \notin {"none", "over"} /\ hpc' = [hpc EXCEPT ![c] = hpc'[c]]
    /\ \A d \in Conns : d # c => hpc'[d] = hpc[d]

LEMMA HandleMoves ==
  ASSUME TypeOK, NEW c \in Conns, Handle(c)
  PROVE  HandlerGoes(c)
<1>. USE DEF params, mainVars, SameSession, netVars, HStep
<1>1. SameSession /\ pc' = pc /\ kind' = kind /\ peer' = peer /\ toAccept' = toAccept
  BY DEF Handle, RecvShare, SendR, SendSeed, RecvRoot, SendTop, HandlerRecvShard, HandlerSendShard,
         Load, AddOffset, Copy, LoadBack, SubOffset, LoadLen, AddLen
<1>2. PICK x : hpc' = [hpc EXCEPT ![c] = x] /\ x # "none" /\ hpc[c] \notin {"none", "over"}
  BY DEF Handle, RecvShare, SendR, SendSeed, RecvRoot, SendTop, HandlerRecvShard, HandlerSendShard,
         Load, AddOffset, Copy, LoadBack, SubOffset, LoadLen, AddLen
<1>3. \A d \in Conns : conn'[d].state = conn[d].state
  <2>1. \A d, way : StreamOnly(d, way) => \A e \in Conns : conn'[e].state = conn[e].state
    BY DEF StreamOnly
  <2>2. CASE RecvShare(c) \/ RecvRoot(c) \/ HandlerRecvShard(c)
    BY <2>1, <2>2, TakeKeeps DEF RecvShare, RecvRoot, HandlerRecvShard
  <2>3. CASE SendR(c) \/ SendSeed(c) \/ SendTop(c) \/ HandlerSendShard(c)
    BY <2>1, <2>3, PutKeeps DEF SendR, SendSeed, SendTop, HandlerSendShard
  <2>4. CASE Load(c) \/ AddOffset(c) \/ Copy(c) \/ LoadBack(c) \/ SubOffset(c) \/ LoadLen(c) \/ AddLen(c)
    BY <2>4 DEF Load, AddOffset, Copy, LoadBack, SubOffset, LoadLen, AddLen
  <2>. QED
    BY <2>2, <2>3, <2>4 DEF Handle
<1>4. hpc'[c] = x /\ \A d \in Conns : d # c => hpc'[d] = hpc[d]
  BY <1>2 DEF TypeOK
<1>. QED
  BY <1>1, <1>2, <1>3, <1>4 DEF HandlerGoes, HandlersGo

LEMMA AggregateGoes ==
  ASSUME TypeOK, Aggregate
  PROVE  HandlersGo
<1>1. SameSession /\ pc' = pc /\ kind' = kind /\ peer' = peer /\ toAccept' = toAccept /\ conn' = conn
  BY DEF Aggregate, params, mainVars, SameSession, netVars
<1>2. \A c \in Conns : hpc'[c] = hpc[c] \/ (hpc[c] = "barrier" /\ hpc'[c] = "sendR")
  BY DEF Aggregate
<1>. QED
  BY <1>1, <1>2 DEF HandlersGo

------------------------------------------------------------------------------
(* What streams carry.                                                       *)

LEMMA LayoutSame ==
  ASSUME SameSession
  PROVE  /\ Signers' = Signers /\ Top' = Top /\ SPX_WOTS_AVG' = SPX_WOTS_AVG
         /\ \A p : Place(p)' = Place(p) /\ Levels(p)' = Levels(p) /\ Shard(p)' = Shard(p) /\ Start(p)' = Start(p)
  BY DEF SameSession, Signers, Place, Levels, SPX_WOTS_AVG, Shard, Start, Top

StreamInv(c) == RootStream(c) /\ ShardStreams(c) /\ TopStream(c)

\* The client of c waits for the shard of the other side.
Awaits(c) == pc[Client(c)] = "recvShard" /\ Me(Client(c)) = c

LEMMA UnsentKept ==
  ASSUME NEW n \in Nodes, OthersStay(n), NEW c \in Conns,
         conn'[c].state = "open" <=> conn[c].state = "open"
  PROVE  /\ pc'[n] # "id" => (Unsent(c)' => Unsent(c))
         /\ pc'[n] # "recvShard" => (Awaits(c)' => Awaits(c))
<1>1. PICK p : p = Client(c)
  OBVIOUS
<1>2. p \in Nodes /\ Client(c)' = p
  BY <1>1, ConnsAre, Sizes DEF Client
<1>3. p # n => pc'[p] = pc[p] /\ Me(p)' = Me(p)
  BY <1>2 DEF OthersStay, Me
<1>4. Me(Client(c))' = Me(p)'
  BY <1>1 DEF Me, Client
<1>. QED
  BY <1>1, <1>2, <1>3, <1>4 DEF Unsent, Awaits

LEMMA StreamKept ==
  ASSUME SameSession, NEW c \in Conns, StreamInv(c),
         conn'[c].up = conn[c].up, conn'[c].down = conn[c].down,
         Unsent(c)' => Unsent(c), Awaits(c)' => Awaits(c),
         root'[Server(c)] \in {root[Server(c)], Start(Server(c))},
         \/ hpc'[c] = hpc[c]
         \/ hpc[c] \notin {"none", "recvShard", "over"} /\ hpc'[c] \notin {"none", "recvShard", "over"}
         \/ Phase(c) = "exch" /\ hpc[c] = "none" /\ hpc'[c] = "recvShard"
         \/ Phase(c) = "root" /\ hpc'[c] # "over"
         \/ Phase(c) \notin {"root", "exch"}
  PROVE  StreamInv(c)'
<1>1. PICK p, s, f : p = Client(c) /\ s = Server(c) /\ f = Phase(c)
  OBVIOUS
<1>2. /\ Client(c)' = p /\ Server(c)' = s /\ Phase(c)' = f
      /\ Place(p)' = Place(p) /\ Levels(p)' = Levels(p) /\ Shard(p)' = Shard(p) /\ Shard(s)' = Shard(s)
      /\ Start(s)' = Start(s) /\ Top' = Top
  BY <1>1, LayoutSame DEF Client, Server, Phase
<1>3. RootStream(c)'
  <2>1. f = "root" /\ hpc'[c] = "over" => root'[s] = Start(s)
    BY <1>1 DEF StreamInv, RootStream
  <2>. QED
    BY <1>1, <1>2, <2>1 DEF StreamInv, RootStream, Place, Levels, SPX_WOTS_AVG, SameSession, Start
<1>4. ShardStreams(c)'
  <2>. SUFFICES ASSUME f = "exch" PROVE ShardStreams(c)'
    BY <1>1, <1>2 DEF ShardStreams
  <2>1. ShardStreams(c) /\ Phase(c) = "exch"
    BY <1>1 DEF StreamInv
  <2>2. Unsent(c)' => conn'[c].up = <<>> /\ hpc'[c] \in {"none", "recvShard"}
    BY <2>1 DEF ShardStreams
  <2>3. hpc'[c] \in {"none", "recvShard"} => conn'[c].up \in {<<>>, Shard(p)'}
    <3>1. hpc'[c] \in {"none", "recvShard"} => hpc[c] \in {"none", "recvShard"}
      BY <2>1
    <3>2. hpc[c] \in {"none", "recvShard"} => conn[c].up \in {<<>>, Shard(p)}
      BY <1>1, <2>1 DEF ShardStreams
    <3>. QED
      BY <1>2, <3>1, <3>2
  <2>4. hpc'[c] # "over" => conn'[c].down = <<>>
    BY <2>1 DEF ShardStreams
  <2>5. Awaits(c)' => conn'[c].down \in {<<>>, Shard(s)'}
    <3>1. Awaits(c) => conn[c].down \in {<<>>, Shard(s)}
      BY <1>1, <2>1 DEF ShardStreams, Awaits
    <3>. QED
      BY <1>2, <3>1
  <2>6. Shard(Client(c))' = Shard(p)' /\ Shard(Server(c))' = Shard(s)'
    <3>1. Client(c) = p /\ Server(c) = s
      BY <1>1
    <3>. QED
      BY <3>1
  <2>. QED
    BY <2>2, <2>3, <2>4, <2>5, <2>6 DEF ShardStreams, Awaits
<1>5. TopStream(c)'
  BY <1>1, <1>2 DEF StreamInv, TopStream
<1>. QED
  BY <1>3, <1>4, <1>5 DEF StreamInv

LEMMA StreamMoves ==
  ASSUME NEW n \in Nodes, SameSession, OthersStay(n), OpenSame, hpc' = hpc, root' = root,
         NEW c \in Conns, StreamInv(c), conn'[c].up = conn[c].up, conn'[c].down = conn[c].down,
         pc'[n] \in {"id", "recvShard"} => (kind'[n] = kind[n] /\ peer'[n] = peer[n] /\ c # Me(n))
  PROVE  StreamInv(c)'
<1>1. conn'[c].state = "open" <=> conn[c].state = "open"
  BY DEF OpenSame
<1>2. (Unsent(c)' => Unsent(c)) /\ (Awaits(c)' => Awaits(c))
  <2>1. CASE pc'[n] \notin {"id", "recvShard"}
    BY <1>1, <2>1, UnsentKept
  <2>2. CASE pc'[n] \in {"id", "recvShard"}
    <3>1. PICK p : p = Client(c)
      OBVIOUS
    <3>2. p \in Nodes /\ Client(c)' = p
      BY <3>1, ConnsAre, Sizes DEF Client
    <3>3. p # n => pc'[p] = pc[p] /\ Me(p)' = Me(p)
      BY <3>2 DEF OthersStay, Me
    <3>4. p = n => Me(p)' # c
      BY <2>2 DEF Me
    <3>5. Me(Client(c))' = Me(p)'
      BY <3>1 DEF Me, Client
    <3>. QED
      BY <1>1, <3>1, <3>2, <3>3, <3>4, <3>5 DEF Unsent, Awaits
  <2>. QED
    BY <2>1, <2>2
<1>. QED
  BY <1>2, StreamKept

LEMMA SignedSame ==
  ASSUME SameSession, NEW p \in Signers, OthersStay(p), pc[p] \notin Serving, PlayerAt(p), PlayerAt(p)',
         Stays(p) \/ Presigns(p) \/ Hears(p) \/ Starts(p) \/ Continues(p), t \in 1..MAX_T
  PROVE  \A q \in Signers : Signed(q)' <=> Signed(q)
<1>1. \A q \in Signers : q # p => (Signed(q)' <=> Signed(q))
  BY SignersAre DEF Signed, OthersStay
<1>2. CASE Stays(p)
  BY <1>1, <1>2 DEF Signed, Stays, PlayerAt, Calling, Serving
<1>3. CASE Presigns(p)
  BY <1>1, <1>3 DEF Signed, Presigns, Calling
<1>4. CASE Hears(p) \/ Starts(p) \/ Continues(p)
  <2>1. Signed(p)
    BY <1>4 DEF Signed, Hears, Starts, Continues, Calling
  <2>2. kind'[p] \in {"exch", "final"}
    BY <1>4 DEF Hears, Starts, Continues, Calls
  <2>. QED
    BY <1>1, <2>1, <2>2 DEF Signed
<1>. QED
  BY <1>2, <1>3, <1>4

LEMMA ShardKept ==
  ASSUME SameSession, ShardInv, shard' = shard, \A q \in Signers : Signed(q)' => Signed(q),
         kind'[TTP] = "final" => kind[TTP] = "final"
  PROVE  ShardInv'
  BY LayoutSame DEF ShardInv

LEMMA DataKept ==
  ASSUME DataOK, StreamsOK', UNCHANGED <<sm, smlen, mem, buf, reg, root, shard>>
  PROVE  DataOK'
  BY DEF DataOK, StreamsOK

\* A root is right when its handler is over, and it is when its listener is closed.
LEMMA RootRightWhen ==
  ASSUME Undisturbed, t \in 1..MAX_T, PlacesInv, StreamsInv,
         NEW q \in Nodes, q \in Signers => q # 0, q = TTP \/ q \in Signers,
         kind[q] = "root", pc[q] = "sign"
  PROVE  root[q] = Start(q)
<1>1. RootInv(q) /\ RootDone(q)
  BY SignersAre DEF Undisturbed, RootDone
<1>2. PICK p, c : p = Below(q) /\ c = <<p, "root", q>>
  OBVIOUS
<1>3. p \in Signers /\ q # p /\ q \in Parties
  BY <1>2, SignersAre, Sizes DEF Below
<1>4. c \in Conns /\ Server(c) = q /\ Phase(c) = "root"
  BY <1>2, <1>3, SignersAre, ConnsAre, ConnParts
<1>5. conn[c].state = "open"
  BY <1>1, <1>2 DEF RootInv, State
<1>6. hpc[c] = "over"
  BY <1>4, <1>5 DEF PlacesInv, ConnInv
<1>. QED
  BY <1>4, <1>6 DEF StreamsInv, RootStream

LEMMA LayersRight ==
  ASSUME t \in 1..MAX_T, NEW p \in Signers, p # 0 => root[p] = Start(p)
  PROVE  Layers(p) = Shard(p)
<1>1. p # TTP
  BY SignersAre
<1>2. p = 0 \/ root[p] = <<"root", Place(p)>>
  BY <1>1 DEF Start
<1>. QED
  BY <1>2 DEF Layers, Shard

LEMMA MemKept ==
  ASSUME DataOK, NEW p, NEW x, NEW y, mem' = [mem EXCEPT ![p] = Written(p, x, y)]
  PROVE  DOMAIN mem' = Players /\ \A q \in Players : DOMAIN mem'[q] = 0..(SPX_D - 1)
<1>1. DOMAIN Written(p, x, y) = 0..(SPX_D - 1)
  BY DEF Written
<1>. QED
  BY <1>1 DEF DataOK

\* Messages of which nothing is said here.
LEMMA PresignStreams ==
  ASSUME Undisturbed, t \in 1..MAX_T, last \in {TTP, Stale}, NEW p \in Signers,
         Dial(p) \/ GiveUp(p) \/ SendShare(p) \/ RecvR(p) \/ RecvSeed(p), DataOK, StreamsInv
  PROVE  StreamsInv' /\ DataOK'
<1>1. CallMove(p) /\ p \in Nodes /\ TypeOK /\ pc[p] # "sign"
  BY CallMoves, CallerFacts DEF Call, Dial, GiveUp, SendShare, RecvR, RecvSeed, HasId
<1>2. Me(p) \in Conns /\ Phase(Me(p)) = kind[p]
  BY <1>1, CallerFacts DEF CallMove
<1>3. root' = root /\ UNCHANGED <<sm, smlen, mem, buf, reg, root, shard>>
  BY DEF Dial, GiveUp, SendShare, RecvR, RecvSeed, signing, message, handlerVars
<1>4. StreamsOK
  BY DEF DataOK, StreamsOK
<1>5. CASE Dial(p) \/ GiveUp(p)
  <2>1. \A c \in Conns : conn'[c].up = conn[c].up /\ conn'[c].down = conn[c].down
    <3>1. CASE Dial(p)
      <4>1. conn' = [conn EXCEPT ![Me(p)] = [conn[Me(p)] EXCEPT !.state = "waiting"]]
        BY <3>1 DEF Dial, Connect
      <4>2. \A y \in {conn[Me(p)]} : /\ [y EXCEPT !.state = "waiting"].up = y.up
                                    /\ [y EXCEPT !.state = "waiting"].down = y.down
        BY <1>1, <1>2 DEF TypeOK
      <4>. QED
        BY <1>1, <4>1, <4>2 DEF TypeOK
    <3>2. CASE GiveUp(p)
      BY <3>2 DEF GiveUp, netVars
    <3>. QED
      BY <1>5, <3>1, <3>2
  <2>2. StreamsOK'
    BY <1>4, <2>1 DEF StreamsOK
  <2>3. ASSUME NEW c \in Conns PROVE StreamInv(c)'
    <3>1. StreamInv(c)
      BY DEF StreamsInv, StreamInv
    <3>2. (Unsent(c)' => Unsent(c)) /\ (Awaits(c)' => Awaits(c))
      <4>1. conn'[c].state = "open" <=> conn[c].state = "open"
        BY <1>1 DEF CallMove, OpenSame
      <4>2. kind'[p] = kind[p] /\ peer'[p] = peer[p] /\ pc'[p] \in {"id", "exited"}
        BY <1>1, <1>5, GoesOn DEF Dial, GiveUp
      <4>3. Awaits(c)' => Awaits(c)
        BY <1>1, <4>1, <4>2, UnsentKept DEF CallMove
      <4>4. CASE GiveUp(p)
        <5>1. pc'[p] = "exited"
          BY <1>1, <4>4, GoesOn DEF GiveUp
        <5>. QED
          BY <1>1, <4>1, <4>3, <5>1, UnsentKept DEF CallMove
      <4>5. CASE Dial(p)
        <5>1. conn'[Me(p)].state = "waiting"
          <6>1. conn' = [conn EXCEPT ![Me(p)] = [conn[Me(p)] EXCEPT !.state = "waiting"]]
            BY <4>5 DEF Dial, Connect
          <6>. QED
            BY <1>1, <1>2, <6>1, StateSet
        <5>2. CASE c = Me(p)
          BY <4>1, <4>3, <5>1, <5>2 DEF Unsent
        <5>3. CASE c # Me(p)
          <6>1. PICK r : r = Client(c)
            OBVIOUS
          <6>2. r \in Nodes /\ Client(c)' = r
            BY <6>1, ConnsAre, Sizes DEF Client
          <6>3. r # p => pc'[r] = pc[r] /\ Me(r)' = Me(r)
            BY <1>1, <6>2 DEF CallMove, OthersStay, Me
          <6>4. r = p => Me(r)' # c
            BY <4>2, <5>3 DEF Me
          <6>5. Me(Client(c))' = Me(r)'
            BY <6>1 DEF Me, Client
          <6>. QED
            BY <4>1, <4>3, <6>1, <6>2, <6>3, <6>4, <6>5 DEF Unsent
        <5>. QED
          BY <5>2, <5>3
      <4>. QED
        BY <1>5, <4>4, <4>5
    <3>. QED
      BY <1>1, <1>3, <2>1, <3>1, <3>2, StreamKept DEF CallMove
  <2>. QED
    BY <1>3, <2>2, <2>3, DataKept DEF StreamsInv, StreamInv
<1>6. CASE SendShare(p) \/ RecvR(p) \/ RecvSeed(p)
  <2>1. kind[p] = "presign" /\ pc'[p] \notin {"id", "recvShard"}
    <3>1. PlayerAt(p)
      BY CallerFacts
    <3>2. kind[p] = "presign"
      BY <1>6, <3>1 DEF SendShare, RecvR, RecvSeed, HasId, PlayerAt, Serving, Calling
    <3>3. CASE SendShare(p) \/ RecvR(p)
      BY <1>1, <3>2, <3>3, GoesOn DEF SendShare, RecvR
    <3>4. CASE RecvSeed(p)
      <4>1. PICK x \in {"sign", "listen"} : Go(p, x, "root", p)
        BY <3>2, <3>4 DEF RecvSeed, AfterCall
      <4>. QED
        BY <1>1, <3>2, <4>1, Goes
    <3>. QED
      BY <1>6, <3>2, <3>3, <3>4
  <2>2. StreamsOnly(Me(p)) /\ StreamsOK'
    <3>1. <<<<"share", p>>>> \in Seq(Units)
      BY CallerFacts DEF Units
    <3>2. CASE SendShare(p)
      BY <1>1, <1>2, <3>1, <3>2, PutUp DEF SendShare
    <3>3. CASE RecvR(p) \/ RecvSeed(p)
      BY <1>1, <1>2, <3>3, TakeDown DEF RecvR, RecvSeed
    <3>. QED
      BY <1>6, <3>2, <3>3
  <2>3. ASSUME NEW c \in Conns PROVE StreamInv(c)'
    <3>1. CASE c = Me(p)
      <4>1. Phase(c) = "presign"
        BY <1>2, <2>1, <3>1
      <4>. QED
        BY <4>1 DEF StreamInv, RootStream, ShardStreams, TopStream, Phase
    <3>2. CASE c # Me(p)
      BY <1>1, <1>3, <2>1, <2>2, <3>2, StreamMoves DEF CallMove, StreamsOnly, StreamsInv, StreamInv
    <3>. QED
      BY <3>1, <3>2
  <2>. QED
    BY <1>3, <2>2, <2>3, DataKept DEF StreamsInv, StreamInv
<1>. QED
  BY <1>5, <1>6

LEMMA SignStreams ==
  ASSUME Undisturbed, t \in 1..MAX_T, last \in {TTP, Stale}, NEW p \in Signers, Sign(p),
         DataOK, PlacesInv, StreamsInv, ShardInv
  PROVE  /\ StreamsInv' /\ DataOK' /\ ShardInv' /\ Layers(p) = Shard(p)
         /\ kind[p] = "root" /\ pc[p] = "sign" /\ kind'[p] = "root" /\ pc'[p] = "connect"
<1>1. CallMove(p) /\ p \in Nodes /\ TypeOK /\ PlayerAt(p) /\ p \in Players /\ TTP \in Nodes /\ p # TTP
  BY CallMoves, CallerFacts, SignersAre DEF Call
<1>2. /\ pc[p] = "sign" /\ Go(p, "connect", "root", NextSigner(p)) /\ conn' = conn
      /\ shard' = [shard EXCEPT ![p] = Layers(p)]
      /\ mem' = [mem EXCEPT ![p] = Written(p, sm[p] + Place(p), Layers(p))]
      /\ smlen' = [smlen EXCEPT ![p] = smlen[p] + Levels(p)]
      /\ sm' = sm /\ root' = root /\ buf' = buf /\ reg' = reg
  BY DEF Sign, netVars, handlerVars
<1>3. pc'[p] = "connect" /\ kind'[p] = "root" /\ kind[p] = "root"
  BY <1>1, <1>2, Goes DEF PlayerAt, Serving, Calling
<1>4. Layers(p) = Shard(p)
  <2>1. p # 0 => root[p] = Start(p)
    BY <1>1, <1>2, <1>3, RootRightWhen
  <2>. QED
    BY <2>1, LayersRight
<1>5. DataOK'
  <2>1. shard' \in [Nodes -> Seq(Units)]
    BY <1>1, <1>2, <1>4, ShardIs DEF DataOK
  <2>2. DOMAIN mem' = Players /\ \A q \in Players : DOMAIN mem'[q] = 0..(SPX_D - 1)
    BY <1>2, MemKept
  <2>3. DOMAIN smlen' = Players /\ DOMAIN sm' = Players
    BY <1>2 DEF DataOK
  <2>. QED
    BY <1>2, <2>1, <2>2, <2>3 DEF DataOK
<1>6. ASSUME NEW c \in Conns PROVE StreamInv(c)'
  BY <1>1, <1>2, <1>3, StreamMoves DEF CallMove, StreamsInv, StreamInv
<1>7. ShardInv'
  <2>1. /\ shard'[p] = Shard(p) /\ shard'[TTP] = shard[TTP]
        /\ \A q \in Signers : q # p => shard'[q] = shard[q] /\ (Signed(q)' => Signed(q))
        /\ kind'[TTP] = kind[TTP]
    BY <1>1, <1>2, <1>4, SignersAre DEF DataOK, CallMove, OthersStay, Signed
  <2>. QED
    BY <1>1, <2>1, LayoutSame DEF ShardInv, CallMove
<1>. QED
  BY <1>2, <1>3, <1>4, <1>5, <1>6, <1>7 DEF StreamsInv, StreamInv

LEMMA SendRootStreams ==
  ASSUME Undisturbed, Undisturbed', t \in 1..MAX_T, last \in {TTP, Stale}, NEW p \in Signers, SendRoot(p),
         DataOK, StreamsInv
  PROVE  StreamsInv' /\ DataOK' /\ kind[p] = "root" /\ pc[p] = "id"
<1>1. CallMove(p) /\ p \in Nodes /\ TypeOK /\ pc[p] = "id" /\ kind[p] = "root" /\ root' = root /\ hpc' = hpc
  BY CallMoves, CallerFacts DEF Call, CallMove, SendRoot, HasId, signing
<1>2. PICK c : c = Me(p)
  OBVIOUS
<1>3. c \in Conns /\ Phase(c) = "root" /\ Client(c) = p
  BY <1>1, <1>2, CallerFacts, ConnParts DEF Serving, Me
<1>4. PICK u : u = <<"root", Place(p) + Levels(p)>>
  OBVIOUS
<1>5. u \in Units /\ <<u>> \in Seq(Units)
  BY <1>4, LayoutIs DEF Units
<1>6. StreamsOnly(c) /\ conn'[c].up = conn[c].up \o <<u>> /\ StreamsOK'
  BY <1>1, <1>2, <1>3, <1>4, <1>5, PutUp DEF SendRoot
<1>7. pc'[p] \notin {"id", "recvShard"}
  <2>1. CASE p = 0
    <3>1. Exchange(p, 1)
      BY <1>1, <2>1 DEF SendRoot, AfterCall
    <3>. QED
      BY <1>1, <3>1, GoesToExchange DEF Calls
  <2>2. CASE p # 0
    <3>1. Go(p, "listen", "exch", p)
      BY <1>1, <2>2 DEF SendRoot, AfterCall
    <3>. QED
      BY <1>1, <3>1, Goes
  <2>. QED
    BY <2>1, <2>2
<1>8. ASSUME NEW d \in Conns PROVE StreamInv(d)'
  <2>1. CASE d # c
    BY <1>1, <1>6, <1>7, <2>1, StreamMoves DEF CallMove, StreamsOnly, StreamsInv, StreamInv
  <2>2. CASE d = c
    <3>1. RootStream(c)
      BY <1>3 DEF StreamsInv
    <3>2. conn[c].up \in Seq(Units)
      BY <1>3 DEF DataOK
    <3>3. \A j \in DOMAIN conn'[c].up : conn'[c].up[j] = u
      <4>1. \A j \in DOMAIN conn[c].up : conn[c].up[j] = u
        BY <1>3, <1>4, <3>1 DEF RootStream
      <4>2. PICK s : s = conn[c].up
        OBVIOUS
      <4>3. \A j \in DOMAIN (s \o <<u>>) : (s \o <<u>>)[j] = u
        BY <3>2, <4>1, <4>2
      <4>. QED
        BY <1>6, <4>2, <4>3
    <3>4. hpc'[c] = "over" => root'[Server(c)] = Start(Server(c))
      BY <1>1, <1>3, <3>1 DEF RootStream
    <3>5. SameSession
      BY <1>1 DEF CallMove
    <3>6. Client(c)' = p /\ Phase(c)' = "root" /\ Server(c)' = Server(c)
      BY <1>3 DEF Client, Phase, Server
    <3>7. u = <<"root", Place(p)' + Levels(p)'>> /\ \A q : Start(q)' = Start(q)
      BY <1>4, <3>5, LayoutSame
    <3>8. RootStream(c)'
      <4>1. \A q : q = p => Place(q)' = Place(p)' /\ Levels(q)' = Levels(p)'
        OBVIOUS
      <4>2. root'[Server(c)] = Start(Server(c)) => root'[Server(c)] = Start(Server(c))'
        BY <3>7 
      <4>. QED
        BY <1>3, <3>3, <3>4, <3>7, <4>1, <4>2 DEF RootStream
    <3>. QED
      BY <1>3, <2>2, <3>8 DEF StreamInv, ShardStreams, TopStream, Phase
  <2>. QED
    BY <2>1, <2>2
<1>9. DataOK'
  BY <1>6, DataKept DEF SendRoot, handlerVars, message, signing
<1>. QED
  BY <1>1, <1>8, <1>9 DEF StreamsInv, StreamInv

LEMMA SendShardStreams ==
  ASSUME Undisturbed, t \in 1..MAX_T, last \in {TTP, Stale}, NEW p \in Signers, SendShard(p),
         DataOK, StreamsInv, ShardInv
  PROVE  StreamsInv' /\ DataOK'
<1>1. /\ CallMove(p) /\ p \in Nodes /\ TypeOK /\ pc[p] = "id" /\ kind[p] = "exch" /\ root' = root /\ hpc' = hpc
      /\ Step(p, "recvShard") /\ conn[Me(p)].state = "open"
  BY CallMoves, CallerFacts DEF Call, CallMove, SendShard, HasId, signing
<1>2. PICK c : c = Me(p)
  OBVIOUS
<1>3. c \in Conns /\ Phase(c) = "exch" /\ Client(c) = p
  BY <1>1, <1>2, CallerFacts, ConnParts DEF Serving, Me
<1>4. shard[p] = Shard(p) /\ shard[p] \in Seq(Units)
  BY <1>1 DEF ShardInv, Signed, DataOK
<1>5. StreamsOnly(c) /\ conn'[c].up = conn[c].up \o Shard(p) /\ conn'[c].down = conn[c].down /\ StreamsOK'
  BY <1>1, <1>2, <1>3, <1>4, PutUp DEF SendShard
<1>6. pc'[p] = "recvShard" /\ kind'[p] = kind[p] /\ peer'[p] = peer[p]
  BY <1>1, GoesOn
<1>7. ASSUME NEW d \in Conns PROVE StreamInv(d)'
  <2>1. CASE d # c
    BY <1>1, <1>2, <1>5, <1>6, <2>1, StreamMoves DEF CallMove, StreamsOnly, StreamsInv, StreamInv
  <2>2. CASE d = c
    <3>1. ShardStreams(c) /\ Unsent(c)
      BY <1>1, <1>2, <1>3 DEF StreamsInv, Unsent
    <3>2. conn[c].up = <<>> /\ hpc[c] \in {"none", "recvShard"} /\ conn[c].down = <<>>
      BY <1>3, <3>1 DEF ShardStreams
    <3>3. conn'[c].up = Shard(p) /\ conn'[c].down = <<>>
      <4>1. Shard(p) \in Seq(Units)
        BY ShardIs
      <4>. QED
        BY <1>5, <3>2, <4>1, ConcatEmptySeq
    <3>4. ~Unsent(c)'
      <4>1. conn'[c].state = "open"
        BY <1>1, <1>2, <1>3, <1>5 DEF StreamsOnly
      <4>2. Client(c)' = p
        BY <1>3 DEF Client
      <4>. QED
        BY <1>6, <4>1, <4>2 DEF Unsent
    <3>5. Shard(Client(c))' = Shard(p)
      <4>1. Shard(p)' = Shard(p)
        BY <1>1, LayoutSame DEF CallMove
      <4>. QED
        BY <1>3, <4>1
    <3>6. ShardStreams(c)'
      BY <3>3, <3>4, <3>5 DEF ShardStreams
    <3>. QED
      BY <1>3, <2>2, <3>6 DEF StreamInv, RootStream, TopStream, Phase
  <2>. QED
    BY <2>1, <2>2
<1>8. DataOK'
  BY <1>5, DataKept DEF SendShard, handlerVars, message, signing
<1>. QED
  BY <1>7, <1>8 DEF StreamsInv, StreamInv

\* What is received of another's shard.
LEMMA RecvShardStreams ==
  ASSUME Undisturbed, t \in 1..MAX_T, last \in {TTP, Stale}, NEW p \in Signers,
         RecvShard(p), DataOK, StreamsInv
  PROVE  /\ StreamsInv' /\ DataOK' /\ kind[p] = "exch" /\ pc[p] = "recvShard"
         /\ peer[p] \in Signers /\ p < peer[p] /\ Calls(p, peer[p] + 1)
         /\ \E got, rest :
                /\ \E s \in {<<>>, Shard(peer[p])} : Received(s, got, rest)
                /\ mem' = [mem EXCEPT ![p] = Written(p, sm[p] + Place(peer[p]), got)]
                /\ smlen' = [smlen EXCEPT ![p] = smlen[p] + Len(got)]
                /\ Short(p, peer[p], got)
<1>1. /\ CallMove(p) /\ p \in Nodes /\ TypeOK /\ pc[p] = "recvShard" /\ root' = root /\ hpc' = hpc
      /\ PlayerAt(p) /\ AfterCall(p) /\ sm' = sm /\ shard' = shard /\ buf' = buf /\ reg' = reg
  BY CallMoves, CallerFacts DEF Call, CallMove, RecvShard, signing, handlerVars
<1>2. kind[p] = "exch" /\ peer[p] \in Signers /\ p < peer[p]
  BY <1>1 DEF PlayerAt, Serving, Calling
<1>3. Calls(p, peer[p] + 1)
  <2>1. Exchange(p, peer[p] + 1)
    BY <1>1, <1>2 DEF AfterCall
  <2>. QED
    BY <1>1, <2>1, GoesToExchange
<1>4. PICK c : c = Me(p)
  OBVIOUS
<1>5. c \in Conns /\ Phase(c) = "exch" /\ Client(c) = p /\ Server(c) = peer[p]
  BY <1>1, <1>2, <1>4, CallerFacts, ConnParts DEF Serving, Me
<1>6. PICK got \in Receivable(c, "down", BUFFER_SIZE) :
          /\ Take(c, "down", got)
          /\ mem' = [mem EXCEPT ![p] = Written(p, sm[p] + Place(peer[p]), got)]
          /\ smlen' = [smlen EXCEPT ![p] = smlen[p] + Len(got)]
          /\ Short(p, peer[p], got)
  BY <1>4 DEF RecvShard, PlaceOf
<1>7. BUFFER_SIZE \in Nat
  BY NetSignAssumption
<1>8. StreamsOnly(c) /\ Received(conn[c].down, got, conn'[c].down) /\ conn'[c].up = conn[c].up /\ StreamsOK'
  BY <1>1, <1>5, <1>6, <1>7, TakeDown
<1>9. ShardStreams(c)
  BY <1>5 DEF StreamsInv
<1>10. conn[c].down \in {<<>>, Shard(peer[p])} /\ hpc[c] = "over"
  <2>1. conn[c].down # <<>>
    BY <1>8 DEF Received
  <2>. QED
    BY <1>1, <1>4, <1>5, <1>9, <2>1 DEF ShardStreams
<1>11. pc'[p] = "connect"
  BY <1>3 DEF Calls
<1>12. ASSUME NEW d \in Conns PROVE StreamInv(d)'
  <2>1. CASE d # c
    BY <1>1, <1>8, <1>11, <2>1, StreamMoves DEF CallMove, StreamsOnly, StreamsInv, StreamInv
  <2>2. CASE d = c
    <3>1. ~Unsent(c)
      BY <1>5, <1>9, <1>10 DEF ShardStreams
    <3>2. (Unsent(c)' => Unsent(c)) /\ ~Awaits(c)'
      <4>1. conn'[c].state = "open" <=> conn[c].state = "open"
        BY <1>5, <1>8 DEF StreamsOnly
      <4>2. Client(c)' = p
        BY <1>5 DEF Client
      <4>. QED
        BY <1>1, <1>5, <1>11, <4>1, <4>2, UnsentKept DEF CallMove, Awaits
    <3>3. hpc'[c] = "over"
      BY <1>1, <1>10
    <3>4. ShardStreams(c)'
      BY <3>1, <3>2, <3>3 DEF ShardStreams, Awaits
    <3>. QED
      BY <1>5, <2>2, <3>4 DEF StreamInv, RootStream, TopStream, Phase
  <2>. QED
    BY <2>1, <2>2
<1>13. DataOK'
  <2>1. DOMAIN mem' = Players /\ \A q \in Players : DOMAIN mem'[q] = 0..(SPX_D - 1)
    BY <1>6, MemKept
  <2>2. DOMAIN smlen' = Players
    BY <1>6 DEF DataOK
  <2>. QED
    BY <1>1, <1>8, <2>1, <2>2 DEF DataOK, StreamsOK
<1>. QED
  BY <1>1, <1>2, <1>3, <1>6, <1>8, <1>10, <1>12, <1>13 DEF StreamsInv, StreamInv

LEMMA RecvTopStreams ==
  ASSUME Undisturbed, t \in 1..MAX_T, last \in {TTP, Stale}, NEW p \in Signers,
         RecvTop(p), DataOK, StreamsInv
  PROVE  /\ StreamsInv' /\ DataOK' /\ kind[p] = "final" /\ pc[p] = "id"
         /\ kind'[p] = "final" /\ pc'[p] = "done"
         /\ \E got : /\ Len(got) >= 1 /\ got[1] = Top /\ DOMAIN got = 1..Len(got) /\ Len(got) \in Nat
                     /\ mem' = [mem EXCEPT ![p] = Written(p, sm[p] + SPX_D - 1, got)]
         /\ sm' = [sm EXCEPT ![p] = sm[p] + (SPX_D - 1) - smlen[p]]
<1>1. /\ CallMove(p) /\ p \in Nodes /\ TypeOK /\ pc[p] = "id" /\ kind[p] = "final" /\ root' = root /\ hpc' = hpc
      /\ PlayerAt(p) /\ AfterCall(p) /\ smlen' = smlen /\ shard' = shard /\ buf' = buf /\ reg' = reg
      /\ sm' = [sm EXCEPT ![p] = sm[p] + (SPX_D - 1) - smlen[p]]
  BY CallMoves, CallerFacts DEF Call, CallMove, RecvTop, HasId, signing, handlerVars
<1>2. kind'[p] = "final" /\ pc'[p] = "done"
  <2>1. Step(p, "done")
    BY <1>1 DEF AfterCall
  <2>. QED
    BY <1>1, <2>1, GoesOn
<1>3. PICK c : c = Me(p)
  OBVIOUS
<1>4. c \in Conns /\ Phase(c) = "final"
  BY <1>1, <1>3, CallerFacts DEF Serving
<1>5. PICK got \in Receivable(c, "down", BUFFER_SIZE) :
          /\ Take(c, "down", got)
          /\ mem' = [mem EXCEPT ![p] = Written(p, sm[p] + SPX_D - 1, got)]
  BY <1>3 DEF RecvTop
<1>6. BUFFER_SIZE \in Nat
  BY NetSignAssumption
<1>7. StreamsOnly(c) /\ Received(conn[c].down, got, conn'[c].down) /\ conn'[c].up = conn[c].up /\ StreamsOK'
  BY <1>1, <1>4, <1>5, <1>6, TakeDown
<1>8. TopStream(c)
  BY <1>4 DEF StreamsInv
<1>9. Len(got) >= 1 /\ Len(got) \in Nat /\ DOMAIN got = 1..Len(got) /\ got[1] = Top
  <2>1. /\ got \in Seq(Units) /\ conn[c].down \in Seq(Units) /\ Len(got) \in 1..Len(conn[c].down)
        /\ \A j \in 1..Len(got) : got[j] = conn[c].down[j]
    BY <1>7 DEF Received
  <2>2. Len(got) \in Nat /\ DOMAIN got = 1..Len(got) /\ Len(conn[c].down) \in Nat
        /\ DOMAIN conn[c].down = 1..Len(conn[c].down)
    BY <2>1, LenProperties
  <2>3. 1 \in 1..Len(got) /\ 1 \in DOMAIN conn[c].down
    BY <2>1, <2>2
  <2>. QED
    BY <1>4, <1>8, <2>1, <2>2, <2>3 DEF TopStream
<1>10. ASSUME NEW d \in Conns PROVE StreamInv(d)'
  <2>1. CASE d # c
    BY <1>1, <1>2, <1>7, <2>1, StreamMoves DEF CallMove, StreamsOnly, StreamsInv, StreamInv
  <2>2. CASE d = c
    <3>1. \A j \in DOMAIN conn'[c].down : conn'[c].down[j] = Top
      BY <1>4, <1>7, <1>8 DEF Received, TopStream
    <3>2. Top' = Top
      BY DEF Top
    <3>. QED
      BY <1>4, <2>2, <3>1, <3>2 DEF StreamInv, RootStream, ShardStreams, TopStream, Phase
  <2>. QED
    BY <2>1, <2>2
<1>11. DataOK'
  <2>1. DOMAIN mem' = Players /\ \A q \in Players : DOMAIN mem'[q] = 0..(SPX_D - 1)
    BY <1>5, MemKept
  <2>2. DOMAIN sm' = Players
    BY <1>1 DEF DataOK
  <2>. QED
    BY <1>1, <1>7, <2>1, <2>2 DEF DataOK, StreamsOK
<1>. QED
  BY <1>1, <1>2, <1>5, <1>9, <1>10, <1>11 DEF StreamsInv, StreamInv

LEMMA ListenStreams ==
  ASSUME Undisturbed, t \in 1..MAX_T, NEW n \in Nodes, Listen(n), DataOK, StreamsInv, ShardInv
  PROVE  StreamsInv' /\ DataOK' /\ ShardInv' /\ \A q \in Signers : Signed(q)' <=> Signed(q)
<1>1. /\ pc[n] = "listen" /\ pc' = [pc EXCEPT ![n] = "accept"] /\ kind' = kind /\ peer' = peer
      /\ toAccept' = [toAccept EXCEPT ![n] = Expected(n)] /\ hpc' = hpc /\ conn' = conn /\ SameSession
      /\ UNCHANGED <<sm, smlen, mem, buf, reg, root, shard>>
  BY DEF Listen, OpenListener, params, handlerVars, SameSession, message, signing
<1>2. pc'[n] = "accept" /\ OthersStay(n) /\ OpenSame
  BY <1>1 DEF Undisturbed, TypeOK, OthersStay, OpenSame
<1>3. \A c \in Conns : StreamInv(c)'
  BY <1>1, <1>2, StreamMoves DEF StreamsInv, StreamInv
<1>4. StreamsOK'
  BY <1>1 DEF DataOK, StreamsOK
<1>5. \A q \in Signers : Signed(q)' <=> Signed(q)
  BY <1>1, <1>2, SignersAre DEF Signed, OthersStay, Calling
<1>6. ShardInv'
  BY <1>1, <1>5, ShardKept
<1>. QED
  BY <1>1, <1>3, <1>4, <1>5, <1>6, DataKept DEF StreamsInv, StreamInv

LEMMA AcceptStreams ==
  ASSUME Undisturbed, t \in 1..MAX_T, NEW n \in Nodes, NEW c \in Conns, Accept(n), Accepted(n, c),
         DataOK, PlacesInv, StreamsInv, ShardInv
  PROVE  StreamsInv' /\ DataOK' /\ ShardInv' /\ \A q \in Signers : Signed(q)' <=> Signed(q)
<1>1. /\ pc[n] = "accept" /\ conn[c].state = "waiting" /\ conn'[c].state = "open" /\ Client(c) \in Signers
      /\ \A d \in Conns : d # c => conn'[d].state = conn[d].state /\ hpc'[d] = hpc[d]
      /\ \A d \in Conns : conn'[d].up = conn[d].up /\ conn'[d].down = conn[d].down
      /\ hpc'[c] = FirstStep[Phase(c)] /\ pc'[n] \in {"accept", "destroy"}
      /\ OthersStay(n) /\ kind' = kind /\ peer' = peer /\ SameSession
  BY DEF Accepted
<1>2. UNCHANGED <<sm, smlen, mem, buf, reg, root, shard>>
  BY DEF Accept, message, signing
<1>3. ASSUME NEW d \in Conns PROVE StreamInv(d)'
  <2>1. StreamInv(d) /\ conn'[d].up = conn[d].up /\ conn'[d].down = conn[d].down
    BY <1>1 DEF StreamsInv, StreamInv
  <2>2. CASE d # c
    <3>1. (Unsent(d)' => Unsent(d)) /\ (Awaits(d)' => Awaits(d))
      BY <1>1, <2>2, UnsentKept
    <3>. QED
      BY <1>1, <1>2, <2>1, <2>2, <3>1, StreamKept
  <2>3. CASE d = c
    <3>1. Unsent(c)
      BY <1>1 DEF Unsent
    <3>2. Awaits(c)' => Awaits(c)
      <4>1. PICK p : p = Client(c)
        OBVIOUS
      <4>2. p \in Nodes /\ Client(c)' = p
        BY <4>1, ConnsAre, Sizes DEF Client
      <4>3. p # n => pc'[p] = pc[p] /\ Me(p)' = Me(p)
        BY <1>1, <4>2 DEF OthersStay, Me
      <4>4. Me(Client(c))' = Me(p)'
        BY <4>1 DEF Me, Client
      <4>. QED
        BY <1>1, <4>1, <4>2, <4>3, <4>4 DEF Awaits
    <3>3. hpc[c] = "none"
      BY <1>1 DEF PlacesInv, ConnInv
    <3>4. Phase(c) = "exch" => hpc'[c] = "recvShard"
      BY <1>1 DEF FirstStep
    <3>5. Phase(c) = "root" => hpc'[c] # "over"
      BY <1>1 DEF FirstStep
    <3>. QED
      BY <1>1, <1>2, <2>1, <2>3, <3>1, <3>2, <3>3, <3>4, <3>5, StreamKept
  <2>. QED
    BY <2>2, <2>3
<1>4. StreamsOK'
  BY <1>1 DEF DataOK, StreamsOK
<1>5. \A q \in Signers : Signed(q)' <=> Signed(q)
  BY <1>1, SignersAre DEF Signed, OthersStay, Calling
<1>6. ShardInv'
  BY <1>1, <1>2, <1>5, ShardKept
<1>. QED
  BY <1>2, <1>3, <1>4, <1>5, <1>6, DataKept DEF StreamsInv, StreamInv

LEMMA CloseStreams ==
  ASSUME Undisturbed, t \in 1..MAX_T, NEW n \in Nodes, Close(n), Closed(n), AfterServing(n),
         DataOK, StreamsInv, ShardInv
  PROVE  StreamsInv' /\ DataOK' /\ ShardInv' /\ \A q \in Signers : Signed(q)' <=> Signed(q)
<1>1. UNCHANGED <<sm, smlen, mem, buf, reg, root, shard>>
  BY DEF Close, message, signing, handlerVars
<1>2. pc[n] = "destroy" /\ hpc' = hpc /\ SameSession /\ \A c \in Conns : conn'[c] = conn[c]
  BY DEF Closed
<1>3. /\ OthersStay(n) /\ OpenSame
      /\ \/ n \in Signers /\ kind[n] = "root" /\ kind'[n] = "root" /\ pc'[n] = "sign"
         \/ n \in Signers /\ kind[n] = "exch" /\ Calls(n, n + 1)
         \/ n = TTP /\ kind[n] \in {"presign", "root"} /\ kind'[n] = "root" /\ pc'[n] \in {"listen", "sign"}
         \/ n = TTP /\ kind[n] = "final" /\ kind'[n] = "final" /\ pc'[n] = "done"
  BY AfterClose
<1>4. pc'[n] \notin {"id", "recvShard"}
  BY <1>3 DEF Calls
<1>5. \A c \in Conns : StreamInv(c)'
  BY <1>1, <1>2, <1>3, <1>4, StreamMoves DEF StreamsInv, StreamInv
<1>6. StreamsOK'
  BY <1>2 DEF DataOK, StreamsOK
<1>7. \A q \in Signers : Signed(q)' <=> Signed(q)
  <2>1. \A q \in Signers : q # n => (Signed(q)' <=> Signed(q))
    BY <1>3, SignersAre DEF Signed, OthersStay
  <2>2. n \in Signers => (Signed(n)' <=> Signed(n))
    BY <1>2, <1>3, SignersAre DEF Signed, Calls, Calling
  <2>. QED
    BY <2>1, <2>2
<1>8. kind'[TTP] = "final" => kind[TTP] = "final"
  <2>1. TTP \in Nodes /\ TTP \notin Signers
    BY SignersAre
  <2>. QED
    BY <1>3, <2>1 DEF OthersStay
<1>9. ShardInv'
  BY <1>1, <1>2, <1>7, <1>8, ShardKept
<1>. QED
  BY <1>1, <1>5, <1>6, <1>7, <1>9, DataKept DEF StreamsInv, StreamInv

LEMMA SignTopStreams ==
  ASSUME Undisturbed, t \in 1..MAX_T, SignTop, DataOK, PlacesInv, StreamsInv, ShardInv
  PROVE  StreamsInv' /\ DataOK' /\ ShardInv' /\ \A q \in Signers : Signed(q)' <=> Signed(q)
<1>1. /\ OthersStay(TTP) /\ conn' = conn /\ hpc' = hpc /\ SameSession /\ kind[TTP] = "root" /\ TTP \in Nodes
      /\ pc[TTP] = "sign" /\ TypeOK
  BY SignTopPlaces, SignersAre DEF SignTop, Undisturbed
<1>2. /\ UNCHANGED <<sm, smlen, mem, buf, reg, root>> /\ Go(TTP, "listen", "final", TTP)
      /\ shard' = [shard EXCEPT ![TTP] =
                     <<<<IF root[TTP] = <<"root", SPX_D - 1>> THEN "layer" ELSE "bad", SPX_D - 1>>>>]
  BY DEF SignTop, message, handlerVars
<1>3. root[TTP] = <<"root", SPX_D - 1>>
  <2>1. TTP \notin Signers
    BY SignersAre
  <2>2. root[TTP] = Start(TTP)
    BY <1>1, <2>1, RootRightWhen
  <2>. QED
    BY <2>2 DEF Start
<1>4. shard' = [shard EXCEPT ![TTP] = <<Top>>]
  BY <1>2, <1>3 DEF Top
<1>5. <<Top>> \in Seq(Units)
  BY NetSignAssumption DEF Top, Units
<1>6. pc'[TTP] = "listen" /\ OpenSame
  BY <1>1, <1>2, Goes DEF OpenSame
<1>7. \A c \in Conns : StreamInv(c)'
  BY <1>1, <1>2, <1>6, StreamMoves DEF StreamsInv, StreamInv
<1>8. DataOK'
  BY <1>1, <1>2, <1>4, <1>5 DEF DataOK
<1>9. \A q \in Signers : Signed(q)' <=> Signed(q)
  BY <1>1, SignersAre DEF Signed, OthersStay
<1>10. ShardInv'
  <2>1. \A q \in Signers : shard'[q] = shard[q]
    BY <1>4, SignersAre DEF DataOK
  <2>2. shard'[TTP] = <<Top>>
    BY <1>1, <1>4 DEF DataOK
  <2>. QED
    BY <1>1, <1>9, <2>1, <2>2, LayoutSame DEF ShardInv
<1>. QED
  BY <1>7, <1>8, <1>9, <1>10 DEF StreamsInv, StreamInv

LEMMA HandlersUnsent ==
  ASSUME HandlersGo, NEW c \in Conns
  PROVE  (Unsent(c)' <=> Unsent(c)) /\ (Awaits(c)' <=> Awaits(c))
<1>1. PICK p : p = Client(c)
  OBVIOUS
<1>2. Me(Client(c))' = Me(p)' /\ Client(c)' = p
  BY <1>1 DEF Me, Client
<1>3. pc' = pc /\ Me(p)' = Me(p) /\ conn'[c].state = conn[c].state
  BY DEF HandlersGo, Me
<1>. QED
  BY <1>1, <1>2, <1>3 DEF Unsent, Awaits

\* Handlers sign nothing.
LEMMA HandlersShards ==
  ASSUME HandlersGo
  PROVE  /\ \A q \in Signers : Signed(q)' <=> Signed(q)
         /\ ShardInv /\ shard' = shard => ShardInv'
<1>1. \A q \in Signers : Signed(q)' <=> Signed(q)
  BY DEF Signed, HandlersGo
<1>. QED
  BY <1>1, ShardKept DEF HandlersGo

LEMMA AggregateStreams ==
  ASSUME Undisturbed, Aggregate, DataOK, StreamsInv, ShardInv
  PROVE  StreamsInv' /\ DataOK' /\ ShardInv'
<1>1. HandlersGo /\ conn' = conn /\ UNCHANGED <<sm, smlen, mem, buf, reg, root, shard>>
  BY AggregateGoes DEF Undisturbed, Aggregate, netVars, message, signing
<1>2. ASSUME NEW c \in Conns PROVE StreamInv(c)'
  <2>1. hpc'[c] = hpc[c] \/ (hpc[c] = "barrier" /\ hpc'[c] = "sendR")
    BY DEF Aggregate
  <2>. QED
    BY <1>1, <2>1, HandlersUnsent, StreamKept DEF StreamsInv, StreamInv, HandlersGo
<1>3. StreamsOK'
  BY <1>1 DEF DataOK, StreamsOK
<1>. QED
  BY <1>1, <1>2, <1>3, DataKept, HandlersShards DEF StreamsInv, StreamInv

LEMMA OthersStreams ==
  ASSUME NEW c \in Conns, HandlerGoes(c), NEW d \in Conns, d # c, StreamInv(d),
         conn'[d].up = conn[d].up, conn'[d].down = conn[d].down,
         root'[Server(d)] \in {root[Server(d)], Start(Server(d))}
  PROVE  StreamInv(d)'
  BY HandlersUnsent, StreamKept DEF HandlerGoes, HandlersGo

\* Handlers that serve the session before shards are exchanged.
LEMMA PresignHandlers ==
  ASSUME Undisturbed, NEW c \in Conns, RecvShare(c) \/ SendR(c) \/ SendSeed(c),
         DataOK, StreamsInv, ShardInv
  PROVE  StreamsInv' /\ DataOK' /\ ShardInv'
<1>1. HandlerGoes(c) /\ HandlersGo /\ UNCHANGED <<sm, smlen, mem, buf, reg, root, shard>> /\ TypeOK
  BY HandleMoves DEF Undisturbed, Handle, HandlerGoes, RecvShare, SendR, SendSeed, message, signing
<1>2. Phase(c) = "presign"
  BY PhaseOfStep DEF Undisturbed, HandlerInv, RecvShare, SendR, SendSeed
<1>3. StreamsOnly(c) /\ StreamsOK'
  <2>1. \A x \in {<<"R", 0>>, <<"seed", 0>>} : <<x>> \in Seq(Units)
    BY DEF Units
  <2>2. CASE RecvShare(c)
    BY <1>1, <2>2, TakeUp DEF RecvShare
  <2>3. CASE SendR(c)
    BY <1>1, <2>1, <2>3, PutDown DEF SendR
  <2>4. CASE SendSeed(c)
    BY <1>1, <2>1, <2>4, PutDown DEF SendSeed
  <2>. QED
    BY <2>2, <2>3, <2>4
<1>4. ASSUME NEW d \in Conns PROVE StreamInv(d)'
  <2>1. CASE d # c
    BY <1>1, <1>3, <2>1, OthersStreams DEF StreamsOnly, StreamsInv, StreamInv
  <2>2. CASE d = c
    BY <1>2, <2>2 DEF StreamInv, RootStream, ShardStreams, TopStream, Phase
  <2>. QED
    BY <2>1, <2>2
<1>. QED
  BY <1>1, <1>3, <1>4, DataKept, HandlersShards DEF StreamsInv, StreamInv

LEMMA RecvRootStreams ==
  ASSUME Undisturbed, t \in 1..MAX_T, NEW c \in Conns, RecvRoot(c), DataOK, PlacesInv, StreamsInv, ShardInv
  PROVE  StreamsInv' /\ DataOK' /\ ShardInv'
<1>1. HandlerGoes(c) /\ HandlersGo /\ UNCHANGED <<sm, smlen, mem, buf, reg, shard>> /\ TypeOK
  BY HandleMoves DEF Undisturbed, Handle, HandlerGoes, RecvRoot, message, signing
<1>2. Phase(c) = "root" /\ hpc[c] = "recvRoot"
  BY PhaseOfStep DEF Undisturbed, HandlerInv, RecvRoot
<1>3. PICK p, s : p = Client(c) /\ s = Server(c)
  OBVIOUS
<1>4. p \in Signers /\ s = Above(p) /\ s \in Nodes
  BY <1>2, <1>3, ServerIs DEF PlacesInv, ConnInv
<1>5. PICK got \in Receivable(c, "up", BUFFER_SIZE) :
          Take(c, "up", got) /\ root' = [root EXCEPT ![s] = Head(got)]
  BY <1>3 DEF RecvRoot
<1>6. BUFFER_SIZE \in Nat
  BY NetSignAssumption
<1>7. StreamsOnly(c) /\ Received(conn[c].up, got, conn'[c].up) /\ conn'[c].down = conn[c].down /\ StreamsOK'
  BY <1>1, <1>5, <1>6, TakeUp
<1>8. PICK u : u = <<"root", Place(p) + Levels(p)>>
  OBVIOUS
<1>9. \A j \in DOMAIN conn[c].up : conn[c].up[j] = u
  BY <1>2, <1>3, <1>8 DEF StreamsInv, RootStream
<1>10. Head(got) = u
  <2>1. got \in Seq(Units) /\ conn[c].up \in Seq(Units) /\ Len(got) \in 1..Len(conn[c].up)
        /\ \A j \in 1..Len(got) : got[j] = conn[c].up[j]
    BY <1>7 DEF Received
  <2>2. Len(got) \in Nat /\ Len(conn[c].up) \in Nat /\ DOMAIN conn[c].up = 1..Len(conn[c].up)
    BY <2>1, LenProperties
  <2>3. 1 \in 1..Len(got) /\ 1 \in DOMAIN conn[c].up
    BY <2>1, <2>2
  <2>4. got[1] = u
    BY <1>9, <2>1, <2>3
  <2>. QED
    BY <2>1, <2>4
<1>11. root'[s] = Start(s) /\ DOMAIN root' = Nodes /\ \A q \in Nodes : q # s => root'[q] = root[q]
  <2>1. u = Start(s)
    BY <1>4, <1>8, PassedOn
  <2>. QED
    BY <1>4, <1>5, <1>10, <2>1 DEF DataOK
<1>12. \A d : root'[d] = Start(d) \/ root'[d] = root[d]
  BY <1>5, <1>11 DEF DataOK
<1>13. ASSUME NEW d \in Conns PROVE StreamInv(d)'
  <2>1. CASE d # c
    BY <1>1, <1>7, <1>12, <2>1, OthersStreams DEF StreamsOnly, StreamsInv, StreamInv
  <2>2. CASE d = c
    <3>1. \A j \in DOMAIN conn'[c].up : conn'[c].up[j] = u
      BY <1>7, <1>9 DEF Received
    <3>2. Client(c)' = p /\ Phase(c)' = "root" /\ Server(c)' = s
      BY <1>2, <1>3 DEF Client, Phase, Server
    <3>3. SameSession
      BY <1>1 DEF HandlersGo
    <3>4. u = <<"root", Place(p)' + Levels(p)'>> /\ Start(s)' = Start(s)
      BY <1>8, <3>3, LayoutSame
    <3>5. RootStream(c)'
      <4>1. \A q : q = p => Place(q)' = Place(p)' /\ Levels(q)' = Levels(p)'
        OBVIOUS
      <4>2. Start(Server(c))' = Start(s)'
        BY <1>3
      <4>. QED
        BY <1>3, <1>11, <3>1, <3>2, <3>4, <4>1, <4>2 DEF RootStream
    <3>. QED
      BY <1>2, <2>2, <3>5 DEF StreamInv, ShardStreams, TopStream, Phase
  <2>. QED
    BY <2>1, <2>2
<1>14. DataOK'
  BY <1>1, <1>7, <1>11 DEF DataOK, StreamsOK
<1>. QED
  BY <1>1, <1>13, <1>14, HandlersShards DEF StreamsInv, StreamInv

LEMMA SendTopStreams ==
  ASSUME Undisturbed, t \in 1..MAX_T, NEW c \in Conns, SendTop(c), DataOK, PlacesInv, StreamsInv, ShardInv
  PROVE  StreamsInv' /\ DataOK' /\ ShardInv'
<1>1. HandlerGoes(c) /\ HandlersGo /\ UNCHANGED <<sm, smlen, mem, buf, reg, root, shard>> /\ TypeOK
  BY HandleMoves DEF Undisturbed, Handle, HandlerGoes, SendTop, message, signing
<1>2. Phase(c) = "final" /\ hpc[c] = "sendTop"
  BY PhaseOfStep DEF Undisturbed, HandlerInv, SendTop
<1>3. shard[TTP] = <<Top>>
  <2>1. Server(c) = TTP /\ ConnInv(c)
    BY <1>2, ConnsAre DEF PlacesInv
  <2>. QED
    BY <1>2, <2>1 DEF ConnInv, ShardInv
<1>4. <<Top>> \in Seq(Units)
  BY NetSignAssumption DEF Top, Units
<1>5. StreamsOnly(c) /\ conn'[c].down = conn[c].down \o <<Top>> /\ StreamsOK'
  BY <1>1, <1>3, <1>4, PutDown DEF SendTop
<1>6. ASSUME NEW d \in Conns PROVE StreamInv(d)'
  <2>1. CASE d # c
    BY <1>1, <1>5, <2>1, OthersStreams DEF StreamsOnly, StreamsInv, StreamInv
  <2>2. CASE d = c
    <3>1. \A j \in DOMAIN conn'[c].down : conn'[c].down[j] = Top
      <4>1. \A j \in DOMAIN conn[c].down : conn[c].down[j] = Top
        BY <1>2 DEF StreamsInv, TopStream
      <4>2. conn[c].down \in Seq(Units)
        BY DEF DataOK
      <4>3. PICK s : s = conn[c].down
        OBVIOUS
      <4>4. \A j \in DOMAIN (s \o <<Top>>) : (s \o <<Top>>)[j] = Top
        BY <4>1, <4>2, <4>3
      <4>. QED
        BY <1>5, <4>3, <4>4
    <3>2. Top' = Top
      BY DEF Top
    <3>. QED
      BY <1>2, <2>2, <3>1, <3>2 DEF StreamInv, RootStream, ShardStreams, TopStream, Phase
  <2>. QED
    BY <2>1, <2>2
<1>. QED
  BY <1>1, <1>5, <1>6, DataKept, HandlersShards DEF StreamsInv, StreamInv

\* What the handler of an exchange is given.
LEMMA HandlerRecvStreams ==
  ASSUME Undisturbed, t \in 1..MAX_T, NEW c \in Conns, HandlerRecvShard(c),
         DataOK, PlacesInv, StreamsInv, ShardInv
  PROVE  /\ StreamsInv' /\ DataOK' /\ ShardInv' /\ hpc'[c] = "load" /\ Phase(c) = "exch"
         /\ \E got, rest :
                /\ \E s \in {<<>>, Shard(Client(c))} : Received(s, got, rest)
                /\ buf' = [buf EXCEPT ![c] = got]
                /\ Short(Server(c), Client(c), got)
<1>1. HandlerGoes(c) /\ HandlersGo /\ UNCHANGED <<sm, smlen, mem, reg, root, shard>> /\ TypeOK
  BY HandleMoves DEF Undisturbed, Handle, HandlerGoes, HandlerRecvShard, message, signing
<1>2. Phase(c) = "exch" /\ hpc[c] = "recvShard" /\ hpc'[c] = "load"
  BY <1>1, PhaseOfStep DEF Undisturbed, HandlerInv, HandlerRecvShard, HStep, TypeOK
<1>3. PICK got \in Receivable(c, "up", BUFFER_SIZE) :
          Take(c, "up", got) /\ buf' = [buf EXCEPT ![c] = got] /\ Short(Server(c), Client(c), got)
  BY DEF HandlerRecvShard
<1>4. BUFFER_SIZE \in Nat
  BY NetSignAssumption
<1>5. StreamsOnly(c) /\ Received(conn[c].up, got, conn'[c].up) /\ conn'[c].down = conn[c].down /\ StreamsOK'
  BY <1>1, <1>3, <1>4, TakeUp
<1>6. ShardStreams(c)
  BY DEF StreamsInv
<1>7. conn[c].up \in {<<>>, Shard(Client(c))}
  BY <1>2, <1>6 DEF ShardStreams
<1>8. ~Unsent(c)
  <2>1. conn[c].up # <<>>
    BY <1>5 DEF Received
  <2>. QED
    BY <1>2, <1>6, <2>1 DEF ShardStreams
<1>9. ASSUME NEW d \in Conns PROVE StreamInv(d)'
  <2>1. CASE d # c
    BY <1>1, <1>5, <2>1, OthersStreams DEF StreamsOnly, StreamsInv, StreamInv
  <2>2. CASE d = c
    <3>1. ~Unsent(c)'
      BY <1>1, <1>8, HandlersUnsent
    <3>2. conn'[c].down = <<>>
      BY <1>2, <1>5, <1>6 DEF ShardStreams
    <3>3. ShardStreams(c)'
      BY <1>2, <3>1, <3>2 DEF ShardStreams
    <3>. QED
      BY <1>2, <2>2, <3>3 DEF StreamInv, RootStream, TopStream, Phase
  <2>. QED
    BY <2>1, <2>2
<1>10. DataOK'
  <2>1. got \in Seq(Units)
    BY <1>5 DEF Received
  <2>. QED
    BY <1>1, <1>3, <1>5, <2>1 DEF DataOK, StreamsOK
<1>. QED
  BY <1>1, <1>2, <1>3, <1>5, <1>7, <1>9, <1>10, HandlersShards DEF StreamsInv, StreamInv

LEMMA UpdateStreams ==
  ASSUME Undisturbed, NEW c \in Conns,
         Load(c) \/ AddOffset(c) \/ Copy(c) \/ LoadBack(c) \/ SubOffset(c) \/ LoadLen(c) \/ AddLen(c),
         DataOK, StreamsInv, ShardInv
  PROVE  StreamsInv' /\ DataOK' /\ ShardInv'
<1>1. HandlerGoes(c) /\ HandlersGo /\ TypeOK
  BY HandleMoves DEF Undisturbed, Handle, HandlerGoes
<1>2. conn' = conn /\ root' = root /\ shard' = shard /\ buf' = buf
  BY DEF Load, AddOffset, Copy, LoadBack, SubOffset, LoadLen, AddLen, netVars, signing
<1>3. hpc[c] \notin {"none", "recvShard", "over"} /\ hpc'[c] \notin {"none", "recvShard", "over"}
  BY <1>1 DEF Load, AddOffset, Copy, LoadBack, SubOffset, LoadLen, AddLen, HStep, TypeOK
<1>4. ASSUME NEW d \in Conns PROVE StreamInv(d)'
  <2>1. CASE d # c
    BY <1>1, <1>2, <2>1, OthersStreams DEF StreamsInv, StreamInv
  <2>2. CASE d = c
    BY <1>1, <1>2, <1>3, <2>2, HandlersUnsent, StreamKept DEF StreamsInv, StreamInv, HandlersGo
  <2>. QED
    BY <2>1, <2>2
<1>5. DataOK'
  <2>1. DOMAIN sm' = Players /\ DOMAIN smlen' = Players /\ DOMAIN reg' = Conns
    BY DEF DataOK, Load, AddOffset, Copy, LoadBack, SubOffset, LoadLen, AddLen, message
  <2>2. DOMAIN mem' = Players /\ \A p \in Players : DOMAIN mem'[p] = 0..(SPX_D - 1)
    <3>1. CASE Copy(c)
      <4>1. PICK to : mem' = [mem EXCEPT ![Server(c)] = Written(Server(c), to, buf[c])]
        BY <3>1 DEF Copy
      <4>. QED
        BY <4>1, MemKept
    <3>2. CASE Load(c) \/ AddOffset(c) \/ LoadBack(c) \/ SubOffset(c) \/ LoadLen(c) \/ AddLen(c)
      <4>1. mem' = mem
        BY <3>2 DEF Load, AddOffset, LoadBack, SubOffset, LoadLen, AddLen, message
      <4>. QED
        BY <4>1 DEF DataOK
    <3>. QED
      BY <3>1, <3>2
  <2>. QED
    BY <1>2, <2>1, <2>2 DEF DataOK
<1>. QED
  BY <1>1, <1>2, <1>4, <1>5, HandlersShards DEF StreamsInv, StreamInv

LEMMA HandlerSendStreams ==
  ASSUME Undisturbed, t \in 1..MAX_T, NEW c \in Conns, HandlerSendShard(c),
         DataOK, PlacesInv, StreamsInv, ShardInv
  PROVE  StreamsInv' /\ DataOK' /\ ShardInv' /\ hpc'[c] = "over"
<1>1. HandlerGoes(c) /\ HandlersGo /\ UNCHANGED <<sm, smlen, mem, buf, reg, root, shard>> /\ TypeOK
  BY HandleMoves DEF Undisturbed, Handle, HandlerGoes, HandlerSendShard, message, signing
<1>2. Phase(c) = "exch" /\ hpc[c] = "sendShard" /\ hpc'[c] = "over"
  BY <1>1, PhaseOfStep DEF Undisturbed, HandlerInv, HandlerSendShard, HStep, TypeOK
<1>3. PICK s : s = Server(c)
  OBVIOUS
<1>4. s \in Signers /\ shard[s] = Shard(s)
  <2>1. ConnInv(c)
    BY DEF PlacesInv
  <2>2. s \in Signers /\ kind[s] = "exch"
    BY <1>2, <1>3, <2>1 DEF ConnInv
  <2>. QED
    BY <2>2 DEF ShardInv, Signed
<1>5. Shard(s) \in Seq(Units)
  BY <1>4, ShardIs
<1>6. StreamsOnly(c) /\ conn'[c].down = conn[c].down \o Shard(s) /\ StreamsOK'
  BY <1>1, <1>3, <1>4, <1>5, PutDown DEF HandlerSendShard
<1>7. ShardStreams(c)
  BY DEF StreamsInv
<1>8. conn'[c].down = Shard(s) /\ ~Unsent(c)
  <2>1. conn[c].down = <<>> /\ ~Unsent(c)
    BY <1>2, <1>7 DEF ShardStreams
  <2>. QED
    BY <1>5, <1>6, <2>1, ConcatEmptySeq
<1>9. ASSUME NEW d \in Conns PROVE StreamInv(d)'
  <2>1. CASE d # c
    BY <1>1, <1>6, <2>1, OthersStreams DEF StreamsOnly, StreamsInv, StreamInv
  <2>2. CASE d = c
    <3>1. ~Unsent(c)'
      BY <1>1, <1>8, HandlersUnsent
    <3>2. Shard(Server(c))' = Shard(s)
      <4>1. Shard(s)' = Shard(s)
        BY <1>1, LayoutSame DEF HandlersGo
      <4>. QED
        BY <1>3, <4>1
    <3>3. ShardStreams(c)'
      BY <1>2, <1>8, <3>1, <3>2 DEF ShardStreams
    <3>. QED
      BY <1>2, <2>2, <3>3 DEF StreamInv, RootStream, TopStream, Phase
  <2>. QED
    BY <2>1, <2>2
<1>. QED
  BY <1>1, <1>2, <1>6, <1>9, DataKept, HandlersShards DEF StreamsInv, StreamInv

\* A call that signs nothing.
LEMMA CallShards ==
  ASSUME Undisturbed, Undisturbed', t \in 1..MAX_T, last \in {TTP, Stale}, NEW p \in Signers,
         Call(p) \/ GiveUp(p), pc[p] # "sign"
  PROVE  /\ \A q \in Signers : Signed(q)' <=> Signed(q)
         /\ ShardInv => ShardInv'
<1>1. CallMove(p) /\ PlayerAt(p)
  BY CallMoves, CallerFacts
<1>2. PlayerAt(p)'
  <2>1. Signers' = Signers
    BY <1>1, SessionSame DEF CallMove
  <2>. QED
    BY <2>1 DEF Undisturbed, CallerInv
<1>3. \A q \in Signers : Signed(q)' <=> Signed(q)
  BY <1>1, <1>2, SignedSame DEF CallMove, Signs
<1>4. kind'[TTP] = kind[TTP]
  BY <1>1, SignersAre DEF CallMove, OthersStay
<1>5. shard' = shard
  BY NoIdNever DEF Call, GiveUp, Dial, SendShare, RecvR, RecvSeed, Sign, SendRoot, SendShard, RecvShard, RecvTop, signing
<1>. QED
  BY <1>1, <1>3, <1>4, <1>5, ShardKept DEF CallMove

LEMMA CallStreams ==
  ASSUME Undisturbed, Undisturbed', t \in 1..MAX_T, last \in {TTP, Stale}, NEW p \in Signers,
         Call(p) \/ GiveUp(p), DataOK, PlacesInv, StreamsInv, ShardInv
  PROVE  StreamsInv' /\ DataOK' /\ ShardInv'
<1>1. CASE Sign(p)
  BY <1>1, SignStreams
<1>2. CASE Dial(p) \/ GiveUp(p) \/ SendShare(p) \/ RecvR(p) \/ RecvSeed(p) \/ SendRoot(p) \/ SendShard(p)
            \/ RecvShard(p) \/ RecvTop(p)
  <2>1. pc[p] # "sign"
    BY <1>2 DEF GiveUp, Dial, SendShare, RecvR, RecvSeed, SendRoot, SendShard, RecvShard, RecvTop, HasId
  <2>2. StreamsInv' /\ DataOK'
    BY <1>2, PresignStreams, SendRootStreams, SendShardStreams, RecvShardStreams, RecvTopStreams
  <2>. QED
    BY <2>1, <2>2, CallShards
<1>. QED
  BY <1>1, <1>2, NoIdNever DEF Call

------------------------------------------------------------------------------
(* A signer's message.                                                       *)

LEMMA HoldsSame ==
  ASSUME SameSession, NEW p, NEW q, p = q, mem'[p] = mem[p], NEW r
  PROVE  Holds(q, r)' <=> Holds(q, r)
<1>1. Place(r)' = Place(r) /\ Levels(r)' = Levels(r)
  BY LayoutSame
<1>2. mem'[q] = mem[q]
  OBVIOUS
<1>. QED
  BY <1>1, <1>2 DEF Holds

\* The handler of c does nothing to the message.
Calm(c) ==
    /\ buf'[c] = buf[c] /\ reg'[c] = reg[c]
    /\ \/ hpc'[c] = hpc[c]
       \/ /\ hpc[c] \notin Updating \cup {"load"} /\ hpc'[c] \notin Updating \cup {"load"}
          /\ Phase(c) = "exch" => (hpc[c] \in {"sendShard", "over"} <=> hpc'[c] \in {"sendShard", "over"})

LEMMA CalmKept ==
  ASSUME SameSession, NEW q \in Signers, NEW c \in HandlersOf(q), Calm(c), UpdateInv(c),
         hpc'[c] \in Moved => sm'[q] = sm[q],
         hpc'[c] = "addLen" => smlen'[q] = smlen[q],
         Phase(c) = "exch" /\ hpc'[c] \in Copied /\ Holds(q, Client(c)) => Holds(q, Client(c))'
  PROVE  UpdateInv(c)'
<1>1. PICK p, f : p = Client(c) /\ f = Phase(c)
  OBVIOUS
<1>2. Server(c) = q /\ c \in Conns
  BY DEF HandlersOf
<1>3. /\ Client(c)' = p /\ Phase(c)' = f /\ Server(c)' = q
      /\ Place(p)' = Place(p) /\ Shard(p)' = Shard(p)
  BY <1>1, <1>2, LayoutSame DEF Client, Phase, Server
<1>4. Place(Client(c))' = Place(p)' /\ Shard(Client(c))' = Shard(p)'
      /\ (Holds(Server(c), Client(c))' <=> Holds(q, p)') /\ (Holds(q, Client(c))' <=> Holds(q, p)')
  BY <1>1, <1>2
<1>5. hpc'[c] \in {"load"} \cup Updating => hpc'[c] = hpc[c]
  BY DEF Calm
<1>6. hpc'[c] \in {"load"} \cup Updating => buf'[c] = Shard(p)'
  BY <1>1, <1>3, <1>5 DEF Calm, UpdateInv
<1>7. /\ hpc'[c] = "addOffset" => reg'[c] = 0
      /\ hpc'[c] \in {"copy", "subOffset"} => reg'[c] = Place(p)'
  BY <1>1, <1>3, <1>5 DEF Calm, UpdateInv, Updating
<1>8. /\ hpc'[c] \in Moved => sm'[q] = Place(p)'
      /\ hpc'[c] = "addLen" => reg'[c] = smlen'[q]
  BY <1>1, <1>2, <1>3, <1>5 DEF Calm, UpdateInv, Updating, Moved
<1>9. f = "exch" /\ hpc'[c] \in Copied => Holds(q, p)'
  <2>1. f = "exch" /\ hpc'[c] \in Copied => hpc[c] \in Copied
    BY <1>1, <1>5 DEF Calm, Updating, Copied
  <2>. QED
    BY <1>1, <1>2, <1>4, <2>1 DEF UpdateInv
<1>. QED
  BY <1>2, <1>3, <1>4, <1>6, <1>7, <1>8, <1>9 DEF UpdateInv

\* What the handlers of q have done is what it was.
LEMMA CalmSame ==
  ASSUME t \in 1..MAX_T, SameSession, NEW q \in Signers, \A c \in HandlersOf(q) : Calm(c)
  PROVE  /\ Added(q)' = Added(q)
         /\ \A c \in HandlersOf(q) : /\ hpc'[c] \in Updating <=> hpc[c] \in Updating
                                     /\ hpc'[c] \in Moved <=> hpc[c] \in Moved
<1>1. Signers' = Signers
  BY SessionSame
<1>2. ASSUME NEW r \in Signers, r < q
      PROVE  hpc'[<<r, "exch", q>>] \in {"sendShard", "over"} <=> hpc[<<r, "exch", q>>] \in {"sendShard", "over"}
  <2>1. PICK c : c = <<r, "exch", q>>
    OBVIOUS
  <2>2. c \in HandlersOf(q) /\ Phase(c) = "exch"
    BY <1>2, <2>1, SignersAre, ConnsAre, ConnParts DEF HandlersOf
  <2>. QED
    BY <2>1, <2>2 DEF Calm
<1>3. Added(q)' = Added(q)
  BY <1>1, <1>2 DEF Added
<1>. QED
  BY <1>3 DEF Calm, Updating, Moved

\* A signer to whose message nothing happens.
LEMMA SignerKept ==
  ASSUME t \in 1..MAX_T, SameSession, NEW q \in Signers, SignerInv(q), trouble'[q] = {} => trouble[q] = {},
         sm'[q] = sm[q], smlen'[q] = smlen[q], mem'[q] = mem[q],
         Signed(q)' <=> Signed(q), Exchanged(q, q)' <=> Exchanged(q, q),
         \A r \in Signers : Exchanged(q, r)' => Exchanged(q, r),
         kind'[q] = "exch" /\ pc'[q] \notin Serving => kind[q] = "exch" /\ pc[q] \notin Serving /\ peer'[q] = peer[q],
         kind'[q] = "final" => kind[q] = "final" /\ (pc'[q] = "done" <=> pc[q] = "done"),
         \A c \in HandlersOf(q) : Calm(c)
  PROVE  SignerInv(q)'
<1>. SUFFICES ASSUME trouble'[q] = {} PROVE MessageInv(q)' /\ \A c \in HandlersOf(q) : UpdateInv(c)'
  BY DEF SignerInv, HandlersOf, Server
<1>1. MessageInv(q) /\ \A c \in HandlersOf(q) : UpdateInv(c)
  BY DEF SignerInv
<1>2. \A r : Holds(q, r)' <=> Holds(q, r)
  BY HoldsSame
<1>3. \A c \in HandlersOf(q) : UpdateInv(c)'
  BY <1>1, <1>2, CalmKept
<1>4. /\ Signers' = Signers /\ Levels(q)' = Levels(q) /\ SPX_WOTS_AVG' = SPX_WOTS_AVG /\ HandlersOf(q)' = HandlersOf(q)
      /\ Added(q)' = Added(q)
  BY LayoutSame, CalmSame DEF HandlersOf, Server
<1>5. Complete(q)' <=> Complete(q)
  BY DEF Complete
<1>6. /\ \A c, d \in HandlersOf(q) : hpc'[c] \in Updating /\ hpc'[d] \in Updating => c = d
      /\ (\A c \in HandlersOf(q) : hpc'[c] \notin Moved) => sm'[q] = 0
  BY <1>1, CalmSame DEF MessageInv
<1>7. Updating' = Updating /\ Moved' = Moved
  BY DEF Updating, Moved
<1>8. /\ ~Signed(q)' => smlen'[q] = 0
      /\ Signed(q)' /\ ~Exchanged(q, q)' => smlen'[q] = Levels(q) + SPX_WOTS_AVG * Cardinality(Added(q))
  BY <1>1 DEF MessageInv
<1>9. /\ kind'[q] = "exch" /\ pc'[q] \notin Serving => smlen'[q] = SPX_WOTS_AVG * peer'[q]
      /\ kind'[q] = "final" /\ pc'[q] # "done" => smlen'[q] = SPX_D - 1
      /\ kind'[q] = "final" /\ pc'[q] = "done" => Complete(q)'
  BY <1>1, <1>5 DEF MessageInv
<1>10. /\ Signed(q)' => Holds(q, q)'
       /\ \A r \in Signers : q < r /\ Exchanged(q, r)' => Holds(q, r)'
  BY <1>1, <1>2 DEF MessageInv
<1>11. MessageInv(q)'
  BY <1>4, <1>6, <1>7, <1>8, <1>9, <1>10 DEF MessageInv
<1>. QED
  BY <1>3, <1>11

\* Steps of a handler that do not touch q's message.
LEMMA HandlerKeeps ==
  ASSUME t \in 1..MAX_T, Grows, HandlersGo, NEW q \in Signers, SignerInv(q),
         sm'[q] = sm[q], smlen'[q] = smlen[q], mem'[q] = mem[q],
         \A d \in HandlersOf(q) : Calm(d)
  PROVE  SignerInv(q)'
<1>1. pc' = pc /\ kind' = kind /\ peer' = peer /\ SameSession
  BY DEF HandlersGo
<1>2. trouble'[q] = {} => trouble[q] = {}
  BY SignersAre DEF Grows
<1>3. /\ Signed(q)' <=> Signed(q)
      /\ \A r : Exchanged(q, r)' <=> Exchanged(q, r)
  BY <1>1 DEF Signed, Exchanged
<1>. QED
  BY <1>1, <1>2, <1>3, SignerKept

\* What is said of the message of q while its handlers run.
Served(q) ==
    /\ \A c, d \in HandlersOf(q) : hpc[c] \in Updating /\ hpc[d] \in Updating => c = d
    /\ (\A c \in HandlersOf(q) : hpc[c] \notin Moved) => sm[q] = 0
    /\ smlen[q] = Levels(q) + SPX_WOTS_AVG * Cardinality(Added(q))
    /\ Holds(q, q)

LEMMA ServedIs ==
  ASSUME NEW q \in Signers, kind[q] = "exch", pc[q] \in {"accept", "destroy"}, kind' = kind, pc' = pc
  PROVE  (MessageInv(q) => Served(q)) /\ (Served(q)' => MessageInv(q)')
<1>1. Signed(q) /\ ~Exchanged(q, q)
  BY DEF Signed, Exchanged, Serving
<1>2. Signed(q)' /\ \A r : ~Exchanged(q, r)'
  BY DEF Signed, Exchanged, Serving
<1>. QED
  BY <1>1, <1>2 DEF MessageInv, Served, Serving

LEMMA ExchangeServer ==
  ASSUME t \in 1..MAX_T, PlacesInv, NEW c \in Conns, Phase(c) = "exch", hpc[c] \notin {"none", "over"}
  PROVE  /\ Server(c) \in Signers /\ kind[Server(c)] = "exch" /\ pc[Server(c)] \in {"accept", "destroy"}
         /\ Client(c) \in Signers /\ Client(c) < Server(c) /\ c \in HandlersOf(Server(c))
         /\ c = <<Client(c), "exch", Server(c)>>
  BY ConnsAre DEF PlacesInv, ConnInv, HandlersOf

LEMMA AddedSame ==
  ASSUME t \in 1..MAX_T, SameSession, NEW q \in Signers,
         \A d \in Conns : hpc'[d] \in {"sendShard", "over"} <=> hpc[d] \in {"sendShard", "over"}
  PROVE  Added(q)' = Added(q)
<1>1. Signers' = Signers /\ \A r \in Signers : r < q => <<r, "exch", q>> \in Conns
  BY SessionSame, SignersAre, ConnsAre
<1>. QED
  BY <1>1 DEF Added

\* The handler of c works on the message of q.
LEMMA UpdateStep ==
  ASSUME t \in 1..MAX_T, NEW q \in Signers, NEW c \in HandlersOf(q), HandlerGoes(c),
         kind[q] = "exch", pc[q] \in {"accept", "destroy"}, PlacesInv,
         MessageInv(q), \A d \in HandlersOf(q) : UpdateInv(d),
         \A d \in Conns : d # c => buf'[d] = buf[d] /\ reg'[d] = reg[d],
         hpc'[c] \in Updating => hpc[c] \in Updating \/ \A d \in HandlersOf(q) : hpc[d] \notin Updating,
         sm'[q] = sm[q] \/ hpc[c] \in Updating,
         smlen'[q] = smlen[q] \/ hpc[c] \in Updating,
         hpc'[c] \in Moved \/ sm'[q] = 0 \/ (sm'[q] = sm[q] /\ hpc[c] \notin Moved),
         \A r \in Signers : Holds(q, r) => Holds(q, r)',
         smlen'[q] = Levels(q) + SPX_WOTS_AVG * Cardinality(Added(q)'),
         UpdateInv(c)'
  PROVE  MessageInv(q)' /\ \A d \in HandlersOf(q) : UpdateInv(d)'
<1>1. /\ SameSession /\ kind' = kind /\ pc' = pc /\ \A d \in Conns : d # c => hpc'[d] = hpc[d]
  BY DEF HandlerGoes, HandlersGo
<1>2. Served(q)
  BY <1>1, ServedIs
<1>3. \A d \in HandlersOf(q) : d \in Conns
  BY DEF HandlersOf
<1>4. \A d, e \in HandlersOf(q) : hpc'[d] \in Updating /\ hpc'[e] \in Updating => d = e
  <2>. SUFFICES ASSUME NEW d \in HandlersOf(q), NEW e \in HandlersOf(q), hpc'[d] \in Updating, hpc'[e] \in Updating
                PROVE  d = e
    OBVIOUS
  <2>1. d # c => hpc[d] \in Updating
    BY <1>1, <1>3
  <2>2. e # c => hpc[e] \in Updating
    BY <1>1, <1>3
  <2>3. (d = c \/ e = c) /\ d # e => hpc[c] \in Updating
    BY <2>1, <2>2
  <2>. QED
    BY <1>2, <2>1, <2>2, <2>3 DEF Served
<1>5. (\A d \in HandlersOf(q) : hpc'[d] \notin Moved) => sm'[q] = 0
  <2>. SUFFICES ASSUME \A d \in HandlersOf(q) : hpc'[d] \notin Moved, sm'[q] # 0 PROVE FALSE
    OBVIOUS
  <2>1. hpc'[c] \notin Moved /\ sm'[q] = sm[q] /\ hpc[c] \notin Moved
    OBVIOUS
  <2>2. \A d \in HandlersOf(q) : hpc[d] \notin Moved
    BY <1>1, <1>3, <2>1
  <2>. QED
    BY <1>2, <2>1, <2>2 DEF Served
<1>6. ASSUME NEW d \in HandlersOf(q) PROVE UpdateInv(d)'
  <2>1. CASE d # c
    <3>1. Calm(d) /\ hpc'[d] = hpc[d] /\ UpdateInv(d)
      BY <1>1, <1>3, <2>1 DEF Calm
    <3>2. hpc'[d] \in Updating => hpc[c] \notin Updating
      BY <1>2, <2>1, <3>1 DEF Served
    <3>3. hpc'[d] \in Moved => sm'[q] = sm[q]
      BY <3>2 DEF Moved, Updating
    <3>4. hpc'[d] = "addLen" => smlen'[q] = smlen[q]
      BY <3>2 DEF Updating
    <3>5. hpc'[d] \in Copied => Client(d) \in Signers
      BY <1>3, <3>1 DEF PlacesInv, ConnInv, Copied
    <3>6. hpc'[d] \in Copied /\ Holds(q, Client(d)) => Holds(q, Client(d))'
      <4>. SUFFICES ASSUME hpc'[d] \in Copied, Holds(q, Client(d)) PROVE Holds(q, Client(d))'
        OBVIOUS
      <4>1. PICK r \in Signers : r = Client(d)
        BY <3>5
      <4>2. Client(d)' = r
        BY <4>1 DEF Client
      <4>3. Holds(q, r)
        BY <4>1
      <4>4. Holds(q, r)'
        BY <4>3
      <4>. QED
        BY <4>1, <4>4
    <3>. QED
      BY <1>1, <3>1, <3>3, <3>4, <3>6, CalmKept
  <2>2. CASE d = c
    BY <2>2
  <2>. QED
    BY <2>1, <2>2
<1>7. Holds(q, q)'
  BY <1>2 DEF Served
<1>8. Served(q)'
  <2>1. Updating' = Updating /\ Moved' = Moved /\ HandlersOf(q)' = HandlersOf(q)
        /\ Levels(q)' = Levels(q) /\ SPX_WOTS_AVG' = SPX_WOTS_AVG
    BY <1>1, LayoutSame DEF Updating, Moved, HandlersOf, Server
  <2>. QED
    BY <1>4, <1>5, <1>7, <2>1 DEF Served
<1>. QED
  BY <1>1, <1>6, <1>8, ServedIs

LEMMA UpdateInvIs ==
  ASSUME SameSession, NEW c, NEW p, NEW q, p = Client(c), q = Server(c),
         hpc'[c] \in {"load"} \cup Updating => buf'[c] = Shard(p),
         hpc'[c] = "addOffset" => reg'[c] = 0,
         hpc'[c] \in {"copy", "subOffset"} => reg'[c] = Place(p),
         hpc'[c] \in Moved => sm'[q] = Place(p),
         hpc'[c] = "addLen" => reg'[c] = smlen'[q],
         Phase(c) = "exch" /\ hpc'[c] \in Copied => Holds(q, p)'
  PROVE  UpdateInv(c)'
<1>1. /\ Client(c)' = p /\ Phase(c)' = Phase(c) /\ Server(c)' = q
      /\ Place(p)' = Place(p) /\ Shard(p)' = Shard(p)
  BY LayoutSame DEF Client, Phase, Server
<1>2. /\ Place(Client(c))' = Place(p)' /\ Shard(Client(c))' = Shard(p)'
      /\ (Holds(Server(c), Client(c))' <=> Holds(q, p)')
  OBVIOUS
<1>3. Updating' = Updating /\ Moved' = Moved /\ Copied' = Copied
  BY DEF Updating, Moved, Copied
<1>. QED
  BY <1>1, <1>2, <1>3 DEF UpdateInv

LEMMA RecvUpdates ==
  ASSUME Undisturbed, t \in 1..MAX_T, PlacesInv, StreamsInv, ShardInv, DataOK, DOMAIN trouble = Players,
         NEW c \in Conns, HandlerRecvShard(c), NEW q \in Signers, q = Server(c), trouble'[q] = {},
         MessageInv(q), \A d \in HandlersOf(q) : UpdateInv(d)
  PROVE  MessageInv(q)' /\ \A d \in HandlersOf(q) : UpdateInv(d)'
<1>1. HandlerGoes(c) /\ SameSession /\ UNCHANGED <<sm, smlen, mem, reg>> /\ hpc[c] = "recvShard"
  BY HandleMoves DEF Undisturbed, Handle, HandlerGoes, HandlersGo, HandlerRecvShard, message
<1>2. hpc'[c] = "load" /\ Phase(c) = "exch"
  BY HandlerRecvStreams
<1>3. PICK p : p = Client(c)
  OBVIOUS
<1>4. /\ kind[q] = "exch" /\ pc[q] \in {"accept", "destroy"} /\ p \in Signers /\ p < q /\ c \in HandlersOf(q)
  BY <1>1, <1>2, <1>3, ExchangeServer
<1>5. PICK got, rest :
          /\ \E s \in {<<>>, Shard(p)} : Received(s, got, rest)
          /\ buf' = [buf EXCEPT ![c] = got]
          /\ Short(q, p, got)
  BY <1>3, HandlerRecvStreams
<1>6. got = Shard(p)
  <2>1. ~(Len(got) < Levels(p))
    BY <1>5, SignersAre DEF Short
  <2>. QED
    BY <1>4, <1>5, <2>1, WholeShard
<1>7. buf'[c] = Shard(p) /\ \A d \in Conns : d # c => buf'[d] = buf[d]
  BY <1>5, <1>6 DEF DataOK
<1>8. \A r : Holds(q, r)' <=> Holds(q, r)
  BY <1>1, HoldsSame
<1>9. hpc'[c] \notin Updating \cup Moved \cup Copied /\ hpc[c] \notin Moved
  BY <1>1, <1>2 DEF Updating, Moved, Copied
<1>10. UpdateInv(c)'
  BY <1>1, <1>2, <1>3, <1>7, <1>9, UpdateInvIs
<1>11. Added(q)' = Added(q)
  BY <1>1, <1>2, AddedSame DEF HandlerGoes
<1>12. smlen'[q] = Levels(q) + SPX_WOTS_AVG * Cardinality(Added(q)')
  BY <1>1, <1>4, <1>11, ServedIs DEF Served, HandlerGoes, HandlersGo
<1>. QED
  BY <1>1, <1>4, <1>7, <1>8, <1>9, <1>10, <1>12, UpdateStep

LEMMA LoadUpdates ==
  ASSUME Undisturbed, t \in 1..MAX_T, PlacesInv, DataOK, DOMAIN trouble = Players,
         NEW c \in Conns, Load(c), NEW q \in Signers, q = Server(c), trouble'[q] = {},
         MessageInv(q), \A d \in HandlersOf(q) : UpdateInv(d)
  PROVE  MessageInv(q)' /\ \A d \in HandlersOf(q) : UpdateInv(d)'
<1>1. HandlerGoes(c) /\ SameSession /\ UNCHANGED <<sm, smlen, mem, buf>> /\ hpc[c] = "load" /\ TypeOK
  BY HandleMoves DEF Undisturbed, Handle, HandlerGoes, HandlersGo, Load, message
<1>2. Phase(c) = "exch" /\ hpc'[c] = "addOffset" /\ reg' = [reg EXCEPT ![c] = sm[q]]
  BY <1>1, PhaseOfStep DEF Undisturbed, HandlerInv, Load, HStep, TypeOK
<1>3. PICK p : p = Client(c)
  OBVIOUS
<1>4. /\ kind[q] = "exch" /\ pc[q] \in {"accept", "destroy"} /\ p \in Signers /\ p < q /\ c \in HandlersOf(q)
  BY <1>1, <1>2, <1>3, ExchangeServer
<1>5. \A d \in HandlersOf(q) : hpc[d] \notin Updating
  BY SignersAre DEF Load
<1>6. Served(q)
  BY <1>1, <1>4, ServedIs DEF HandlerGoes, HandlersGo
<1>7. sm[q] = 0
  BY <1>5, <1>6 DEF Served, Moved, Updating
<1>8. reg'[c] = 0 /\ \A d \in Conns : d # c => reg'[d] = reg[d]
  BY <1>2, <1>7 DEF DataOK
<1>9. \A r : Holds(q, r)' <=> Holds(q, r)
  BY <1>1, HoldsSame
<1>10. hpc'[c] \notin Moved \cup Copied
  BY <1>2 DEF Moved, Copied
<1>11. buf'[c] = Shard(p)
  BY <1>1, <1>3, <1>4 DEF UpdateInv
<1>12. UpdateInv(c)'
  BY <1>1, <1>2, <1>3, <1>8, <1>10, <1>11, UpdateInvIs
<1>13. Added(q)' = Added(q)
  BY <1>1, <1>2, AddedSame DEF HandlerGoes
<1>14. smlen'[q] = Levels(q) + SPX_WOTS_AVG * Cardinality(Added(q)')
  BY <1>1, <1>6, <1>13 DEF Served
<1>. QED
  BY <1>1, <1>4, <1>5, <1>7, <1>8, <1>9, <1>12, <1>14, UpdateStep

LEMMA AddOffsetUpdates ==
  ASSUME Undisturbed, t \in 1..MAX_T, PlacesInv, DataOK,
         NEW c \in Conns, AddOffset(c), NEW q \in Signers, q = Server(c),
         MessageInv(q), \A d \in HandlersOf(q) : UpdateInv(d)
  PROVE  MessageInv(q)' /\ \A d \in HandlersOf(q) : UpdateInv(d)'
<1>1. HandlerGoes(c) /\ SameSession /\ UNCHANGED <<smlen, mem, buf>> /\ hpc[c] = "addOffset" /\ TypeOK
  BY HandleMoves DEF Undisturbed, Handle, HandlerGoes, HandlersGo, AddOffset
<1>2. hpc[c] \in Updating
  BY <1>1 DEF Updating
<1>3. Phase(c) = "exch" /\ hpc'[c] = "copy"
  BY <1>1, <1>2, PhaseOfStep DEF Undisturbed, HandlerInv, AddOffset, HStep, TypeOK
<1>4. PICK p : p = Client(c)
  OBVIOUS
<1>5. /\ kind[q] = "exch" /\ pc[q] \in {"accept", "destroy"} /\ p \in Signers /\ p < q /\ c \in HandlersOf(q)
  BY <1>1, <1>3, <1>4, ExchangeServer
<1>6. UpdateInv(c)
  BY <1>5
<1>7. reg[c] = 0 /\ buf[c] = Shard(p) /\ Offset(c) = Place(p) /\ Place(p) \in Nat
  BY <1>1, <1>2, <1>4, <1>5, <1>6, LayoutIs DEF UpdateInv, Offset, PlaceOf
<1>8. /\ reg' = [reg EXCEPT ![c] = reg[c] + Offset(c)] /\ sm' = [sm EXCEPT ![q] = reg[c] + Offset(c)]
  BY DEF AddOffset
<1>9. reg[c] + Offset(c) = Place(p)
  BY <1>7
<1>10. /\ reg'[c] = Place(p) /\ sm'[q] = Place(p) /\ \A d \in Conns : d # c => reg'[d] = reg[d]
  BY <1>8, <1>9, SignersAre DEF DataOK
<1>11. \A r : Holds(q, r)' <=> Holds(q, r)
  BY <1>1, HoldsSame
<1>12. hpc'[c] \in Moved /\ hpc'[c] \notin Copied
  BY <1>3 DEF Moved, Copied
<1>13. UpdateInv(c)'
  BY <1>1, <1>3, <1>4, <1>7, <1>10, <1>12, UpdateInvIs
<1>14. Added(q)' = Added(q)
  BY <1>1, <1>3, AddedSame DEF HandlerGoes
<1>15. smlen'[q] = Levels(q) + SPX_WOTS_AVG * Cardinality(Added(q)')
  BY <1>1, <1>5, <1>14, ServedIs DEF Served, HandlerGoes, HandlersGo
<1>. QED
  BY <1>1, <1>2, <1>5, <1>10, <1>11, <1>12, <1>13, <1>15, UpdateStep

LEMMA CopyUpdates ==
  ASSUME Undisturbed, t \in 1..MAX_T, PlacesInv, DataOK,
         NEW c \in Conns, Copy(c), NEW q \in Signers, q = Server(c),
         MessageInv(q), \A d \in HandlersOf(q) : UpdateInv(d)
  PROVE  MessageInv(q)' /\ \A d \in HandlersOf(q) : UpdateInv(d)'
<1>1. HandlerGoes(c) /\ SameSession /\ UNCHANGED <<sm, smlen, buf, reg>> /\ hpc[c] = "copy" /\ TypeOK
  BY HandleMoves DEF Undisturbed, Handle, HandlerGoes, HandlersGo, Copy
<1>2. hpc[c] \in Updating /\ hpc[c] \in Moved
  BY <1>1 DEF Updating, Moved
<1>3. Phase(c) = "exch" /\ hpc'[c] = "loadBack"
  BY <1>1, <1>2, PhaseOfStep DEF Undisturbed, HandlerInv, Copy, HStep, TypeOK
<1>4. PICK p : p = Client(c)
  OBVIOUS
<1>5. /\ kind[q] = "exch" /\ pc[q] \in {"accept", "destroy"} /\ p \in Signers /\ p < q /\ c \in HandlersOf(q)
  BY <1>1, <1>3, <1>4, ExchangeServer
<1>6. UpdateInv(c)
  BY <1>5
<1>7. reg[c] = Place(p) /\ buf[c] = Shard(p) /\ sm[q] = Place(p)
  BY <1>1, <1>2, <1>4, <1>6 DEF UpdateInv
<1>8. mem' = [mem EXCEPT ![q] = Written(q, Place(p), Shard(p))]
  BY <1>7 DEF Copy
<1>9. Holds(q, p)' /\ \A r \in Signers : Holds(q, r) => Holds(q, r)'
  BY <1>1, <1>5, <1>8, WrittenShard, SignersAre DEF SameSession
<1>10. hpc'[c] \in Moved /\ hpc'[c] \notin {"addOffset", "copy", "subOffset", "addLen"}
  BY <1>3 DEF Moved
<1>11. UpdateInv(c)'
  BY <1>1, <1>4, <1>7, <1>9, <1>10, UpdateInvIs
<1>12. Added(q)' = Added(q)
  BY <1>1, <1>3, AddedSame DEF HandlerGoes
<1>13. smlen'[q] = Levels(q) + SPX_WOTS_AVG * Cardinality(Added(q)')
  BY <1>1, <1>5, <1>12, ServedIs DEF Served, HandlerGoes, HandlersGo
<1>. QED
  BY <1>1, <1>2, <1>5, <1>9, <1>10, <1>11, <1>13, UpdateStep

LEMMA LoadBackUpdates ==
  ASSUME Undisturbed, t \in 1..MAX_T, PlacesInv, DataOK,
         NEW c \in Conns, LoadBack(c), NEW q \in Signers, q = Server(c),
         MessageInv(q), \A d \in HandlersOf(q) : UpdateInv(d)
  PROVE  MessageInv(q)' /\ \A d \in HandlersOf(q) : UpdateInv(d)'
<1>1. HandlerGoes(c) /\ SameSession /\ UNCHANGED <<sm, smlen, mem, buf>> /\ hpc[c] = "loadBack" /\ TypeOK
  BY HandleMoves DEF Undisturbed, Handle, HandlerGoes, HandlersGo, LoadBack, message
<1>2. hpc[c] \in Updating /\ hpc[c] \in Moved /\ hpc[c] \in Copied
  BY <1>1 DEF Updating, Moved, Copied
<1>3. Phase(c) = "exch" /\ hpc'[c] = "subOffset" /\ reg' = [reg EXCEPT ![c] = sm[q]]
  BY <1>1, <1>2, PhaseOfStep DEF Undisturbed, HandlerInv, LoadBack, HStep, TypeOK
<1>4. PICK p : p = Client(c)
  OBVIOUS
<1>5. /\ kind[q] = "exch" /\ pc[q] \in {"accept", "destroy"} /\ p \in Signers /\ p < q /\ c \in HandlersOf(q)
  BY <1>1, <1>3, <1>4, ExchangeServer
<1>6. UpdateInv(c)
  BY <1>5
<1>7. buf[c] = Shard(p) /\ sm[q] = Place(p) /\ Holds(q, p)
  BY <1>2, <1>3, <1>4, <1>6 DEF UpdateInv
<1>8. reg'[c] = Place(p) /\ \A d \in Conns : d # c => reg'[d] = reg[d]
  BY <1>3, <1>7 DEF DataOK
<1>9. \A r : Holds(q, r)' <=> Holds(q, r)
  BY <1>1, HoldsSame
<1>10. hpc'[c] \in Moved /\ hpc'[c] \notin {"addOffset", "addLen"}
  BY <1>3 DEF Moved
<1>11. UpdateInv(c)'
  BY <1>1, <1>4, <1>7, <1>8, <1>9, <1>10, UpdateInvIs
<1>12. Added(q)' = Added(q)
  BY <1>1, <1>3, AddedSame DEF HandlerGoes
<1>13. smlen'[q] = Levels(q) + SPX_WOTS_AVG * Cardinality(Added(q)')
  BY <1>1, <1>5, <1>12, ServedIs DEF Served, HandlerGoes, HandlersGo
<1>. QED
  BY <1>1, <1>2, <1>5, <1>8, <1>9, <1>10, <1>11, <1>13, UpdateStep

LEMMA SubOffsetUpdates ==
  ASSUME Undisturbed, t \in 1..MAX_T, PlacesInv, DataOK,
         NEW c \in Conns, SubOffset(c), NEW q \in Signers, q = Server(c),
         MessageInv(q), \A d \in HandlersOf(q) : UpdateInv(d)
  PROVE  MessageInv(q)' /\ \A d \in HandlersOf(q) : UpdateInv(d)'
<1>1. HandlerGoes(c) /\ SameSession /\ UNCHANGED <<smlen, mem, buf, reg>> /\ hpc[c] = "subOffset" /\ TypeOK
  BY HandleMoves DEF Undisturbed, Handle, HandlerGoes, HandlersGo, SubOffset
<1>2. hpc[c] \in Updating /\ hpc[c] \in Copied
  BY <1>1 DEF Updating, Copied
<1>3. Phase(c) = "exch" /\ hpc'[c] = "loadLen" /\ sm' = [sm EXCEPT ![q] = reg[c] - Offset(c)]
  BY <1>1, <1>2, PhaseOfStep DEF Undisturbed, HandlerInv, SubOffset, HStep, TypeOK
<1>4. PICK p : p = Client(c)
  OBVIOUS
<1>5. /\ kind[q] = "exch" /\ pc[q] \in {"accept", "destroy"} /\ p \in Signers /\ p < q /\ c \in HandlersOf(q)
  BY <1>1, <1>3, <1>4, ExchangeServer
<1>6. UpdateInv(c)
  BY <1>5
<1>7. buf[c] = Shard(p) /\ reg[c] = Place(p) /\ Holds(q, p) /\ Offset(c) = Place(p) /\ Place(p) \in Nat
  BY <1>1, <1>2, <1>3, <1>4, <1>5, <1>6, LayoutIs DEF UpdateInv, Offset, PlaceOf
<1>8. reg[c] - Offset(c) = 0
  BY <1>7
<1>9. sm'[q] = 0
  BY <1>3, <1>8, SignersAre DEF DataOK
<1>10. \A r : Holds(q, r)' <=> Holds(q, r)
  BY <1>1, HoldsSame
<1>11. hpc'[c] \notin Moved \cup {"addOffset", "copy", "subOffset", "addLen"}
  BY <1>3 DEF Moved
<1>12. UpdateInv(c)'
  BY <1>1, <1>4, <1>7, <1>10, <1>11, UpdateInvIs
<1>13. Added(q)' = Added(q)
  BY <1>1, <1>3, AddedSame DEF HandlerGoes
<1>14. smlen'[q] = Levels(q) + SPX_WOTS_AVG * Cardinality(Added(q)')
  BY <1>1, <1>5, <1>13, ServedIs DEF Served, HandlerGoes, HandlersGo
<1>. QED
  BY <1>1, <1>2, <1>5, <1>9, <1>10, <1>12, <1>14, UpdateStep

LEMMA LoadLenUpdates ==
  ASSUME Undisturbed, t \in 1..MAX_T, PlacesInv, DataOK,
         NEW c \in Conns, LoadLen(c), NEW q \in Signers, q = Server(c),
         MessageInv(q), \A d \in HandlersOf(q) : UpdateInv(d)
  PROVE  MessageInv(q)' /\ \A d \in HandlersOf(q) : UpdateInv(d)'
<1>1. HandlerGoes(c) /\ SameSession /\ UNCHANGED <<sm, smlen, mem, buf>> /\ hpc[c] = "loadLen" /\ TypeOK
  BY HandleMoves DEF Undisturbed, Handle, HandlerGoes, HandlersGo, LoadLen, message
<1>2. hpc[c] \in Updating /\ hpc[c] \in Copied /\ hpc[c] \notin Moved
  BY <1>1 DEF Updating, Copied, Moved
<1>3. Phase(c) = "exch" /\ hpc'[c] = "addLen" /\ reg' = [reg EXCEPT ![c] = smlen[q]]
  BY <1>1, <1>2, PhaseOfStep DEF Undisturbed, HandlerInv, LoadLen, HStep, TypeOK
<1>4. PICK p : p = Client(c)
  OBVIOUS
<1>5. /\ kind[q] = "exch" /\ pc[q] \in {"accept", "destroy"} /\ p \in Signers /\ p < q /\ c \in HandlersOf(q)
  BY <1>1, <1>3, <1>4, ExchangeServer
<1>6. UpdateInv(c)
  BY <1>5
<1>7. buf[c] = Shard(p) /\ Holds(q, p)
  BY <1>2, <1>3, <1>4, <1>6 DEF UpdateInv
<1>8. reg'[c] = smlen[q] /\ \A d \in Conns : d # c => reg'[d] = reg[d]
  BY <1>3 DEF DataOK
<1>9. \A r : Holds(q, r)' <=> Holds(q, r)
  BY <1>1, HoldsSame
<1>10. hpc'[c] \notin Moved \cup {"addOffset", "copy", "subOffset"}
  BY <1>3 DEF Moved
<1>11. UpdateInv(c)'
  BY <1>1, <1>4, <1>7, <1>8, <1>9, <1>10, UpdateInvIs
<1>12. Added(q)' = Added(q)
  BY <1>1, <1>3, AddedSame DEF HandlerGoes
<1>13. smlen'[q] = Levels(q) + SPX_WOTS_AVG * Cardinality(Added(q)')
  BY <1>1, <1>5, <1>12, ServedIs DEF Served, HandlerGoes, HandlersGo
<1>. QED
  BY <1>1, <1>2, <1>5, <1>8, <1>9, <1>10, <1>11, <1>13, UpdateStep

LEMMA AddLenUpdates ==
  ASSUME Undisturbed, t \in 1..MAX_T, PlacesInv, DataOK,
         NEW c \in Conns, AddLen(c), NEW q \in Signers, q = Server(c),
         MessageInv(q), \A d \in HandlersOf(q) : UpdateInv(d)
  PROVE  MessageInv(q)' /\ \A d \in HandlersOf(q) : UpdateInv(d)'
<1>1. HandlerGoes(c) /\ SameSession /\ UNCHANGED <<sm, mem, buf, reg>> /\ hpc[c] = "addLen" /\ TypeOK
  BY HandleMoves DEF Undisturbed, Handle, HandlerGoes, HandlersGo, AddLen
<1>2. hpc[c] \in Updating /\ hpc[c] \in Copied /\ hpc[c] \notin Moved
  BY <1>1 DEF Updating, Copied, Moved
<1>3. Phase(c) = "exch" /\ hpc'[c] = "sendShard" /\ smlen' = [smlen EXCEPT ![q] = reg[c] + Len(buf[c])]
  BY <1>1, <1>2, PhaseOfStep DEF Undisturbed, HandlerInv, AddLen, HStep, TypeOK
<1>4. PICK p : p = Client(c)
  OBVIOUS
<1>5. /\ kind[q] = "exch" /\ pc[q] \in {"accept", "destroy"} /\ p \in Signers /\ p < q /\ c \in HandlersOf(q)
      /\ c = <<p, "exch", q>>
  BY <1>1, <1>3, <1>4, ExchangeServer
<1>6. UpdateInv(c)
  BY <1>5
<1>7. buf[c] = Shard(p) /\ Holds(q, p) /\ reg[c] = smlen[q]
  BY <1>1, <1>2, <1>3, <1>4, <1>6 DEF UpdateInv
<1>8. Len(Shard(p)) = SPX_WOTS_AVG
  <2>1. p # t - 1
    BY <1>5, SignersAre
  <2>. QED
    BY <1>5, <2>1, ShardIs, LayoutIs
<1>9. smlen'[q] = smlen[q] + SPX_WOTS_AVG
  BY <1>3, <1>7, <1>8, SignersAre DEF DataOK
<1>10. \A r : Holds(q, r)' <=> Holds(q, r)
  BY <1>1, HoldsSame
<1>11. hpc'[c] \notin Moved \cup Updating \cup {"load", "addOffset", "copy", "subOffset", "addLen"}
  BY <1>3 DEF Moved, Updating
<1>12. UpdateInv(c)'
  BY <1>1, <1>4, <1>7, <1>10, <1>11, UpdateInvIs
<1>13. Added(q)' = Added(q) \cup {p} /\ p \notin Added(q)
  <2>1. Signers' = Signers
    BY <1>1, SessionSame
  <2>2. \A r \in Signers : r < q => <<r, "exch", q>> \in Conns /\ (<<r, "exch", q>> = c <=> r = p)
    BY <1>5, SignersAre, ConnsAre
  <2>3. \A d \in Conns : d # c => hpc'[d] = hpc[d]
    BY <1>1 DEF HandlerGoes
  <2>4. \A r : r \in Added(q)' <=> r \in Added(q) \/ r = p
    BY <1>3, <1>5, <2>1, <2>2, <2>3 DEF Added
  <2>. QED
    BY <1>1, <1>5, <2>4 DEF Added
<1>14. IsFiniteSet(Added(q))
  BY SignersAre, FS_Subset DEF Added
<1>15. PICK n \in Nat : n = Cardinality(Added(q)) /\ Cardinality(Added(q)') = n + 1
  BY <1>13, <1>14, FS_AddElement, FS_CardinalityType
<1>16. smlen[q] = Levels(q) + SPX_WOTS_AVG * n
  BY <1>1, <1>5, <1>15, ServedIs DEF Served, HandlerGoes, HandlersGo
<1>17. smlen'[q] = Levels(q) + SPX_WOTS_AVG * (n + 1)
  <2>1. PICK w, a, x : w = SPX_WOTS_AVG /\ a = Levels(q) /\ x = w * n
    OBVIOUS
  <2>2. w \in Nat /\ a \in Nat
    BY <2>1, LayoutIs
  <2>3. x \in Nat /\ w * (n + 1) = x + w
    BY <2>1, <2>2
  <2>. QED
    BY <1>9, <1>16, <2>1, <2>2, <2>3
<1>. QED
  BY <1>1, <1>2, <1>5, <1>10, <1>11, <1>12, <1>15, <1>17, UpdateStep

LEMMA HandleSigners ==
  ASSUME Undisturbed, t \in 1..MAX_T, Grows, PlacesInv, StreamsInv, ShardInv, DataOK, DOMAIN trouble = Players,
         NEW c \in Conns, Handle(c), NEW q \in Signers, SignerInv(q)
  PROVE  SignerInv(q)'
<1>1. /\ HandlerGoes(c) /\ HandlersGo /\ SameSession /\ TypeOK
      /\ \A d \in Conns : d # c => hpc'[d] = hpc[d]
  BY HandleMoves DEF Undisturbed, HandlerGoes, HandlersGo
<1>2. q \in Players /\ \A d \in HandlersOf(q) : d \in Conns
  BY SignersAre DEF HandlersOf
<1>3. CASE RecvShare(c) \/ SendR(c) \/ SendSeed(c) \/ RecvRoot(c) \/ SendTop(c) \/ HandlerSendShard(c)
  <2>1. UNCHANGED <<sm, smlen, mem, buf, reg>>
    BY <1>3 DEF RecvShare, SendR, SendSeed, RecvRoot, SendTop, HandlerSendShard, message
  <2>2. Calm(c)
    <3>1. CASE HandlerSendShard(c)
      <4>1. hpc[c] = "sendShard" /\ hpc'[c] = "over"
        BY <1>1, <3>1 DEF HandlerSendShard, HStep, TypeOK
      <4>. QED
        BY <2>1, <4>1 DEF Calm, Updating
    <3>2. CASE RecvShare(c) \/ SendR(c) \/ SendSeed(c) \/ RecvRoot(c) \/ SendTop(c)
      <4>1. Phase(c) # "exch"
        BY <3>2, PhaseOfStep DEF Undisturbed, HandlerInv, RecvShare, SendR, SendSeed, RecvRoot, SendTop
      <4>2. hpc[c] \notin Updating \cup {"load"} /\ hpc'[c] \notin Updating \cup {"load"}
        BY <1>1, <3>2 DEF RecvShare, SendR, SendSeed, RecvRoot, SendTop, HStep, TypeOK, Updating
      <4>. QED
        BY <2>1, <4>1, <4>2 DEF Calm
    <3>. QED
      BY <1>3, <3>1, <3>2
  <2>3. \A d \in HandlersOf(q) : Calm(d)
    BY <1>1, <1>2, <2>1, <2>2 DEF Calm
  <2>. QED
    BY <1>1, <2>1, <2>3, HandlerKeeps
<1>4. CASE HandlerRecvShard(c) \/ Load(c) \/ AddOffset(c) \/ Copy(c) \/ LoadBack(c) \/ SubOffset(c)
            \/ LoadLen(c) \/ AddLen(c)
  <2>1. CASE q # Server(c)
    <3>1. sm'[q] = sm[q] /\ smlen'[q] = smlen[q] /\ mem'[q] = mem[q]
      BY <1>2, <1>4, <2>1
      DEF DataOK, HandlerRecvShard, Load, AddOffset, Copy, LoadBack, SubOffset, LoadLen, AddLen, message
    <3>2. \A d \in Conns : d # c => buf'[d] = buf[d] /\ reg'[d] = reg[d]
      BY <1>4 DEF DataOK, HandlerRecvShard, Load, AddOffset, Copy, LoadBack, SubOffset, LoadLen, AddLen
    <3>3. \A d \in HandlersOf(q) : Calm(d)
      BY <1>1, <2>1, <3>2 DEF Calm, HandlersOf
    <3>. QED
      BY <1>1, <3>1, <3>3, HandlerKeeps
  <2>2. CASE q = Server(c)
    <3>. SUFFICES ASSUME trouble'[q] = {} PROVE MessageInv(q)' /\ \A d \in HandlersOf(q) : UpdateInv(d)'
      BY DEF SignerInv, HandlersOf, Server
    <3>1. MessageInv(q) /\ \A d \in HandlersOf(q) : UpdateInv(d)
      BY <1>2 DEF SignerInv, Grows
    <3>. QED
      BY <1>4, <2>2, <3>1, RecvUpdates, LoadUpdates, AddOffsetUpdates, CopyUpdates, LoadBackUpdates,
         SubOffsetUpdates, LoadLenUpdates, AddLenUpdates
  <2>. QED
    BY <2>1, <2>2
<1>. QED
  BY <1>3, <1>4 DEF Handle

LEMMA AggregateSigners ==
  ASSUME Undisturbed, t \in 1..MAX_T, Grows, Aggregate, NEW q \in Signers, SignerInv(q)
  PROVE  SignerInv(q)'
<1>1. HandlersGo /\ UNCHANGED <<sm, smlen, mem, buf, reg>>
  BY AggregateGoes DEF Undisturbed, Aggregate, message
<1>2. ASSUME NEW d \in HandlersOf(q) PROVE Calm(d)
  <2>1. d \in Conns
    BY DEF HandlersOf
  <2>2. hpc'[d] = hpc[d] \/ (hpc[d] = "barrier" /\ hpc'[d] = "sendR")
    BY <2>1 DEF Aggregate
  <2>. QED
    BY <1>1, <2>2 DEF Calm, Updating
<1>. QED
  BY <1>1, <1>2, HandlerKeeps

\* Another's main thread goes on.
LEMMA OthersSigners ==
  ASSUME t \in 1..MAX_T, Grows, NEW n, OthersStay(n), NEW q \in Signers, q # n, SignerInv(q),
         sm'[q] = sm[q], smlen'[q] = smlen[q], mem'[q] = mem[q], \A c \in HandlersOf(q) : Calm(c)
  PROVE  SignerInv(q)'
<1>1. q \in Players /\ q \in Nodes
  BY SignersAre
<1>2. pc'[q] = pc[q] /\ kind'[q] = kind[q] /\ peer'[q] = peer[q]
  BY <1>1 DEF OthersStay
<1>3. /\ Signed(q)' <=> Signed(q)
      /\ \A r : Exchanged(q, r)' <=> Exchanged(q, r)
  BY <1>2 DEF Signed, Exchanged
<1>4. SameSession /\ (trouble'[q] = {} => trouble[q] = {})
  BY <1>1 DEF Grows
<1>. QED
  BY <1>2, <1>3, <1>4, SignerKept

LEMMA HandlersIdle ==
  ASSUME handlerVars' = handlerVars, NEW q
  PROVE  \A c \in HandlersOf(q) : Calm(c)
  BY DEF handlerVars, Calm

\* Participants that open or close a listener or accept, but for exchanges.
LEMMA ListenSigners ==
  ASSUME t \in 1..MAX_T, Grows, TypeOK, NEW n \in Nodes, Listen(n), NEW q \in Signers, SignerInv(q)
  PROVE  SignerInv(q)'
<1>1. /\ pc[n] = "listen" /\ pc' = [pc EXCEPT ![n] = "accept"] /\ kind' = kind /\ peer' = peer
      /\ toAccept' = [toAccept EXCEPT ![n] = Expected(n)]
      /\ UNCHANGED <<sm, smlen, mem>> /\ handlerVars' = handlerVars
  BY DEF Listen, message
<1>2. pc'[n] = "accept" /\ OthersStay(n)
  BY <1>1 DEF TypeOK, OthersStay
<1>3. \A c \in HandlersOf(q) : Calm(c)
  BY <1>1, HandlersIdle
<1>4. CASE q # n
  BY <1>1, <1>2, <1>3, <1>4, OthersSigners
<1>5. CASE q = n
  <2>1. /\ Signed(q)' <=> Signed(q)
        /\ \A r : Exchanged(q, r)' <=> Exchanged(q, r)
    BY <1>1, <1>2, <1>5 DEF Signed, Exchanged, Calling, Serving
  <2>2. SameSession /\ (trouble'[q] = {} => trouble[q] = {})
    BY SignersAre DEF Grows
  <2>. QED
    BY <1>1, <1>2, <1>3, <1>5, <2>1, <2>2, SignerKept DEF Serving
<1>. QED
  BY <1>4, <1>5

LEMMA AcceptSigners ==
  ASSUME t \in 1..MAX_T, Grows, PlacesInv, NEW n \in Nodes, NEW c \in Conns, Accept(n), Accepted(n, c),
         NEW q \in Signers, SignerInv(q)
  PROVE  SignerInv(q)'
<1>1. /\ pc[n] = "accept" /\ pc'[n] \in {"accept", "destroy"} /\ kind' = kind /\ peer' = peer /\ OthersStay(n)
      /\ hpc'[c] = FirstStep[Phase(c)] /\ \A d \in Conns : d # c => hpc'[d] = hpc[d]
  BY DEF Accepted
<1>2. UNCHANGED <<sm, smlen, mem, buf, reg>>
  BY DEF Accept, message
<1>3. Calm(c)
  <2>1. hpc[c] = "none"
    BY DEF PlacesInv, ConnInv, Accepted
  <2>2. Phase(c) \in {"presign", "root", "exch", "final"}
    BY ConnsAre DEF Phases
  <2>3. hpc'[c] \in {"recvShare", "recvRoot", "recvShard", "sendTop"}
    BY <1>1, <2>2 DEF FirstStep
  <2>. QED
    BY <1>2, <2>1, <2>3 DEF Calm, Updating
<1>4. \A d \in HandlersOf(q) : Calm(d)
  BY <1>1, <1>2, <1>3 DEF Calm, HandlersOf
<1>5. CASE q # n
  BY <1>1, <1>2, <1>4, <1>5, OthersSigners
<1>6. CASE q = n
  <2>1. /\ Signed(q)' <=> Signed(q)
        /\ \A r : Exchanged(q, r)' <=> Exchanged(q, r)
    BY <1>1, <1>6 DEF Signed, Exchanged, Calling, Serving
  <2>2. SameSession /\ (trouble'[q] = {} => trouble[q] = {})
    BY SignersAre DEF Grows
  <2>. QED
    BY <1>1, <1>2, <1>4, <1>6, <2>1, <2>2, SignerKept DEF Serving
<1>. QED
  BY <1>5, <1>6

LEMMA SignTopSigners ==
  ASSUME Undisturbed, t \in 1..MAX_T, Grows, SignTop, PlacesInv, NEW q \in Signers, SignerInv(q)
  PROVE  SignerInv(q)'
<1>1. OthersStay(TTP) /\ UNCHANGED <<sm, smlen, mem>> /\ handlerVars' = handlerVars /\ q # TTP
  BY SignTopPlaces, SignersAre DEF SignTop, message
<1>. QED
  BY <1>1, HandlersIdle, OthersSigners

\* q has done its part of every exchange with those below.
LEMMA FirstExchange ==
  ASSUME Undisturbed, t \in 1..MAX_T, Grows, NEW q \in Signers, SignerInv(q), Calls(q, q + 1),
         (kind[q] = "root" /\ pc[q] = "id" /\ q = 0) \/ (kind[q] = "exch" /\ pc[q] = "destroy"),
         \A r \in Signers : r < q => hpc[<<r, "exch", q>>] = "over",
         UNCHANGED <<sm, smlen, mem>>, handlerVars' = handlerVars
  PROVE  SignerInv(q)'
<1>. SUFFICES ASSUME trouble'[q] = {} PROVE MessageInv(q)' /\ \A d \in HandlersOf(q) : UpdateInv(d)'
  BY DEF SignerInv, HandlersOf, Server
<1>1. SameSession /\ MessageInv(q) /\ \A d \in HandlersOf(q) : UpdateInv(d)
  BY SignersAre DEF SignerInv, Grows
<1>2. \A c \in HandlersOf(q) : Calm(c)
  BY HandlersIdle
<1>3. \A r : Holds(q, r)' <=> Holds(q, r)
  BY <1>1, HoldsSame
<1>4. \A c \in HandlersOf(q) : UpdateInv(c)'
  BY <1>1, <1>2, <1>3, CalmKept
<1>5. q \in Nat /\ q < t /\ t \in Nat /\ \A r : r \in Signers <=> r \in Nat /\ r < t
  BY SignersAre
<1>6. pc'[q] = "connect" /\ \/ q + 1 < t /\ kind'[q] = "exch" /\ peer'[q] = q + 1
                            \/ q = t - 1 /\ kind'[q] = "final"
  BY <1>5 DEF Calls
<1>7. Signed(q) /\ ~Exchanged(q, q)
  BY DEF Signed, Exchanged, Calling, Serving
<1>8. Cardinality(Added(q)) = q
  <2>1. Added(q) = 0..(q - 1)
    BY <1>5 DEF Added
  <2>. QED
    BY <1>5, <2>1, FS_Interval
<1>9. smlen'[q] = Levels(q) + SPX_WOTS_AVG * q
  BY <1>1, <1>7, <1>8 DEF MessageInv
<1>10. /\ q + 1 < t => smlen'[q] = SPX_WOTS_AVG * (q + 1)
       /\ q = t - 1 => smlen'[q] = SPX_D - 1
  <2>1. PICK w, a, x : w = SPX_WOTS_AVG /\ a = Levels(q) /\ x = w * q
    OBVIOUS
  <2>2. w \in Nat /\ a \in Nat
    BY <2>1, LayoutIs
  <2>3. x \in Nat /\ w * (q + 1) = x + w
    BY <1>5, <2>1, <2>2
  <2>4. Place(q) = x /\ (q # t - 1 => a = w) /\ (q = t - 1 => x + a = SPX_D - 1)
    BY <2>1, LayoutIs
  <2>5. smlen'[q] = a + x
    BY <1>9, <2>1
  <2>6. q + 1 < t => q # t - 1
    BY <1>5
  <2>7. q + 1 < t => smlen'[q] = w * (q + 1)
    BY <2>2, <2>3, <2>4, <2>5, <2>6
  <2>8. q = t - 1 => smlen'[q] = SPX_D - 1
    BY <2>2, <2>3, <2>4, <2>5
  <2>. QED
    BY <2>1, <2>7, <2>8
<1>11. /\ Signed(q)' /\ Exchanged(q, q)' /\ \A r \in Signers : ~(q < r /\ Exchanged(q, r)')
  BY <1>5, <1>6 DEF Signed, Exchanged, Serving
<1>12. HandlersOf(q)' = HandlersOf(q) /\ Updating' = Updating /\ Moved' = Moved /\ Signers' = Signers
       /\ SPX_WOTS_AVG' = SPX_WOTS_AVG
  BY <1>1, LayoutSame DEF HandlersOf, Server, Updating, Moved
<1>13. /\ \A c, d \in HandlersOf(q) : hpc'[c] \in Updating /\ hpc'[d] \in Updating => c = d
       /\ (\A c \in HandlersOf(q) : hpc'[c] \notin Moved) => sm'[q] = 0
  BY <1>1 DEF MessageInv, handlerVars
<1>14. Holds(q, q)'
  BY <1>1, <1>3, <1>7 DEF MessageInv
<1>15. MessageInv(q)'
  <2>1. kind'[q] = "exch" => smlen'[q] = SPX_WOTS_AVG * peer'[q]
    BY <1>5, <1>6, <1>10
  <2>2. kind'[q] = "final" => smlen'[q] = SPX_D - 1
    BY <1>5, <1>6, <1>10
  <2>. QED
    BY <1>6, <1>11, <1>12, <1>13, <1>14, <2>1, <2>2 DEF MessageInv
<1>. QED
  BY <1>4, <1>15

LEMMA CloseSigners ==
  ASSUME Undisturbed, t \in 1..MAX_T, Grows, NEW n \in Nodes, Close(n), Closed(n), Idle(n), AfterServing(n), PlacesInv,
         NEW q \in Signers, SignerInv(q)
  PROVE  SignerInv(q)'
<1>1. /\ pc[n] = "destroy" /\ UNCHANGED <<sm, smlen, mem>> /\ handlerVars' = handlerVars /\ OthersStay(n)
      /\ SameSession /\ (trouble'[q] = {} => trouble[q] = {}) /\ hpc' = hpc
  BY AfterClose, SignersAre DEF Close, message, Grows, handlerVars
<1>2. \A c \in HandlersOf(q) : Calm(c)
  BY <1>1, HandlersIdle
<1>3. CASE q # n
  BY <1>1, <1>2, <1>3, OthersSigners
<1>4. CASE q = n
  <2>1. \/ kind[q] = "root" /\ kind'[q] = "root" /\ pc'[q] = "sign"
        \/ kind[q] = "exch" /\ Calls(q, q + 1)
    BY <1>4, AfterClose, SignersAre
  <2>2. CASE kind[q] = "root" /\ kind'[q] = "root" /\ pc'[q] = "sign"
    <3>1. ~Signed(q) /\ ~Signed(q)'
      BY <1>1, <1>4, <2>2 DEF Signed, Calling
    <3>2. \A r : ~Exchanged(q, r) /\ ~Exchanged(q, r)'
      BY <2>2 DEF Exchanged
    <3>. QED
      BY <1>1, <1>2, <2>2, <3>1, <3>2, SignerKept
  <2>3. CASE kind[q] = "exch" /\ Calls(q, q + 1)
    <3>1. PlacesInv' /\ Signers' = Signers
      BY <1>1, ClosePlaces, SessionSame
    <3>2. Exchanged(q, q)'
      <4>1. q \in Nat /\ t \in Nat
        BY SignersAre
      <4>. QED
        BY <2>3, <4>1 DEF Exchanged, Calls, Serving
    <3>3. \A r \in Signers : r < q => hpc[<<r, "exch", q>>] = "over"
      BY <1>1, <3>1, <3>2 DEF PlacesInv, SwapInv
    <3>. QED
      BY <1>1, <1>4, <2>3, <3>3, FirstExchange
  <2>. QED
    BY <2>1, <2>2, <2>3
<1>. QED
  BY <1>3, <1>4

\* Nothing has been moved when no handler runs.
LEMMA PointerBack ==
  ASSUME NEW q, MessageInv(q), Idle(q)
  PROVE  sm[q] = 0
  BY DEF MessageInv, Idle, Moved

\* A signer's calls, but for those that write to its message.
LEMMA StaysSigners ==
  ASSUME Undisturbed, Undisturbed', t \in 1..MAX_T, Grows, last \in {TTP, Stale}, NEW p \in Signers,
         Dial(p) \/ GiveUp(p) \/ SendShare(p) \/ RecvR(p) \/ RecvSeed(p) \/ SendRoot(p) \/ SendShard(p),
         SignerInv(p)
  PROVE  SignerInv(p)'
<1>1. /\ CallMove(p) /\ PlayerAt(p) /\ pc[p] # "sign" /\ (Signed(p)' <=> Signed(p)) /\ p \in Nat
      /\ SameSession /\ (trouble'[p] = {} => trouble[p] = {})
  <2>1. pc[p] # "sign"
    BY DEF Dial, GiveUp, SendShare, RecvR, RecvSeed, SendRoot, SendShard, HasId
  <2>. QED
    BY <2>1, CallMoves, CallShards, CallerFacts, SignersAre DEF Call, Grows
<1>2. UNCHANGED <<sm, smlen, mem>> /\ handlerVars' = handlerVars
  BY DEF Dial, GiveUp, SendShare, RecvR, RecvSeed, SendRoot, SendShard, message
<1>3. \A c \in HandlersOf(p) : Calm(c)
  BY <1>2, HandlersIdle
<1>4. pc[p] # "recvShard" /\ ~(kind[p] = "final" /\ pc[p] = "id" /\ pc'[p] = "done")
  BY <1>1, GoesOn, CallerFacts DEF Dial, GiveUp, SendShare, RecvR, RecvSeed, SendRoot, SendShard, HasId
<1>5. CASE Stays(p)
  <2>1. \A r : Exchanged(p, r)' <=> Exchanged(p, r)
    BY <1>1, <1>5 DEF Exchanged, Stays, CallMove
  <2>2. pc'[p] # "done"
    BY <1>4, <1>5 DEF Stays
  <2>3. kind[p] = "final" => pc[p] # "done"
    BY <1>1, <1>5 DEF Dial, GiveUp, SendShare, RecvR, RecvSeed, SendRoot, SendShard, HasId
  <2>. QED
    BY <1>1, <1>2, <1>3, <1>5, <2>1, <2>2, <2>3, SignerKept DEF Stays, CallMove
<1>6. CASE Presigns(p)
  <2>1. \A r : ~Exchanged(p, r) /\ ~Exchanged(p, r)'
    BY <1>6 DEF Presigns, Exchanged
  <2>. QED
    BY <1>1, <1>2, <1>3, <1>6, <2>1, SignerKept DEF Presigns
<1>7. CASE Hears(p)
  <2>1. \A r : ~Exchanged(p, r) /\ ~Exchanged(p, r)'
    BY <1>7 DEF Hears, Exchanged, Serving
  <2>. QED
    BY <1>1, <1>2, <1>3, <1>7, <2>1, SignerKept DEF Hears, Serving
<1>8. CASE Starts(p)
  <2>1. p = 0 /\ kind[p] = "root" /\ pc[p] = "id" /\ Calls(p, p + 1)
    BY <1>8 DEF Starts
  <2>2. \A r \in Signers : r < p => hpc[<<r, "exch", p>>] = "over"
    BY <2>1, SignersAre
  <2>3. (kind[p] = "root" /\ pc[p] = "id" /\ p = 0) \/ (kind[p] = "exch" /\ pc[p] = "destroy")
    BY <2>1
  <2>4. Calls(p, p + 1)
    BY <2>1
  <2>. QED
    BY <1>2, <2>2, <2>3, <2>4, FirstExchange
<1>. QED
  BY <1>1, <1>4, <1>5, <1>6, <1>7, <1>8 DEF CallMove, Signs, Continues

\* What is said of handlers that are over stays so when layers are added.
LEMMA IdleUpdates ==
  ASSUME t \in 1..MAX_T, SameSession, PlacesInv, NEW p \in Signers, Idle(p), handlerVars' = handlerVars,
         \A c \in HandlersOf(p) : UpdateInv(c), \A r \in Signers : Holds(p, r) => Holds(p, r)'
  PROVE  \A c \in HandlersOf(p) : UpdateInv(c)'
<1>. SUFFICES ASSUME NEW c \in HandlersOf(p) PROVE UpdateInv(c)'
  BY DEF HandlersOf, Server
<1>1. c \in Conns /\ hpc'[c] = hpc[c] /\ hpc[c] \in {"none", "over"} /\ UpdateInv(c)
  BY DEF Idle, HandlersOf, handlerVars
<1>2. Calm(c)
  BY HandlersIdle
<1>3. hpc'[c] \notin Moved /\ hpc'[c] # "addLen" /\ (hpc'[c] \in Copied => Client(c) \in Signers)
  BY <1>1 DEF Moved, PlacesInv, ConnInv, Copied
<1>4. hpc'[c] \in Copied /\ Holds(p, Client(c)) => Holds(p, Client(c))'
  <2>. SUFFICES ASSUME hpc'[c] \in Copied, Holds(p, Client(c)) PROVE Holds(p, Client(c))'
    OBVIOUS
  <2>1. PICK r \in Signers : r = Client(c)
    BY <1>3
  <2>2. Holds(p, r)
    BY <2>1
  <2>3. Holds(p, r)'
    BY <2>2
  <2>. QED
    BY <2>1, <2>3
<1>. QED
  BY <1>1, <1>2, <1>3, <1>4, CalmKept

LEMMA SignSigners ==
  ASSUME Undisturbed, t \in 1..MAX_T, Grows, last \in {TTP, Stale}, NEW p \in Signers, Sign(p),
         DataOK, PlacesInv, StreamsInv, ShardInv, SignerInv(p)
  PROVE  SignerInv(p)'
<1>. SUFFICES ASSUME trouble'[p] = {} PROVE MessageInv(p)' /\ \A c \in HandlersOf(p) : UpdateInv(c)'
  BY DEF SignerInv, HandlersOf, Server
<1>1. SameSession /\ MessageInv(p) /\ \A c \in HandlersOf(p) : UpdateInv(c)
  BY SignersAre DEF SignerInv, Grows
<1>2. Layers(p) = Shard(p) /\ kind[p] = "root" /\ pc[p] = "sign" /\ kind'[p] = "root" /\ pc'[p] = "connect"
  BY SignStreams
<1>3. /\ mem' = [mem EXCEPT ![p] = Written(p, sm[p] + Place(p), Layers(p))]
      /\ smlen' = [smlen EXCEPT ![p] = smlen[p] + Levels(p)] /\ sm' = sm /\ handlerVars' = handlerVars
  BY DEF Sign
<1>4. Idle(p)
  BY <1>2, IdleWhen DEF PlacesInv
<1>5. sm[p] = 0 /\ smlen[p] = 0
  BY <1>1, <1>2, <1>4, PointerBack DEF MessageInv, Signed, Calling
<1>6. Place(p) \in Nat /\ Levels(p) \in Nat /\ SPX_WOTS_AVG \in Nat /\ p \in Players
  BY LayoutIs, SignersAre
<1>7. sm[p] + Place(p) = Place(p) /\ smlen[p] + Levels(p) = Levels(p)
  BY <1>5, <1>6
<1>8. Holds(p, p)' /\ \A r \in Signers : Holds(p, r) => Holds(p, r)'
  BY <1>1, <1>2, <1>3, <1>6, <1>7, WrittenShard DEF SameSession
<1>9. smlen'[p] = Levels(p)
  BY <1>3, <1>6, <1>7 DEF DataOK
<1>10. \A c \in HandlersOf(p) : UpdateInv(c)'
  BY <1>1, <1>3, <1>4, <1>8, IdleUpdates
<1>11. Signers' = Signers /\ Levels(p)' = Levels(p) /\ SPX_WOTS_AVG' = SPX_WOTS_AVG
       /\ HandlersOf(p)' = HandlersOf(p) /\ Updating' = Updating /\ Moved' = Moved
  BY <1>1, LayoutSame DEF HandlersOf, Server, Updating, Moved
<1>12. Added(p)' = {}
  <2>1. \A r \in Signers : r < p => hpc'[<<r, "exch", p>>] = "none"
    BY <1>2, <1>3, NotSwapped DEF PlacesInv, handlerVars
  <2>. QED
    BY <1>11, <2>1 DEF Added
<1>13. smlen'[p] = Levels(p) + SPX_WOTS_AVG * Cardinality(Added(p)')
  <2>1. Cardinality(Added(p)') = 0
    BY <1>12, FS_EmptySet
  <2>2. \A n \in Nat, w \in Nat : n = n + w * 0
    OBVIOUS
  <2>. QED
    BY <1>6, <1>9, <2>1, <2>2
<1>14. Signed(p)' /\ \A r : ~Exchanged(p, r)'
  BY <1>2 DEF Signed, Calling, Exchanged
<1>15. /\ \A c, d \in HandlersOf(p) : hpc'[c] \in Updating /\ hpc'[d] \in Updating => c = d
       /\ sm'[p] = 0
  BY <1>1, <1>3, <1>5 DEF MessageInv, handlerVars
<1>16. MessageInv(p)'
  BY <1>2, <1>8, <1>11, <1>13, <1>14, <1>15 DEF MessageInv
<1>. QED
  BY <1>10, <1>16

LEMMA RecvShardSigners ==
  ASSUME Undisturbed, t \in 1..MAX_T, Grows, last \in {TTP, Stale}, NEW p \in Signers, RecvShard(p),
         DataOK, PlacesInv, StreamsInv, DOMAIN trouble = Players, SignerInv(p)
  PROVE  SignerInv(p)'
<1>. SUFFICES ASSUME trouble'[p] = {} PROVE MessageInv(p)' /\ \A c \in HandlersOf(p) : UpdateInv(c)'
  BY DEF SignerInv, HandlersOf, Server
<1>1. SameSession /\ MessageInv(p) /\ \A c \in HandlersOf(p) : UpdateInv(c)
  BY SignersAre DEF SignerInv, Grows
<1>2. PICK r : r = peer[p]
  OBVIOUS
<1>3. /\ kind[p] = "exch" /\ pc[p] = "recvShard" /\ r \in Signers /\ p < r /\ Calls(p, r + 1)
      /\ sm' = sm /\ handlerVars' = handlerVars
  BY <1>2, RecvShardStreams DEF RecvShard
<1>4. PICK got, rest :
          /\ \E s \in {<<>>, Shard(r)} : Received(s, got, rest)
          /\ mem' = [mem EXCEPT ![p] = Written(p, sm[p] + Place(r), got)]
          /\ smlen' = [smlen EXCEPT ![p] = smlen[p] + Len(got)]
          /\ Short(p, r, got)
  BY <1>2, RecvShardStreams
<1>5. got = Shard(r)
  <2>1. ~(Len(got) < Levels(r))
    BY <1>4, SignersAre DEF Short
  <2>. QED
    BY <1>3, <1>4, <2>1, WholeShard
<1>6. Idle(p)
  BY <1>3, IdleWhen DEF PlacesInv
<1>7. sm[p] = 0
  BY <1>1, <1>6, PointerBack
<1>8. /\ p \in Nat /\ r \in Nat /\ r < t /\ t \in Nat /\ p \in Players
      /\ \A s : s \in Signers <=> s \in Nat /\ s < t
  BY <1>3, SignersAre
<1>9. Place(r) \in Nat /\ Levels(r) \in Nat /\ SPX_WOTS_AVG \in Nat /\ Len(Shard(r)) = Levels(r)
  BY <1>3, LayoutIs, ShardIs
<1>10. sm[p] + Place(r) = Place(r)
  BY <1>7, <1>9
<1>11. Holds(p, r)' /\ \A s \in Signers : Holds(p, s) => Holds(p, s)'
  BY <1>1, <1>3, <1>4, <1>5, <1>8, <1>10, WrittenShard DEF SameSession
<1>12. \A c \in HandlersOf(p) : UpdateInv(c)'
  BY <1>1, <1>3, <1>6, <1>11, IdleUpdates
<1>13. pc'[p] = "connect" /\ \/ r + 1 < t /\ kind'[p] = "exch" /\ peer'[p] = r + 1
                             \/ r = t - 1 /\ kind'[p] = "final"
  BY <1>3, <1>8 DEF Calls
<1>14. smlen'[p] = SPX_WOTS_AVG * r + Levels(r)
  <2>1. smlen[p] = SPX_WOTS_AVG * r
    BY <1>1, <1>2, <1>3 DEF MessageInv, Serving
  <2>. QED
    BY <1>4, <1>5, <1>8, <1>9, <2>1 DEF DataOK
<1>15. /\ r + 1 < t => smlen'[p] = SPX_WOTS_AVG * (r + 1)
       /\ r = t - 1 => smlen'[p] = SPX_D - 1
  <2>1. PICK w, a, x : w = SPX_WOTS_AVG /\ a = Levels(r) /\ x = w * r
    OBVIOUS
  <2>2. w \in Nat /\ a \in Nat
    BY <1>9, <2>1
  <2>3. x \in Nat /\ w * (r + 1) = x + w
    BY <1>8, <2>1, <2>2
  <2>4. Place(r) = x /\ (r # t - 1 => a = w) /\ (r = t - 1 => x + a = SPX_D - 1)
    BY <1>3, <2>1, LayoutIs
  <2>5. smlen'[p] = x + a
    BY <1>14, <2>1
  <2>6. r + 1 < t => r # t - 1
    BY <1>8
  <2>7. r + 1 < t => smlen'[p] = w * (r + 1)
    BY <2>2, <2>3, <2>4, <2>5, <2>6
  <2>. QED
    BY <2>1, <2>4, <2>5, <2>7
<1>16. Signed(p) /\ Signed(p)' /\ Exchanged(p, p)'
  BY <1>3, <1>8, <1>13 DEF Signed, Exchanged, Serving
<1>17. ASSUME NEW s \in Signers, p < s, Exchanged(p, s)' PROVE Holds(p, s)'
  <2>1. s < r \/ s = r
    BY <1>8, <1>13, <1>17 DEF Exchanged
  <2>2. CASE s < r
    <3>1. Exchanged(p, s)
      BY <1>2, <1>3, <2>2 DEF Exchanged, Serving
    <3>. QED
      BY <1>1, <1>11, <1>17, <3>1 DEF MessageInv
  <2>3. CASE s = r
    BY <1>11, <2>3
  <2>. QED
    BY <2>1, <2>2, <2>3
<1>18. Signers' = Signers /\ SPX_WOTS_AVG' = SPX_WOTS_AVG
       /\ HandlersOf(p)' = HandlersOf(p) /\ Updating' = Updating /\ Moved' = Moved
  BY <1>1, LayoutSame DEF HandlersOf, Server, Updating, Moved
<1>19. /\ \A c, d \in HandlersOf(p) : hpc'[c] \in Updating /\ hpc'[d] \in Updating => c = d
       /\ sm'[p] = 0
  BY <1>1, <1>3, <1>7 DEF MessageInv, handlerVars
<1>20. Holds(p, p)'
  BY <1>1, <1>11, <1>16 DEF MessageInv
<1>21. MessageInv(p)'
  <2>1. kind'[p] = "exch" => smlen'[p] = SPX_WOTS_AVG * peer'[p]
    BY <1>8, <1>13, <1>15
  <2>2. kind'[p] = "final" => smlen'[p] = SPX_D - 1
    BY <1>8, <1>13, <1>15
  <2>. QED
    BY <1>13, <1>16, <1>17, <1>18, <1>19, <1>20, <2>1, <2>2 DEF MessageInv
<1>. QED
  BY <1>12, <1>21

\* The last layer comes from the TTP, and the message is complete.
LEMMA RecvTopSigners ==
  ASSUME Undisturbed, t \in 1..MAX_T, Grows, last \in {TTP, Stale}, NEW p \in Signers, RecvTop(p),
         DataOK, PlacesInv, StreamsInv, SignerInv(p)
  PROVE  SignerInv(p)'
<1>. SUFFICES ASSUME trouble'[p] = {} PROVE MessageInv(p)' /\ \A c \in HandlersOf(p) : UpdateInv(c)'
  BY DEF SignerInv, HandlersOf, Server
<1>1. SameSession /\ MessageInv(p) /\ \A c \in HandlersOf(p) : UpdateInv(c)
  BY SignersAre DEF SignerInv, Grows
<1>2. /\ kind[p] = "final" /\ pc[p] = "id" /\ kind'[p] = "final" /\ pc'[p] = "done"
      /\ sm' = [sm EXCEPT ![p] = sm[p] + (SPX_D - 1) - smlen[p]]
      /\ smlen' = smlen /\ handlerVars' = handlerVars
  BY RecvTopStreams DEF RecvTop
<1>3. PICK got : /\ Len(got) >= 1 /\ got[1] = Top /\ DOMAIN got = 1..Len(got) /\ Len(got) \in Nat
                 /\ mem' = [mem EXCEPT ![p] = Written(p, sm[p] + SPX_D - 1, got)]
  BY RecvTopStreams
<1>4. Idle(p)
  BY <1>2, IdleWhen DEF PlacesInv
<1>5. sm[p] = 0 /\ smlen[p] = SPX_D - 1 /\ SPX_D \in Nat /\ SPX_D >= 2 /\ p \in Players
  BY <1>1, <1>2, <1>4, PointerBack, LayoutIs, SignersAre DEF MessageInv
<1>6. sm'[p] = 0
  <2>1. sm[p] + (SPX_D - 1) - smlen[p] = 0
    BY <1>5
  <2>. QED
    BY <1>2, <1>5, <2>1 DEF DataOK
<1>7. mem'[p] = Written(p, SPX_D - 1, got)
  <2>1. sm[p] + SPX_D - 1 = SPX_D - 1
    BY <1>5
  <2>. QED
    BY <1>3, <1>5, <2>1 DEF DataOK
<1>8. /\ \A l \in 0..(SPX_D - 2) : mem'[p][l] = mem[p][l]
      /\ mem'[p][SPX_D - 1] = <<"layer", SPX_D - 1>>
  <2>1. \A l \in 0..(SPX_D - 1) :
            mem'[p][l] = IF l - (SPX_D - 1) + 1 \in DOMAIN got THEN got[l - (SPX_D - 1) + 1] ELSE mem[p][l]
    BY <1>7 DEF Written
  <2>2. \A l \in 0..(SPX_D - 2) : l \in 0..(SPX_D - 1) /\ l - (SPX_D - 1) + 1 \notin 1..Len(got)
    BY <1>3, <1>5
  <2>3. SPX_D - 1 \in 0..(SPX_D - 1) /\ (SPX_D - 1) - (SPX_D - 1) + 1 = 1 /\ 1 \in 1..Len(got)
    BY <1>3, <1>5
  <2>. QED
    BY <1>3, <2>1, <2>2, <2>3 DEF Top
<1>9. \A r \in Signers : Holds(p, r)' <=> Holds(p, r)
  <2>. SUFFICES ASSUME NEW r \in Signers PROVE Holds(p, r)' <=> Holds(p, r)
    OBVIOUS
  <2>1. Place(r)' = Place(r) /\ Levels(r)' = Levels(r)
    BY <1>1, LayoutSame
  <2>2. \A l \in 0..(SPX_D - 1) : l < Place(r) + Levels(r) => mem'[p][l] = mem[p][l]
    <3>1. Place(r) + Levels(r) <= SPX_D - 1 /\ Place(r) \in Nat /\ Levels(r) \in Nat
      BY LayoutIs
    <3>. QED
      BY <1>5, <1>8, <3>1
  <2>. QED
    BY <2>1, <2>2 DEF Holds
<1>10. \A c \in HandlersOf(p) : UpdateInv(c)'
  BY <1>1, <1>2, <1>4, <1>9, IdleUpdates
<1>11. \A r : Exchanged(p, r) /\ Exchanged(p, r)'
  BY <1>2 DEF Exchanged
<1>12. \A r \in Signers : Holds(p, r)
  <2>. SUFFICES ASSUME NEW r \in Signers PROVE Holds(p, r)
    OBVIOUS
  <2>1. CASE r = p
    BY <1>1, <1>2, <2>1 DEF MessageInv, Signed
  <2>2. CASE p < r
    BY <1>1, <1>11, <2>2 DEF MessageInv
  <2>3. CASE r < p
    <3>1. PICK c : c = <<r, "exch", p>>
      OBVIOUS
    <3>2. c \in HandlersOf(p) /\ Client(c) = r /\ Phase(c) = "exch" /\ Server(c) = p
      BY <2>3, <3>1, SignersAre, ConnsAre, ConnParts DEF HandlersOf
    <3>3. hpc[c] = "over"
      BY <1>11, <2>3, <3>1 DEF PlacesInv, SwapInv
    <3>. QED
      BY <1>1, <3>2, <3>3 DEF UpdateInv, Copied
  <2>. QED
    BY <2>1, <2>2, <2>3, SignersAre
<1>13. Complete(p)'
  <2>1. ASSUME NEW l \in 0..(SPX_D - 1) PROVE mem'[p][l] = <<"layer", l>>
    <3>1. CASE l = SPX_D - 1
      BY <1>8, <3>1
    <3>2. CASE l # SPX_D - 1
      <4>1. l \in 0..(SPX_D - 2)
        BY <1>5, <3>2
      <4>2. PICK r \in Signers : Place(r) <= l /\ l < Place(r) + Levels(r)
        BY <4>1, Covered
      <4>. QED
        BY <1>8, <1>12, <4>1, <4>2 DEF Holds
    <3>. QED
      BY <3>1, <3>2
  <2>. QED
    BY <1>6, <2>1 DEF Complete
<1>14. Signed(p)' /\ Signers' = Signers /\ HandlersOf(p)' = HandlersOf(p) /\ Updating' = Updating /\ Moved' = Moved
  BY <1>1, <1>2, LayoutSame DEF HandlersOf, Server, Updating, Moved, Signed
<1>15. \A c, d \in HandlersOf(p) : hpc'[c] \in Updating /\ hpc'[d] \in Updating => c = d
  BY <1>1, <1>2 DEF MessageInv, handlerVars
<1>16. MessageInv(p)'
  BY <1>2, <1>6, <1>9, <1>11, <1>12, <1>13, <1>14, <1>15 DEF MessageInv
<1>. QED
  BY <1>10, <1>16

LEMMA CallSigners ==
  ASSUME Undisturbed, Undisturbed', t \in 1..MAX_T, Grows, last \in {TTP, Stale}, NEW p \in Signers,
         Call(p) \/ GiveUp(p), DataOK, PlacesInv, StreamsInv, ShardInv, DOMAIN trouble = Players,
         NEW q \in Signers, SignerInv(q)
  PROVE  SignerInv(q)'
<1>1. CASE q = p
  BY <1>1, StaysSigners, SignSigners, RecvShardSigners, RecvTopSigners, NoIdNever DEF Call
<1>2. CASE q # p
  <2>1. OthersStay(p) /\ q \in Players
    BY CallMoves, SignersAre DEF CallMove
  <2>2. sm'[q] = sm[q] /\ smlen'[q] = smlen[q] /\ mem'[q] = mem[q]
    BY <1>2, <2>1, NoIdNever
    DEF Call, Dial, GiveUp, SendShare, RecvR, RecvSeed, Sign, SendRoot, SendShard, RecvShard, RecvTop, message, DataOK
  <2>3. handlerVars' = handlerVars
    BY NoIdNever
    DEF Call, Dial, GiveUp, SendShare, RecvR, RecvSeed, Sign, SendRoot, SendShard, RecvShard, RecvTop
  <2>. QED
    BY <1>2, <2>1, <2>2, <2>3, HandlersIdle, OthersSigners
<1>. QED
  BY <1>1, <1>2

------------------------------------------------------------------------------
(* The session as a whole.                                                   *)

LEMMA InitComplete == Init => CompleteInv
<1>. SUFFICES ASSUME Init PROVE Progress
  BY DEF CompleteInv
<1>1. /\ t \in 1..MAX_T /\ hpc = [c \in Conns |-> "none"] /\ buf = [c \in Conns |-> <<>>]
      /\ conn = [c \in Conns |-> [state |-> "none", up |-> <<>>, down |-> <<>>]]
      /\ kind = [q \in Nodes |-> "presign"] /\ sm = [p \in Players |-> 0] /\ smlen = [p \in Players |-> 0]
      /\ mem = [p \in Players |-> [l \in 0..(SPX_D - 1) |-> <<"none", l>>]]
      /\ shard = [q \in Nodes |-> <<>>] /\ DOMAIN root = Nodes /\ DOMAIN reg = Conns
  BY DEF Init, NetInit, Nodes
<1>2. \A p \in Signers : p \in Players /\ p \in Nodes /\ kind[p] = "presign"
  BY <1>1, SignersAre
<1>3. kind[TTP] = "presign"
  BY <1>1, SignersAre
<1>4. <<>> \in Seq(Units)
  OBVIOUS
<1>5. DataOK
  BY <1>1, <1>4 DEF DataOK
<1>6. PlacesInv
  <2>1. \A c \in Conns : ConnInv(c)
    BY <1>1 DEF ConnInv
  <2>2. \A q \in Signers : SwapInv(q)
    BY <1>2 DEF SwapInv, Exchanged
  <2>. QED
    BY <2>1, <2>2 DEF PlacesInv
<1>7. StreamsInv
  <2>. SUFFICES ASSUME NEW c \in Conns PROVE RootStream(c) /\ ShardStreams(c) /\ TopStream(c)
    BY DEF StreamsInv
  <2>1. conn[c].up = <<>> /\ conn[c].down = <<>> /\ hpc[c] = "none"
    BY <1>1
  <2>. QED
    BY <2>1 DEF RootStream, ShardStreams, TopStream
<1>8. ShardInv
  BY <1>2, <1>3 DEF ShardInv, Signed
<1>9. ASSUME NEW q \in Signers PROVE SignerInv(q)
  <2>1. ~Signed(q) /\ \A r : ~Exchanged(q, r)
    BY <1>2 DEF Signed, Exchanged
  <2>2. \A c \in HandlersOf(q) : hpc[c] = "none"
    BY <1>1 DEF HandlersOf
  <2>3. sm[q] = 0 /\ smlen[q] = 0
    BY <1>1, <1>2
  <2>4. MessageInv(q)
    BY <1>2, <2>1, <2>2, <2>3 DEF MessageInv, Updating
  <2>5. \A c \in HandlersOf(q) : UpdateInv(c)
    BY <2>2 DEF UpdateInv, Updating, Moved, Copied
  <2>. QED
    BY <2>4, <2>5 DEF SignerInv
<1>. QED
  BY <1>5, <1>6, <1>7, <1>8, <1>9 DEF Progress

LEMMA StepComplete ==
  ASSUME NetSignInv, NetSignInv', CompleteInv, [Next]_vars
  PROVE  CompleteInv'
<1>1. Grows /\ SameSession /\ t \in 1..MAX_T /\ last \in {TTP, Stale} /\ DOMAIN trouble = Players /\ Signers' = Signers
  BY TroubleGrows, SessionSame DEF NetSignInv, Grows
<1>. SUFFICES ASSUME NoReset' PROVE Progress'
  BY DEF CompleteInv
<1>2. NoReset
  BY <1>1, SignersAre DEF NoReset, Grows
<1>3. /\ Undisturbed /\ Undisturbed' /\ DataOK /\ PlacesInv /\ StreamsInv /\ ShardInv
      /\ \A q \in Signers : SignerInv(q)
  BY <1>2 DEF NetSignInv, CompleteInv, Progress
<1>4. CASE UNCHANGED vars
  <2>1. /\ UNCHANGED <<listening, backlog, conn, t, last, pc, kind, peer, toAccept, hpc, buf, reg, sm, smlen, mem>>
        /\ UNCHANGED <<root, shard, trouble>>
    BY <1>4 DEF vars, netVars, params, mainVars, handlerVars, message, signing
  <2>2. TTP \in Nodes /\ OthersStay(TTP) /\ OpenSame /\ HandlersGo
    BY <1>1, <2>1, SignersAre DEF OthersStay, OpenSame, HandlersGo
  <2>3. PlacesInv'
    BY <1>1, <1>3, <2>2, HandlersPlaces
  <2>4. DataOK'
    BY <1>3, <2>1 DEF DataOK
  <2>5. StreamsInv'
    <3>. SUFFICES ASSUME NEW c \in Conns PROVE StreamInv(c)'
      BY DEF StreamsInv, StreamInv
    <3>. QED
      BY <1>1, <1>3, <2>1, <2>2, HandlersUnsent, StreamKept DEF StreamsInv, StreamInv
  <2>6. ShardInv'
    BY <1>3, <2>1, <2>2, HandlersShards
  <2>7. ASSUME NEW q \in Signers PROVE SignerInv(q)'
    <3>1. \A c \in HandlersOf(q) : Calm(c)
      BY <2>1 DEF Calm
    <3>. QED
      BY <1>1, <1>3, <2>1, <2>2, <3>1, HandlerKeeps
  <2>. QED
    BY <1>1, <2>3, <2>4, <2>5, <2>6, <2>7 DEF Progress
<1>5. ASSUME NEW p \in Players, Call(p) \/ GiveUp(p) PROVE Progress'
  <2>1. p \in Signers
    <3>1. pc[p] # "done"
      BY <1>5
      DEF Call, Dial, NoId, SendShare, RecvR, RecvSeed, Sign, SendRoot, SendShard, RecvShard, RecvTop, GiveUp, HasId
    <3>. QED
      BY <1>3, <3>1 DEF Undisturbed
  <2>2. PlacesInv' /\ StreamsInv' /\ DataOK' /\ ShardInv'
    BY <1>1, <1>3, <1>5, <2>1, CallPlaces, CallStreams
  <2>3. \A q \in Signers : SignerInv(q)'
    BY <1>1, <1>3, <1>5, <2>1, CallSigners
  <2>. QED
    BY <1>1, <2>2, <2>3 DEF Progress
<1>6. ASSUME NEW n \in Nodes, Serve(n) PROVE Progress'
  <2>1. CASE Listen(n)
    <3>1. TypeOK
      BY <1>3 DEF Undisturbed
    <3>. QED
      BY <1>1, <1>3, <2>1, <3>1, ListenPlaces, ListenStreams, ListenSigners DEF Progress
  <2>2. CASE Accept(n)
    <3>1. PICK c \in Conns : Accepted(n, c)
      BY <1>1, <1>3, <2>2, AcceptIs
    <3>. QED
      BY <1>1, <1>3, <2>2, <3>1, AcceptPlaces, AcceptStreams, AcceptSigners DEF Progress
  <2>3. CASE Close(n)
    <3>1. Closed(n) /\ Idle(n) /\ AfterServing(n)
      BY <1>1, <1>3, <2>3, CloseIs
    <3>. QED
      BY <1>1, <1>3, <2>3, <3>1, ClosePlaces, CloseStreams, CloseSigners DEF Progress
  <2>. QED
    BY <1>6, <2>1, <2>2, <2>3 DEF Serve
<1>7. CASE SignTop
  BY <1>1, <1>3, <1>7, SignTopPlaces, SignTopStreams, SignTopSigners DEF Progress
<1>8. CASE Aggregate
  <2>1. HandlersGo
    BY <1>3, <1>8, AggregateGoes DEF Undisturbed
  <2>. QED
    BY <1>1, <1>3, <1>8, <2>1, HandlersPlaces, AggregateStreams, AggregateSigners DEF Progress
<1>9. ASSUME NEW c \in Conns, Handle(c) PROVE Progress'
  <2>1. HandlersGo
    BY <1>3, <1>9, HandleMoves DEF Undisturbed, HandlerGoes
  <2>2. PlacesInv'
    BY <1>1, <1>3, <2>1, HandlersPlaces
  <2>3. StreamsInv' /\ DataOK' /\ ShardInv'
    BY <1>1, <1>3, <1>9, PresignHandlers, RecvRootStreams, SendTopStreams, HandlerRecvStreams, UpdateStreams,
       HandlerSendStreams DEF Handle
  <2>4. \A q \in Signers : SignerInv(q)'
    BY <1>1, <1>3, <1>9, HandleSigners
  <2>. QED
    BY <1>1, <2>2, <2>3, <2>4 DEF Progress
<1>. QED
  BY <1>4, <1>5, <1>6, <1>7, <1>8, <1>9 DEF Next, Nodes

\* As long as no connection has been reset, every stream carries what its receiver waits
\* for, and a signer's message holds exactly what its place in the session says.
THEOREM SessionProgresses == SafeSpec => []CompleteInv
<1>1. Init => CompleteInv
  BY InitComplete
<1>2. NetSignInv /\ NetSignInv' /\ CompleteInv /\ [Next]_vars => CompleteInv'
  BY StepComplete
<1>. QED
  BY <1>1, <1>2, SessionUndisturbed, PTL DEF SafeSpec

\* A signer that has ended, at whom nothing went wrong in a session without a reset,
\* holds all the layers at their places.
THEOREM MessageComplete == SafeSpec => []CompleteUnlessTroubled
<1>1. NetSignInv /\ CompleteInv => CompleteUnlessTroubled
  <2>. SUFFICES ASSUME NetSignInv, CompleteInv, NoReset, NEW p \in Signers, pc[p] = "done", trouble[p] = {}
                PROVE  Complete(p)
    BY DEF CompleteUnlessTroubled, NoReset
  <2>1. t \in 1..MAX_T /\ Undisturbed /\ SignerInv(p)
    BY DEF NetSignInv, CompleteInv, Progress
  <2>2. kind[p] = "final"
    <3>1. PlayerAt(p)
      BY <2>1 DEF Undisturbed, CallerInv
    <3>. QED
      BY <3>1 DEF PlayerAt, Calling, Serving
  <2>. QED
    BY <2>1, <2>2 DEF SignerInv, MessageInv
<1>. QED
  BY <1>1, SessionUndisturbed, SessionProgresses, PTL

==============================================================================
