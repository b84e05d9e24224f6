-------------------------- MODULE KeygenRoundProofs --------------------------
(***************************************************************************)
(* Proofs about the threaded key generation, for any number of players.    *)
(***************************************************************************)
EXTENDS KeygenRound, FiniteSetTheorems, SequenceTheorems, TLAPS

------------------------------------------------------------------------------
(* Numbers. A sum of many messages is stated by its coefficients, so that a  *)
(* step adds one message to a known sum.                                     *)

Numbers == [Atoms -> Int]

\* The sum of the shares that p has from the players of G.
SharesOf(p, G) == [a \in Atoms |-> IF a \in {Poly(q, p) : q \in G} THEN 1 ELSE 0]

\* What p and q agree on, and with which sign it goes into p's shard.
Pair(p, q) == Plus(Unit(Random(p, q)), Unit(Random(q, p)))
Sign(p, q) == IF q < p THEN 1 ELSE -1

\* p's secret with the entries of the players before n.
Blinded(p, n) ==
    [a \in Atoms |->
        IF a = Secret(p) THEN 1
        ELSE IF a[1] = "random" /\ a[2] = p /\ a[3] # p /\ a[3] < n THEN Sign(p, a[3])
        ELSE IF a[1] = "random" /\ a[3] = p /\ a[2] # p /\ a[2] < n THEN Sign(p, a[2])
        ELSE 0]

\* The sum of the shards of the players of G.
SumOf(G) ==
    [a \in Atoms |->
        IF a[1] = "secret" THEN IF a[2] \in G THEN 1 ELSE 0
        ELSE IF a[1] = "random" /\ a[2] # a[3]
        THEN (IF a[2] \in G THEN Sign(a[2], a[3]) ELSE 0) + (IF a[3] \in G THEN Sign(a[3], a[2]) ELSE 0)
        ELSE 0]

LEMMA AtomForms ==
  ASSUME NEW a \in Atoms
  PROVE  \/ \E q, p \in Players : a = Poly(q, p)
         \/ \E q \in Players : a = Secret(q)
         \/ \E p, q \in Players : a = Random(p, q)
         \/ a \in {PkJoint, PkStray, PkOther}
  BY DEF Atoms

LEMMA SharesAdd ==
  ASSUME NEW p \in Players, NEW G \in SUBSET Players, NEW q \in Players, q \notin G
  PROVE  Plus(SharesOf(p, G), Unit(Poly(q, p))) = SharesOf(p, G \cup {q})
<1>1. ASSUME NEW a \in Atoms
      PROVE  SharesOf(p, G)[a] + Unit(Poly(q, p))[a] = SharesOf(p, G \cup {q})[a]
  BY <1>1 DEF SharesOf, Unit, Poly
<1>. QED
  BY <1>1 DEF Plus, SharesOf

LEMMA SharesOfNone == \A p : SharesOf(p, {}) = Zero
  BY DEF SharesOf, Zero

LEMMA SharesOfAll == \A p : SharesOf(p, Players) = JointShare(p)
  BY DEF SharesOf, JointShare

LEMMA NothingBlinded ==
  ASSUME NEW p \in Players
  PROVE  Blinded(p, 1) = Unit(Secret(p))
<1>1. ASSUME NEW a \in Atoms
      PROVE  Blinded(p, 1)[a] = Unit(Secret(p))[a]
  BY <1>1, AtomForms DEF Blinded, Unit, Secret, Poly, Random, PkJoint, PkStray, PkOther, Players
<1>. QED
  BY <1>1 DEF Blinded, Unit

\* One round of the loop of keygen_player_p2ttp_shards.
LEMMA BlindOne ==
  ASSUME NEW p \in Players, NEW n \in Players
  PROVE  Blinded(p, n + 1) = IF n < p THEN Plus(Blinded(p, n), Pair(p, n))
                             ELSE IF n > p THEN Minus(Blinded(p, n), Pair(p, n))
                             ELSE Blinded(p, n)
<1>0. p \in Int /\ n \in Int /\ \A q \in Players : q \in Int
  BY PlayersAssumption DEF Players
<1>1. ASSUME NEW a \in Atoms
      PROVE  Blinded(p, n + 1)[a] = IF n = p THEN Blinded(p, n)[a]
                                    ELSE Blinded(p, n)[a] + Sign(p, n) * Pair(p, n)[a]
  <2>1. CASE \E r, s \in Players : a = Random(r, s)
    <3>1. PICK r \in Players, s \in Players : a = Random(r, s)
      BY <2>1
    <3>2. a[1] = "random" /\ a[2] = r /\ a[3] = s /\ a # Secret(p)
      BY <3>1 DEF Random, Secret
    <3>3. Pair(p, n)[a] = (IF r = p /\ s = n THEN 1 ELSE 0) + (IF r = n /\ s = p THEN 1 ELSE 0)
      BY <3>1 DEF Pair, Plus, Unit, Random
    <3>4. \A m : Blinded(p, m)[a] = IF r = p /\ s # p /\ s < m THEN Sign(p, s)
                                    ELSE IF s = p /\ r # p /\ r < m THEN Sign(p, r) ELSE 0
      BY <3>2 DEF Blinded
    <3>. QED
      BY <1>0, <3>3, <3>4 DEF Sign
  <2>2. CASE ~ \E r, s \in Players : a = Random(r, s)
    <3>1. Pair(p, n)[a] = 0
      BY <2>2 DEF Pair, Plus, Unit
    <3>2. a[1] # "random"
      BY <2>2, AtomForms DEF Poly, Secret, PkJoint, PkStray, PkOther
    <3>3. \A m : Blinded(p, m)[a] = IF a = Secret(p) THEN 1 ELSE 0
      BY <3>2 DEF Blinded
    <3>. QED
      BY <3>1, <3>3 DEF Sign
  <2>. QED
    BY <2>1, <2>2
<1>2. ASSUME NEW a \in Atoms PROVE Pair(p, n)[a] \in Int /\ Blinded(p, n)[a] \in Int
  BY DEF Pair, Plus, Unit, Blinded, Sign
<1>3. ASSUME NEW a \in Atoms
      PROVE  Blinded(p, n + 1)[a] = IF n < p THEN Blinded(p, n)[a] + Pair(p, n)[a]
                                    ELSE IF n > p THEN Blinded(p, n)[a] - Pair(p, n)[a]
                                    ELSE Blinded(p, n)[a]
  <2>1. Blinded(p, n)[a] \in Int /\ Pair(p, n)[a] \in Int
    BY <1>2
  <2>2. CASE n < p
    BY <1>0, <1>1, <2>1, <2>2 DEF Sign
  <2>3. CASE n > p
    BY <1>0, <1>1, <2>1, <2>3 DEF Sign
  <2>4. CASE n = p
    BY <1>0, <1>1, <2>4
  <2>. QED
    BY <1>0, <2>2, <2>3, <2>4
<1>4. Blinded(p, n + 1) = [a \in Atoms |-> Blinded(p, n + 1)[a]] /\ Blinded(p, n) = [a \in Atoms |-> Blinded(p, n)[a]]
  BY DEF Blinded
<1>5. CASE n < p
  BY <1>0, <1>3, <1>4, <1>5 DEF Plus
<1>6. CASE n > p
  BY <1>0, <1>3, <1>4, <1>6 DEF Minus
<1>7. CASE n = p
  BY <1>0, <1>3, <1>4, <1>7
<1>. QED
  BY <1>0, <1>5, <1>6, <1>7

LEMMA SumOfNone == SumOf({}) = Zero
  BY DEF SumOf, Zero

\* One round of recover_secret.
LEMMA SumAdd ==
  ASSUME NEW G \in SUBSET Players, NEW q \in Players, q \notin G
  PROVE  Plus(SumOf(G), Blinded(q, PLAYERS + 1)) = SumOf(G \cup {q})
<1>0. \A p \in Players : p \in Int /\ p < PLAYERS + 1
  BY PlayersAssumption DEF Players
<1>1. ASSUME NEW a \in Atoms
      PROVE  SumOf(G)[a] + Blinded(q, PLAYERS + 1)[a] = SumOf(G \cup {q})[a]
  <2>1. CASE \E r, s \in Players : a = Random(r, s)
    <3>1. PICK r \in Players, s \in Players : a = Random(r, s)
      BY <2>1
    <3>2. a[1] = "random" /\ a[2] = r /\ a[3] = s /\ a # Secret(q)
      BY <3>1 DEF Random, Secret
    <3>3. Blinded(q, PLAYERS + 1)[a] = IF r = q /\ s # q THEN Sign(q, s)
                                       ELSE IF s = q /\ r # q THEN Sign(q, r) ELSE 0
      BY <1>0, <3>2 DEF Blinded
    <3>4. \A H : SumOf(H)[a] = IF r = s THEN 0
                               ELSE (IF r \in H THEN Sign(r, s) ELSE 0) + (IF s \in H THEN Sign(s, r) ELSE 0)
      BY <3>2 DEF SumOf
    <3>. QED
      BY <1>0, <3>3, <3>4 DEF Sign
  <2>2. CASE \E r \in Players : a = Secret(r)
    BY <2>2 DEF Secret, Blinded, SumOf
  <2>3. CASE \/ \E r, s \in Players : a = Poly(r, s)
             \/ a \in {PkJoint, PkStray, PkOther}
    BY <2>3 DEF Poly, PkJoint, PkStray, PkOther, Secret, Blinded, SumOf
  <2>. QED
    BY <2>1, <2>2, <2>3, AtomForms
<1>. QED
  BY <1>1 DEF SumOf, Plus

\* Every random value is added by one player and subtracted by an other.
LEMMA SumOfAll == SumOf(Players) = JointSecret
<1>0. \A p \in Players : p \in Int
  BY PlayersAssumption DEF Players
<1>1. ASSUME NEW a \in Atoms
      PROVE  SumOf(Players)[a] = JointSecret[a]
  BY <1>0, <1>1, AtomForms
     DEF SumOf, JointSecret, Sign, Poly, Secret, Random, PkJoint, PkStray, PkOther
<1>. QED
  BY <1>1 DEF SumOf, JointSecret

------------------------------------------------------------------------------
(* The invariant.                                                            *)

Early == {"send_shares", "recv_shares", "barrier", "wait_shares"}
Late == {"send_randoms", "recv_randoms", "blind", "send_shard", "recv_pk", "end_barrier",
         "wait_end", "done"}
BeforeBlind == Early \cup {"send_randoms", "recv_randoms"}
HasKey == {"end_barrier", "wait_end", "done"}

Message == [from : Parties, data : Numbers]

TypeOK ==
    /\ pc \in [Players -> Early \cup Late]
    /\ i \in [Players -> Players]
    /\ queue \in [Parties -> Seq(Message)]
    /\ share \in [Players -> Numbers]
    /\ rlist \in [Players -> [Players -> Numbers]]
    /\ blinded \in [Players -> Numbers]
    /\ pk \in [Players -> Numbers]
    /\ ttp \in {"recv_shards", "bc_pk", "done"}
    /\ k \in 0..PLAYERS
    /\ sk \in Numbers
    /\ shortSeed \in BOOLEAN

\* The messages that wait for x, and who sent them.
Mail(x) == {queue[x][j] : j \in DOMAIN queue[x]}
Senders(x) == {queue[x][j].from : j \in DOMAIN queue[x]}

\* What q has sent to p by now, and the TTP.
SentShare(q, p) == pc[q] # "send_shares" \/ p < i[q]
SentRandom(q, p) == q # p /\ pc[q] \notin Early /\ (pc[q] = "send_randoms" => p < i[q])
SentShard(q) == pc[q] \in HasKey \cup {"recv_pk"}
SentPk(p) == ttp = "done" \/ (ttp = "bc_pk" /\ p < k)

\* What was sent and waits no more was received.
GotShare(p) == {q \in Players : SentShare(q, p) /\ q \notin Senders(p)}
GotRandom(p) == {q \in Players : SentRandom(q, p) /\ q \notin Senders(p)}
GotShard == {q \in Players : SentShard(q) /\ q \notin Senders(TTP)}

\* Nobody has two messages in one queue, whichever loop they are from.
OneOfEach ==
    \A x \in Parties : \A j, l \in DOMAIN queue[x] : queue[x][j].from = queue[x][l].from => j = l

\* The barrier of round.c:66: no player is past it while one is before it.
Together == (\A p \in Players : pc[p] \in Early) \/ (\A p \in Players : pc[p] \notin Early)

JointPk == IF shortSeed THEN PkStray ELSE PkJoint

\* A message that waits is the one its receiver will take it for.
Expected(p, from, data) ==
    IF from = TTP THEN SentPk(p) /\ data = Unit(JointPk)
    ELSE IF pc[p] \in Early THEN SentShare(from, p) /\ data = Unit(Poly(from, p))
    ELSE SentRandom(from, p) /\ data = Unit(Random(from, p))

PlayerMail(p) == \A m \in Mail(p) : Expected(p, m.from, m.data)

TtpMail ==
    \A m \in Mail(TTP) :
        m.from \in Players /\ SentShard(m.from) /\ m.data = Blinded(m.from, PLAYERS + 1)

\* What a player has is the sum of what it got, and its counter counts that.
PlayerState(p) ==
    /\ share[p] = SharesOf(p, IF pc[p] \in Early THEN GotShare(p) ELSE Players)
    /\ pc[p] = "send_shares" => GotShare(p) = {}
    /\ pc[p] = "recv_shares" => Cardinality(GotShare(p)) = i[p] - 1
    /\ pc[p] \in {"barrier", "wait_shares"} => GotShare(p) = Players /\ i[p] = 1
    /\ \A q \in Players :
           rlist[p][q] = IF q \in GotRandom(p) THEN Pair(p, q) ELSE Unit(Random(p, q))
    /\ pc[p] = "send_randoms" => GotRandom(p) = {}
    /\ pc[p] = "recv_randoms" => Cardinality(GotRandom(p)) = i[p] - 1 /\ i[p] < PLAYERS
    /\ pc[p] \notin BeforeBlind => GotRandom(p) = Players \ {p}
    /\ blinded[p] = Blinded(p, IF pc[p] \in BeforeBlind THEN 1
                               ELSE IF pc[p] = "blind" THEN i[p] ELSE PLAYERS + 1)
    /\ pc[p] \in HasKey => SentPk(p) /\ TTP \notin Senders(p) /\ pk[p] = Unit(JointPk)

TtpState ==
    /\ ttp = "recv_shards" => k = Cardinality(GotShard) /\ k < PLAYERS /\ sk = SumOf(GotShard)
    /\ ttp # "recv_shards" => GotShard = Players /\ sk = JointSecret
    /\ ttp = "bc_pk" => k \in Players

\* SharesUnmixed, BlindingCancels, KeysAgree and QueuesDrained are not inductive: they
\* rest on what every message in every queue is.
KeygenInv ==
    /\ TypeOK /\ OneOfEach /\ Together
    /\ \A p \in Players : PlayerMail(p) /\ PlayerState(p)
    /\ TtpMail /\ TtpState

LEMMA MailSenders ==
  ASSUME NEW x
  PROVE  /\ \A m \in Mail(x) : m.from \in Senders(x)
         /\ \A q \in Senders(x) : \E m \in Mail(x) : m.from = q
  BY DEF Mail, Senders

LEMMA NobodySent ==
  ASSUME TypeOK, NEW x \in Parties, Senders(x) = {}
  PROVE  queue[x] = <<>>
<1>1. queue[x] \in Seq(Message)
  BY DEF TypeOK
<1>2. queue[x] # <<>> => 1 \in DOMAIN queue[x]
  BY <1>1
<1>. QED
  BY <1>2 DEF Senders

\* A message from somebody who has none in the queue.
LEMMA SendEffect ==
  ASSUME TypeOK, OneOfEach, NEW to \in Parties, NEW from \in Parties \ Senders(to),
         NEW data \in Numbers, SendMsg(from, to, data)
  PROVE  /\ queue' \in [Parties -> Seq(Message)] /\ OneOfEach'
         /\ \A y \in Parties :
               /\ Senders(y)' = IF y = to THEN Senders(y) \cup {from} ELSE Senders(y)
               /\ Mail(y)' = IF y = to THEN Mail(y) \cup {[from |-> from, data |-> data]} ELSE Mail(y)
<1> DEFINE m == [from |-> from, data |-> data]
<1>1. m \in Message /\ m.from = from
  BY DEF Message
<1>2. queue[to] \in Seq(Message) /\ queue' = [queue EXCEPT ![to] = Append(queue[to], m)]
  BY DEF TypeOK, SendMsg
<1>3. queue' \in [Parties -> Seq(Message)] /\ queue'[to] = Append(queue[to], m)
        /\ \A y \in Parties : y # to => queue'[y] = queue[y]
  BY <1>1, <1>2 DEF TypeOK
<1>. HIDE DEF m
<1>4. /\ Len(queue[to]) \in Nat /\ DOMAIN queue[to] = 1..Len(queue[to])
      /\ DOMAIN queue'[to] = 1..(Len(queue[to]) + 1)
      /\ \A j \in 1..Len(queue[to]) : queue'[to][j] = queue[to][j]
      /\ queue'[to][Len(queue[to]) + 1] = m
  BY <1>1, <1>2, <1>3
<1>5. OneOfEach'
  <2>1. ASSUME NEW j \in DOMAIN queue'[to], NEW l \in DOMAIN queue'[to],
               queue'[to][j].from = queue'[to][l].from
        PROVE  j = l
    <3>1. \A n \in 1..Len(queue[to]) : queue[to][n].from # from
      BY <1>4 DEF Senders
    <3>. QED
      BY SMTT(30), <1>1, <1>4, <2>1, <3>1 DEF OneOfEach
  <2>. QED
    BY <1>3, <2>1 DEF OneOfEach
<1>6. Senders(to)' = Senders(to) \cup {from} /\ Mail(to)' = Mail(to) \cup {m}
  <2>1. 1..(Len(queue[to]) + 1) = (1..Len(queue[to])) \cup {Len(queue[to]) + 1}
    BY <1>4
  <2>2. Mail(to)' = Mail(to) \cup {m}
    BY <1>4, <2>1 DEF Mail
  <2>3. Senders(to)' = Senders(to) \cup {from}
    BY <1>1, <1>4, <2>1 DEF Senders
  <2>. QED
    BY <2>2, <2>3
<1>7. \A y \in Parties : y # to => Senders(y)' = Senders(y) /\ Mail(y)' = Mail(y)
  BY <1>3 DEF Senders, Mail
<1>. QED
  BY <1>3, <1>5, <1>6, <1>7 DEF m

\* The first message is the only one of its sender.
LEMMA RecvEffect ==
  ASSUME TypeOK, OneOfEach, NEW x \in Parties, HasMsg(x), RecvMsg(x)
  PROVE  /\ queue' \in [Parties -> Seq(Message)] /\ OneOfEach'
         /\ Received(x) \in Mail(x) /\ Received(x) \in Message
         /\ Received(x).from \in Senders(x)
         /\ \A y \in Parties :
               /\ Senders(y)' = IF y = x THEN Senders(y) \ {Received(x).from} ELSE Senders(y)
               /\ Mail(y)' \subseteq Mail(y)
<1>1. queue[x] \in Seq(Message) /\ queue[x] # <<>> /\ queue' = [queue EXCEPT ![x] = Tail(queue[x])]
  BY DEF TypeOK, HasMsg, RecvMsg
<1>2. /\ queue' \in [Parties -> Seq(Message)] /\ queue'[x] = Tail(queue[x])
      /\ \A y \in Parties : y # x => queue'[y] = queue[y]
  BY <1>1 DEF TypeOK
<1>3. /\ Len(queue[x]) \in Nat \ {0} /\ DOMAIN queue[x] = 1..Len(queue[x])
      /\ DOMAIN queue'[x] = 1..(Len(queue[x]) - 1)
      /\ \A j \in 1..(Len(queue[x]) - 1) : queue'[x][j] = queue[x][j + 1]
      /\ Received(x) = queue[x][1] /\ Received(x) \in Message
  BY <1>1, <1>2 DEF Received
<1>4. OneOfEach'
  <2>1. ASSUME NEW j \in DOMAIN queue'[x], NEW l \in DOMAIN queue'[x],
               queue'[x][j].from = queue'[x][l].from
        PROVE  j = l
    <3>1. /\ j \in Nat /\ l \in Nat /\ j + 1 \in DOMAIN queue[x] /\ l + 1 \in DOMAIN queue[x]
          /\ queue[x][j + 1].from = queue[x][l + 1].from
      <4>1. j \in 1..(Len(queue[x]) - 1) /\ l \in 1..(Len(queue[x]) - 1)
        BY <1>3, <2>1
      <4>2. queue'[x][j] = queue[x][j + 1] /\ queue'[x][l] = queue[x][l + 1]
        BY <1>3, <4>1
      <4>. QED
        BY <1>3, <2>1, <4>1, <4>2
    <3>2. j + 1 = l + 1
      BY <3>1 DEF OneOfEach
    <3>. QED
      BY <3>1, <3>2
  <2>. QED
    BY <1>2, <2>1 DEF OneOfEach
<1>5. Received(x) \in Mail(x) /\ Received(x).from \in Senders(x)
  BY <1>3 DEF Mail, Senders
<1>6. \A j \in 2..Len(queue[x]) : queue[x][j].from # Received(x).from
  BY <1>3 DEF OneOfEach
<1>7. /\ 1..Len(queue[x]) = {1} \cup 2..Len(queue[x])
      /\ \A j \in 2..Len(queue[x]) : /\ j - 1 \in 1..(Len(queue[x]) - 1)
                                     /\ queue'[x][j - 1] = queue[x][j]
      /\ \A j \in 1..(Len(queue[x]) - 1) : j + 1 \in 2..Len(queue[x])
  BY <1>3
<1>8. Senders(x)' = Senders(x) \ {Received(x).from}
  <2>1. Senders(x)' = {queue[x][j].from : j \in 2..Len(queue[x])}
    <3>1. ASSUME NEW j \in DOMAIN queue'[x]
          PROVE  \E l \in 2..Len(queue[x]) : queue'[x][j].from = queue[x][l].from
      BY <1>3, <1>7, <3>1
    <3>2. ASSUME NEW l \in 2..Len(queue[x])
          PROVE  \E j \in DOMAIN queue'[x] : queue'[x][j].from = queue[x][l].from
      BY <1>3, <1>7, <3>2
    <3>. QED
      BY <3>1, <3>2 DEF Senders
  <2>2. Senders(x) = {Received(x).from} \cup {queue[x][j].from : j \in 2..Len(queue[x])}
    BY <1>3, <1>7 DEF Senders
  <2>. QED
    BY <1>6, <2>1, <2>2
<1>9. Mail(x)' \subseteq Mail(x)
  BY <1>3 DEF Mail
<1>10. \A y \in Parties : y # x => Senders(y)' = Senders(y) /\ Mail(y)' = Mail(y)
  BY <1>2 DEF Senders, Mail
<1>. QED
  BY <1>2, <1>3, <1>4, <1>5, <1>8, <1>9, <1>10

LEMMA PartiesAre ==
  /\ Parties = Players \cup {TTP} /\ TTP \notin Players
  /\ \A p \in Players : p \in Nat /\ 1 <= p /\ p <= PLAYERS
  /\ 1 \in Players /\ PLAYERS \in Players
  BY PlayersAssumption DEF Parties, Players, TTP

LEMMA CountPlayers ==
  ASSUME NEW S \in SUBSET Players, NEW p \in Players
  PROVE  /\ Cardinality(S) \in Nat /\ Cardinality(S) <= PLAYERS
         /\ Cardinality({}) = 0
         /\ Cardinality(S) = PLAYERS => S = Players
         /\ p \notin S => Cardinality(S \cup {p}) = Cardinality(S) + 1
         /\ p \notin S => Cardinality(S) <= PLAYERS - 1
         /\ p \notin S /\ Cardinality(S) = PLAYERS - 1 => S = Players \ {p}
<1>1. IsFiniteSet(Players) /\ Cardinality(Players) = PLAYERS
  BY PlayersAssumption, FS_Interval DEF Players
<1>2. IsFiniteSet(S) /\ Cardinality(S) \in Nat
  BY <1>1, FS_Subset, FS_CardinalityType
<1>3. Cardinality(S) <= PLAYERS /\ (Cardinality(S) = PLAYERS => S = Players)
  BY <1>1, FS_Subset
<1>4. IsFiniteSet(Players \ {p}) /\ Cardinality(Players \ {p}) = PLAYERS - 1
  BY <1>1, FS_RemoveElement
<1>5. ASSUME p \notin S
      PROVE  /\ Cardinality(S) <= PLAYERS - 1
             /\ Cardinality(S) = PLAYERS - 1 => S = Players \ {p}
  <2>1. S \in SUBSET (Players \ {p})
    BY <1>5
  <2>. QED
    BY <1>4, <2>1, FS_Subset
<1>6. p \notin S => Cardinality(S \cup {p}) = Cardinality(S) + 1
  BY <1>2, FS_AddElement
<1>. QED
  BY <1>2, <1>3, <1>5, <1>6, FS_EmptySet

LEMMA NumbersAre ==
  /\ \A b : Unit(b) \in Numbers
  /\ \A x, y \in Numbers : Plus(x, y) \in Numbers /\ Minus(x, y) \in Numbers
  /\ Zero \in Numbers
  BY DEF Unit, Numbers, Plus, Minus, Zero

LEMMA MailTyped ==
  ASSUME TypeOK, NEW x \in Parties
  PROVE  \A m \in Mail(x) : m.from \in Parties
<1>1. queue[x] \in Seq(Message)
  BY DEF TypeOK
<1>2. \A j \in DOMAIN queue[x] : queue[x][j] \in Message
  BY <1>1
<1>. QED
  BY <1>2 DEF Mail, Message

\* A round of a loop counts, and after the last one the player goes on.
LEMMA LoopEffect ==
  ASSUME TypeOK, NEW p \in Players, NEW last \in Players, i[p] <= last,
         NEW next \in Early \cup Late, Loop(p, last, next)
  PROVE  /\ i' \in [Players -> Players] /\ pc' \in [Players -> Early \cup Late]
         /\ pc'[p] = IF i[p] < last THEN pc[p] ELSE next
         /\ i'[p] = IF i[p] < last THEN i[p] + 1 ELSE 1
         /\ \A x \in Players \ {p} : pc'[x] = pc[x] /\ i'[x] = i[x]
<1>0. i \in [Players -> Players] /\ pc \in [Players -> Early \cup Late]
  BY DEF TypeOK
<1>1. CASE i[p] < last
  <2>1. i' = [i EXCEPT ![p] = i[p] + 1] /\ pc' = pc
    BY <1>1 DEF Loop
  <2>2. i[p] + 1 \in Players
    BY SMTT(30), <1>0, <1>1, PlayersAssumption DEF Players
  <2>. QED
    BY <1>0, <1>1, <2>1, <2>2
<1>2. CASE ~(i[p] < last)
  <2>1. i' = [i EXCEPT ![p] = 1] /\ pc' = [pc EXCEPT ![p] = next]
    BY <1>2 DEF Loop, Goto
  <2>. QED
    BY <1>0, <1>2, <2>1, PartiesAre
<1>. QED
  BY <1>1, <1>2

\* What another player does leaves a player's state as it is.
LEMMA StateStays ==
  ASSUME NEW x \in Players, PlayerState(x),
         pc'[x] = pc[x], i'[x] = i[x], share'[x] = share[x], rlist'[x] = rlist[x],
         blinded'[x] = blinded[x], pk'[x] = pk[x], shortSeed' = shortSeed,
         pc[x] \in Early => GotShare(x)' = GotShare(x), GotRandom(x)' = GotRandom(x),
         pc[x] \in HasKey => SentPk(x)' /\ TTP \notin Senders(x)'
  PROVE  PlayerState(x)'
  BY DEF PlayerState, JointPk, BeforeBlind, HasKey, Early

LEMMA InitInv == Init => KeygenInv
<1>. SUFFICES ASSUME Init PROVE KeygenInv
  OBVIOUS
<1>. USE DEF Init
<1>1. TypeOK
  <2>1. /\ pc \in [Players -> Early \cup Late] /\ i \in [Players -> Players]
        /\ k \in 0..PLAYERS /\ ttp \in {"recv_shards", "bc_pk", "done"} /\ shortSeed \in BOOLEAN
    BY PartiesAre, PlayersAssumption DEF Early
  <2>2. queue \in [Parties -> Seq(Message)]
    OBVIOUS
  <2>3. /\ share \in [Players -> Numbers] /\ rlist \in [Players -> [Players -> Numbers]]
        /\ blinded \in [Players -> Numbers] /\ pk \in [Players -> Numbers] /\ sk \in Numbers
    BY NumbersAre
  <2>. QED
    BY <2>1, <2>2, <2>3 DEF TypeOK
<1>2. \A x \in Parties : Senders(x) = {} /\ Mail(x) = {} /\ DOMAIN queue[x] = {}
  BY DEF Senders, Mail
<1>3. \A p \in Players : pc[p] = "send_shares"
  OBVIOUS
<1>4. OneOfEach /\ Together
  BY <1>2, <1>3 DEF OneOfEach, Together, Early
<1>5. \A p \in Players : GotShare(p) = {} /\ GotRandom(p) = {}
  <2>1. \A p, q \in Players : ~SentShare(q, p) /\ ~SentRandom(q, p)
    BY <1>3, PartiesAre DEF SentShare, SentRandom, Early
  <2>. QED
    BY <2>1 DEF GotShare, GotRandom
<1>6. ASSUME NEW p \in Players
      PROVE  PlayerMail(p) /\ PlayerState(p)
  <2>1. PlayerMail(p)
    BY <1>2, PartiesAre DEF PlayerMail
  <2>2. share[p] = SharesOf(p, {}) /\ blinded[p] = Blinded(p, 1)
    BY SharesOfNone, NothingBlinded
  <2>. QED
    BY <1>3, <1>5, <2>1, <2>2 DEF PlayerState, Early, BeforeBlind, HasKey
<1>7. TtpMail
  BY <1>2, PartiesAre DEF TtpMail
<1>8. TtpState
  <2>1. GotShard = {}
    BY <1>3 DEF GotShard, SentShard, HasKey
  <2>. QED
    BY <2>1, SumOfNone, FS_EmptySet, PlayersAssumption DEF TtpState
<1>. QED
  BY <1>1, <1>4, <1>6, <1>7, <1>8 DEF KeygenInv

------------------------------------------------------------------------------
(* The steps before the barrier.                                             *)

LEMMA SendShareStep ==
  ASSUME KeygenInv, NEW p \in Players, SendShare(p)
  PROVE  KeygenInv'
<1>. USE PartiesAre
<1>1. /\ TypeOK /\ OneOfEach /\ Together /\ TtpMail /\ TtpState
      /\ \A x \in Players : PlayerMail(x) /\ PlayerState(x)
  BY DEF KeygenInv
<1>2. /\ pc[p] = "send_shares" /\ SendMsg(p, i[p], Unit(Poly(p, i[p])))
      /\ Loop(p, PLAYERS, "recv_shares")
      /\ UNCHANGED <<share, rlist, blinded, pk, ttp, k, sk, shortSeed>>
  BY DEF SendShare, ttpVars
<1>3. i[p] \in Players /\ \A x \in Players : pc[x] \in Early
  BY <1>1, <1>2 DEF TypeOK, Together, Early
<1>4. /\ i' \in [Players -> Players] /\ pc' \in [Players -> Early \cup Late]
      /\ pc'[p] = IF i[p] < PLAYERS THEN "send_shares" ELSE "recv_shares"
      /\ i'[p] = IF i[p] < PLAYERS THEN i[p] + 1 ELSE 1
      /\ \A x \in Players \ {p} : pc'[x] = pc[x] /\ i'[x] = i[x]
  BY <1>1, <1>2, <1>3, LoopEffect DEF Early
<1>5. \A x \in Players : pc'[x] \in Early
  BY <1>3, <1>4 DEF Early
<1>6. p \notin Senders(i[p])
  <2>1. ~SentShare(p, i[p])
    BY <1>2, <1>3 DEF SentShare
  <2>. QED
    BY <1>1, <1>3, <2>1, MailSenders DEF PlayerMail, Expected
<1>7. /\ queue' \in [Parties -> Seq(Message)] /\ OneOfEach'
      /\ \A y \in Parties :
            /\ Senders(y)' = IF y = i[p] THEN Senders(y) \cup {p} ELSE Senders(y)
            /\ Mail(y)' = IF y = i[p] THEN Mail(y) \cup {[from |-> p, data |-> Unit(Poly(p, i[p]))]}
                          ELSE Mail(y)
  BY ZenonT(60), <1>1, <1>2, <1>3, <1>6, SendEffect, NumbersAre
<1>8. \A x \in Players :
          /\ \A q \in Players : SentShare(q, x)' = (SentShare(q, x) \/ (q = p /\ x = i[p]))
          /\ SentPk(x)' = SentPk(x)
  BY <1>2, <1>3, <1>4 DEF SentShare, SentPk
<1>9. \A x \in Players : GotShare(x)' = GotShare(x) /\ GotRandom(x)' = GotRandom(x)
  <2>1. \A q, x \in Players : ~SentRandom(q, x) /\ ~SentRandom(q, x)'
    BY <1>3, <1>5 DEF SentRandom
  <2>2. ~SentShare(p, i[p])
    BY <1>2, <1>3 DEF SentShare
  <2>. QED
    BY <1>7, <1>8, <2>1, <2>2 DEF GotShare, GotRandom
<1>10. \A x \in Players : ~SentShard(x) /\ ~SentShard(x)'
  BY <1>3, <1>5 DEF SentShard, HasKey, Early
<1>11. TypeOK'
  BY <1>1, <1>2, <1>4, <1>7 DEF TypeOK
<1>12. Together'
  BY <1>5 DEF Together
<1>13. ASSUME NEW x \in Players PROVE PlayerMail(x)'
  <2>1. ASSUME NEW q \in Parties, NEW data, Expected(x, q, data)
        PROVE  Expected(x, q, data)'
    BY <1>2, <1>3, <1>5, <1>8, <2>1 DEF Expected, JointPk
  <2>2. x = i[p] => Expected(x, p, Unit(Poly(p, x)))'
    BY <1>5, <1>8 DEF Expected
  <2>. QED
    BY <1>1, <1>7, <2>1, <2>2, MailTyped DEF PlayerMail
<1>14. ASSUME NEW x \in Players PROVE PlayerState(x)'
  <2>1. CASE x # p
    BY <1>1, <1>2, <1>3, <1>4, <1>9, <2>1, StateStays DEF HasKey, Early
  <2>2. CASE x = p
    <3>1. GotShare(p)' = {} /\ Cardinality({}) = 0
      BY <1>1, <1>2, <1>9, CountPlayers DEF PlayerState
    <3>2. pc'[p] \in {"send_shares", "recv_shares"} /\ (pc'[p] = "recv_shares" => i'[p] = 1)
      BY <1>3, <1>4
    <3>3. share'[p] = SharesOf(p, {}) /\ blinded'[p] = Blinded(p, 1)
      BY <1>1, <1>2 DEF PlayerState, Early, BeforeBlind
    <3>4. \A q \in Players :
             rlist'[p][q] = IF q \in GotRandom(p)' THEN Pair(p, q) ELSE Unit(Random(p, q))
      BY <1>1, <1>2, <1>9 DEF PlayerState
    <3>. QED
      BY <2>2, <3>1, <3>2, <3>3, <3>4 DEF PlayerState, Early, BeforeBlind, HasKey
  <2>. QED
    BY <2>1, <2>2
<1>15. TtpMail'
  BY <1>1, <1>3, <1>7, <1>10 DEF TtpMail
<1>16. TtpState'
  BY <1>1, <1>2, <1>10 DEF TtpState, GotShard
<1>. QED
  BY <1>7, <1>11, <1>12, <1>13, <1>14, <1>15, <1>16 DEF KeygenInv

\* Before the barrier there is no public key yet.
LEMMA NoPkYet ==
  ASSUME KeygenInv, NEW p \in Players, ~SentShard(p)
  PROVE  ttp = "recv_shards" /\ \A x \in Players : ~SentPk(x)
<1>1. p \notin GotShard
  BY DEF GotShard
<1>. QED
  BY <1>1 DEF KeygenInv, TtpState, TypeOK, SentPk

LEMMA RecvShareStep ==
  ASSUME KeygenInv, NEW p \in Players, RecvShare(p)
  PROVE  KeygenInv'
<1>. USE PartiesAre
<1> DEFINE q == Received(p).from
<1>1. /\ TypeOK /\ OneOfEach /\ Together /\ TtpMail /\ TtpState
      /\ \A x \in Players : PlayerMail(x) /\ PlayerState(x)
  BY DEF KeygenInv
<1>2. /\ pc[p] = "recv_shares" /\ HasMsg(p) /\ RecvMsg(p)
      /\ share' = [share EXCEPT ![p] = Plus(share[p], Received(p).data)]
      /\ Loop(p, PLAYERS, "barrier")
      /\ UNCHANGED <<rlist, blinded, pk, ttp, k, sk, shortSeed>>
  BY DEF RecvShare, ttpVars
<1>3. i[p] \in Players /\ \A x \in Players : pc[x] \in Early
  BY <1>1, <1>2 DEF TypeOK, Together, Early
<1>4. /\ i' \in [Players -> Players] /\ pc' \in [Players -> Early \cup Late]
      /\ pc'[p] = IF i[p] < PLAYERS THEN "recv_shares" ELSE "barrier"
      /\ i'[p] = IF i[p] < PLAYERS THEN i[p] + 1 ELSE 1
      /\ \A x \in Players \ {p} : pc'[x] = pc[x] /\ i'[x] = i[x]
  BY <1>1, <1>2, <1>3, LoopEffect DEF Early
<1>5. \A x \in Players : pc'[x] \in Early
  BY <1>3, <1>4 DEF Early
<1>6. /\ queue' \in [Parties -> Seq(Message)] /\ OneOfEach'
      /\ Received(p) \in Mail(p) /\ Received(p) \in Message /\ q \in Senders(p)
      /\ \A y \in Parties :
            /\ Senders(y)' = IF y = p THEN Senders(y) \ {q} ELSE Senders(y)
            /\ Mail(y)' \subseteq Mail(y)
  BY <1>1, <1>2, RecvEffect
<1>7. \A x \in Players : ~SentPk(x) /\ ~SentPk(x)' /\ ~SentShard(x) /\ ~SentShard(x)'
  <2>1. \A x \in Players : ~SentShard(x) /\ ~SentShard(x)'
    BY <1>3, <1>5 DEF SentShard, HasKey, Early
  <2>. QED
    BY <1>2, <2>1, NoPkYet DEF SentPk
<1>8. q \in Players /\ SentShare(q, p) /\ Received(p).data = Unit(Poly(q, p))
  <2>1. Expected(p, q, Received(p).data) /\ q \in Parties
    BY <1>1, <1>6, MailTyped DEF PlayerMail
  <2>. QED
    BY <1>3, <1>7, <2>1 DEF Expected
<1>9. \A x \in Players : \A y \in Players : SentShare(y, x)' = SentShare(y, x)
  BY <1>2, <1>4 DEF SentShare
<1>10. \A x \in Players : /\ GotRandom(x)' = GotRandom(x)
                          /\ x # p => GotShare(x)' = GotShare(x)
  <2>1. \A y, x \in Players : ~SentRandom(y, x) /\ ~SentRandom(y, x)'
    BY <1>3, <1>5 DEF SentRandom
  <2>. QED
    BY <1>6, <1>9, <2>1 DEF GotShare, GotRandom
<1>11. /\ q \notin GotShare(p) /\ GotShare(p)' = GotShare(p) \cup {q}
       /\ GotShare(p) \in SUBSET Players
  BY <1>6, <1>8, <1>9 DEF GotShare
<1>12. TypeOK'
  <2>1. share[p] \in Numbers /\ Received(p).data \in Numbers
    BY <1>1, <1>8, NumbersAre DEF TypeOK
  <2>2. share' \in [Players -> Numbers]
    BY <1>1, <1>2, <2>1, NumbersAre DEF TypeOK
  <2>. QED
    BY <1>1, <1>2, <1>4, <1>6, <2>2 DEF TypeOK
<1>13. Together'
  BY <1>5 DEF Together
<1>14. ASSUME NEW x \in Players PROVE PlayerMail(x)'
  <2>1. ASSUME NEW y \in Parties, NEW data, Expected(x, y, data)
        PROVE  Expected(x, y, data)'
    BY <1>3, <1>5, <1>7, <1>9, <2>1 DEF Expected
  <2>. QED
    BY <1>1, <1>6, <2>1, MailTyped DEF PlayerMail
<1>15. ASSUME NEW x \in Players PROVE PlayerState(x)'
  <2>1. CASE x # p
    <3>1. share'[x] = share[x]
      BY <1>1, <1>2, <2>1 DEF TypeOK
    <3>. QED
      BY <1>1, <1>2, <1>3, <1>4, <1>10, <2>1, <3>1, StateStays DEF HasKey, Early
  <2>2. CASE x = p
    <3>1. share'[p] = SharesOf(p, GotShare(p)')
      <4>1. share[p] = SharesOf(p, GotShare(p))
        BY <1>1, <1>3 DEF PlayerState
      <4>2. share'[p] = Plus(SharesOf(p, GotShare(p)), Unit(Poly(q, p)))
        BY <1>1, <1>2, <1>8, <4>1 DEF TypeOK
      <4>. QED
        BY <1>8, <1>11, <4>2, SharesAdd
    <3>2. Cardinality(GotShare(p)') = i[p]
      BY <1>1, <1>2, <1>3, <1>8, <1>11, CountPlayers DEF PlayerState
    <3>3. i[p] = PLAYERS => GotShare(p)' = Players
      BY <1>8, <1>11, <3>2, CountPlayers
    <3>4. blinded'[p] = Blinded(p, 1)
      BY <1>1, <1>2 DEF PlayerState, Early, BeforeBlind
    <3>5. \A y \in Players :
             rlist'[p][y] = IF y \in GotRandom(p)' THEN Pair(p, y) ELSE Unit(Random(p, y))
      BY <1>1, <1>2, <1>10 DEF PlayerState
    <3>6. \/ pc'[p] = "recv_shares" /\ i'[p] = i[p] + 1
          \/ pc'[p] = "barrier" /\ i'[p] = 1 /\ i[p] = PLAYERS
      BY <1>3, <1>4
    <3>. QED
      BY <1>3, <2>2, <3>1, <3>2, <3>3, <3>4, <3>5, <3>6 DEF PlayerState, Early, BeforeBlind, HasKey
  <2>. QED
    BY <2>1, <2>2
<1>16. TtpMail'
  BY <1>1, <1>6, <1>7 DEF TtpMail
<1>17. TtpState'
  BY <1>1, <1>2, <1>7 DEF TtpState, GotShard
<1>. QED
  BY <1>6, <1>12, <1>13, <1>14, <1>15, <1>16, <1>17 DEF KeygenInv

\* A player begins to wait at the barrier, or the last barrier sets all of them free.
LEMMA RelabelStep ==
  ASSUME KeygenInv, pc' \in [Players -> Early \cup Late],
         \A x \in Players : \/ pc'[x] = pc[x]
                            \/ pc[x] = "barrier" /\ pc'[x] = "wait_shares"
                            \/ pc[x] \in HasKey /\ pc'[x] \in HasKey,
         UNCHANGED <<i, queue, share, rlist, blinded, pk, ttp, k, sk, shortSeed>>
  PROVE  KeygenInv'
<1>. USE PartiesAre
<1>1. /\ TypeOK /\ OneOfEach /\ Together /\ TtpMail /\ TtpState
      /\ \A x \in Players : PlayerMail(x) /\ PlayerState(x)
  BY DEF KeygenInv
<1>2. \A x \in Players : /\ pc'[x] \in Early <=> pc[x] \in Early
                         /\ pc'[x] \in BeforeBlind <=> pc[x] \in BeforeBlind
                         /\ pc'[x] \in HasKey <=> pc[x] \in HasKey
                         /\ SentShard(x)' = SentShard(x)
  BY DEF Early, BeforeBlind, HasKey, SentShard
<1>3. \A x, y \in Players : SentShare(y, x)' = SentShare(y, x) /\ SentRandom(y, x)' = SentRandom(y, x)
  BY <1>2 DEF SentShare, SentRandom, HasKey
<1>4. \A x \in Parties : Mail(x)' = Mail(x) /\ Senders(x)' = Senders(x)
  BY DEF Mail, Senders
<1>5. \A x \in Players : /\ GotShare(x)' = GotShare(x) /\ GotRandom(x)' = GotRandom(x)
                         /\ SentPk(x)' = SentPk(x)
  BY <1>3, <1>4 DEF GotShare, GotRandom, SentPk
<1>6. TypeOK' /\ OneOfEach' /\ Together'
  BY <1>1, <1>2 DEF TypeOK, OneOfEach, Together
<1>7. ASSUME NEW x \in Players PROVE PlayerMail(x)'
  <2>1. ASSUME NEW y \in Parties, NEW data, Expected(x, y, data)
        PROVE  Expected(x, y, data)'
    BY <1>2, <1>3, <1>5, <2>1 DEF Expected, JointPk
  <2>. QED
    BY <1>1, <1>4, <2>1, MailTyped DEF PlayerMail
<1>8. ASSUME NEW x \in Players PROVE PlayerState(x)'
  <2>1. /\ pc'[x] \in {"send_shares", "recv_shares", "send_randoms", "recv_randoms", "blind"}
              => pc'[x] = pc[x]
        /\ pc'[x] \in {"barrier", "wait_shares"} => pc[x] \in {"barrier", "wait_shares"}
        /\ pc'[x] = "blind" <=> pc[x] = "blind"
    BY DEF HasKey
  <2>. QED
    BY <1>1, <1>2, <1>4, <1>5, <2>1 DEF PlayerState, JointPk
<1>9. TtpMail' /\ TtpState'
  <2>1. GotShard' = GotShard
    BY <1>2, <1>4 DEF GotShard
  <2>. QED
    BY <1>1, <1>2, <1>4, <2>1 DEF TtpMail, TtpState
<1>. QED
  BY <1>6, <1>7, <1>8, <1>9 DEF KeygenInv

\* All the others wait when the last one comes.
LEMMA LastAtBarrier ==
  ASSUME KeygenInv, NEW p \in Players, p \notin AtBarrier, ~(Cardinality(AtBarrier) + 1 < PLAYERS)
  PROVE  AtBarrier \cup {p} = Players
<1>1. AtBarrier \in SUBSET Players
  BY DEF AtBarrier
<1>2. Cardinality(AtBarrier) \in Nat /\ Cardinality(AtBarrier) <= PLAYERS - 1
  BY <1>1, CountPlayers
<1>3. Cardinality(AtBarrier) = PLAYERS - 1
  BY <1>2, PlayersAssumption
<1>. QED
  BY <1>1, <1>3, CountPlayers

\* Before anybody is past the barrier each player has all its shares, so that nothing
\* is left of the first loops when the next ones begin.
LEMMA ReleaseStep ==
  ASSUME KeygenInv, \A x \in Players : pc[x] \in {"barrier", "wait_shares"},
         pc' = [x \in Players |-> "send_randoms"],
         UNCHANGED <<i, queue, share, rlist, blinded, pk, ttp, k, sk, shortSeed>>
  PROVE  KeygenInv'
<1>. USE PartiesAre
<1>1. /\ TypeOK /\ OneOfEach /\ TtpMail /\ TtpState
      /\ \A x \in Players : PlayerMail(x) /\ PlayerState(x)
  BY DEF KeygenInv
<1>2. \A x \in Players : /\ ~SentShard(x) /\ ~SentShard(x)'
                         /\ ~SentPk(x) /\ ~SentPk(x)'
  <2>1. \A x \in Players : ~SentShard(x) /\ ~SentShard(x)'
    BY DEF SentShard, HasKey
  <2>. QED
    BY <2>1, NoPkYet DEF SentPk
<1>3. \A x \in Players : GotShare(x) = Players /\ i[x] = 1
  BY <1>1 DEF PlayerState
<1>4. \A x \in Parties : Mail(x)' = Mail(x) /\ Senders(x)' = Senders(x)
  BY DEF Mail, Senders
<1>5. \A x \in Players : Mail(x) = {} /\ Senders(x) = {}
  <2>. SUFFICES ASSUME NEW x \in Players, NEW m \in Mail(x) PROVE FALSE
    BY MailSenders
  <2>1. m.from \in Senders(x) /\ m.from \in Parties
    BY <1>1, MailSenders, MailTyped
  <2>2. m.from \notin Players
    BY <1>3, <2>1 DEF GotShare
  <2>3. SentPk(x)
    BY <1>1, <2>1, <2>2 DEF PlayerMail, Expected
  <2>. QED
    BY <1>2, <2>3
<1>6. \A x \in Players : GotRandom(x) = {} /\ GotRandom(x)' = {}
  <2>1. \A x, y \in Players : ~SentRandom(y, x) /\ ~SentRandom(y, x)'
    BY <1>3 DEF SentRandom, Early
  <2>. QED
    BY <2>1 DEF GotRandom
<1>7. TypeOK' /\ OneOfEach' /\ Together'
  BY <1>1 DEF TypeOK, OneOfEach, Together, Early, Late
<1>8. ASSUME NEW x \in Players PROVE PlayerMail(x)' /\ PlayerState(x)'
  <2>1. PlayerMail(x)'
    BY <1>4, <1>5 DEF PlayerMail
  <2>2. /\ share[x] = SharesOf(x, Players) /\ blinded[x] = Blinded(x, 1)
        /\ \A y \in Players : rlist[x][y] = Unit(Random(x, y))
    BY <1>1, <1>3, <1>6 DEF PlayerState, Early, BeforeBlind
  <2>. QED
    BY <1>6, <2>1, <2>2 DEF PlayerState, Early, BeforeBlind, HasKey
<1>9. TtpMail' /\ TtpState'
  BY <1>1, <1>2, <1>4 DEF TtpMail, TtpState, GotShard
<1>. QED
  BY <1>7, <1>8, <1>9 DEF KeygenInv

LEMMA BarrierStep ==
  ASSUME KeygenInv, NEW p \in Players, BarrierWait(p)
  PROVE  KeygenInv'
<1>0. /\ pc \in [Players -> Early \cup Late] /\ Together
      /\ UNCHANGED <<i, queue, share, rlist, blinded, pk, ttp, k, sk, shortSeed>>
      /\ pc[p] \in {"barrier", "end_barrier"}
  BY DEF KeygenInv, TypeOK, BarrierWait, ttpVars
<1>1. CASE Cardinality(AtBarrier) + 1 < PLAYERS
  <2>1. pc' = [pc EXCEPT ![p] = IF pc[p] = "barrier" THEN "wait_shares" ELSE "wait_end"]
    BY <1>1 DEF BarrierWait, Goto
  <2>. QED
    BY <1>0, <2>1, RelabelStep DEF Early, Late, HasKey
<1>2. CASE ~(Cardinality(AtBarrier) + 1 < PLAYERS)
  <2>1. AtBarrier \cup {p} = Players
    BY <1>0, <1>2, LastAtBarrier DEF AtBarrier
  <2>2. \A x \in Players : pc[x] \in {"barrier", "wait_shares"} \/ pc[x] \in {"end_barrier", "wait_end"}
    BY <1>0, <2>1 DEF AtBarrier
  <2>3. pc' = [x \in Players |-> Resume(pc[x])]
    BY <1>2, <2>1 DEF BarrierWait
  <2>4. CASE \A x \in Players : pc[x] \in Early
    <3>1. \A x \in Players : pc[x] \in {"barrier", "wait_shares"}
      BY <2>2, <2>4 DEF Early
    <3>2. pc' = [x \in Players |-> "send_randoms"]
      BY <2>3, <3>1 DEF Resume
    <3>. QED
      BY <1>0, <3>1, <3>2, ReleaseStep
  <2>5. CASE \A x \in Players : pc[x] \notin Early
    <3>1. \A x \in Players : pc[x] \in HasKey /\ Resume(pc[x]) = "done"
      BY <2>2, <2>5 DEF Early, HasKey, Resume
    <3>. QED
      BY <1>0, <2>3, <3>1, RelabelStep DEF HasKey, Late
  <2>. QED
    BY <1>0, <2>4, <2>5 DEF Together
<1>. QED
  BY <1>1, <1>2

------------------------------------------------------------------------------
(* The steps after the barrier.                                              *)

LEMMA SendRandomStep ==
  ASSUME KeygenInv, NEW p \in Players, SendRandom(p)
  PROVE  KeygenInv'
<1>. USE PartiesAre
<1>1. /\ TypeOK /\ OneOfEach /\ Together /\ TtpMail /\ TtpState
      /\ \A x \in Players : PlayerMail(x) /\ PlayerState(x)
  BY DEF KeygenInv
<1>2. /\ pc[p] = "send_randoms"
      /\ IF i[p] = p THEN UNCHANGED queue ELSE SendMsg(p, i[p], rlist[p][i[p]])
      /\ Loop(p, PLAYERS, "recv_randoms")
      /\ UNCHANGED <<share, rlist, blinded, pk, ttp, k, sk, shortSeed>>
  BY DEF SendRandom, ttpVars
<1>3. i[p] \in Players /\ \A x \in Players : pc[x] \notin Early
  BY <1>1, <1>2 DEF TypeOK, Together, Early
<1>4. /\ i' \in [Players -> Players] /\ pc' \in [Players -> Early \cup Late]
      /\ pc'[p] = IF i[p] < PLAYERS THEN "send_randoms" ELSE "recv_randoms"
      /\ i'[p] = IF i[p] < PLAYERS THEN i[p] + 1 ELSE 1
      /\ \A x \in Players \ {p} : pc'[x] = pc[x] /\ i'[x] = i[x]
  BY <1>1, <1>2, <1>3, LoopEffect DEF Late
<1>5. \A x \in Players : pc'[x] \notin Early
  BY <1>3, <1>4 DEF Early
<1>6. GotRandom(p) = {} /\ rlist[p][i[p]] = Unit(Random(p, i[p]))
  BY <1>1, <1>2, <1>3 DEF PlayerState
<1>7. p \notin Senders(i[p])
  <2>1. ~SentRandom(p, i[p])
    BY <1>2, <1>3 DEF SentRandom
  <2>. QED
    BY <1>1, <1>3, <2>1, MailSenders DEF PlayerMail, Expected
<1>8. /\ queue' \in [Parties -> Seq(Message)] /\ OneOfEach'
      /\ \A y \in Parties :
            /\ Senders(y)' = IF y = i[p] /\ y # p THEN Senders(y) \cup {p} ELSE Senders(y)
            /\ Mail(y)' = IF y = i[p] /\ y # p
                          THEN Mail(y) \cup {[from |-> p, data |-> Unit(Random(p, i[p]))]}
                          ELSE Mail(y)
  <2>1. CASE i[p] = p
    <3>1. queue' = queue
      BY <1>2, <2>1
    <3>. QED
      BY <1>1, <2>1, <3>1 DEF TypeOK, OneOfEach, Senders, Mail
  <2>2. CASE i[p] # p
    <3>1. SendMsg(p, i[p], Unit(Random(p, i[p])))
      BY <1>2, <1>6, <2>2
    <3>2. /\ queue' \in [Parties -> Seq(Message)] /\ OneOfEach'
          /\ \A y \in Parties :
                /\ Senders(y)' = IF y = i[p] THEN Senders(y) \cup {p} ELSE Senders(y)
                /\ Mail(y)' = IF y = i[p] THEN Mail(y) \cup {[from |-> p, data |-> Unit(Random(p, i[p]))]}
                              ELSE Mail(y)
      BY ZenonT(60), <1>1, <1>3, <1>7, <3>1, SendEffect, NumbersAre
    <3>. QED
      BY <2>2, <3>2
  <2>. QED
    BY <2>1, <2>2
<1>9. \A x \in Players :
          /\ \A q \in Players :
                SentRandom(q, x)' = (SentRandom(q, x) \/ (q = p /\ x = i[p] /\ x # p))
          /\ SentPk(x)' = SentPk(x) /\ SentShard(x)' = SentShard(x)
  <2>1. pc'[p] \notin HasKey \cup {"recv_pk"} /\ pc[p] \notin HasKey \cup {"recv_pk"}
    BY <1>2, <1>4 DEF HasKey
  <2>. QED
    BY <1>2, <1>3, <1>4, <1>5, <2>1 DEF SentRandom, SentPk, SentShard
<1>10. \A x \in Players : GotRandom(x)' = GotRandom(x)
  <2>1. ~SentRandom(p, i[p])
    BY <1>2, <1>3 DEF SentRandom
  <2>. QED
    BY <1>8, <1>9, <2>1 DEF GotRandom
<1>11. TypeOK'
  BY <1>1, <1>2, <1>4, <1>8 DEF TypeOK
<1>12. Together'
  BY <1>5 DEF Together
<1>13. ASSUME NEW x \in Players PROVE PlayerMail(x)'
  <2>1. ASSUME NEW q \in Parties, NEW data, Expected(x, q, data)
        PROVE  Expected(x, q, data)'
    BY <1>2, <1>3, <1>5, <1>9, <2>1 DEF Expected, JointPk
  <2>2. x = i[p] /\ x # p => Expected(x, p, Unit(Random(p, x)))'
    BY <1>5, <1>9 DEF Expected
  <2>3. \A m \in Mail(x) : Expected(x, m.from, m.data)'
    BY <1>1, <2>1, MailTyped DEF PlayerMail
  <2>4. CASE x = i[p] /\ x # p
    BY <1>8, <2>2, <2>3, <2>4 DEF PlayerMail
  <2>5. CASE ~(x = i[p] /\ x # p)
    BY <1>8, <2>3, <2>5 DEF PlayerMail
  <2>. QED
    BY <2>4, <2>5
<1>14. ASSUME NEW x \in Players PROVE PlayerState(x)'
  <2>1. CASE x # p
    <3>1. pc[x] \in HasKey => SentPk(x)' /\ TTP \notin Senders(x)'
      BY <1>1, <1>8, <1>9 DEF PlayerState
    <3>. QED
      BY <1>1, <1>2, <1>3, <1>4, <1>10, <2>1, <3>1, StateStays
  <2>2. CASE x = p
    <3>1. GotRandom(p)' = {} /\ Cardinality({}) = 0
      BY <1>6, <1>10, CountPlayers
    <3>2. pc'[p] \in {"send_randoms", "recv_randoms"}
          /\ (pc'[p] = "recv_randoms" => i'[p] = 1 /\ i'[p] < PLAYERS)
      BY <1>3, <1>4, PlayersAssumption
    <3>3. share'[p] = SharesOf(p, Players) /\ blinded'[p] = Blinded(p, 1)
      BY <1>1, <1>2 DEF PlayerState, Early, BeforeBlind
    <3>4. \A q \in Players :
             rlist'[p][q] = IF q \in GotRandom(p)' THEN Pair(p, q) ELSE Unit(Random(p, q))
      BY <1>1, <1>2, <1>10 DEF PlayerState
    <3>. QED
      BY <2>2, <3>1, <3>2, <3>3, <3>4 DEF PlayerState, Early, BeforeBlind, HasKey
  <2>. QED
    BY <2>1, <2>2
<1>15. TtpMail'
  BY <1>1, <1>3, <1>8, <1>9 DEF TtpMail
<1>16. TtpState'
  <2>1. GotShard' = GotShard
    BY <1>3, <1>8, <1>9 DEF GotShard
  <2>. QED
    BY <1>1, <1>2, <2>1 DEF TtpState
<1>. QED
  BY <1>8, <1>11, <1>12, <1>13, <1>14, <1>15, <1>16 DEF KeygenInv

LEMMA RecvRandomStep ==
  ASSUME KeygenInv, NEW p \in Players, RecvRandom(p)
  PROVE  KeygenInv'
<1>. USE PartiesAre
<1> DEFINE q == Received(p).from
<1>1. /\ TypeOK /\ OneOfEach /\ Together /\ TtpMail /\ TtpState
      /\ \A x \in Players : PlayerMail(x) /\ PlayerState(x)
  BY DEF KeygenInv
<1>2. /\ pc[p] = "recv_randoms" /\ HasMsg(p) /\ RecvMsg(p)
      /\ rlist' = [rlist EXCEPT ![p][q] = Plus(rlist[p][q], Received(p).data)]
      /\ Loop(p, PLAYERS - 1, "blind")
      /\ UNCHANGED <<share, blinded, pk, ttp, k, sk, shortSeed>>
  BY DEF RecvRandom, ttpVars
<1>3. i[p] \in Players /\ i[p] <= PLAYERS - 1 /\ \A x \in Players : pc[x] \notin Early
  <2>1. i[p] \in Players /\ \A x \in Players : pc[x] \notin Early
    BY <1>1, <1>2 DEF TypeOK, Together, Early
  <2>2. i[p] < PLAYERS
    BY <1>1, <1>2 DEF PlayerState
  <2>3. i[p] \in Nat
    BY <2>1
  <2>4. i[p] <= PLAYERS - 1
    BY <2>2, <2>3, PlayersAssumption
  <2>. QED
    BY <2>1, <2>4
<1>4. /\ i' \in [Players -> Players] /\ pc' \in [Players -> Early \cup Late]
      /\ pc'[p] = IF i[p] < PLAYERS - 1 THEN "recv_randoms" ELSE "blind"
      /\ i'[p] = IF i[p] < PLAYERS - 1 THEN i[p] + 1 ELSE 1
      /\ \A x \in Players \ {p} : pc'[x] = pc[x] /\ i'[x] = i[x]
  <2>1. PLAYERS - 1 \in Players
    BY PlayersAssumption DEF Players
  <2>. QED
    BY <1>1, <1>2, <1>3, <2>1, LoopEffect DEF Late
<1>5. \A x \in Players : pc'[x] \notin Early
  BY <1>3, <1>4 DEF Early
<1>6. /\ queue' \in [Parties -> Seq(Message)] /\ OneOfEach'
      /\ Received(p) \in Mail(p) /\ Received(p) \in Message /\ q \in Senders(p)
      /\ \A y \in Parties :
            /\ Senders(y)' = IF y = p THEN Senders(y) \ {q} ELSE Senders(y)
            /\ Mail(y)' \subseteq Mail(y)
  BY <1>1, <1>2, RecvEffect
<1>7. /\ ~SentPk(p) /\ ~SentShard(p)
      /\ \A x \in Players : SentPk(x)' = SentPk(x) /\ SentShard(x)' = SentShard(x)
  <2>1. pc'[p] \notin HasKey \cup {"recv_pk"} /\ pc[p] \notin HasKey \cup {"recv_pk"}
    BY <1>2, <1>4 DEF HasKey
  <2>. QED
    BY <1>2, <1>4, <2>1, NoPkYet DEF SentPk, SentShard
<1>8. q \in Players /\ q # p /\ SentRandom(q, p) /\ Received(p).data = Unit(Random(q, p))
  <2>1. Expected(p, q, Received(p).data) /\ q \in Parties
    BY <1>1, <1>6, MailTyped DEF PlayerMail
  <2>. QED
    BY <1>3, <1>7, <2>1 DEF Expected, SentRandom
<1>9. \A x \in Players : \A y \in Players : SentRandom(y, x)' = SentRandom(y, x)
  BY <1>2, <1>3, <1>4, <1>5 DEF SentRandom
<1>10. \A x \in Players : x # p => GotRandom(x)' = GotRandom(x)
  BY <1>6, <1>9 DEF GotRandom
<1>11. /\ q \notin GotRandom(p) /\ GotRandom(p)' = GotRandom(p) \cup {q}
       /\ GotRandom(p)' \in SUBSET Players /\ GotRandom(p) \in SUBSET Players
       /\ p \notin GotRandom(p)'
  BY <1>6, <1>8, <1>9 DEF GotRandom, SentRandom
<1>12. /\ rlist' \in [Players -> [Players -> Numbers]]
       /\ rlist'[p][q] = Pair(p, q)
       /\ \A y \in Players : y # q => rlist'[p][y] = rlist[p][y]
       /\ \A x \in Players : x # p => rlist'[x] = rlist[x]
  <2>1. rlist[p][q] = Unit(Random(p, q))
    BY <1>1, <1>8, <1>11 DEF PlayerState
  <2>2. rlist' = [rlist EXCEPT ![p][q] = Pair(p, q)]
    BY <1>2, <1>8, <2>1 DEF Pair
  <2>3. Pair(p, q) \in Numbers
    BY NumbersAre DEF Pair
  <2>. QED
    BY <1>1, <1>8, <2>2, <2>3 DEF TypeOK
<1>13. TypeOK' /\ Together'
  BY <1>1, <1>2, <1>4, <1>5, <1>6, <1>12 DEF TypeOK, Together
<1>14. ASSUME NEW x \in Players PROVE PlayerMail(x)'
  <2>1. ASSUME NEW y \in Parties, NEW data, Expected(x, y, data)
        PROVE  Expected(x, y, data)'
    BY <1>2, <1>3, <1>5, <1>7, <1>9, <2>1 DEF Expected, JointPk
  <2>. QED
    BY <1>1, <1>6, <2>1, MailTyped DEF PlayerMail
<1>15. ASSUME NEW x \in Players PROVE PlayerState(x)'
  <2>1. CASE x # p
    <3>1. pc[x] \in HasKey => SentPk(x)' /\ TTP \notin Senders(x)'
      BY <1>1, <1>6, <1>7 DEF PlayerState
    <3>. QED
      BY <1>1, <1>2, <1>3, <1>4, <1>10, <1>12, <2>1, <3>1, StateStays
  <2>2. CASE x = p
    <3>1. Cardinality(GotRandom(p)') = i[p]
      BY <1>1, <1>2, <1>3, <1>8, <1>11, CountPlayers DEF PlayerState
    <3>2. i[p] = PLAYERS - 1 => GotRandom(p)' = Players \ {p}
      BY <1>11, <3>1, CountPlayers
    <3>3. share'[p] = SharesOf(p, Players) /\ blinded'[p] = Blinded(p, 1)
      BY <1>1, <1>2 DEF PlayerState, Early, BeforeBlind
    <3>4. \A y \in Players :
             rlist'[p][y] = IF y \in GotRandom(p)' THEN Pair(p, y) ELSE Unit(Random(p, y))
      BY <1>1, <1>11, <1>12 DEF PlayerState
    <3>5. \/ pc'[p] = "recv_randoms" /\ i'[p] = i[p] + 1 /\ i[p] + 1 < PLAYERS
          \/ pc'[p] = "blind" /\ i'[p] = 1 /\ i[p] = PLAYERS - 1
      <4>1. i[p] \in Nat /\ (i[p] < PLAYERS - 1 \/ i[p] = PLAYERS - 1)
        <5>1. i[p] \in Nat /\ i[p] <= PLAYERS - 1
          BY <1>3
        <5>. QED
          BY <5>1, PlayersAssumption
      <4>2. CASE i[p] < PLAYERS - 1
        BY <1>4, <4>1, <4>2, PlayersAssumption
      <4>3. CASE i[p] = PLAYERS - 1
        BY <1>4, <4>1, <4>3, PlayersAssumption
      <4>. QED
        BY <4>1, <4>2, <4>3
    <3>. QED
      BY <1>3, <2>2, <3>1, <3>2, <3>3, <3>4, <3>5 DEF PlayerState, Early, BeforeBlind, HasKey
  <2>. QED
    BY <2>1, <2>2
<1>16. TtpMail'
  BY <1>1, <1>6, <1>7 DEF TtpMail
<1>17. TtpState'
  <2>1. GotShard' = GotShard
    BY <1>6, <1>7 DEF GotShard
  <2>. QED
    BY <1>1, <1>2, <2>1 DEF TtpState
<1>. QED
  BY <1>6, <1>13, <1>14, <1>15, <1>16, <1>17 DEF KeygenInv

LEMMA BlindStep ==
  ASSUME KeygenInv, NEW p \in Players, Blind(p)
  PROVE  KeygenInv'
<1>. USE PartiesAre
<1>1. /\ TypeOK /\ OneOfEach /\ Together /\ TtpMail /\ TtpState
      /\ \A x \in Players : PlayerMail(x) /\ PlayerState(x)
  BY DEF KeygenInv
<1>2. /\ pc[p] = "blind" /\ Loop(p, PLAYERS, "send_shard")
      /\ UNCHANGED <<queue, share, rlist, pk, ttp, k, sk, shortSeed>>
  BY DEF Blind, ttpVars
<1>3. i[p] \in Players /\ \A x \in Players : pc[x] \notin Early
  BY <1>1, <1>2 DEF TypeOK, Together, Early
<1>4. /\ i' \in [Players -> Players] /\ pc' \in [Players -> Early \cup Late]
      /\ pc'[p] = IF i[p] < PLAYERS THEN "blind" ELSE "send_shard"
      /\ i'[p] = IF i[p] < PLAYERS THEN i[p] + 1 ELSE 1
      /\ \A x \in Players \ {p} : pc'[x] = pc[x] /\ i'[x] = i[x]
  BY <1>1, <1>2, <1>3, LoopEffect DEF Late
<1>5. \A x \in Players : pc'[x] \notin Early
  BY <1>3, <1>4 DEF Early
<1>6. \A x \in Parties : Mail(x)' = Mail(x) /\ Senders(x)' = Senders(x)
  BY <1>2 DEF Mail, Senders
<1>7. \A x \in Players :
          /\ \A q \in Players : SentRandom(q, x)' = SentRandom(q, x)
          /\ SentPk(x)' = SentPk(x) /\ SentShard(x)' = SentShard(x)
  <2>1. pc'[p] \notin HasKey \cup {"recv_pk"} /\ pc[p] \notin HasKey \cup {"recv_pk"}
    BY <1>2, <1>4 DEF HasKey
  <2>. QED
    BY <1>2, <1>3, <1>4, <1>5, <2>1 DEF SentRandom, SentPk, SentShard
<1>8. \A x \in Players : GotRandom(x)' = GotRandom(x)
  BY <1>6, <1>7 DEF GotRandom
<1>9. blinded' = [blinded EXCEPT ![p] = Blinded(p, i[p] + 1)]
  <2>1. GotRandom(p) = Players \ {p} /\ blinded[p] = Blinded(p, i[p])
    BY <1>1, <1>2 DEF PlayerState, BeforeBlind, Early
  <2>2. i[p] # p => rlist[p][i[p]] = Pair(p, i[p])
    BY <1>1, <1>3, <2>1 DEF PlayerState
  <2>3. blinded' = [blinded EXCEPT ![p] =
           IF i[p] < p THEN Plus(blinded[p], rlist[p][i[p]])
           ELSE IF i[p] > p THEN Minus(blinded[p], rlist[p][i[p]]) ELSE blinded[p]]
    BY DEF Blind
  <2>4. i[p] \in Nat /\ p \in Nat
    BY <1>3
  <2>5. Blinded(p, i[p] + 1) = IF i[p] < p THEN Plus(Blinded(p, i[p]), Pair(p, i[p]))
                                ELSE IF i[p] > p THEN Minus(Blinded(p, i[p]), Pair(p, i[p]))
                                ELSE Blinded(p, i[p])
    BY <1>3, BlindOne
  <2>6. Blinded(p, i[p] + 1) = IF i[p] < p THEN Plus(blinded[p], rlist[p][i[p]])
                                ELSE IF i[p] > p THEN Minus(blinded[p], rlist[p][i[p]])
                                ELSE blinded[p]
    BY <2>1, <2>2, <2>4, <2>5
  <2>. QED
    BY <2>3, <2>6
<1>10. TypeOK' /\ OneOfEach' /\ Together'
  <2>1. Blinded(p, i[p] + 1) \in Numbers
    BY DEF Blinded, Numbers, Sign
  <2>2. blinded' \in [Players -> Numbers]
    BY <1>1, <1>9, <2>1 DEF TypeOK
  <2>. QED
    BY <1>1, <1>2, <1>4, <1>5, <2>2 DEF TypeOK, OneOfEach, Together
<1>11. ASSUME NEW x \in Players PROVE PlayerMail(x)'
  <2>1. ASSUME NEW y \in Parties, NEW data, Expected(x, y, data)
        PROVE  Expected(x, y, data)'
    BY <1>2, <1>3, <1>5, <1>7, <2>1 DEF Expected, JointPk
  <2>. QED
    BY <1>1, <1>6, <2>1, MailTyped DEF PlayerMail
<1>12. ASSUME NEW x \in Players PROVE PlayerState(x)'
  <2>1. CASE x # p
    <3>1. pc[x] \in HasKey => SentPk(x)' /\ TTP \notin Senders(x)'
      BY <1>1, <1>6, <1>7 DEF PlayerState
    <3>2. blinded'[x] = blinded[x]
      BY <1>1, <1>9, <2>1 DEF TypeOK
    <3>. QED
      BY <1>1, <1>2, <1>3, <1>4, <1>8, <2>1, <3>1, <3>2, StateStays
  <2>2. CASE x = p
    <3>1. GotRandom(p)' = Players \ {p} /\ share'[p] = SharesOf(p, Players)
      BY <1>1, <1>2, <1>3, <1>8 DEF PlayerState, BeforeBlind, Early
    <3>2. blinded'[p] = Blinded(p, i[p] + 1)
      BY <1>1, <1>9 DEF TypeOK
    <3>3. \A y \in Players :
             rlist'[p][y] = IF y \in GotRandom(p)' THEN Pair(p, y) ELSE Unit(Random(p, y))
      BY <1>1, <1>2, <1>8 DEF PlayerState
    <3>4. \/ pc'[p] = "blind" /\ i'[p] = i[p] + 1
          \/ pc'[p] = "send_shard" /\ i[p] = PLAYERS
      BY <1>3, <1>4
    <3>. QED
      BY <2>2, <3>1, <3>2, <3>3, <3>4 DEF PlayerState, Early, BeforeBlind, HasKey
  <2>. QED
    BY <2>1, <2>2
<1>13. TtpMail'
  BY <1>1, <1>6, <1>7 DEF TtpMail
<1>14. TtpState'
  <2>1. GotShard' = GotShard
    BY <1>6, <1>7 DEF GotShard
  <2>. QED
    BY <1>1, <1>2, <2>1 DEF TtpState
<1>. QED
  BY <1>10, <1>11, <1>12, <1>13, <1>14 DEF KeygenInv

LEMMA SendShardStep ==
  ASSUME KeygenInv, NEW p \in Players, SendShard(p)
  PROVE  KeygenInv'
<1>. USE PartiesAre
<1>1. /\ TypeOK /\ OneOfEach /\ Together /\ TtpMail /\ TtpState
      /\ \A x \in Players : PlayerMail(x) /\ PlayerState(x)
  BY DEF KeygenInv
<1>2. /\ pc[p] = "send_shard" /\ SendMsg(p, TTP, blinded[p])
      /\ pc' = [pc EXCEPT ![p] = "recv_pk"]
      /\ UNCHANGED <<i, share, rlist, blinded, pk, ttp, k, sk, shortSeed>>
  BY DEF SendShard, ttpVars, Goto
<1>3. \A x \in Players : pc[x] \notin Early
  BY <1>1, <1>2 DEF Together, Early
<1>4. /\ pc' \in [Players -> Early \cup Late] /\ pc'[p] = "recv_pk"
      /\ \A x \in Players \ {p} : pc'[x] = pc[x]
  BY <1>1, <1>2 DEF TypeOK, Late
<1>5. \A x \in Players : pc'[x] \notin Early
  BY <1>3, <1>4 DEF Early
<1>6. ~SentShard(p) /\ p \notin Senders(TTP)
  <2>1. ~SentShard(p)
    BY <1>2 DEF SentShard, HasKey
  <2>. QED
    BY <1>1, <2>1, MailSenders DEF TtpMail
<1>7. blinded[p] = Blinded(p, PLAYERS + 1) /\ blinded[p] \in Numbers
  BY <1>1, <1>2 DEF PlayerState, BeforeBlind, Early, TypeOK
<1>8. /\ queue' \in [Parties -> Seq(Message)] /\ OneOfEach'
      /\ \A y \in Parties :
            /\ Senders(y)' = IF y = TTP THEN Senders(y) \cup {p} ELSE Senders(y)
            /\ Mail(y)' = IF y = TTP THEN Mail(y) \cup {[from |-> p, data |-> blinded[p]]}
                          ELSE Mail(y)
  <2>1. TypeOK /\ OneOfEach /\ TTP \in Parties /\ p \in Parties \ Senders(TTP)
    BY <1>1, <1>6
  <2>2. \E data \in Numbers : data = blinded[p] /\ SendMsg(p, TTP, data)
    BY <1>2, <1>7
  <2>. HIDE PartiesAre
  <2>. QED
    BY <2>1, <2>2, SendEffect
<1>9. \A x \in Players :
          /\ \A q \in Players : SentRandom(q, x)' = SentRandom(q, x)
          /\ SentPk(x)' = SentPk(x) /\ SentShard(x)' = (SentShard(x) \/ x = p)
  BY <1>2, <1>3, <1>4, <1>5 DEF SentRandom, SentPk, SentShard
<1>10. GotShard' = GotShard /\ \A x \in Players : GotRandom(x)' = GotRandom(x)
  BY <1>6, <1>8, <1>9 DEF GotRandom, GotShard
<1>11. TypeOK' /\ Together'
  BY <1>1, <1>2, <1>4, <1>5, <1>8 DEF TypeOK, Together
<1>12. ASSUME NEW x \in Players PROVE PlayerMail(x)'
  <2>1. ASSUME NEW y \in Parties, NEW data, Expected(x, y, data)
        PROVE  Expected(x, y, data)'
    BY <1>2, <1>3, <1>5, <1>9, <2>1 DEF Expected, JointPk
  <2>. QED
    BY ZenonT(60), <1>1, <1>8, <2>1, MailTyped DEF PlayerMail
<1>13. ASSUME NEW x \in Players PROVE PlayerState(x)'
  <2>1. CASE x # p
    <3>1. pc[x] \in HasKey => SentPk(x)' /\ TTP \notin Senders(x)'
      BY <1>1, <1>8, <1>9 DEF PlayerState
    <3>. QED
      BY <1>1, <1>2, <1>3, <1>4, <1>10, <2>1, <3>1, StateStays
  <2>2. CASE x = p
    <3>1. GotRandom(p)' = Players \ {p} /\ share'[p] = SharesOf(p, Players)
      BY <1>1, <1>2, <1>3, <1>10 DEF PlayerState, BeforeBlind, Early
    <3>2. blinded'[p] = Blinded(p, PLAYERS + 1)
      BY <1>2, <1>7
    <3>3. \A y \in Players :
             rlist'[p][y] = IF y \in GotRandom(p)' THEN Pair(p, y) ELSE Unit(Random(p, y))
      BY <1>1, <1>2, <1>10 DEF PlayerState
    <3>. QED
      BY <1>4, <2>2, <3>1, <3>2, <3>3 DEF PlayerState, Early, BeforeBlind, HasKey
  <2>. QED
    BY <2>1, <2>2
<1>14. TtpMail'
  <2>1. \A m \in Mail(TTP) : m.from \in Players /\ SentShard(m.from)' /\ m.data = Blinded(m.from, PLAYERS + 1)
    BY <1>1, <1>9 DEF TtpMail
  <2>2. ASSUME NEW m \in Mail(TTP)'
        PROVE  m.from \in Players /\ SentShard(m.from)' /\ m.data = Blinded(m.from, PLAYERS + 1)
    <3>1. m \in Mail(TTP) \/ m = [from |-> p, data |-> Blinded(p, PLAYERS + 1)]
      BY <1>7, <1>8, <2>2
    <3>2. SentShard(p)'
      BY <1>9
    <3>. QED
      BY <2>1, <3>1, <3>2
  <2>. QED
    BY <2>2 DEF TtpMail
<1>15. TtpState'
  BY <1>1, <1>2, <1>10 DEF TtpState
<1>. QED
  BY <1>8, <1>11, <1>12, <1>13, <1>14, <1>15 DEF KeygenInv

LEMMA RecvPkStep ==
  ASSUME KeygenInv, NEW p \in Players, RecvPk(p)
  PROVE  KeygenInv'
<1>. USE PartiesAre
<1> DEFINE q == Received(p).from
<1>1. /\ TypeOK /\ OneOfEach /\ Together /\ TtpMail /\ TtpState
      /\ \A x \in Players : PlayerMail(x) /\ PlayerState(x)
  BY DEF KeygenInv
<1>2. /\ pc[p] = "recv_pk" /\ HasMsg(p) /\ RecvMsg(p)
      /\ pk' = [pk EXCEPT ![p] = Received(p).data]
      /\ pc' = [pc EXCEPT ![p] = "end_barrier"]
      /\ UNCHANGED <<i, share, rlist, blinded, ttp, k, sk, shortSeed>>
  BY DEF RecvPk, ttpVars, Goto
<1>3. \A x \in Players : pc[x] \notin Early
  BY <1>1, <1>2 DEF Together, Early
<1>4. /\ pc' \in [Players -> Early \cup Late] /\ pc'[p] = "end_barrier"
      /\ \A x \in Players \ {p} : pc'[x] = pc[x]
  BY <1>1, <1>2 DEF TypeOK, Late
<1>5. \A x \in Players : pc'[x] \notin Early
  BY <1>3, <1>4 DEF Early
<1>6. /\ queue' \in [Parties -> Seq(Message)] /\ OneOfEach'
      /\ Received(p) \in Mail(p) /\ Received(p) \in Message /\ q \in Senders(p)
      /\ \A y \in Parties :
            /\ Senders(y)' = IF y = p THEN Senders(y) \ {q} ELSE Senders(y)
            /\ Mail(y)' \subseteq Mail(y)
  BY <1>1, <1>2, RecvEffect
<1>7. GotRandom(p) = Players \ {p} /\ share[p] = SharesOf(p, Players)
        /\ blinded[p] = Blinded(p, PLAYERS + 1)
  BY <1>1, <1>2, <1>3 DEF PlayerState, BeforeBlind, Early
<1>8. q = TTP /\ SentPk(p) /\ Received(p).data = Unit(JointPk)
  <2>1. Expected(p, q, Received(p).data) /\ q \in Parties
    BY <1>1, <1>6, MailTyped DEF PlayerMail
  <2>2. q \notin Players \ {p}
    BY <1>6, <1>7 DEF GotRandom
  <2>3. ~SentRandom(p, p)
    BY DEF SentRandom
  <2>. QED
    BY <1>3, <2>1, <2>2, <2>3 DEF Expected
<1>9. \A x \in Players :
          /\ \A y \in Players : SentRandom(y, x)' = SentRandom(y, x)
          /\ SentPk(x)' = SentPk(x) /\ SentShard(x)' = SentShard(x)
  BY <1>2, <1>3, <1>4, <1>5 DEF SentRandom, SentPk, SentShard, HasKey
<1>10. GotShard' = GotShard /\ \A x \in Players : GotRandom(x)' = GotRandom(x)
  BY <1>6, <1>8, <1>9 DEF GotRandom, GotShard
<1>11. TypeOK' /\ Together'
  <2>1. pk' \in [Players -> Numbers]
    BY <1>1, <1>2, <1>8, NumbersAre DEF TypeOK
  <2>. QED
    BY <1>1, <1>2, <1>4, <1>5, <1>6, <2>1 DEF TypeOK, Together
<1>12. ASSUME NEW x \in Players PROVE PlayerMail(x)'
  <2>1. ASSUME NEW y \in Parties, NEW data, Expected(x, y, data)
        PROVE  Expected(x, y, data)'
    BY <1>2, <1>3, <1>5, <1>9, <2>1 DEF Expected, JointPk
  <2>. QED
    BY <1>1, <1>6, <2>1, MailTyped DEF PlayerMail
<1>13. ASSUME NEW x \in Players PROVE PlayerState(x)'
  <2>1. CASE x # p
    <3>1. pc[x] \in HasKey => SentPk(x)' /\ TTP \notin Senders(x)'
      BY <1>1, <1>6, <1>9 DEF PlayerState
    <3>2. pk'[x] = pk[x]
      BY <1>1, <1>2, <2>1 DEF TypeOK
    <3>. QED
      BY <1>1, <1>2, <1>3, <1>4, <1>10, <2>1, <3>1, <3>2, StateStays
  <2>2. CASE x = p
    <3>1. /\ GotRandom(p)' = Players \ {p} /\ share'[p] = SharesOf(p, Players)
          /\ blinded'[p] = Blinded(p, PLAYERS + 1)
      BY <1>2, <1>7, <1>10
    <3>2. SentPk(p)' /\ TTP \notin Senders(p)' /\ pk'[p] = Unit(JointPk')
      BY <1>1, <1>2, <1>6, <1>8, <1>9 DEF TypeOK, JointPk
    <3>3. \A y \in Players :
             rlist'[p][y] = IF y \in GotRandom(p)' THEN Pair(p, y) ELSE Unit(Random(p, y))
      BY <1>1, <1>2, <1>10 DEF PlayerState
    <3>. QED
      BY <1>4, <2>2, <3>1, <3>2, <3>3 DEF PlayerState, Early, BeforeBlind, HasKey
  <2>. QED
    BY <2>1, <2>2
<1>14. TtpMail'
  BY <1>1, <1>6, <1>9 DEF TtpMail
<1>15. TtpState'
  BY <1>1, <1>2, <1>10 DEF TtpState
<1>. QED
  BY <1>6, <1>11, <1>12, <1>13, <1>14, <1>15 DEF KeygenInv

------------------------------------------------------------------------------
(* The steps of the TTP.                                                     *)

LEMMA TtpRecvShardStep ==
  ASSUME KeygenInv, TtpRecvShard
  PROVE  KeygenInv'
<1> DEFINE q == Received(TTP).from
<1>. USE PartiesAre
<1>1. /\ TypeOK /\ OneOfEach /\ Together /\ TtpMail /\ TtpState
      /\ \A x \in Players : PlayerMail(x) /\ PlayerState(x)
  BY DEF KeygenInv
<1>2. /\ ttp = "recv_shards" /\ HasMsg(TTP) /\ RecvMsg(TTP)
      /\ sk' = Plus(sk, Received(TTP).data)
      /\ IF k + 1 < PLAYERS THEN k' = k + 1 /\ ttp' = ttp ELSE k' = 1 /\ ttp' = "bc_pk"
      /\ UNCHANGED <<pc, i, share, rlist, blinded, pk, shortSeed>>
  BY DEF TtpRecvShard, playerVars
<1>3. /\ queue' \in [Parties -> Seq(Message)] /\ OneOfEach'
      /\ Received(TTP) \in Mail(TTP) /\ Received(TTP) \in Message /\ q \in Senders(TTP)
      /\ \A y \in Parties :
            /\ Senders(y)' = IF y = TTP THEN Senders(y) \ {q} ELSE Senders(y)
            /\ Mail(y)' \subseteq Mail(y)
  <2>1. TypeOK /\ OneOfEach /\ TTP \in Parties
    BY <1>1
  <2>. HIDE PartiesAre
  <2>. QED
    BY <1>2, <2>1, RecvEffect
<1>4. q \in Players /\ SentShard(q) /\ Received(TTP).data = Blinded(q, PLAYERS + 1)
  BY <1>1, <1>3 DEF TtpMail
<1>5. \A x \in Players :
          /\ \A y \in Players : /\ SentShare(y, x)' = SentShare(y, x)
                                /\ SentRandom(y, x)' = SentRandom(y, x)
          /\ SentPk(x)' = SentPk(x) /\ SentShard(x)' = SentShard(x)
  <2>1. \A x \in Players : ~SentPk(x) /\ ~SentPk(x)' /\ SentPk(x)' = SentPk(x)
    BY <1>2 DEF SentPk
  <2>2. \A x \in Players : \A y \in Players : SentShare(y, x)' = SentShare(y, x)
    BY <1>2 DEF SentShare
  <2>3. \A x \in Players : \A y \in Players : SentRandom(y, x)' = SentRandom(y, x)
    BY <1>2 DEF SentRandom
  <2>4. \A x \in Players : SentShard(x)' = SentShard(x)
    BY <1>2 DEF SentShard
  <2>. QED
    BY <2>1, <2>2, <2>3, <2>4
<1>6. \A x \in Players : GotShare(x)' = GotShare(x) /\ GotRandom(x)' = GotRandom(x)
  BY <1>3, <1>5 DEF GotShare, GotRandom
<1>7. /\ q \notin GotShard /\ GotShard' = GotShard \cup {q}
      /\ GotShard \in SUBSET Players
  BY <1>3, <1>4, <1>5 DEF GotShard
<1>8. sk' = SumOf(GotShard')
  <2>1. sk = SumOf(GotShard)
    BY <1>1, <1>2 DEF TtpState
  <2>. QED
    BY <1>2, <1>4, <1>7, <2>1, SumAdd
<1>9. k \in Nat /\ k < PLAYERS /\ Cardinality(GotShard') = k + 1
  BY <1>1, <1>2, <1>4, <1>7, CountPlayers DEF TtpState
<1>10. TypeOK' /\ Together'
  <2>1. sk' \in Numbers
    BY <1>8 DEF SumOf, Numbers, Sign
  <2>2. k' \in 0..PLAYERS /\ ttp' \in {"recv_shards", "bc_pk", "done"}
    BY <1>2, <1>9, PlayersAssumption
  <2>. QED
    BY <1>1, <1>2, <1>3, <2>1, <2>2 DEF TypeOK, Together
<1>11. ASSUME NEW x \in Players PROVE PlayerMail(x)'
  <2>1. ASSUME NEW y \in Parties, NEW data, Expected(x, y, data)
        PROVE  Expected(x, y, data)'
    BY <1>2, <1>5, <2>1 DEF Expected, JointPk
  <2>. QED
    BY <1>1, <1>3, <2>1, MailTyped DEF PlayerMail
<1>12. ASSUME NEW x \in Players PROVE PlayerState(x)'
  <2>1. pc[x] \in HasKey => SentPk(x)' /\ TTP \notin Senders(x)'
    BY <1>1, <1>3, <1>5 DEF PlayerState
  <2>. QED
    BY <1>1, <1>2, <1>6, <2>1, StateStays
<1>13. TtpMail'
  BY <1>1, <1>3, <1>5 DEF TtpMail
<1>14. TtpState'
  <2>1. CASE k + 1 < PLAYERS
    BY <1>2, <1>8, <1>9, <2>1 DEF TtpState
  <2>2. CASE ~(k + 1 < PLAYERS)
    <3>1. Cardinality(GotShard') = PLAYERS /\ GotShard' \in SUBSET Players
      <4>1. k + 1 = PLAYERS
        BY <1>9, <2>2, PlayersAssumption
      <4>2. GotShard' \in SUBSET Players
        BY <1>4, <1>7
      <4>. QED
        BY <1>9, <4>1, <4>2
    <3>2. GotShard' = Players /\ sk' = JointSecret
      BY <1>8, <3>1, CountPlayers, SumOfAll
    <3>. QED
      BY <1>2, <2>2, <3>2 DEF TtpState
  <2>. QED
    BY <2>1, <2>2
<1>. QED
  BY <1>3, <1>10, <1>11, <1>12, <1>13, <1>14 DEF KeygenInv

LEMMA TtpSendPkStep ==
  ASSUME KeygenInv, TtpSendPk
  PROVE  KeygenInv'
<1>. USE PartiesAre
<1>1. /\ TypeOK /\ OneOfEach /\ Together /\ TtpMail /\ TtpState
      /\ \A x \in Players : PlayerMail(x) /\ PlayerState(x)
  BY DEF KeygenInv
<1>2. /\ ttp = "bc_pk" /\ SendMsg(TTP, k, Unit(PublicKey(sk)))
      /\ IF k < PLAYERS THEN k' = k + 1 /\ ttp' = ttp ELSE k' = 0 /\ ttp' = "done"
      /\ UNCHANGED <<pc, i, share, rlist, blinded, pk, sk, shortSeed>>
  BY DEF TtpSendPk, playerVars
<1>3. k \in Players /\ k \in Nat /\ ~SentPk(k) /\ PublicKey(sk) = JointPk
  <2>1. k \in Players /\ sk = JointSecret
    BY <1>1, <1>2 DEF TtpState
  <2>2. ~SentPk(k)
    BY <1>2, <2>1 DEF SentPk
  <2>. QED
    BY <2>1, <2>2 DEF PublicKey, JointPk
<1>4. TTP \notin Senders(k)
  <2>1. \A m \in Mail(k) : m.from # TTP
    BY <1>1, <1>3 DEF PlayerMail, Expected
  <2>. QED
    BY <2>1, MailSenders
<1>5. /\ queue' \in [Parties -> Seq(Message)] /\ OneOfEach'
      /\ \A y \in Parties :
            /\ Senders(y)' = IF y = k THEN Senders(y) \cup {TTP} ELSE Senders(y)
            /\ Mail(y)' = IF y = k THEN Mail(y) \cup {[from |-> TTP, data |-> Unit(JointPk)]}
                          ELSE Mail(y)
  <2>1. /\ TypeOK /\ OneOfEach
        /\ \E x \in Parties : x = k /\ TTP \in Parties \ Senders(x) /\ SendMsg(TTP, x, Unit(JointPk))
    BY <1>1, <1>2, <1>3, <1>4
  <2>2. \E data \in Numbers : data = Unit(JointPk)
    BY NumbersAre
  <2>. HIDE PartiesAre
  <2>. QED
    BY <2>1, <2>2, SendEffect
<1>6. \A x \in Players : SentPk(x)' = (SentPk(x) \/ x = k)
  <2>1. CASE k < PLAYERS
    BY <1>2, <1>3, <2>1 DEF SentPk
  <2>2. CASE ~(k < PLAYERS)
    BY <1>2, <1>3, <2>2 DEF SentPk
  <2>. QED
    BY <2>1, <2>2
<1>7. \A x \in Players :
          /\ \A y \in Players : /\ SentShare(y, x)' = SentShare(y, x)
                                /\ SentRandom(y, x)' = SentRandom(y, x)
          /\ SentShard(x)' = SentShard(x)
  <2>1. \A x \in Players : \A y \in Players : SentShare(y, x)' = SentShare(y, x)
    BY <1>2 DEF SentShare
  <2>2. \A x \in Players : \A y \in Players : SentRandom(y, x)' = SentRandom(y, x)
    BY <1>2 DEF SentRandom
  <2>3. \A x \in Players : SentShard(x)' = SentShard(x)
    BY <1>2 DEF SentShard
  <2>. QED
    BY <2>1, <2>2, <2>3
<1>8. \A x \in Players : GotShare(x)' = GotShare(x) /\ GotRandom(x)' = GotRandom(x)
  BY <1>5, <1>7 DEF GotShare, GotRandom
<1>9. GotShard' = GotShard
  BY <1>3, <1>5, <1>7 DEF GotShard
<1>10. TypeOK' /\ Together'
  <2>1. k' \in 0..PLAYERS /\ ttp' \in {"recv_shards", "bc_pk", "done"}
    BY <1>2, <1>3, PlayersAssumption
  <2>. QED
    BY <1>1, <1>2, <1>5, <2>1 DEF TypeOK, Together
<1>11. ASSUME NEW x \in Players PROVE PlayerMail(x)'
  <2>1. ASSUME NEW y \in Parties, NEW data, Expected(x, y, data)
        PROVE  Expected(x, y, data)'
    BY <1>2, <1>6, <1>7, <2>1 DEF Expected, JointPk
  <2>2. ASSUME NEW m \in Mail(x)
        PROVE  Expected(x, m.from, m.data)'
    BY <1>1, <2>1, MailTyped DEF PlayerMail
  <2>3. ASSUME NEW m \in Mail(x)', m \notin Mail(x)
        PROVE  Expected(x, m.from, m.data)'
    <3>1. x = k /\ m.from = TTP /\ m.data = Unit(JointPk)
      BY <1>5, <2>3
    <3>. QED
      BY <1>2, <1>6, <3>1 DEF Expected, JointPk
  <2>. QED
    BY <2>2, <2>3 DEF PlayerMail
<1>12. ASSUME NEW x \in Players PROVE PlayerState(x)'
  <2>1. pc[x] \in HasKey => SentPk(x)' /\ TTP \notin Senders(x)'
    BY <1>1, <1>3, <1>5, <1>6 DEF PlayerState
  <2>. QED
    BY <1>1, <1>2, <1>8, <2>1, StateStays
<1>13. TtpMail'
  BY <1>1, <1>3, <1>5, <1>7 DEF TtpMail
<1>14. TtpState'
  <2>1. GotShard' = Players /\ sk' = JointSecret
    BY <1>1, <1>2, <1>9 DEF TtpState
  <2>2. ttp' # "recv_shards" /\ (ttp' = "bc_pk" => k' \in Players)
    <3>1. k < PLAYERS => k + 1 \in Players
      BY <1>3, PlayersAssumption DEF Players
    <3>. QED
      BY <1>2, <3>1
  <2>. QED
    BY <2>1, <2>2 DEF TtpState
<1>. QED
  BY <1>5, <1>10, <1>11, <1>12, <1>13, <1>14 DEF KeygenInv

------------------------------------------------------------------------------
(* The theorems.                                                             *)

LEMMA KeygenStep == KeygenInv /\ [Next]_vars => KeygenInv'
<1>. SUFFICES ASSUME KeygenInv, [Next]_vars PROVE KeygenInv'
  OBVIOUS
<1>1. CASE UNCHANGED vars
  BY <1>1, RelabelStep DEF vars, KeygenInv, TypeOK
<1>2. CASE TrustedParty
  BY <1>2, TtpRecvShardStep, TtpSendPkStep DEF TrustedParty
<1>3. CASE \E p \in Players : Player(p)
  <2>1. PICK p \in Players : Player(p)
    BY <1>3
  <2>. QED
    BY <2>1, SendShareStep, RecvShareStep, BarrierStep, SendRandomStep, RecvRandomStep,
       BlindStep, SendShardStep, RecvPkStep DEF Player
<1>. QED
  BY <1>1, <1>2, <1>3 DEF Next, Join

LEMMA KeygenInvariant == SafeSpec => []KeygenInv
<1>. QED
  BY InitInv, KeygenStep, PTL DEF SafeSpec

\* The variables of keygen_round_player and keygen_round_ttp hold what they are
\* made for: numbers, counters within their loops, queues of messages.
THEOREM TypeCorrect == SafeSpec => []TypeOK
<1>1. KeygenInv => TypeOK
  BY DEF KeygenInv
<1>. QED
  BY <1>1, KeygenInvariant, PTL

\* What keygen_player_recv_shares, keygen_randome_agreement and keygen_recv_pk take from a
\* queue is what they take it for, however many players there are and however far one is
\* ahead of an other: no message says what it is, and the sender is only looked at by
\* keygen_randome_agreement.
THEOREM EveryMessageExpected == SafeSpec => [](\A p \in Players : PlayerMail(p))
<1>1. KeygenInv => \A p \in Players : PlayerMail(p)
  BY DEF KeygenInv
<1>. QED
  BY <1>1, KeygenInvariant, PTL

\* The barrier of round.c:66 keeps the sum of a player's shares free of the random
\* values of the players that have all of theirs.
THEOREM SharesStayUnmixed == SafeSpec => []SharesUnmixed
<1>1. KeygenInv => SharesUnmixed
  <2>. SUFFICES ASSUME KeygenInv, NEW p \in Players, pc[p] \notin {"send_shares", "recv_shares"}
                PROVE  share[p] = JointShare(p)
    BY DEF SharesUnmixed
  <2>1. PlayerState(p)
    BY DEF KeygenInv
  <2>2. share[p] = SharesOf(p, Players)
    BY <2>1 DEF PlayerState, Early
  <2>. QED
    BY <2>2, SharesOfAll
<1>. QED
  BY <1>1, KeygenInvariant, PTL

\* Whatever the players drew and in whichever order their shards arrive, what
\* keygen_ttp_recv_shards sums up is the joint secret (communication.c:78-95).
THEOREM BlindingAlwaysCancels == SafeSpec => []BlindingCancels
<1>1. KeygenInv => BlindingCancels
  BY DEF KeygenInv, TtpState, BlindingCancels
<1>. QED
  BY <1>1, KeygenInvariant, PTL

\* All players that have returned from keygen_recv_pk have the key of the joint secret.
THEOREM AllKeysAgree == SafeSpec => []KeysAgree
<1>1. KeygenInv => KeysAgree
  BY DEF KeygenInv, PlayerState, HasKey, KeysAgree, JointPk
<1>. QED
  BY <1>1, KeygenInvariant, PTL

\* When main has joined the threads (TSS-multi-thread.c:126-203), the queues that the
\* signing threads get are empty.
THEOREM QueuesLeftEmpty == SafeSpec => []QueuesDrained
<1>1. KeygenInv => QueuesDrained
  <2>. SUFFICES ASSUME KeygenInv, Joined, NEW x \in Parties
                PROVE  queue[x] = <<>>
    BY DEF QueuesDrained
  <2>. USE PartiesAre
  <2>1. /\ TypeOK /\ TtpState /\ ttp = "done"
        /\ \A p \in Players : pc[p] = "done" /\ PlayerMail(p) /\ PlayerState(p)
    BY DEF KeygenInv, Joined
  <2>2. CASE x = TTP
    <3>1. GotShard = Players
      BY <2>1 DEF TtpState
    <3>2. \A q \in Senders(TTP) : q \in Players
      BY MailSenders DEF KeygenInv, TtpMail
    <3>3. Senders(TTP) = {}
      BY <3>1, <3>2 DEF GotShard
    <3>. QED
      BY <2>1, <2>2, <3>3, NobodySent
  <2>3. CASE x \in Players
    <3>1. TTP \notin Senders(x) /\ GotRandom(x) = Players \ {x}
      BY <2>1, <2>3 DEF PlayerState, HasKey, BeforeBlind, Early
    <3>2. x \notin Senders(x)
      <4>1. \A m \in Mail(x) : m.from # x
        BY <2>1, <2>3 DEF PlayerMail, Expected, SentRandom, Early
      <4>. QED
        BY <4>1, MailSenders
    <3>3. Senders(x) \subseteq Parties
      BY <2>1, MailTyped, MailSenders
    <3>4. Senders(x) = {}
      BY <3>1, <3>2, <3>3 DEF GotRandom
    <3>. QED
      BY <2>1, <2>3, <3>4, NobodySent
  <2>. QED
    BY <2>2, <2>3
<1>. QED
  BY <1>1, KeygenInvariant, PTL
==============================================================================
