--------------------------- MODULE NetKeygenProofs ---------------------------
(***************************************************************************)
(* Proofs about the networked key generation, for any number of players.   *)
(***************************************************************************)
EXTENDS NetKeygen, FiniteSetTheorems, SequenceTheorems, TLAPS

------------------------------------------------------------------------------
(* The invariant.                                                            *)

Conn(p, q) == <<p, "keygen", q>>

\* Those that p calls, and those that call q.
Callees(p) == {q \in Parties : p < q \/ q = TTP}
Clients(q) == {p \in Players : p < q \/ q = TTP}

\* What p's shard is to be, and the key.
Both(p, r) == {Random(p, r), Random(r, p)}
RightShard(p) ==
    [secret |-> p,
     added |-> UNION {Both(p, r) : r \in {q \in Players : q < p}},
     subtracted |-> UNION {Both(p, r) : r \in {q \in Players : q > p}}]
RightKey == {RightShard(p) : p \in Players}

Randoms == {Random(p, q) : p \in Players, q \in Players}

Serving == {"listen", "accept", "destroy"}
Calling == {"connect", "exited", "id", "recvShare", "recvRandom", "recvPk", "done"}

HandlerSteps == {"none", "recvShare", "recvRandom", "recvShard", "barrier", "sendPk", "over"}

\* What connections and numbers are is said below.
TypeOK ==
    /\ listening \in [Parties -> BOOLEAN]
    /\ backlog \in [Parties -> Seq(Conns)]
    /\ DOMAIN conn = Conns
    /\ pc \in [Parties -> Serving \cup Calling]
    /\ pc[TTP] \in Serving \cup {"done"} /\ pc[1] \in Calling
    /\ peer \in [Players -> Parties]
    /\ toAccept \in [Parties -> Int]
    /\ hpc \in [Conns -> HandlerSteps]
    /\ DOMAIN tmp_shares = Parties /\ \A p \in Parties : DOMAIN tmp_shares[p] = Players
    /\ random_list \in [Players -> [Players -> SUBSET Randoms]]
    /\ pk \in [Parties -> {{}, RightKey}]

\* How far p is with the connection to q.
At(p, q) ==
    IF pc[p] \in Serving \/ (peer[p] # TTP /\ (q = TTP \/ peer[p] < q)) THEN "before"
    ELSE IF peer[p] # q THEN "after"
    ELSE IF pc[p] \in {"connect", "exited"} THEN "before" ELSE pc[p]

\* A player calls the higher ones in turn and the TTP last.
CallsInTurn(p) ==
    /\ pc[p] \in Calling => peer[p] \in Callees(p)
    /\ pc[p] \in {"recvShare", "recvRandom"} => peer[p] # TTP
    /\ pc[p] \in {"recvPk", "done"} => peer[p] = TTP

\* The state of a connection, its handler's step and what is in its streams.
Is(c, state, step, up, down) ==
    conn[c] = [state |-> state, up |-> up, down |-> down] /\ hpc[c] = step

\* What p has for q: before the swap, between the swaps, after them.
Own(p, q) == tmp_shares[p][q] = Share(p, q) /\ random_list[p][q] = {Random(p, q)}
Half(p, q) == tmp_shares[p][q] = Share(q, p) /\ random_list[p][q] = {Random(p, q)}
Full(p, q) == tmp_shares[p][q] = Share(q, p) /\ random_list[p][q] = Both(p, q)

\* The connection of two players, from the call to the end of the second swap. The two
\* sides are never more than one message apart.
Idle(p, q) == At(p, q) = "before" /\ Is(Conn(p, q), "none", "none", <<>>, <<>>) /\ Own(p, q) /\ Own(q, p)
Called(p, q) == At(p, q) = "id" /\ Is(Conn(p, q), "waiting", "none", <<>>, <<>>) /\ Own(p, q) /\ Own(q, p)
Met(p, q) == At(p, q) = "id" /\ Is(Conn(p, q), "open", "recvShare", <<>>, <<>>) /\ Own(p, q) /\ Own(q, p)
ShareUp(p, q) ==
    At(p, q) = "recvShare" /\ Is(Conn(p, q), "open", "recvShare", Bytes(Share(p, q)), <<>>) /\ Own(p, q) /\ Own(q, p)
ShareDown(p, q) ==
    At(p, q) = "recvShare" /\ Is(Conn(p, q), "open", "recvRandom", <<>>, Bytes(Share(q, p))) /\ Own(p, q) /\ Half(q, p)
RandomUp(p, q) ==
    At(p, q) = "recvRandom" /\ Is(Conn(p, q), "open", "recvRandom", Bytes(Random(p, q)), <<>>) /\ Half(p, q) /\ Half(q, p)
RandomDown(p, q) ==
    At(p, q) = "recvRandom" /\ Is(Conn(p, q), "open", "over", <<>>, Bytes(Random(q, p))) /\ Half(p, q) /\ Full(q, p)
Swapped(p, q) == At(p, q) = "after" /\ Is(Conn(p, q), "open", "over", <<>>, <<>>) /\ Full(p, q) /\ Full(q, p)

PairInv(p, q) ==
    \/ Idle(p, q) \/ Called(p, q) \/ Met(p, q) \/ ShareUp(p, q)
    \/ ShareDown(p, q) \/ RandomUp(p, q) \/ RandomDown(p, q) \/ Swapped(p, q)

\* The connection of a player and the TTP.
ShardInv(p) ==
    LET c == Conn(p, TTP) IN
    \/ At(p, TTP) = "before" /\ Is(c, "none", "none", <<>>, <<>>)
    \/ At(p, TTP) = "id" /\ Is(c, "waiting", "none", <<>>, <<>>)
    \/ At(p, TTP) = "id" /\ Is(c, "open", "recvShard", <<>>, <<>>)
    \/ At(p, TTP) = "recvPk" /\ Is(c, "open", "recvShard", <<RightShard(p)>>, <<>>)
    \/ At(p, TTP) = "recvPk" /\ Is(c, "open", "barrier", <<>>, <<>>) /\ tmp_shares[TTP][p] = RightShard(p)
    \/ At(p, TTP) = "recvPk" /\ Is(c, "open", "sendPk", <<>>, <<>>) /\ pk[TTP] = RightKey
    \/ At(p, TTP) = "recvPk" /\ Is(c, "open", "over", <<>>, <<RightKey>>) /\ pk[TTP] = RightKey
    \/ At(p, TTP) = "done" /\ Is(c, "open", "over", <<>>, <<>>) /\ pk[TTP] = RightKey /\ pk[p] = RightKey

\* What a player has from itself.
SelfInv(p) == tmp_shares[p][p] = Share(p, p) /\ random_list[p][p] = {Random(p, p)}

State(p, q) == conn[Conn(p, q)].state
NotOpen(q) == {p \in Clients(q) : State(p, q) # "open"}

\* A listener is open until everybody that will call has been accepted.
ServerInv(q) ==
    /\ pc[q] = "listen" => \A p \in Clients(q) : State(p, q) = "none"
    /\ pc[q] = "accept" => toAccept[q] = Cardinality(NotOpen(q)) /\ NotOpen(q) # {}
    /\ pc[q] \notin {"listen", "accept"} => NotOpen(q) = {}
    /\ pc[q] \notin Serving => \A p \in Clients(q) : hpc[Conn(p, q)] = "over"
    /\ listening[q] <=> pc[q] \in {"accept", "destroy"}
    /\ \A j \in DOMAIN backlog[q] :
           \E p \in Clients(q) : backlog[q][j] = Conn(p, q) /\ State(p, q) = "waiting"
    /\ \A j, n \in DOMAIN backlog[q] : backlog[q][j] = backlog[q][n] => j = n

\* KeyAgreed and NoConnectionReset rest on what every connection has carried so far and
\* on who can still call a listener.
NetKeygenInv ==
    /\ TypeOK
    /\ \A p \in Players : CallsInTurn(p) /\ SelfInv(p) /\ ShardInv(p)
    /\ \A p, q \in Players : p < q => PairInv(p, q)
    /\ \A q \in Parties : ServerInv(q)

------------------------------------------------------------------------------
(* Connections and what they carry.                                          *)

LEMMA Sizes ==
  /\ PLAYERS \in Nat /\ PLAYERS >= 2 /\ TTP = 0 /\ Parties = {TTP} \cup Players
  /\ \A p \in Players : p \in Nat /\ 1 <= p /\ p <= PLAYERS /\ p # TTP /\ p \in Parties
  /\ \A p : p \in Nat /\ 1 <= p /\ p <= PLAYERS => p \in Players
  /\ TTP \notin Players /\ TTP \in Parties /\ 1 \in Players
  BY NetKeygenAssumption DEF TTP, Players

LEMMA ConnsAre ==
  /\ \A p \in Players : \A q \in Callees(p) : Conn(p, q) \in Conns
  /\ \A c \in Conns : \E p \in Players : \E q \in Callees(p) : c = Conn(p, q)
  BY NetKeygenAssumption DEF Conn, Callees

LEMMA ConnParts ==
  /\ \A p, q : Client(Conn(p, q)) = p /\ Server(Conn(p, q)) = q
  /\ \A p, q, r, s : Conn(p, q) = Conn(r, s) <=> p = r /\ q = s
  BY DEF Conn, Client, Server

LEMMA Calls ==
  /\ \A p \in Players : \A q \in Callees(p) : p \in Clients(q) /\ q \in Parties
  /\ \A q \in Parties : \A p \in Clients(q) : p \in Players /\ q \in Callees(p)
  /\ \A p \in Players : TTP \in Callees(p)
  /\ \A p, q \in Players : q \in Callees(p) <=> p < q
  BY Sizes DEF Callees, Clients

\* What may be in a stream: nothing, or one number, shard or key.
LEMMA OneUnit ==
  ASSUME NEW x
  PROVE  /\ <<>> \o <<x>> = <<x>>
         /\ SubSeq(<<x>>, 2, 1) = <<>> /\ SubSeq(<<x>>, 1, 1) = <<x>>
         /\ Len(<<x>>) = 1 /\ Head(<<x>>) = x /\ <<x>> # <<>>
<1>1. <<>> \o <<x>> = <<x>>
  OBVIOUS
<1>2. Len(<<x>>) = 1 /\ <<x>>[1] = x
  OBVIOUS
<1>3. SubSeq(<<x>>, 2, 1) = <<>>
  OBVIOUS
<1>4. SubSeq(<<x>>, 1, 1) = [j \in 1..1 |-> <<x>>[j]]
  BY <1>2
<1>5. [j \in 1..1 |-> <<x>>[j]] = <<x>>
  BY <1>2
<1>6. Head(<<x>>) = x
  OBVIOUS
<1>. QED
  BY <1>1, <1>2, <1>3, <1>4, <1>5, <1>6

LEMMA BytesAre == \A x : <<>> \o Bytes(x) = Bytes(x) /\ (Bytes(x) = <<>> \/ Bytes(x) = <<x>>)
  BY OneUnit, <<>> \o <<>> = <<>> DEF Bytes

LEMMA PutUp ==
  ASSUME NEW c \in Conns, NEW s, NEW d, NEW x,
         conn[c] = [state |-> s, up |-> <<>>, down |-> d],
         <<>> \o x = x, Put(c, "up", x)
  PROVE  conn' = [conn EXCEPT ![c] = [state |-> s, up |-> x, down |-> d]]
<1>1. conn[c]["up"] \o x = x
  OBVIOUS
<1>2. conn' = [conn EXCEPT ![c] = [conn[c] EXCEPT !["up"] = x]]
  BY <1>1 DEF Put
<1>3. [conn[c] EXCEPT !["up"] = x] = [state |-> s, up |-> x, down |-> d]
  OBVIOUS
<1>. QED
  BY ONLY <1>2, <1>3

LEMMA PutDown ==
  ASSUME NEW c \in Conns, NEW s, NEW u, NEW x,
         conn[c] = [state |-> s, up |-> u, down |-> <<>>],
         <<>> \o x = x, Put(c, "down", x)
  PROVE  conn' = [conn EXCEPT ![c] = [state |-> s, up |-> u, down |-> x]]
<1>1. conn[c]["down"] \o x = x
  OBVIOUS
<1>2. conn' = [conn EXCEPT ![c] = [conn[c] EXCEPT !["down"] = x]]
  BY <1>1 DEF Put
<1>3. [conn[c] EXCEPT !["down"] = x] = [state |-> s, up |-> u, down |-> x]
  OBVIOUS
<1>. QED
  BY ONLY <1>2, <1>3

\* What is received is all that was sent.
LEMMA Received ==
  ASSUME NEW c \in Conns, NEW way, NEW x, conn[c][way] = <<>> \/ conn[c][way] = <<x>>,
         NEW got \in Receivable(c, way, 1)
  PROVE  conn[c][way] = <<x>> /\ got = <<x>> /\ Head(got) = x /\ Len(got) = 1
<1>1. PICK n \in 1..(IF Len(conn[c][way]) < 1 THEN Len(conn[c][way]) ELSE 1) : got = SubSeq(conn[c][way], 1, n)
  BY DEF Receivable
<1>2. CASE conn[c][way] = <<>>
  BY <1>1, <1>2
<1>3. CASE conn[c][way] = <<x>>
  <2>1. Len(conn[c][way]) = 1
    BY <1>3
  <2>2. n = 1
    BY <1>1, <2>1
  <2>. QED
    BY <1>1, <1>3, <2>2, OneUnit
<1>. QED
  BY <1>2, <1>3

LEMMA TakeUp ==
  ASSUME NEW c \in Conns, NEW s, NEW d, NEW x, NEW got, got = <<x>>,
         conn[c] = [state |-> s, up |-> <<x>>, down |-> d], Take(c, "up", got)
  PROVE  conn' = [conn EXCEPT ![c] = [state |-> s, up |-> <<>>, down |-> d]]
<1>1. SubSeq(conn[c]["up"], Len(got) + 1, Len(conn[c]["up"])) = <<>>
  BY OneUnit
<1>2. conn' = [conn EXCEPT ![c] = [conn[c] EXCEPT !["up"] = <<>>]]
  BY <1>1 DEF Take
<1>3. [conn[c] EXCEPT !["up"] = <<>>] = [state |-> s, up |-> <<>>, down |-> d]
  OBVIOUS
<1>. QED
  BY ONLY <1>2, <1>3

LEMMA TakeDown ==
  ASSUME NEW c \in Conns, NEW s, NEW u, NEW x, NEW got, got = <<x>>,
         conn[c] = [state |-> s, up |-> u, down |-> <<x>>], Take(c, "down", got)
  PROVE  conn' = [conn EXCEPT ![c] = [state |-> s, up |-> u, down |-> <<>>]]
<1>1. SubSeq(conn[c]["down"], Len(got) + 1, Len(conn[c]["down"])) = <<>>
  BY OneUnit
<1>2. conn' = [conn EXCEPT ![c] = [conn[c] EXCEPT !["down"] = <<>>]]
  BY <1>1 DEF Take
<1>3. [conn[c] EXCEPT !["down"] = <<>>] = [state |-> s, up |-> u, down |-> <<>>]
  OBVIOUS
<1>. QED
  BY ONLY <1>2, <1>3

LEMMA AnswerUp ==
  ASSUME DOMAIN conn = Conns, NEW c \in Conns, NEW s, NEW x, NEW y, NEW got, got = <<x>>,
         conn[c] = [state |-> s, up |-> <<>>, down |-> <<x>>],
         <<>> \o y = y, TakeAndPut(c, "down", "up", got, y)
  PROVE  conn' = [conn EXCEPT ![c] = [state |-> s, up |-> y, down |-> <<>>]]
<1>1. SubSeq(conn[c]["down"], Len(got) + 1, Len(conn[c]["down"])) = <<>>
  BY OneUnit
<1>2. conn[c]["up"] \o y = y
  OBVIOUS
<1>3. conn' = [conn EXCEPT ![c] = [[conn[c] EXCEPT !["down"] = <<>>] EXCEPT !["up"] = y]]
  <2>1. conn' = [conn EXCEPT ![c]["down"] = SubSeq(@, Len(got) + 1, Len(@)), ![c]["up"] = @ \o y]
    BY ONLY TakeAndPut(c, "down", "up", got, y) DEF TakeAndPut
  <2>. QED
    BY <1>1, <1>2, <2>1
<1>4. [conn[c] EXCEPT !["down"] = <<>>] = [state |-> s, up |-> <<>>, down |-> <<>>]
  OBVIOUS
<1>5. [[state |-> s, up |-> <<>>, down |-> <<>>] EXCEPT !["up"] = y]
          = [state |-> s, up |-> y, down |-> <<>>]
  OBVIOUS
<1>. QED
  BY ONLY <1>3, <1>4, <1>5

LEMMA AnswerDown ==
  ASSUME DOMAIN conn = Conns, NEW c \in Conns, NEW s, NEW x, NEW y, NEW got, got = <<x>>,
         conn[c] = [state |-> s, up |-> <<x>>, down |-> <<>>],
         <<>> \o y = y, TakeAndPut(c, "up", "down", got, y)
  PROVE  conn' = [conn EXCEPT ![c] = [state |-> s, up |-> <<>>, down |-> y]]
<1>1. SubSeq(conn[c]["up"], Len(got) + 1, Len(conn[c]["up"])) = <<>>
  BY OneUnit
<1>2. conn[c]["down"] \o y = y
  OBVIOUS
<1>3. conn' = [conn EXCEPT ![c] = [[conn[c] EXCEPT !["up"] = <<>>] EXCEPT !["down"] = y]]
  <2>1. conn' = [conn EXCEPT ![c]["up"] = SubSeq(@, Len(got) + 1, Len(@)), ![c]["down"] = @ \o y]
    BY ONLY TakeAndPut(c, "up", "down", got, y) DEF TakeAndPut
  <2>. QED
    BY <1>1, <1>2, <2>1
<1>4. [conn[c] EXCEPT !["up"] = <<>>] = [state |-> s, up |-> <<>>, down |-> <<>>]
  OBVIOUS
<1>5. [[state |-> s, up |-> <<>>, down |-> <<>>] EXCEPT !["down"] = y]
          = [state |-> s, up |-> <<>>, down |-> y]
  OBVIOUS
<1>. QED
  BY ONLY <1>3, <1>4, <1>5


------------------------------------------------------------------------------
(* What a step does not concern. A step concerns the connection of p and q;  *)
(* when both are the TTP it concerns none.                                   *)

ConnsElsewhere(p, q) ==
    \A r \in Players : \A s \in Callees(r) : r # p \/ s # q =>
        conn'[Conn(r, s)] = conn[Conn(r, s)] /\ hpc'[Conn(r, s)] = hpc[Conn(r, s)]

AtElsewhere(p, q) ==
    \A r \in Players : \A s \in Callees(r) : r # p \/ s # q => At(r, s)' = At(r, s)

NumbersElsewhere(p, q) ==
    /\ \A r, s \in Players : ~(r = p /\ s = q) /\ ~(r = q /\ s = p) =>
           tmp_shares'[r][s] = tmp_shares[r][s] /\ random_list'[r][s] = random_list[r][s]
    /\ \A r \in Players : r # p \/ q # TTP =>
           tmp_shares'[TTP][r] = tmp_shares[TTP][r] /\ pk'[r] = pk[r]
    /\ pk'[TTP] = pk[TTP]

LEMMA PairSame ==
  ASSUME NEW r \in Players, NEW s \in Players, PairInv(r, s), zero' = zero,
         conn'[Conn(r, s)] = conn[Conn(r, s)], hpc'[Conn(r, s)] = hpc[Conn(r, s)],
         At(r, s)' = At(r, s),
         tmp_shares'[r][s] = tmp_shares[r][s], random_list'[r][s] = random_list[r][s],
         tmp_shares'[s][r] = tmp_shares[s][r], random_list'[s][r] = random_list[s][r]
  PROVE  PairInv(r, s)'
<1>1. /\ Own(r, s)' <=> Own(r, s)
      /\ Own(s, r)' <=> Own(s, r)
      /\ Half(r, s)' <=> Half(r, s)
      /\ Half(s, r)' <=> Half(s, r)
      /\ Full(r, s)' <=> Full(r, s)
      /\ Full(s, r)' <=> Full(s, r)
  BY DEF Own, Half, Full
<1>2. \A x : Bytes(x)' = Bytes(x)
  BY DEF Bytes
<1>3. \A state, step, up, down :
          Is(Conn(r, s), state, step, up, down)' <=> Is(Conn(r, s), state, step, up, down)
  BY DEF Is
<1>. QED
  BY <1>1, <1>2, <1>3
     DEF PairInv, Idle, Called, Met, ShareUp, ShareDown, RandomUp, RandomDown, Swapped, Is, Bytes

LEMMA ShardSame ==
  ASSUME NEW r \in Players, ShardInv(r),
         conn'[Conn(r, TTP)] = conn[Conn(r, TTP)], hpc'[Conn(r, TTP)] = hpc[Conn(r, TTP)],
         At(r, TTP)' = At(r, TTP),
         tmp_shares'[TTP][r] = tmp_shares[TTP][r], pk'[TTP] = pk[TTP], pk'[r] = pk[r]
  PROVE  ShardInv(r)'
  BY DEF ShardInv, Is

LEMMA ElsewhereSame ==
  ASSUME NetKeygenInv, NEW p \in Parties, NEW q \in Parties, p < q \/ q = TTP,
         zero' = zero, ConnsElsewhere(p, q), AtElsewhere(p, q), NumbersElsewhere(p, q)
  PROVE  /\ \A r \in Players : SelfInv(r)'
         /\ \A r \in Players : r # p \/ q # TTP => ShardInv(r)'
         /\ \A r, s \in Players : r < s /\ (r # p \/ s # q) => PairInv(r, s)'
<1>1. ASSUME NEW r \in Players PROVE SelfInv(r)'
  <2>1. tmp_shares'[r][r] = tmp_shares[r][r] /\ random_list'[r][r] = random_list[r][r]
    BY Sizes DEF NumbersElsewhere
  <2>. QED
    BY <2>1 DEF NetKeygenInv, SelfInv
<1>2. ASSUME NEW r \in Players, r # p \/ q # TTP PROVE ShardInv(r)'
  <2>1. TTP \in Callees(r)
    BY Calls
  <2>. QED
    BY <1>2, <2>1, ShardSame DEF NetKeygenInv, ConnsElsewhere, AtElsewhere, NumbersElsewhere
<1>3. ASSUME NEW r \in Players, NEW s \in Players, r < s, r # p \/ s # q PROVE PairInv(r, s)'
  <2>1. s \in Callees(r)
    BY <1>3, Calls
  <2>2. ~(r = p /\ s = q) /\ ~(r = q /\ s = p)
    BY <1>3, Sizes
  <2>3. conn'[Conn(r, s)] = conn[Conn(r, s)] /\ hpc'[Conn(r, s)] = hpc[Conn(r, s)] /\ At(r, s)' = At(r, s)
    BY <1>3, <2>1 DEF ConnsElsewhere, AtElsewhere
  <2>4. /\ tmp_shares'[r][s] = tmp_shares[r][s] /\ random_list'[r][s] = random_list[r][s]
        /\ tmp_shares'[s][r] = tmp_shares[s][r] /\ random_list'[s][r] = random_list[s][r]
    BY <2>2 DEF NumbersElsewhere
  <2>5. PairInv(r, s)
    BY <1>3 DEF NetKeygenInv
  <2>. QED
    BY <2>3, <2>4, <2>5, PairSame
<1>. QED
  BY <1>1, <1>2, <1>3

\* A server that a step leaves alone.
QuietAt(q) ==
    /\ \A p \in Clients(q) :
           /\ conn'[Conn(p, q)].state = conn[Conn(p, q)].state
           /\ hpc[Conn(p, q)] = "over" => hpc'[Conn(p, q)] = "over"
    /\ listening'[q] = listening[q] /\ backlog'[q] = backlog[q] /\ toAccept'[q] = toAccept[q]
    /\ pc'[q] = pc[q] \/ (pc[q] \notin Serving /\ pc'[q] \notin Serving)

LEMMA ServerSame ==
  ASSUME NEW q \in Parties, ServerInv(q), QuietAt(q)
  PROVE  ServerInv(q)'
<1>1. NotOpen(q)' = NotOpen(q)
  BY DEF NotOpen, QuietAt, State
<1>2. \A p \in Clients(q) : State(p, q)' = State(p, q)
  BY DEF QuietAt, State
<1>3. /\ pc'[q] = "listen" => \A p \in Clients(q) : State(p, q)' = "none"
      /\ pc'[q] \notin {"listen", "accept"} => NotOpen(q)' = {}
      /\ pc'[q] = "accept" => toAccept'[q] = Cardinality(NotOpen(q)') /\ NotOpen(q)' # {}
  BY <1>1, <1>2 DEF ServerInv, QuietAt, Serving
<1>4. pc'[q] \notin Serving => \A p \in Clients(q) : hpc'[Conn(p, q)] = "over"
  BY DEF ServerInv, QuietAt
<1>5. listening'[q] <=> pc'[q] \in {"accept", "destroy"}
  BY DEF ServerInv, QuietAt, Serving
<1>6. /\ \A j \in DOMAIN backlog'[q] :
             \E p \in Clients(q) : backlog'[q][j] = Conn(p, q) /\ State(p, q)' = "waiting"
      /\ \A j, n \in DOMAIN backlog'[q] : backlog'[q][j] = backlog'[q][n] => j = n
  <2>1. backlog'[q] = backlog[q]
    BY DEF QuietAt
  <2>. QED
    BY <1>2, <2>1 DEF ServerInv
<1>. QED
  BY <1>3, <1>4, <1>5, <1>6 DEF ServerInv

------------------------------------------------------------------------------
(* The main threads' steps.                                                  *)

\* A player that calls q goes on with q.
LEMMA StepAt ==
  ASSUME TypeOK, NEW p \in Players, NEW q \in Callees(p), pc[p] \in Calling, peer[p] = q,
         NEW x \in Calling, pc' = [pc EXCEPT ![p] = x], peer' = peer
  PROVE  /\ AtElsewhere(p, q)
         /\ At(p, q)' = IF x \in {"connect", "exited"} THEN "before" ELSE x
         /\ At(p, q) = IF pc[p] \in {"connect", "exited"} THEN "before" ELSE pc[p]
<1>1. x \notin Serving /\ pc[p] \notin Serving
  BY DEF Calling, Serving
<1>2. pc'[p] = x /\ \A r \in Players : r # p => pc'[r] = pc[r]
  BY Sizes DEF TypeOK
<1>3. ~(peer[p] # TTP /\ (q = TTP \/ peer[p] < q))
  BY Sizes, Calls
<1>4. ASSUME NEW r \in Players, NEW s \in Callees(r), r # p \/ s # q PROVE At(r, s)' = At(r, s)
  BY <1>1, <1>2, <1>4 DEF At
<1>. QED
  BY <1>1, <1>2, <1>3, <1>4 DEF At, AtElsewhere

\* It goes on to the next one.
LEMMA NextAt ==
  ASSUME TypeOK, NEW p \in Players, NEW q \in Players, p < q, pc[p] \in Calling, peer[p] = q,
         ConnectNext(p, q + 1)
  PROVE  /\ AtElsewhere(p, q) /\ At(p, q)' = "after"
         /\ pc' = [pc EXCEPT ![p] = "connect"]
         /\ peer'[p] \in Callees(p) /\ peer' \in [Players -> Parties]
<1>1. pc[p] \notin Serving /\ "connect" \notin Serving
  BY DEF Calling, Serving
<1>2. /\ pc' = [pc EXCEPT ![p] = "connect"]
      /\ peer' = [peer EXCEPT ![p] = IF q + 1 <= PLAYERS THEN q + 1 ELSE TTP]
  BY DEF ConnectNext
<1>3. /\ pc'[p] = "connect" /\ peer'[p] = IF q + 1 <= PLAYERS THEN q + 1 ELSE TTP
      /\ \A r \in Players : r # p => pc'[r] = pc[r] /\ peer'[r] = peer[r]
  BY <1>2, Sizes DEF TypeOK
<1>4. peer'[p] \in Callees(p) /\ peer'[p] \in Parties
  BY <1>3, Sizes DEF Callees
<1>5. ASSUME NEW r \in Players, NEW s \in Callees(r), r # p \/ s # q PROVE At(r, s)' = At(r, s)
  <2>1. CASE r # p
    BY <1>3, <2>1 DEF At
  <2>2. CASE r = p
    <3>1. s # q /\ (s = TTP \/ (s \in Players /\ p < s))
      BY <1>5, <2>2, Sizes DEF Callees
    <3>. QED
      BY <1>1, <1>3, <2>2, <3>1, Sizes DEF At
  <2>. QED
    BY <2>1, <2>2
<1>6. At(p, q)' = "after"
  BY <1>1, <1>3, Sizes DEF At
<1>7. peer' \in [Players -> Parties]
  BY <1>2, <1>3, <1>4 DEF TypeOK
<1>. QED
  BY <1>2, <1>4, <1>5, <1>6, <1>7 DEF AtElsewhere

------------------------------------------------------------------------------
(* The steps on a connection.                                                *)

\* The connection of p and q and its handler go on.
Goes(p, q, state, step, up, down) ==
    /\ conn' = [conn EXCEPT ![Conn(p, q)] = [state |-> state, up |-> up, down |-> down]]
    /\ hpc' = [hpc EXCEPT ![Conn(p, q)] = step]

LEMMA GoesTo ==
  ASSUME TypeOK, NEW p \in Players, NEW q \in Callees(p), NEW state, NEW step \in HandlerSteps,
         NEW up, NEW down, Goes(p, q, state, step, up, down)
  PROVE  /\ ConnsElsewhere(p, q)
         /\ conn'[Conn(p, q)] = [state |-> state, up |-> up, down |-> down]
         /\ hpc'[Conn(p, q)] = step
         /\ DOMAIN conn' = Conns /\ hpc' \in [Conns -> HandlerSteps]
<1>1. Conn(p, q) \in Conns /\ DOMAIN conn = Conns /\ hpc \in [Conns -> HandlerSteps]
  BY ConnsAre DEF TypeOK
<1>2. ASSUME NEW r \in Players, NEW s \in Callees(r), r # p \/ s # q
      PROVE  conn'[Conn(r, s)] = conn[Conn(r, s)] /\ hpc'[Conn(r, s)] = hpc[Conn(r, s)]
  <2>1. Conn(r, s) \in Conns /\ Conn(r, s) # Conn(p, q)
    BY <1>2, ConnsAre, ConnParts
  <2>. QED
    BY <1>1, <2>1 DEF Goes
<1>. QED
  BY <1>1, <1>2 DEF Goes, ConnsElsewhere

\* The handler goes on alone, or not.
LEMMA Stays ==
  ASSUME TypeOK, NEW p \in Players, NEW q \in Callees(p), hpc' = hpc
  PROVE  hpc' = [hpc EXCEPT ![Conn(p, q)] = hpc[Conn(p, q)]]
  BY ConnsAre DEF TypeOK

LEMMA BytesSame == zero' = zero => \A x : Bytes(x)' = Bytes(x)
  BY DEF Bytes

\* A step on an open connection is nothing to any listener.
LEMMA ServersSame ==
  ASSUME NetKeygenInv, NEW p \in Players, NEW q \in Callees(p), ConnsElsewhere(p, q),
         conn'[Conn(p, q)].state = conn[Conn(p, q)].state,
         hpc[Conn(p, q)] = "over" => hpc'[Conn(p, q)] = "over",
         listening' = listening, backlog' = backlog, toAccept' = toAccept,
         \A r \in Parties : pc'[r] = pc[r] \/ (pc[r] \notin Serving /\ pc'[r] \notin Serving)
  PROVE  \A s \in Parties : ServerInv(s)'
<1>. SUFFICES ASSUME NEW s \in Parties PROVE ServerInv(s)'
  OBVIOUS
<1>1. ASSUME NEW r \in Clients(s)
      PROVE  /\ conn'[Conn(r, s)].state = conn[Conn(r, s)].state
             /\ hpc[Conn(r, s)] = "over" => hpc'[Conn(r, s)] = "over"
  <2>1. r \in Players /\ s \in Callees(r)
    BY Calls
  <2>2. CASE r = p /\ s = q
    BY <2>2
  <2>3. CASE r # p \/ s # q
    BY <2>1, <2>3 DEF ConnsElsewhere
  <2>. QED
    BY <2>2, <2>3
<1>2. QuietAt(s)
  BY <1>1 DEF QuietAt
<1>. QED
  BY <1>2, ServerSame DEF NetKeygenInv

LEMMA InvAfter ==
  ASSUME NetKeygenInv, NEW p \in Parties, NEW q \in Parties, p < q \/ q = TTP,
         zero' = zero, ConnsElsewhere(p, q), AtElsewhere(p, q), NumbersElsewhere(p, q),
         TypeOK', \A r \in Players : CallsInTurn(r)', \A s \in Parties : ServerInv(s)',
         p \in Players /\ q = TTP => ShardInv(p)',
         q # TTP => PairInv(p, q)'
  PROVE  NetKeygenInv'
<1>1. /\ \A r \in Players : SelfInv(r)'
      /\ \A r \in Players : r # p \/ q # TTP => ShardInv(r)'
      /\ \A r, s \in Players : r < s /\ (r # p \/ s # q) => PairInv(r, s)'
  BY ElsewhereSame
<1>2. \A r \in Players : ShardInv(r)'
  BY <1>1
<1>3. \A r, s \in Players : r < s => PairInv(r, s)'
  BY <1>1, Sizes
<1>. QED
  BY <1>1, <1>2, <1>3 DEF NetKeygenInv

\* Whom a player calls.
LEMMA Calling1 ==
  ASSUME NetKeygenInv, NEW p \in Players, pc[p] \in Calling, NEW q, q = peer[p]
  PROVE  /\ q \in Callees(p) /\ q \in Parties
         /\ Me(p) = Conn(p, q) /\ Conn(p, q) \in Conns
         /\ q # TTP => q \in Players /\ p < q /\ PairInv(p, q)
         /\ q = TTP => ShardInv(p)
         /\ At(p, q) = IF pc[p] \in {"connect", "exited"} THEN "before" ELSE pc[p]
<1>1. q \in Callees(p)
  BY DEF NetKeygenInv, CallsInTurn
<1>2. q \in Parties /\ (q # TTP => q \in Players /\ p < q)
  BY <1>1, Sizes DEF Callees
<1>3. pc[p] \notin Serving
  BY DEF Calling, Serving
<1>4. ~(peer[p] # TTP /\ (peer[p] = TTP \/ peer[p] < peer[p]))
  BY <1>2, Sizes
<1>. QED
  BY <1>1, <1>2, <1>3, <1>4, ConnsAre DEF NetKeygenInv, Me, Conn, At

\* A step leaves what p and q have for others as it is, and everything well typed.
NumbersOf(p, q) ==
    /\ NumbersElsewhere(p, q)
    /\ DOMAIN tmp_shares' = Parties /\ \A r \in Parties : DOMAIN tmp_shares'[r] = Players
    /\ random_list' \in [Players -> [Players -> SUBSET Randoms]]
    /\ pk' \in [Parties -> {{}, RightKey}]

LEMMA NumbersSame ==
  ASSUME TypeOK, UNCHANGED numbers, NEW p, NEW q
  PROVE  NumbersOf(p, q)
  BY DEF NumbersOf, NumbersElsewhere, TypeOK, numbers

\* The step of a player to x, with q, whom it calls, on an open connection.
CallerStep(p, q, x, up, down) ==
    /\ pc[p] \in Calling /\ x \in {"recvShare", "recvRandom", "recvPk", "done", "after"}
    /\ q = peer[p]
    /\ x \in {"recvShare", "recvRandom", "after"} => q # TTP
    /\ x \in {"recvPk", "done"} => q = TTP
    /\ conn[Conn(p, q)].state = "open"
    /\ conn' = [conn EXCEPT ![Conn(p, q)] = [state |-> "open", up |-> up, down |-> down]]
    /\ IF x = "after" THEN ConnectNext(p, q + 1) ELSE Step(p, x)
    /\ NumbersOf(p, q)
    /\ UNCHANGED <<listening, backlog, zero, hpc>>

LEMMA CallerInv ==
  ASSUME NetKeygenInv, NEW p \in Players, NEW q, NEW x, NEW up, NEW down,
         CallerStep(p, q, x, up, down)
  PROVE  /\ conn'[Conn(p, q)] = [state |-> "open", up |-> up, down |-> down]
         /\ hpc'[Conn(p, q)] = hpc[Conn(p, q)]
         /\ At(p, q)' = x /\ \A y : Bytes(y)' = Bytes(y)
         /\ q = TTP /\ ShardInv(p)' => NetKeygenInv'
         /\ q # TTP /\ PairInv(p, q)' => NetKeygenInv'
<1>. USE DEF CallerStep, NumbersOf
<1>1. /\ q \in Callees(p) /\ q \in Parties /\ Conn(p, q) \in Conns
      /\ q # TTP => q \in Players /\ p < q
  BY Calling1
<1>2. TypeOK
  BY DEF NetKeygenInv
<1>3. /\ AtElsewhere(p, q) /\ At(p, q)' = x /\ CallsInTurn(p)'
      /\ pc'[p] \in Calling /\ pc' \in [Parties -> Serving \cup Calling]
      /\ \A r \in Parties : r # p => pc'[r] = pc[r]
      /\ peer' \in [Players -> Parties] /\ \A r \in Players : r # p => peer'[r] = peer[r]
      /\ toAccept' = toAccept
  <2>1. p \in Parties
    BY Sizes
  <2>2. CASE x = "after"
    <3>1. ConnectNext(p, q + 1) /\ q \in Players /\ p < q
      BY <1>1, <2>2
    <3>2. /\ AtElsewhere(p, q) /\ At(p, q)' = "after" /\ pc' = [pc EXCEPT ![p] = "connect"]
          /\ peer'[p] \in Callees(p) /\ peer' \in [Players -> Parties]
      BY <1>2, <3>1, NextAt
    <3>3. toAccept' = toAccept /\ \A r \in Players : r # p => peer'[r] = peer[r]
      BY <1>2, <3>1 DEF ConnectNext, TypeOK
    <3>4. "connect" \in Calling /\ "connect" \notin {"recvShare", "recvRandom", "recvPk", "done"}
      BY DEF Calling
    <3>5. pc'[p] = "connect" /\ pc' \in [Parties -> Serving \cup Calling]
      BY <1>2, <2>1, <3>2, <3>4 DEF TypeOK
    <3>6. \A r \in Parties : r # p => pc'[r] = pc[r]
      BY <1>2, <2>1, <3>2 DEF TypeOK
    <3>7. CallsInTurn(p)'
      BY <3>2, <3>5 DEF CallsInTurn
    <3>. QED
      BY <2>2, <3>2, <3>3, <3>4, <3>5, <3>6, <3>7
  <2>3. CASE x # "after"
    <3>1. pc' = [pc EXCEPT ![p] = x] /\ peer' = peer /\ toAccept' = toAccept
      BY <2>3 DEF Step
    <3>2. x \in Calling /\ x \notin {"connect", "exited"}
      BY <2>3 DEF Calling
    <3>3. AtElsewhere(p, q) /\ At(p, q)' = x
      BY <1>1, <1>2, <3>1, <3>2, StepAt
    <3>4. pc'[p] = x /\ pc' \in [Parties -> Serving \cup Calling]
      BY <1>2, <2>1, <3>1, <3>2 DEF TypeOK
    <3>5. \A r \in Parties : r # p => pc'[r] = pc[r]
      BY <1>2, <2>1, <3>1 DEF TypeOK
    <3>6. CallsInTurn(p)'
      BY <1>1, <3>1, <3>4 DEF CallsInTurn
    <3>7. peer \in [Players -> Parties]
      BY <1>2 DEF TypeOK
    <3>. QED
      BY <3>1, <3>2, <3>3, <3>4, <3>5, <3>6, <3>7
  <2>. QED
    BY <2>2, <2>3
<1>4. hpc[Conn(p, q)] \in HandlerSteps
  BY <1>1, <1>2 DEF TypeOK
<1>5. /\ ConnsElsewhere(p, q)
      /\ conn'[Conn(p, q)] = [state |-> "open", up |-> up, down |-> down]
      /\ hpc'[Conn(p, q)] = hpc[Conn(p, q)]
      /\ DOMAIN conn' = Conns /\ hpc' \in [Conns -> HandlerSteps]
  <2>1. Goes(p, q, "open", hpc[Conn(p, q)], up, down)
    BY <1>1, <1>2, Stays DEF Goes
  <2>. QED
    BY <1>1, <1>2, <1>4, <2>1, GoesTo
<1>6. p \in Parties /\ pc[p] \notin Serving /\ pc'[p] \notin Serving /\ p # TTP
  BY <1>3, Sizes DEF Calling, Serving
<1>7. \A s \in Parties : ServerInv(s)'
  BY <1>1, <1>3, <1>5, <1>6, ServersSame
<1>8. TypeOK'
  <2>1. pc'[TTP] = pc[TTP] /\ pc'[1] \in Calling
    BY <1>2, <1>3, <1>6, Sizes DEF TypeOK
  <2>. QED
    BY <1>2, <1>3, <1>5, <2>1 DEF TypeOK
<1>9. ASSUME NEW r \in Players PROVE CallsInTurn(r)'
  <2>1. CASE r = p
    BY <1>3, <2>1
  <2>2. CASE r # p
    BY <1>3, <2>2, Sizes DEF CallsInTurn, NetKeygenInv
  <2>. QED
    BY <2>1, <2>2
<1>10. zero' = zero /\ \A y : Bytes(y)' = Bytes(y)
  BY BytesSame
<1>11. p < q \/ q = TTP
  BY <1>1
<1>12. q = TTP /\ ShardInv(p)' => NetKeygenInv'
  BY <1>1, <1>3, <1>5, <1>6, <1>7, <1>8, <1>9, <1>10, <1>11, InvAfter
<1>13. q # TTP /\ PairInv(p, q)' => NetKeygenInv'
  BY <1>1, <1>3, <1>5, <1>6, <1>7, <1>8, <1>9, <1>10, <1>11, InvAfter
<1>. QED
  BY <1>3, <1>5, <1>10, <1>12, <1>13

LEMMA SendShareInv ==
  ASSUME NetKeygenInv, NEW p \in Players, SendShare(p)
  PROVE  NetKeygenInv'
<1>0. PICK q : q = peer[p]
  OBVIOUS
<1>1. /\ pc[p] = "id" /\ q # TTP /\ conn[Me(p)].state = "open"
      /\ Put(Me(p), "up", Bytes(tmp_shares[p][q])) /\ Step(p, "recvShare")
      /\ UNCHANGED <<zero, hpc, tmp_shares, random_list, pk>>
      /\ UNCHANGED <<listening, backlog>>
  BY <1>0 DEF SendShare, Put, numbers
<1>2. /\ pc[p] \in Calling /\ pc[p] \notin {"connect", "exited"} /\ TypeOK
      /\ "recvShare" \notin {"recvPk", "done", "after"}
  BY <1>1 DEF Calling, NetKeygenInv
<1>3. /\ Me(p) = Conn(p, q) /\ Conn(p, q) \in Conns
      /\ q \in Players /\ PairInv(p, q) /\ At(p, q) = "id"
  BY <1>0, <1>1, <1>2, Calling1
<1>4. Met(p, q)
  BY <1>1, <1>3 DEF PairInv, Idle, Called, Met, ShareUp, ShareDown, RandomUp, RandomDown, Swapped, Is
<1>5. conn' = [conn EXCEPT ![Conn(p, q)] = [state |-> "open", up |-> Bytes(Share(p, q)), down |-> <<>>]]
  BY <1>1, <1>3, <1>4, PutUp, BytesAre DEF Met, Is, Own
<1>6. CallerStep(p, q, "recvShare", Bytes(Share(p, q)), <<>>)
  BY <1>0, <1>1, <1>2, <1>3, <1>5, NumbersSame DEF CallerStep, numbers
<1>7. /\ conn'[Conn(p, q)] = [state |-> "open", up |-> Bytes(Share(p, q)), down |-> <<>>]
      /\ hpc'[Conn(p, q)] = hpc[Conn(p, q)] /\ At(p, q)' = "recvShare"
      /\ \A y : Bytes(y)' = Bytes(y)
      /\ PairInv(p, q)' => NetKeygenInv'
  BY <1>1, <1>6, CallerInv
<1>8. ShareUp(p, q)'
  BY <1>1, <1>4, <1>7 DEF ShareUp, Met, Is, Own
<1>. QED
  BY <1>7, <1>8 DEF PairInv

\* p takes what q has sent.
TakesShare(p, q, d) ==
    tmp_shares' = [tmp_shares EXCEPT ![p][q] = d] /\ random_list' = random_list /\ pk' = pk

LEMMA ShareTaken ==
  ASSUME TypeOK, NEW p \in Players, NEW q \in Players, p # q, NEW d, TakesShare(p, q, d)
  PROVE  /\ NumbersOf(p, q) /\ NumbersOf(q, p)
         /\ tmp_shares'[p][q] = d /\ tmp_shares'[q][p] = tmp_shares[q][p]
<1>. USE DEF TakesShare
<1>1. /\ p \in Parties /\ p # TTP /\ DOMAIN tmp_shares = Parties
      /\ \A r \in Parties : DOMAIN tmp_shares[r] = Players
  BY Sizes DEF TypeOK
<1>2. /\ DOMAIN tmp_shares' = Parties /\ \A r \in Parties : DOMAIN tmp_shares'[r] = Players
      /\ tmp_shares'[p][q] = d
      /\ \A r \in Parties : \A s \in Players : r # p \/ s # q => tmp_shares'[r][s] = tmp_shares[r][s]
  BY <1>1
<1>3. \A r, s \in Players : ~(r = p /\ s = q) => tmp_shares'[r][s] = tmp_shares[r][s]
  BY <1>2, Sizes
<1>4. \A r \in Players : tmp_shares'[TTP][r] = tmp_shares[TTP][r]
  BY <1>1, <1>2, Sizes
<1>5. NumbersElsewhere(p, q) /\ NumbersElsewhere(q, p)
  BY <1>3, <1>4 DEF NumbersElsewhere
<1>. QED
  BY <1>2, <1>3, <1>5 DEF NumbersOf, TypeOK

LEMMA RandomTaken ==
  ASSUME TypeOK, NEW p \in Players, NEW q \in Players, p # q,
         random_list' = [random_list EXCEPT ![p][q] = @ \cup {Random(q, p)}],
         tmp_shares' = tmp_shares, pk' = pk
  PROVE  /\ NumbersOf(p, q) /\ NumbersOf(q, p)
         /\ random_list'[p][q] = random_list[p][q] \cup {Random(q, p)}
         /\ random_list'[q][p] = random_list[q][p]
<1>1. random_list \in [Players -> [Players -> SUBSET Randoms]] /\ Random(q, p) \in Randoms
  BY DEF TypeOK, Randoms
<1>2. random_list[p][q] \cup {Random(q, p)} \in SUBSET Randoms
  BY <1>1
<1>3. /\ random_list' \in [Players -> [Players -> SUBSET Randoms]]
      /\ random_list'[p][q] = random_list[p][q] \cup {Random(q, p)}
      /\ \A r, s \in Players : ~(r = p /\ s = q) => random_list'[r][s] = random_list[r][s]
  BY <1>1, <1>2
<1>4. NumbersElsewhere(p, q) /\ NumbersElsewhere(q, p)
  BY <1>3 DEF NumbersElsewhere
<1>. QED
  BY <1>3, <1>4 DEF NumbersOf, TypeOK

LEMMA RecvShareInv ==
  ASSUME NetKeygenInv, NEW p \in Players, RecvShare(p)
  PROVE  NetKeygenInv'
<1>0. PICK q : q = peer[p]
  OBVIOUS
<1>1. PICK got \in Receivable(Me(p), "down", 1) :
          /\ pc[p] = "recvShare" /\ Step(p, "recvRandom")
          /\ tmp_shares' = [tmp_shares EXCEPT ![p][q] = Head(got)]
          /\ TakeAndPut(Me(p), "down", "up", got, Bytes(Random(p, q)))
          /\ UNCHANGED <<zero, hpc, random_list, pk>>
          /\ UNCHANGED <<listening, backlog>>
  BY <1>0 DEF RecvShare, TakeAndPut
<1>2. /\ pc[p] \in Calling /\ pc[p] \notin {"connect", "exited"} /\ TypeOK
      /\ "recvRandom" \notin {"recvPk", "done", "after"} /\ q # TTP
  BY <1>0, <1>1 DEF Calling, NetKeygenInv, CallsInTurn
<1>3. /\ Me(p) = Conn(p, q) /\ Conn(p, q) \in Conns
      /\ q \in Players /\ p < q /\ p # q /\ PairInv(p, q) /\ At(p, q) = "recvShare"
  BY <1>0, <1>1, <1>2, Calling1, Sizes
<1>4. ShareUp(p, q) \/ ShareDown(p, q)
  BY <1>3 DEF PairInv, Idle, Called, Met, ShareUp, ShareDown, RandomUp, RandomDown, Swapped, Is
<1>5. conn[Conn(p, q)]["down"] = <<>> \/ conn[Conn(p, q)]["down"] = <<Share(q, p)>>
  BY <1>4, BytesAre DEF ShareUp, ShareDown, Is
<1>6. conn[Conn(p, q)]["down"] = <<Share(q, p)>> /\ got = <<Share(q, p)>> /\ Head(got) = Share(q, p)
  BY <1>1, <1>3, <1>5, Received
<1>7. ShareDown(p, q)
  BY <1>4, <1>6, OneUnit DEF ShareUp, Is
<1>8. conn[Conn(p, q)] = [state |-> "open", up |-> <<>>, down |-> <<Share(q, p)>>]
  BY <1>6, <1>7 DEF ShareDown, Is
<1>9. conn' = [conn EXCEPT ![Conn(p, q)] = [state |-> "open", up |-> Bytes(Random(p, q)), down |-> <<>>]]
  BY <1>1, <1>2, <1>3, <1>6, <1>8, AnswerUp, BytesAre DEF TypeOK
<1>10. /\ NumbersOf(p, q) /\ tmp_shares'[p][q] = Share(q, p) /\ tmp_shares'[q][p] = tmp_shares[q][p]
  <2>1. TakesShare(p, q, Share(q, p))
    BY <1>1, <1>6 DEF TakesShare
  <2>. QED
    BY <1>2, <1>3, <2>1, ShareTaken
<1>11. CallerStep(p, q, "recvRandom", Bytes(Random(p, q)), <<>>)
  BY <1>0, <1>1, <1>2, <1>3, <1>8, <1>9, <1>10 DEF CallerStep
<1>12. /\ conn'[Conn(p, q)] = [state |-> "open", up |-> Bytes(Random(p, q)), down |-> <<>>]
       /\ hpc'[Conn(p, q)] = hpc[Conn(p, q)] /\ At(p, q)' = "recvRandom"
       /\ \A y : Bytes(y)' = Bytes(y)
       /\ PairInv(p, q)' => NetKeygenInv'
  BY <1>2, <1>11, CallerInv
<1>13. RandomUp(p, q)'
  BY <1>1, <1>7, <1>10, <1>12 DEF RandomUp, ShareDown, Is, Own, Half
<1>. QED
  BY <1>12, <1>13 DEF PairInv

LEMMA RecvRandomInv ==
  ASSUME NetKeygenInv, NEW p \in Players, RecvRandom(p)
  PROVE  NetKeygenInv'
<1>0. PICK q : q = peer[p]
  OBVIOUS
<1>1. PICK got \in Receivable(Me(p), "down", 1) :
          /\ pc[p] = "recvRandom" /\ ConnectNext(p, q + 1)
          /\ random_list' = [random_list EXCEPT ![p][q] = @ \cup {Head(got)}]
          /\ Take(Me(p), "down", got)
          /\ UNCHANGED <<zero, hpc, tmp_shares, pk>>
          /\ UNCHANGED <<listening, backlog>>
  BY <1>0 DEF RecvRandom, Take
<1>2. /\ pc[p] \in Calling /\ pc[p] \notin {"connect", "exited"} /\ TypeOK
      /\ "after" \notin {"recvPk", "done"} /\ q # TTP
  BY <1>0, <1>1 DEF Calling, NetKeygenInv, CallsInTurn
<1>3. /\ Me(p) = Conn(p, q) /\ Conn(p, q) \in Conns
      /\ q \in Players /\ p < q /\ p # q /\ PairInv(p, q) /\ At(p, q) = "recvRandom"
  BY <1>0, <1>1, <1>2, Calling1, Sizes
<1>4. RandomUp(p, q) \/ RandomDown(p, q)
  BY <1>3 DEF PairInv, Idle, Called, Met, ShareUp, ShareDown, RandomUp, RandomDown, Swapped, Is
<1>5. conn[Conn(p, q)]["down"] = <<>> \/ conn[Conn(p, q)]["down"] = <<Random(q, p)>>
  BY <1>4, BytesAre DEF RandomUp, RandomDown, Is
<1>6. conn[Conn(p, q)]["down"] = <<Random(q, p)>> /\ got = <<Random(q, p)>> /\ Head(got) = Random(q, p)
  BY <1>1, <1>3, <1>5, Received
<1>7. RandomDown(p, q)
  BY <1>4, <1>6, OneUnit DEF RandomUp, Is
<1>8. conn[Conn(p, q)] = [state |-> "open", up |-> <<>>, down |-> <<Random(q, p)>>]
  BY <1>6, <1>7 DEF RandomDown, Is
<1>9. conn' = [conn EXCEPT ![Conn(p, q)] = [state |-> "open", up |-> <<>>, down |-> <<>>]]
  BY <1>1, <1>3, <1>6, <1>8, TakeDown
<1>10. /\ NumbersOf(p, q) /\ random_list'[q][p] = random_list[q][p]
       /\ random_list'[p][q] = random_list[p][q] \cup {Random(q, p)}
  BY <1>1, <1>2, <1>3, <1>6, RandomTaken
<1>11. CallerStep(p, q, "after", <<>>, <<>>)
  BY <1>0, <1>1, <1>2, <1>3, <1>8, <1>9, <1>10 DEF CallerStep
<1>12. /\ conn'[Conn(p, q)] = [state |-> "open", up |-> <<>>, down |-> <<>>]
       /\ hpc'[Conn(p, q)] = hpc[Conn(p, q)] /\ At(p, q)' = "after"
       /\ PairInv(p, q)' => NetKeygenInv'
  BY <1>2, <1>11, CallerInv
<1>13. Swapped(p, q)'
  BY <1>1, <1>7, <1>10, <1>12 DEF Swapped, RandomDown, Is, Half, Full, Both
<1>. QED
  BY <1>12, <1>13 DEF PairInv

\* A player calls the TTP when it has swapped with everybody.
LEMMA AllSwapped ==
  ASSUME NetKeygenInv, NEW p \in Players, pc[p] \in Calling, peer[p] = TTP,
         NEW r \in Players, r # p
  PROVE  Full(p, r)
<1>1. pc[p] \notin Serving /\ TypeOK /\ p \in Parties
  BY Sizes DEF Calling, Serving, NetKeygenInv
<1>2. CASE p < r
  <2>1. At(p, r) = "after" /\ PairInv(p, r)
    BY <1>1, <1>2, Sizes DEF At, NetKeygenInv
  <2>2. Swapped(p, r)
    BY <2>1 DEF PairInv, Idle, Called, Met, ShareUp, ShareDown, RandomUp, RandomDown, Swapped, Is
  <2>. QED
    BY <2>2 DEF Swapped
<1>3. CASE r < p
  <2>1. r \in Clients(p) /\ PairInv(r, p)
    BY <1>3 DEF Clients, NetKeygenInv
  <2>2. hpc[Conn(r, p)] = "over"
    BY <1>1, <2>1 DEF NetKeygenInv, ServerInv
  <2>3. RandomDown(r, p) \/ Swapped(r, p)
    BY <2>1, <2>2 DEF PairInv, Idle, Called, Met, ShareUp, ShareDown, RandomUp, RandomDown, Swapped, Is
  <2>. QED
    BY <2>3 DEF RandomDown, Swapped
<1>. QED
  BY <1>2, <1>3, Sizes

\* What p sends to the TTP has the random numbers of all pairs.
LEMMA ShardComplete ==
  ASSUME NetKeygenInv, NEW p \in Players, pc[p] \in Calling, peer[p] = TTP
  PROVE  Shard(p) = RightShard(p)
<1>1. ASSUME NEW r \in Players PROVE random_list[p][r] = Both(p, r)
  <2>1. CASE r = p
    BY <2>1 DEF NetKeygenInv, SelfInv, Both
  <2>2. CASE r # p
    BY <2>2, AllSwapped DEF Full
  <2>. QED
    BY <2>1, <2>2
<1>2. {random_list[p][q] : q \in {r \in Players : r < p}} = {Both(p, r) : r \in {q \in Players : q < p}}
  BY <1>1
<1>3. {random_list[p][q] : q \in {r \in Players : r > p}} = {Both(p, r) : r \in {q \in Players : q > p}}
  BY <1>1
<1>. QED
  BY <1>2, <1>3 DEF Shard, RightShard

LEMMA SendShardInv ==
  ASSUME NetKeygenInv, NEW p \in Players, SendShard(p)
  PROVE  NetKeygenInv'
<1>1. /\ pc[p] = "id" /\ TTP = peer[p] /\ conn[Me(p)].state = "open"
      /\ Put(Me(p), "up", <<Shard(p)>>) /\ Step(p, "recvPk")
      /\ UNCHANGED <<zero, hpc, tmp_shares, random_list, pk>>
      /\ UNCHANGED <<listening, backlog>>
  BY DEF SendShard, Put, numbers
<1>2. /\ pc[p] \in Calling /\ pc[p] \notin {"connect", "exited"} /\ TypeOK
      /\ "recvPk" \notin {"recvShare", "recvRandom", "after"}
  BY <1>1 DEF Calling, NetKeygenInv
<1>3. /\ Me(p) = Conn(p, TTP) /\ Conn(p, TTP) \in Conns /\ ShardInv(p) /\ At(p, TTP) = "id"
  BY <1>1, <1>2, Calling1
<1>4. /\ conn[Conn(p, TTP)] = [state |-> "open", up |-> <<>>, down |-> <<>>]
      /\ hpc[Conn(p, TTP)] = "recvShard"
  BY <1>1, <1>3 DEF ShardInv, Is
<1>5. conn' = [conn EXCEPT ![Conn(p, TTP)] = [state |-> "open", up |-> <<RightShard(p)>>, down |-> <<>>]]
  BY <1>1, <1>2, <1>3, <1>4, PutUp, OneUnit, ShardComplete
<1>6. CallerStep(p, TTP, "recvPk", <<RightShard(p)>>, <<>>)
  BY <1>1, <1>2, <1>3, <1>5, NumbersSame DEF CallerStep, numbers
<1>7. /\ conn'[Conn(p, TTP)] = [state |-> "open", up |-> <<RightShard(p)>>, down |-> <<>>]
      /\ hpc'[Conn(p, TTP)] = hpc[Conn(p, TTP)] /\ At(p, TTP)' = "recvPk"
      /\ ShardInv(p)' => NetKeygenInv'
  BY <1>6, CallerInv
<1>8. ShardInv(p)'
  BY <1>4, <1>7 DEF ShardInv, Is
<1>. QED
  BY <1>7, <1>8

LEMMA RecvPkInv ==
  ASSUME NetKeygenInv, NEW p \in Players, RecvPk(p)
  PROVE  NetKeygenInv'
<1>1. PICK got \in Receivable(Me(p), "down", 1) :
          /\ pc[p] = "recvPk" /\ Step(p, "done")
          /\ pk' = [pk EXCEPT ![p] = Head(got)]
          /\ Take(Me(p), "down", got)
          /\ UNCHANGED <<zero, hpc, tmp_shares, random_list>>
          /\ UNCHANGED <<listening, backlog>>
  BY DEF RecvPk, Take
<1>2. /\ pc[p] \in Calling /\ pc[p] \notin {"connect", "exited"} /\ TypeOK
      /\ "done" \notin {"recvShare", "recvRandom", "after"} /\ TTP = peer[p]
  BY <1>1 DEF Calling, NetKeygenInv, CallsInTurn
<1>3. /\ Me(p) = Conn(p, TTP) /\ Conn(p, TTP) \in Conns /\ ShardInv(p) /\ At(p, TTP) = "recvPk"
  BY <1>1, <1>2, Calling1
<1>4. conn[Conn(p, TTP)]["down"] = <<>> \/ conn[Conn(p, TTP)]["down"] = <<RightKey>>
  BY <1>3 DEF ShardInv, Is
<1>5. conn[Conn(p, TTP)]["down"] = <<RightKey>> /\ got = <<RightKey>> /\ Head(got) = RightKey
  <2>1. got \in Receivable(Conn(p, TTP), "down", 1) /\ Conn(p, TTP) \in Conns
    BY <1>1, <1>3
  <2>. QED
    BY ONLY <1>4, <2>1, Received
<1>6. /\ conn[Conn(p, TTP)] = [state |-> "open", up |-> <<>>, down |-> <<RightKey>>]
      /\ hpc[Conn(p, TTP)] = "over" /\ pk[TTP] = RightKey
  <2>1. conn[Conn(p, TTP)]["down"] # <<>>
    BY <1>5, OneUnit
  <2>2. /\ Is(Conn(p, TTP), "open", "over", <<>>, <<RightKey>>) /\ pk[TTP] = RightKey
    BY <1>3, <2>1 DEF ShardInv, Is
  <2>. QED
    BY <2>2 DEF Is
<1>7. conn' = [conn EXCEPT ![Conn(p, TTP)] = [state |-> "open", up |-> <<>>, down |-> <<>>]]
  BY <1>1, <1>3, <1>5, <1>6, TakeDown
<1>8. NumbersOf(p, TTP) /\ pk'[p] = RightKey /\ pk'[TTP] = pk[TTP]
  <2>1. p \in Parties /\ p # TTP /\ \A r \in Players : r # TTP /\ r \in Parties
    BY Sizes
  <2>2. pk' \in [Parties -> {{}, RightKey}] /\ pk'[p] = RightKey
        /\ \A r \in Parties : r # p => pk'[r] = pk[r]
    BY <1>1, <1>2, <1>5, <2>1 DEF TypeOK
  <2>3. pk'[TTP] = pk[TTP] /\ \A r \in Players : r # p => pk'[r] = pk[r]
    BY <2>1, <2>2, Sizes
  <2>4. NumbersElsewhere(p, TTP)
    BY <1>1, <2>3 DEF NumbersElsewhere
  <2>. QED
    BY <1>1, <1>2, <2>2, <2>3, <2>4 DEF NumbersOf, TypeOK
<1>9. CallerStep(p, TTP, "done", <<>>, <<>>)
  BY <1>1, <1>2, <1>3, <1>6, <1>7, <1>8 DEF CallerStep
<1>10. /\ conn'[Conn(p, TTP)] = [state |-> "open", up |-> <<>>, down |-> <<>>]
       /\ hpc'[Conn(p, TTP)] = hpc[Conn(p, TTP)] /\ At(p, TTP)' = "done"
       /\ ShardInv(p)' => NetKeygenInv'
  BY <1>9, CallerInv
<1>11. ShardInv(p)'
  BY <1>6, <1>8, <1>10 DEF ShardInv, Is
<1>. QED
  BY <1>10, <1>11

------------------------------------------------------------------------------
(* The handlers' steps.                                                      *)

\* The step of the handler that q has for p.
HandlerStep(p, q, step, up, down) ==
    /\ hpc[Conn(p, q)] # "over" /\ step \in HandlerSteps
    /\ conn[Conn(p, q)].state = "open"
    /\ Goes(p, q, "open", step, up, down)
    /\ NumbersOf(p, q)
    /\ UNCHANGED <<listening, backlog, zero, pc, peer, toAccept>>

LEMMA HandlerInv ==
  ASSUME NetKeygenInv, NEW p \in Players, NEW q \in Callees(p), NEW step, NEW up, NEW down,
         HandlerStep(p, q, step, up, down)
  PROVE  /\ conn'[Conn(p, q)] = [state |-> "open", up |-> up, down |-> down]
         /\ hpc'[Conn(p, q)] = step
         /\ At(p, q)' = At(p, q) /\ \A y : Bytes(y)' = Bytes(y)
         /\ q = TTP /\ ShardInv(p)' => NetKeygenInv'
         /\ q # TTP /\ PairInv(p, q)' => NetKeygenInv'
<1>. USE DEF HandlerStep, NumbersOf
<1>1. p \in Parties /\ q \in Parties /\ (p < q \/ q = TTP) /\ TypeOK
  BY Calls, Sizes DEF NetKeygenInv, Callees
<1>2. /\ ConnsElsewhere(p, q)
      /\ conn'[Conn(p, q)] = [state |-> "open", up |-> up, down |-> down]
      /\ hpc'[Conn(p, q)] = step
      /\ DOMAIN conn' = Conns /\ hpc' \in [Conns -> HandlerSteps]
  BY <1>1, GoesTo
<1>3. AtElsewhere(p, q) /\ At(p, q)' = At(p, q)
  BY DEF AtElsewhere, At
<1>4. \A s \in Parties : ServerInv(s)'
  BY <1>2, ServersSame
<1>5. TypeOK'
  BY <1>1, <1>2 DEF TypeOK
<1>6. \A r \in Players : CallsInTurn(r)'
  BY DEF CallsInTurn, NetKeygenInv
<1>7. zero' = zero /\ \A y : Bytes(y)' = Bytes(y)
  BY BytesSame
<1>8. q = TTP /\ ShardInv(p)' => NetKeygenInv'
  BY <1>1, <1>2, <1>3, <1>4, <1>5, <1>6, <1>7, InvAfter
<1>9. q # TTP /\ PairInv(p, q)' => NetKeygenInv'
  BY <1>1, <1>2, <1>3, <1>4, <1>5, <1>6, <1>7, InvAfter
<1>. QED
  BY <1>2, <1>3, <1>7, <1>8, <1>9

\* Which handler takes a step, and for whom.
LEMMA HandlerOf ==
  ASSUME NetKeygenInv, NEW c \in Conns
  PROVE  \E p \in Players, q \in Parties :
             /\ q \in Callees(p) /\ c = Conn(p, q) /\ Client(c) = p /\ Server(c) = q
             /\ hpc[c] \in {"recvShare", "recvRandom"} => q # TTP
             /\ hpc[c] \in {"recvShard", "barrier", "sendPk"} => q = TTP
             /\ q = TTP => ShardInv(p)
             /\ q # TTP => q \in Players /\ p < q /\ p # q /\ PairInv(p, q)
<1>1. PICK p \in Players, q \in Parties : q \in Callees(p) /\ c = Conn(p, q)
  BY ConnsAre DEF Callees
<1>2. Client(c) = p /\ Server(c) = q
  BY <1>1, ConnParts
<1>3. q = TTP => ShardInv(p)
  BY DEF NetKeygenInv
<1>4. q # TTP => q \in Players /\ p < q /\ p # q /\ PairInv(p, q)
  BY <1>1, Sizes DEF Callees, NetKeygenInv
<1>5. hpc[c] \in {"recvShare", "recvRandom"} => q # TTP
  BY <1>1, <1>3 DEF ShardInv, Is
<1>6. hpc[c] \in {"recvShard", "barrier", "sendPk"} => q = TTP
  BY <1>1, <1>4 DEF PairInv, Idle, Called, Met, ShareUp, ShareDown, RandomUp, RandomDown, Swapped, Is
<1>. QED
  BY <1>1, <1>2, <1>3, <1>4, <1>5, <1>6

LEMMA AnswerShareInv ==
  ASSUME NetKeygenInv, NEW c \in Conns, AnswerShare(c)
  PROVE  NetKeygenInv'
<1>1. PICK p \in Players, q \in Parties :
          /\ q \in Callees(p) /\ c = Conn(p, q) /\ Client(c) = p /\ Server(c) = q
          /\ hpc[c] = "recvShare" => q # TTP
          /\ q # TTP => q \in Players /\ p < q /\ p # q /\ PairInv(p, q)
  BY HandlerOf
<1>2. PICK got \in Receivable(c, "up", 1) :
          /\ hpc[c] = "recvShare" /\ hpc' = [hpc EXCEPT ![c] = "recvRandom"]
          /\ TakeAndPut(c, "up", "down", got, Bytes(tmp_shares[q][p]))
          /\ tmp_shares' = [tmp_shares EXCEPT ![q][p] = Head(got)]
          /\ UNCHANGED <<zero, pc, peer, toAccept, random_list, pk>>
          /\ UNCHANGED <<listening, backlog>>
  BY <1>1 DEF AnswerShare, Answer, HStep, TakeAndPut, mainVars
<1>3. q # TTP /\ q \in Players /\ p < q /\ p # q /\ PairInv(p, q) /\ TypeOK
  BY <1>1, <1>2 DEF NetKeygenInv
<1>4. Met(p, q) \/ ShareUp(p, q)
  BY <1>1, <1>2, <1>3 DEF PairInv, Idle, Called, Met, ShareUp, ShareDown, RandomUp, RandomDown, Swapped, Is
<1>5. conn[c]["up"] = <<>> \/ conn[c]["up"] = <<Share(p, q)>>
  BY <1>1, <1>4, BytesAre DEF Met, ShareUp, Is
<1>6. conn[c]["up"] = <<Share(p, q)>> /\ got = <<Share(p, q)>> /\ Head(got) = Share(p, q)
  BY <1>2, <1>5, Received
<1>7. ShareUp(p, q)
  <2>1. conn[c]["up"] # <<>>
    BY <1>6, OneUnit
  <2>2. ~Met(p, q)
    BY <1>1, <2>1 DEF Met, Is
  <2>. QED
    BY <1>4, <2>2
<1>8. conn[c] = [state |-> "open", up |-> <<Share(p, q)>>, down |-> <<>>] /\ tmp_shares[q][p] = Share(q, p)
  BY <1>1, <1>6, <1>7 DEF ShareUp, Is, Own
<1>9. conn' = [conn EXCEPT ![c] = [state |-> "open", up |-> <<>>, down |-> Bytes(Share(q, p))]]
  BY <1>2, <1>3, <1>6, <1>8, AnswerDown, BytesAre DEF TypeOK
<1>10. /\ NumbersOf(p, q) /\ tmp_shares'[q][p] = Share(p, q) /\ tmp_shares'[p][q] = tmp_shares[p][q]
  <2>1. TakesShare(q, p, Share(p, q))
    BY <1>2, <1>6 DEF TakesShare
  <2>2. TypeOK /\ p \in Players /\ q \in Players /\ q # p
    BY <1>1, <1>3
  <2>. QED
    BY ONLY <2>1, <2>2, ShareTaken
<1>11. HandlerStep(p, q, "recvRandom", <<>>, Bytes(Share(q, p)))
  BY <1>1, <1>2, <1>8, <1>9, <1>10 DEF HandlerStep, Goes, HandlerSteps
<1>12. /\ conn'[Conn(p, q)] = [state |-> "open", up |-> <<>>, down |-> Bytes(Share(q, p))]
       /\ hpc'[Conn(p, q)] = "recvRandom" /\ At(p, q)' = At(p, q)
       /\ \A y : Bytes(y)' = Bytes(y)
       /\ PairInv(p, q)' => NetKeygenInv'
  BY <1>1, <1>3, <1>11, HandlerInv
<1>13. ShareDown(p, q)'
  BY <1>2, <1>7, <1>10, <1>12 DEF ShareDown, ShareUp, Is, Own, Half
<1>. QED
  BY <1>12, <1>13 DEF PairInv

LEMMA AnswerRandomInv ==
  ASSUME NetKeygenInv, NEW c \in Conns, AnswerRandom(c)
  PROVE  NetKeygenInv'
<1>1. PICK p \in Players, q \in Parties :
          /\ q \in Callees(p) /\ c = Conn(p, q) /\ Client(c) = p /\ Server(c) = q
          /\ hpc[c] = "recvRandom" => q # TTP
          /\ q # TTP => q \in Players /\ p < q /\ p # q /\ PairInv(p, q)
  BY HandlerOf
<1>2. PICK got \in Receivable(c, "up", 1) :
          /\ hpc[c] = "recvRandom" /\ hpc' = [hpc EXCEPT ![c] = "over"]
          /\ TakeAndPut(c, "up", "down", got, Bytes(Random(q, p)))
          /\ random_list' = [random_list EXCEPT ![q][p] = @ \cup {Head(got)}]
          /\ UNCHANGED <<zero, pc, peer, toAccept, tmp_shares, pk>>
          /\ UNCHANGED <<listening, backlog>>
  BY <1>1 DEF AnswerRandom, HStep, TakeAndPut, mainVars
<1>3. q # TTP /\ q \in Players /\ p < q /\ p # q /\ PairInv(p, q) /\ TypeOK
  BY <1>1, <1>2 DEF NetKeygenInv
<1>4. ShareDown(p, q) \/ RandomUp(p, q)
  BY <1>1, <1>2, <1>3 DEF PairInv, Idle, Called, Met, ShareUp, ShareDown, RandomUp, RandomDown, Swapped, Is
<1>5. conn[c]["up"] = <<>> \/ conn[c]["up"] = <<Random(p, q)>>
  BY <1>1, <1>4, BytesAre DEF ShareDown, RandomUp, Is
<1>6. conn[c]["up"] = <<Random(p, q)>> /\ got = <<Random(p, q)>> /\ Head(got) = Random(p, q)
  BY <1>2, <1>5, Received
<1>7. RandomUp(p, q)
  <2>1. conn[c]["up"] # <<>>
    BY <1>6, OneUnit
  <2>2. ~ShareDown(p, q)
    BY <1>1, <2>1 DEF ShareDown, Is
  <2>. QED
    BY <1>4, <2>2
<1>8. conn[c] = [state |-> "open", up |-> <<Random(p, q)>>, down |-> <<>>]
  BY <1>1, <1>6, <1>7 DEF RandomUp, Is
<1>9. conn' = [conn EXCEPT ![c] = [state |-> "open", up |-> <<>>, down |-> Bytes(Random(q, p))]]
  BY <1>2, <1>3, <1>6, <1>8, AnswerDown, BytesAre DEF TypeOK
<1>10. /\ NumbersOf(p, q) /\ random_list'[p][q] = random_list[p][q]
       /\ random_list'[q][p] = random_list[q][p] \cup {Random(p, q)}
  <2>1. /\ random_list' = [random_list EXCEPT ![q][p] = @ \cup {Random(p, q)}]
        /\ tmp_shares' = tmp_shares /\ pk' = pk
    BY <1>2, <1>6
  <2>. QED
    BY <1>1, <1>3, <2>1, RandomTaken
<1>11. HandlerStep(p, q, "over", <<>>, Bytes(Random(q, p)))
  BY <1>1, <1>2, <1>8, <1>9, <1>10 DEF HandlerStep, Goes, HandlerSteps
<1>12. /\ conn'[Conn(p, q)] = [state |-> "open", up |-> <<>>, down |-> Bytes(Random(q, p))]
       /\ hpc'[Conn(p, q)] = "over" /\ At(p, q)' = At(p, q)
       /\ \A y : Bytes(y)' = Bytes(y)
       /\ PairInv(p, q)' => NetKeygenInv'
  BY <1>1, <1>3, <1>11, HandlerInv
<1>13. RandomDown(p, q)'
  BY <1>2, <1>7, <1>10, <1>12 DEF RandomDown, RandomUp, Is, Half, Full, Both
<1>. QED
  BY <1>12, <1>13 DEF PairInv

LEMMA RecvShardInv ==
  ASSUME NetKeygenInv, NEW c \in Conns, RecvShard(c)
  PROVE  NetKeygenInv'
<1>1. PICK p \in Players : c = Conn(p, TTP) /\ Client(c) = p /\ ShardInv(p)
  <2>1. hpc[c] = "recvShard"
    BY DEF RecvShard
  <2>. QED
    BY <2>1, HandlerOf
<1>2. PICK got \in Receivable(c, "up", 1) :
          /\ hpc[c] = "recvShard" /\ hpc' = [hpc EXCEPT ![c] = "barrier"]
          /\ Take(c, "up", got)
          /\ tmp_shares' = [tmp_shares EXCEPT ![TTP][p] = Head(got)]
          /\ UNCHANGED <<zero, pc, peer, toAccept, random_list, pk>>
          /\ UNCHANGED <<listening, backlog>>
  BY <1>1 DEF RecvShard, HStep, Take, mainVars
<1>3. TypeOK /\ TTP \in Callees(p) /\ TTP \in Parties /\ p \in Players
  BY Calls, Sizes DEF NetKeygenInv
<1>4. \/ At(p, TTP) = "id" /\ Is(c, "open", "recvShard", <<>>, <<>>)
      \/ At(p, TTP) = "recvPk" /\ Is(c, "open", "recvShard", <<RightShard(p)>>, <<>>)
  BY <1>1, <1>2 DEF ShardInv, Is
<1>5. conn[c]["up"] = <<>> \/ conn[c]["up"] = <<RightShard(p)>>
  BY <1>4 DEF Is
<1>6. /\ conn[c]["up"] = <<RightShard(p)>> /\ conn[c]["up"] # <<>>
      /\ got = <<RightShard(p)>> /\ Head(got) = RightShard(p)
  BY <1>2, <1>5, Received, OneUnit
<1>7. At(p, TTP) = "recvPk" /\ Is(c, "open", "recvShard", <<RightShard(p)>>, <<>>)
  BY <1>4, <1>6 DEF Is
<1>8. conn' = [conn EXCEPT ![c] = [state |-> "open", up |-> <<>>, down |-> <<>>]]
  BY <1>2, <1>6, <1>7, TakeUp DEF Is
<1>9. NumbersOf(p, TTP) /\ tmp_shares'[TTP][p] = RightShard(p)
  <2>1. DOMAIN tmp_shares = Parties /\ \A r \in Parties : DOMAIN tmp_shares[r] = Players
    BY <1>3 DEF TypeOK
  <2>2. /\ DOMAIN tmp_shares' = Parties /\ \A r \in Parties : DOMAIN tmp_shares'[r] = Players
        /\ tmp_shares'[TTP][p] = RightShard(p)
        /\ \A r \in Parties : r # TTP => tmp_shares'[r] = tmp_shares[r]
        /\ \A s \in Players : s # p => tmp_shares'[TTP][s] = tmp_shares[TTP][s]
    BY <1>2, <1>3, <1>6, <2>1
  <2>3. NumbersElsewhere(p, TTP)
    BY <1>2, <2>2, Sizes DEF NumbersElsewhere
  <2>. QED
    BY <1>2, <1>3, <2>2, <2>3 DEF NumbersOf, TypeOK
<1>10. HandlerStep(p, TTP, "barrier", <<>>, <<>>)
  BY <1>1, <1>2, <1>7, <1>8, <1>9 DEF HandlerStep, Goes, HandlerSteps, Is
<1>11. /\ conn'[Conn(p, TTP)] = [state |-> "open", up |-> <<>>, down |-> <<>>]
       /\ hpc'[Conn(p, TTP)] = "barrier" /\ At(p, TTP)' = At(p, TTP)
       /\ ShardInv(p)' => NetKeygenInv'
  BY <1>3, <1>10, HandlerInv
<1>12. ShardInv(p)'
  BY <1>7, <1>9, <1>11 DEF ShardInv, Is
<1>. QED
  BY <1>11, <1>12

LEMMA SendPkInv ==
  ASSUME NetKeygenInv, NEW c \in Conns, SendPk(c)
  PROVE  NetKeygenInv'
<1>1. PICK p \in Players : c = Conn(p, TTP) /\ ShardInv(p)
  <2>1. hpc[c] = "sendPk"
    BY DEF SendPk
  <2>. QED
    BY <2>1, HandlerOf
<1>2. /\ hpc[c] = "sendPk" /\ hpc' = [hpc EXCEPT ![c] = "over"]
      /\ Put(c, "down", <<pk[TTP]>>)
      /\ UNCHANGED <<zero, pc, peer, toAccept, tmp_shares, random_list, pk>>
      /\ UNCHANGED <<listening, backlog>>
  BY DEF SendPk, HStep, Put, mainVars, numbers
<1>3. TypeOK /\ TTP \in Callees(p)
  BY Calls DEF NetKeygenInv
<1>4. At(p, TTP) = "recvPk" /\ Is(c, "open", "sendPk", <<>>, <<>>) /\ pk[TTP] = RightKey
  BY <1>1, <1>2 DEF ShardInv, Is
<1>5. conn' = [conn EXCEPT ![c] = [state |-> "open", up |-> <<>>, down |-> <<RightKey>>]]
  BY <1>2, <1>4, PutDown, OneUnit DEF Is
<1>6. HandlerStep(p, TTP, "over", <<>>, <<RightKey>>)
  BY <1>1, <1>2, <1>3, <1>4, <1>5, NumbersSame DEF HandlerStep, Goes, HandlerSteps, Is, numbers
<1>7. /\ conn'[Conn(p, TTP)] = [state |-> "open", up |-> <<>>, down |-> <<RightKey>>]
      /\ hpc'[Conn(p, TTP)] = "over" /\ At(p, TTP)' = At(p, TTP)
      /\ ShardInv(p)' => NetKeygenInv'
  BY <1>3, <1>6, HandlerInv
<1>8. ShardInv(p)'
  BY <1>2, <1>4, <1>7 DEF ShardInv, Is
<1>. QED
  BY <1>7, <1>8

LEMMA ClientsCount ==
  ASSUME NEW q \in Parties, q # 1
  PROVE  /\ IsFiniteSet(Clients(q)) /\ Clients(q) # {}
         /\ Cardinality(Clients(q)) = IF q = TTP THEN PLAYERS ELSE q - 1
<1>1. CASE q = TTP
  <2>1. Clients(q) = 1..PLAYERS
    BY <1>1 DEF Clients, Players
  <2>2. IsFiniteSet(1..PLAYERS) /\ Cardinality(1..PLAYERS) = PLAYERS
    BY Sizes, FS_Interval
  <2>. QED
    BY <1>1, <2>1, <2>2, Sizes
<1>2. CASE q # TTP
  <2>1. q \in Nat /\ 2 <= q /\ q <= PLAYERS
    BY <1>2, Sizes
  <2>2. Clients(q) = 1..(q - 1)
    BY <1>2, <2>1, Sizes DEF Clients, Players
  <2>3. IsFiniteSet(1..(q - 1)) /\ Cardinality(1..(q - 1)) = q - 1
    BY <2>1, FS_Interval
  <2>4. 1 \in 1..(q - 1)
    BY <2>1
  <2>. QED
    BY <1>2, <2>2, <2>3, <2>4
<1>. QED
  BY <1>1, <1>2

LEMMA NotOpenFinite ==
  ASSUME NEW q \in Parties, NotOpen(q) # {}
  PROVE  IsFiniteSet(NotOpen(q)) /\ Cardinality(NotOpen(q)) \in Nat \ {0}
<1>1. NotOpen(q) \subseteq Players
  BY Calls DEF NotOpen
<1>2. IsFiniteSet(Players)
  BY Sizes, FS_Interval DEF Players
<1>3. IsFiniteSet(NotOpen(q))
  BY <1>1, <1>2, FS_Subset
<1>. QED
  BY <1>3, FS_CardinalityType, FS_EmptySet

\* A step on no connection.
NoConnection ==
    /\ DOMAIN conn' = Conns /\ \A c \in Conns : conn'[c] = conn[c]
    /\ UNCHANGED <<zero, hpc, tmp_shares, random_list, pk>>

LEMMA NoConnectionInv ==
  ASSUME NetKeygenInv, NoConnection, AtElsewhere(TTP, TTP),
         listening' \in [Parties -> BOOLEAN], backlog' \in [Parties -> Seq(Conns)],
         pc' \in [Parties -> Serving \cup Calling], peer' \in [Players -> Parties],
         toAccept' \in [Parties -> Int],
         pc'[TTP] \in Serving \cup {"done"}, pc'[1] \in Calling,
         \A r \in Players : CallsInTurn(r)', \A s \in Parties : ServerInv(s)'
  PROVE  NetKeygenInv'
<1>1. ConnsElsewhere(TTP, TTP)
  BY ConnsAre DEF NoConnection, ConnsElsewhere
<1>2. NumbersElsewhere(TTP, TTP)
  BY DEF NoConnection, NumbersElsewhere
<1>3. TypeOK'
  BY DEF NetKeygenInv, NoConnection, TypeOK
<1>4. TTP \in Parties /\ TTP \notin Players /\ zero' = zero
  BY Sizes DEF NoConnection
<1>. QED
  BY <1>1, <1>2, <1>3, <1>4, InvAfter

LEMMA GiveUpInv ==
  ASSUME NetKeygenInv, NEW p \in Players, GiveUp(p)
  PROVE  NetKeygenInv'
<1>1. /\ pc[p] = "connect" /\ pc' = [pc EXCEPT ![p] = "exited"]
      /\ UNCHANGED <<listening, backlog, conn, zero, peer, toAccept, hpc, tmp_shares, random_list, pk>>
      /\ TypeOK /\ p \in Parties /\ p # TTP
  BY Sizes DEF GiveUp, Step, netVars, numbers, NetKeygenInv
<1>2. "exited" \in Calling /\ "exited" \notin Serving /\ "connect" \notin Serving
      /\ "exited" \notin {"recvShare", "recvRandom", "recvPk", "done"} /\ "connect" \in Calling
  BY DEF Calling, Serving
<1>3. pc'[p] = "exited" /\ \A r \in Parties : r # p => pc'[r] = pc[r]
  BY <1>1 DEF TypeOK
<1>4. AtElsewhere(TTP, TTP)
  <2>. SUFFICES ASSUME NEW r \in Players, NEW s \in Callees(r) PROVE At(r, s)' = At(r, s)
    BY DEF AtElsewhere
  <2>1. CASE r = p
    BY <1>1, <1>2, <1>3, <2>1 DEF At
  <2>2. CASE r # p
    BY <1>1, <1>3, <2>2, Sizes DEF At
  <2>. QED
    BY <2>1, <2>2
<1>5. \A r \in Players : CallsInTurn(r)'
  <2>. SUFFICES ASSUME NEW r \in Players PROVE CallsInTurn(r)'
    OBVIOUS
  <2>1. CASE r = p
    BY <1>1, <1>2, <1>3, <2>1 DEF CallsInTurn, NetKeygenInv
  <2>2. CASE r # p
    BY <1>1, <1>3, <2>2, Sizes DEF CallsInTurn, NetKeygenInv
  <2>. QED
    BY <2>1, <2>2
<1>6. \A s \in Parties : ServerInv(s)'
  <2>. SUFFICES ASSUME NEW s \in Parties PROVE ServerInv(s)'
    OBVIOUS
  <2>1. QuietAt(s)
    BY <1>1, <1>2, <1>3 DEF QuietAt
  <2>. QED
    BY <2>1, ServerSame DEF NetKeygenInv
<1>7. NoConnection
  BY <1>1 DEF NoConnection, TypeOK
<1>8. pc' \in [Parties -> Serving \cup Calling] /\ pc'[TTP] = pc[TTP] /\ pc'[1] \in Calling
  BY <1>1, <1>2, <1>3, Sizes DEF TypeOK
<1>. QED
  BY <1>1, <1>4, <1>5, <1>6, <1>7, <1>8, NoConnectionInv DEF TypeOK

LEMMA ListenInv ==
  ASSUME NetKeygenInv, NEW q \in Parties, Listen(q)
  PROVE  NetKeygenInv'
<1>1. /\ pc[q] = "listen" /\ pc' = [pc EXCEPT ![q] = "accept"]
      /\ listening' = [listening EXCEPT ![q] = TRUE]
      /\ toAccept' = [toAccept EXCEPT ![q] = IF q = TTP THEN PLAYERS ELSE q - 1]
      /\ UNCHANGED <<backlog, conn, zero, peer, hpc, tmp_shares, random_list, pk>>
      /\ TypeOK
  BY DEF Listen, OpenListener, numbers, NetKeygenInv
<1>2. "accept" \in Serving /\ "listen" \in Serving /\ "accept" \notin Calling /\ "listen" \notin Calling
  BY DEF Serving, Calling
<1>3. q # 1
  BY <1>1, <1>2 DEF TypeOK
<1>4. pc'[q] = "accept" /\ \A r \in Parties : r # q => pc'[r] = pc[r]
  BY <1>1 DEF TypeOK
<1>5. (IF q = TTP THEN PLAYERS ELSE q - 1) \in Int
  BY Sizes
<1>6. toAccept' \in [Parties -> Int] /\ toAccept'[q] = (IF q = TTP THEN PLAYERS ELSE q - 1)
      /\ \A r \in Parties : r # q => toAccept'[r] = toAccept[r]
  BY <1>1, <1>5 DEF TypeOK
<1>7. listening' \in [Parties -> BOOLEAN] /\ listening'[q] = TRUE
      /\ \A r \in Parties : r # q => listening'[r] = listening[r]
  BY <1>1 DEF TypeOK
<1>8. AtElsewhere(TTP, TTP)
  <2>. SUFFICES ASSUME NEW r \in Players, NEW s \in Callees(r) PROVE At(r, s)' = At(r, s)
    BY DEF AtElsewhere
  <2>1. CASE r = q
    BY <1>1, <1>2, <1>4, <2>1 DEF At
  <2>2. CASE r # q
    BY <1>1, <1>4, <2>2, Sizes DEF At
  <2>. QED
    BY <2>1, <2>2
<1>9. \A r \in Players : CallsInTurn(r)'
  <2>. SUFFICES ASSUME NEW r \in Players PROVE CallsInTurn(r)'
    OBVIOUS
  <2>1. CASE r = q
    <3>1. "accept" \notin {"recvShare", "recvRandom", "recvPk", "done"}
      OBVIOUS
    <3>. QED
      BY <1>2, <1>4, <2>1, <3>1 DEF CallsInTurn
  <2>2. CASE r # q
    BY <1>1, <1>4, <2>2, Sizes DEF CallsInTurn, NetKeygenInv
  <2>. QED
    BY <2>1, <2>2
<1>10. ServerInv(q)'
  <2>1. \A p \in Clients(q) : State(p, q) = "none"
    BY <1>1 DEF NetKeygenInv, ServerInv
  <2>2. NotOpen(q) = Clients(q) /\ NotOpen(q)' = NotOpen(q)
    BY <1>1, <2>1 DEF NotOpen, State
  <2>3. toAccept'[q] = Cardinality(NotOpen(q)') /\ NotOpen(q)' # {}
    BY <1>3, <1>6, <2>2, ClientsCount
  <2>4. /\ \A j \in DOMAIN backlog'[q] :
               \E p \in Clients(q) : backlog'[q][j] = Conn(p, q) /\ State(p, q)' = "waiting"
        /\ \A j, n \in DOMAIN backlog'[q] : backlog'[q][j] = backlog'[q][n] => j = n
    BY <1>1 DEF NetKeygenInv, ServerInv, State
  <2>. QED
    BY <1>2, <1>4, <1>7, <2>3, <2>4 DEF ServerInv
<1>11. \A s \in Parties : ServerInv(s)'
  <2>. SUFFICES ASSUME NEW s \in Parties, s # q PROVE ServerInv(s)'
    BY <1>10
  <2>1. QuietAt(s)
    BY <1>1, <1>4, <1>6, <1>7 DEF QuietAt
  <2>. QED
    BY <2>1, ServerSame DEF NetKeygenInv
<1>12. NoConnection
  BY <1>1 DEF NoConnection, TypeOK
<1>13. pc' \in [Parties -> Serving \cup Calling] /\ pc'[TTP] \in Serving \cup {"done"} /\ pc'[1] \in Calling
  BY <1>1, <1>2, <1>3, <1>4, Sizes DEF TypeOK
<1>. QED
  BY <1>1, <1>6, <1>7, <1>8, <1>9, <1>11, <1>12, <1>13, NoConnectionInv DEF TypeOK

LEMMA CloseInv ==
  ASSUME NetKeygenInv, NEW q \in Parties, Close(q)
  PROVE  NetKeygenInv'
<1>1. /\ pc[q] = "destroy" /\ \A c \in HandlersOf(q) : hpc[c] \in {"none", "over"}
      /\ listening' = [listening EXCEPT ![q] = FALSE]
      /\ conn' = [c \in Conns |-> IF c \in ToSet(backlog[q]) THEN [conn[c] EXCEPT !.state = "reset"] ELSE conn[c]]
      /\ backlog' = [backlog EXCEPT ![q] = <<>>]
      /\ UNCHANGED <<zero, hpc, tmp_shares, random_list, pk>>
      /\ TypeOK
  BY DEF Close, CloseListener, numbers, NetKeygenInv
<1>2. /\ "destroy" \in Serving /\ "destroy" \notin Calling /\ "done" \notin Serving /\ "connect" \notin Serving
      /\ "connect" \in Calling /\ "done" \in Calling
  BY DEF Serving, Calling
<1>3. q # 1 /\ NotOpen(q) = {}
  <2>1. ServerInv(q)
    BY DEF NetKeygenInv
  <2>2. q # 1
    BY <1>1, <1>2 DEF TypeOK
  <2>. QED
    BY <1>1, <2>1, <2>2 DEF ServerInv
<1>4. backlog[q] = <<>>
  <2>1. ASSUME NEW j \in DOMAIN backlog[q] PROVE FALSE
    BY <1>3 DEF NetKeygenInv, ServerInv, NotOpen
  <2>2. backlog[q] \in Seq(Conns)
    BY <1>1 DEF TypeOK
  <2>3. Len(backlog[q]) \in Nat /\ DOMAIN backlog[q] = 1..Len(backlog[q])
    BY <2>2, LenProperties
  <2>4. Len(backlog[q]) = 0
    BY <2>1, <2>3
  <2>. QED
    BY <2>2, <2>4, EmptySeq
<1>5. DOMAIN conn' = Conns /\ \A c \in Conns : conn'[c] = conn[c]
  <2>1. ToSet(backlog[q]) = {}
    BY <1>4 DEF ToSet
  <2>. QED
    BY <1>1, <2>1
<1>6. NoConnection
  BY <1>1, <1>5 DEF NoConnection
<1>7. backlog' \in [Parties -> Seq(Conns)] /\ backlog'[q] = <<>>
      /\ \A r \in Parties : r # q => backlog'[r] = backlog[r]
  BY <1>1 DEF TypeOK
<1>8. listening' \in [Parties -> BOOLEAN] /\ listening'[q] = FALSE
      /\ \A r \in Parties : r # q => listening'[r] = listening[r]
  BY <1>1 DEF TypeOK
<1>9. /\ pc'[q] \notin Serving /\ pc' \in [Parties -> Serving \cup Calling]
      /\ \A r \in Parties : r # q => pc'[r] = pc[r]
      /\ peer' \in [Players -> Parties] /\ \A r \in Players : r # q => peer'[r] = peer[r]
      /\ toAccept' = toAccept
      /\ q = TTP => pc'[q] = "done"
      /\ q # TTP => /\ pc'[q] = "connect" /\ peer'[q] \in Callees(q)
                    /\ peer'[q] = IF q + 1 <= PLAYERS THEN q + 1 ELSE TTP
  <2>1. CASE q = TTP
    <3>1. pc' = [pc EXCEPT ![q] = "done"] /\ peer' = peer /\ toAccept' = toAccept
      BY <2>1 DEF Close, Step
    <3>. QED
      BY <1>1, <1>2, <2>1, <3>1 DEF TypeOK
  <2>2. CASE q # TTP
    <3>1. /\ pc' = [pc EXCEPT ![q] = "connect"] /\ toAccept' = toAccept
          /\ peer' = [peer EXCEPT ![q] = IF q + 1 <= PLAYERS THEN q + 1 ELSE TTP]
          /\ q \in Players
      BY <2>2, Sizes DEF Close, ConnectNext
    <3>2. (IF q + 1 <= PLAYERS THEN q + 1 ELSE TTP) \in Callees(q)
      BY <3>1, Sizes DEF Callees
    <3>. QED
      BY <1>1, <1>2, <2>2, <3>1, <3>2, Calls DEF TypeOK
  <2>. QED
    BY <2>1, <2>2
<1>10. AtElsewhere(TTP, TTP)
  <2>. SUFFICES ASSUME NEW r \in Players, NEW s \in Callees(r) PROVE At(r, s)' = At(r, s)
    BY DEF AtElsewhere
  <2>1. CASE r = q
    <3>1. At(r, s) = "before"
      BY <1>1, <1>2, <2>1 DEF At
    <3>2. At(r, s)' = "before"
      <4>1. r \in Nat /\ r # TTP /\ pc'[r] = "connect" /\ peer'[r] = IF r + 1 <= PLAYERS THEN r + 1 ELSE TTP
        BY <1>9, <2>1, Sizes
      <4>2. s = TTP \/ (s \in Nat /\ r < s /\ s <= PLAYERS)
        BY Sizes DEF Callees
      <4>. QED
        BY <4>1, <4>2, Sizes DEF At
    <3>. QED
      BY <3>1, <3>2
  <2>2. CASE r # q
    BY <1>1, <1>9, <2>2, Sizes DEF At
  <2>. QED
    BY <2>1, <2>2
<1>11. \A r \in Players : CallsInTurn(r)'
  <2>. SUFFICES ASSUME NEW r \in Players PROVE CallsInTurn(r)'
    OBVIOUS
  <2>1. CASE r = q
    BY <1>9, <2>1, Sizes DEF CallsInTurn
  <2>2. CASE r # q
    BY <1>9, <2>2, Sizes DEF CallsInTurn, NetKeygenInv
  <2>. QED
    BY <2>1, <2>2
<1>12. ServerInv(q)'
  <2>1. NotOpen(q)' = {}
    <3>1. \A p \in Clients(q) : conn'[Conn(p, q)] = conn[Conn(p, q)]
      BY <1>5, Calls, ConnsAre
    <3>. QED
      BY <1>3, <3>1 DEF NotOpen, State
  <2>2. ASSUME NEW p \in Clients(q) PROVE hpc'[Conn(p, q)] = "over"
    <3>1. p \in Players /\ q \in Callees(p) /\ State(p, q) = "open"
      BY <1>3, Calls DEF NotOpen
    <3>2. hpc[Conn(p, q)] \in {"none", "over"}
      BY <1>1, <3>1, ConnsAre, ConnParts DEF HandlersOf
    <3>3. hpc[Conn(p, q)] # "none"
      <4>1. CASE q = TTP
        <5>1. ShardInv(p)
          BY <3>1 DEF NetKeygenInv
        <5>. QED
          BY <3>1, <4>1, <5>1 DEF ShardInv, Is, State
      <4>2. CASE q # TTP
        <5>1. PairInv(p, q)
          BY <3>1, <4>2, Sizes DEF NetKeygenInv, Callees
        <5>. QED
          BY <3>1, <5>1 DEF State, PairInv, Idle, Called, Met, ShareUp, ShareDown, RandomUp, RandomDown, Swapped, Is
      <4>. QED
        BY <4>1, <4>2
    <3>. QED
      BY <1>1, <3>2, <3>3
  <2>3. pc'[q] \notin {"listen", "accept", "destroy"}
    BY <1>9 DEF Serving
  <2>. QED
    BY <1>7, <1>8, <2>1, <2>2, <2>3 DEF ServerInv
<1>13. \A s \in Parties : ServerInv(s)'
  <2>. SUFFICES ASSUME NEW s \in Parties, s # q PROVE ServerInv(s)'
    BY <1>12
  <2>1. \A p \in Clients(s) : conn'[Conn(p, s)] = conn[Conn(p, s)]
    BY <1>5, Calls, ConnsAre
  <2>2. QuietAt(s)
    BY <1>1, <1>7, <1>8, <1>9, <2>1 DEF QuietAt
  <2>. QED
    BY <2>2, ServerSame DEF NetKeygenInv
<1>14. toAccept' \in [Parties -> Int] /\ pc'[TTP] \in Serving \cup {"done"} /\ pc'[1] \in Calling
  BY <1>1, <1>2, <1>3, <1>9, Sizes DEF TypeOK
<1>. QED
  BY <1>6, <1>7, <1>8, <1>9, <1>10, <1>11, <1>13, <1>14, NoConnectionInv

------------------------------------------------------------------------------
(* A connection is made and accepted.                                        *)

\* What a connection that is not open yet has to do with.
LEMMA NotOpenYet ==
  ASSUME NetKeygenInv, NEW p \in Players, NEW q \in Callees(p), NEW c, c = Conn(p, q)
  PROVE  /\ conn[c].state = "none" =>
                At(p, q) = "before" /\ Is(c, "none", "none", <<>>, <<>>) /\ (q # TTP => Own(p, q) /\ Own(q, p))
         /\ conn[c].state = "waiting" =>
                At(p, q) = "id" /\ Is(c, "waiting", "none", <<>>, <<>>) /\ (q # TTP => Own(p, q) /\ Own(q, p))
         /\ At(p, q) = "before" => conn[c].state = "none"
<1>1. CASE q = TTP
  <2>1. ShardInv(p)
    BY DEF NetKeygenInv
  <2>. QED
    BY <1>1, <2>1 DEF ShardInv, Is
<1>2. CASE q # TTP
  <2>1. PairInv(p, q)
    BY <1>2, Sizes DEF NetKeygenInv, Callees
  <2>. QED
    BY <1>2, <2>1 DEF PairInv, Idle, Called, Met, ShareUp, ShareDown, RandomUp, RandomDown, Swapped, Is
<1>. QED
  BY <1>1, <1>2

LEMMA DialInv ==
  ASSUME NetKeygenInv, NEW p \in Players, Dial(p)
  PROVE  NetKeygenInv'
<1>0. PICK q : q = peer[p]
  OBVIOUS
<1>1. /\ pc[p] = "connect" /\ pc[p] \in Calling /\ TypeOK
      /\ UNCHANGED <<zero, hpc, tmp_shares, random_list, pk, peer, toAccept, listening>>
      /\ pc' = [pc EXCEPT ![p] = "id"]
      /\ Connect(Me(p))
  BY DEF Dial, Step, Connect, numbers, NetKeygenInv, Calling
<1>2. PICK c : c = Conn(p, q)
  OBVIOUS
<1>3. /\ q \in Callees(p) /\ q \in Parties /\ Me(p) = c /\ c \in Conns /\ Server(c) = q
      /\ p \in Parties /\ p # q /\ (p < q \/ q = TTP) /\ p \in Clients(q)
      /\ At(p, q) = "before"
  <2>1. q \in Callees(p) /\ q \in Parties /\ Me(p) = c /\ c \in Conns /\ At(p, q) = "before"
    BY <1>0, <1>1, <1>2, Calling1
  <2>2. p \in Parties /\ p # q /\ (p < q \/ q = TTP) /\ p \in Clients(q)
    BY <2>1, Sizes, Calls DEF Callees
  <2>. QED
    BY <1>2, <2>1, <2>2, ConnParts
<1>4. /\ listening[q]
      /\ backlog' = [backlog EXCEPT ![q] = Append(backlog[q], c)]
      /\ conn' = [conn EXCEPT ![c] = [conn[c] EXCEPT !.state = "waiting"]]
  BY <1>1, <1>3 DEF Connect
<1>5. /\ conn[c] = [state |-> "none", up |-> <<>>, down |-> <<>>] /\ hpc[c] = "none"
      /\ q # TTP => Own(p, q) /\ Own(q, p)
  BY <1>2, <1>3, NotOpenYet DEF Is
<1>6. Goes(p, q, "waiting", "none", <<>>, <<>>)
  <2>1. [conn[c] EXCEPT !.state = "waiting"] = [state |-> "waiting", up |-> <<>>, down |-> <<>>]
    BY <1>5
  <2>2. hpc' = [hpc EXCEPT ![c] = "none"]
    BY <1>1, <1>2, <1>3, <1>5, Stays
  <2>. QED
    BY <1>2, <1>4, <2>1, <2>2 DEF Goes
<1>7. /\ ConnsElsewhere(p, q)
      /\ conn'[c] = [state |-> "waiting", up |-> <<>>, down |-> <<>>] /\ hpc'[c] = "none"
      /\ DOMAIN conn' = Conns /\ hpc' \in [Conns -> HandlerSteps]
  <2>1. "none" \in HandlerSteps
    BY DEF HandlerSteps
  <2>. QED
    BY <1>1, <1>2, <1>3, <1>6, <2>1, GoesTo
<1>8. "id" \in Calling /\ "id" \notin {"connect", "exited"} /\ "id" \notin Serving /\ "connect" \notin Serving
  BY DEF Calling, Serving
<1>9. AtElsewhere(p, q) /\ At(p, q)' = "id"
  BY <1>0, <1>1, <1>3, <1>8, StepAt
<1>10. pc'[p] = "id" /\ \A r \in Parties : r # p => pc'[r] = pc[r]
  BY <1>1, <1>3 DEF TypeOK
<1>11. ServerInv(q) /\ pc[q] = "accept" /\ p \in NotOpen(q) /\ State(p, q) = "none"
  <2>1. ServerInv(q) /\ p \in NotOpen(q) /\ State(p, q) = "none"
    BY <1>2, <1>3, <1>5 DEF NetKeygenInv, NotOpen, State
  <2>. QED
    BY <1>4, <2>1 DEF ServerInv
<1>12. /\ backlog[q] \in Seq(Conns) /\ backlog'[q] = Append(backlog[q], c)
       /\ backlog' \in [Parties -> Seq(Conns)]
       /\ \A r \in Parties : r # q => backlog'[r] = backlog[r]
  <2>1. backlog \in [Parties -> Seq(Conns)]
    BY <1>1 DEF TypeOK
  <2>2. Append(backlog[q], c) \in Seq(Conns)
    BY <1>3, <2>1, AppendProperties
  <2>. QED
    BY <1>3, <1>4, <2>1, <2>2
<1>13. \A r \in Clients(q) : r # p => State(r, q)' = State(r, q)
  BY <1>3, <1>7, Calls DEF ConnsElsewhere, State
<1>14. State(p, q)' = "waiting"
  BY <1>2, <1>7 DEF State
<1>15. /\ \A j \in DOMAIN backlog'[q] :
              \E r \in Clients(q) : backlog'[q][j] = Conn(r, q) /\ State(r, q)' = "waiting"
       /\ \A j, n \in DOMAIN backlog'[q] : backlog'[q][j] = backlog'[q][n] => j = n
  <2>1. /\ Len(backlog[q]) \in Nat /\ DOMAIN backlog[q] = 1..Len(backlog[q])
        /\ DOMAIN backlog'[q] = 1..(Len(backlog[q]) + 1)
        /\ \A j \in 1..Len(backlog[q]) : backlog'[q][j] = backlog[q][j]
        /\ backlog'[q][Len(backlog[q]) + 1] = c
    BY <1>3, <1>12, AppendProperties, LenProperties
  <2>2. ASSUME NEW j \in 1..Len(backlog[q])
        PROVE  /\ \E r \in Clients(q) : backlog[q][j] = Conn(r, q) /\ State(r, q)' = "waiting"
               /\ backlog[q][j] # c
    <3>1. PICK r \in Clients(q) : backlog[q][j] = Conn(r, q) /\ State(r, q) = "waiting"
      BY <1>11, <2>1 DEF ServerInv
    <3>2. r # p
      BY <1>11, <3>1
    <3>. QED
      BY <1>2, <1>13, <3>1, <3>2, ConnParts
  <2>3. \A j, n \in 1..Len(backlog[q]) : backlog[q][j] = backlog[q][n] => j = n
    BY <1>11, <2>1 DEF ServerInv
  <2>4. \A j \in DOMAIN backlog'[q] : j \in 1..Len(backlog[q]) \/ j = Len(backlog[q]) + 1
    BY <2>1
  <2>5. ASSUME NEW j \in DOMAIN backlog'[q]
        PROVE  \E r \in Clients(q) : backlog'[q][j] = Conn(r, q) /\ State(r, q)' = "waiting"
    <3>1. CASE j \in 1..Len(backlog[q])
      BY <2>1, <2>2, <3>1
    <3>2. CASE j = Len(backlog[q]) + 1
      BY <1>2, <1>3, <1>14, <2>1, <3>2
    <3>. QED
      BY <2>4, <3>1, <3>2
  <2>6. ASSUME NEW j \in DOMAIN backlog'[q], NEW n \in DOMAIN backlog'[q], backlog'[q][j] = backlog'[q][n]
        PROVE  j = n
    BY <2>1, <2>2, <2>3, <2>4, <2>6
  <2>. QED
    BY <2>5, <2>6
<1>16. ServerInv(q)'
  <2>1. \A r \in Clients(q) : State(r, q)' # "open" <=> State(r, q) # "open"
    BY <1>11, <1>13, <1>14
  <2>2. NotOpen(q)' = NotOpen(q)
    BY <2>1 DEF NotOpen
  <2>3. pc'[q] = "accept" /\ listening'[q] /\ toAccept'[q] = toAccept[q]
    BY <1>1, <1>3, <1>4, <1>10, <1>11
  <2>4. toAccept'[q] = Cardinality(NotOpen(q)') /\ NotOpen(q)' # {}
    BY <1>11, <2>2, <2>3 DEF ServerInv
  <2>5. "accept" \in Serving
    BY DEF Serving
  <2>. QED
    BY <1>15, <2>3, <2>4, <2>5 DEF ServerInv
<1>17. \A s \in Parties : ServerInv(s)'
  <2>. SUFFICES ASSUME NEW s \in Parties, s # q PROVE ServerInv(s)'
    BY <1>16
  <2>1. \A r \in Clients(s) : conn'[Conn(r, s)] = conn[Conn(r, s)] /\ hpc'[Conn(r, s)] = hpc[Conn(r, s)]
    BY <1>7, Calls DEF ConnsElsewhere
  <2>2. QuietAt(s)
    BY <1>1, <1>8, <1>10, <1>12, <2>1 DEF QuietAt
  <2>. QED
    BY <2>2, ServerSame DEF NetKeygenInv
<1>18. TypeOK'
  <2>1. pc' \in [Parties -> Serving \cup Calling] /\ pc'[TTP] = pc[TTP] /\ pc'[1] \in Calling
    BY <1>1, <1>3, <1>8, <1>10, Sizes DEF TypeOK
  <2>. QED
    BY <1>1, <1>7, <1>12, <2>1 DEF TypeOK
<1>19. \A r \in Players : CallsInTurn(r)'
  <2>. SUFFICES ASSUME NEW r \in Players PROVE CallsInTurn(r)'
    OBVIOUS
  <2>1. CASE r = p
    BY <1>0, <1>1, <1>3, <1>10, <2>1 DEF CallsInTurn
  <2>2. CASE r # p
    BY <1>1, <1>10, <2>2, Sizes DEF CallsInTurn, NetKeygenInv
  <2>. QED
    BY <2>1, <2>2
<1>20. NumbersElsewhere(p, q)
  BY <1>1 DEF NumbersElsewhere
<1>21. p \in Players /\ q = TTP => ShardInv(p)'
  BY <1>2, <1>7, <1>9 DEF ShardInv, Is
<1>22. q # TTP => PairInv(p, q)'
  <2>. SUFFICES ASSUME q # TTP PROVE Called(p, q)'
    BY DEF PairInv
  <2>. QED
    BY <1>1, <1>2, <1>5, <1>7, <1>9 DEF Called, Is, Own
<1>. QED
  BY <1>1, <1>3, <1>7, <1>9, <1>17, <1>18, <1>19, <1>20, <1>21, <1>22, InvAfter

LEMMA AcceptInv ==
  ASSUME NetKeygenInv, NEW q \in Parties, Accept(q)
  PROVE  NetKeygenInv'
<1>1. PICK c : c = Head(backlog[q])
  OBVIOUS
<1>2. /\ pc[q] = "accept" /\ TypeOK /\ ServerInv(q)
      /\ backlog[q] # <<>> /\ backlog[q] \in Seq(Conns) /\ backlog[q][1] = c /\ c \in Conns
      /\ 1 \in DOMAIN backlog[q]
  <2>1. pc[q] = "accept" /\ TypeOK /\ ServerInv(q) /\ backlog[q] # <<>> /\ backlog[q] \in Seq(Conns)
    BY DEF Accept, AcceptFirst, NetKeygenInv, TypeOK
  <2>2. Len(backlog[q]) \in Nat \ {0} /\ DOMAIN backlog[q] = 1..Len(backlog[q])
    BY <2>1, EmptySeq, LenProperties
  <2>3. backlog[q][1] = c
    BY <1>1
  <2>. QED
    BY <1>1, <2>1, <2>2, <2>3, HeadTailProperties
<1>3. PICK p \in Clients(q) : c = Conn(p, q) /\ State(p, q) = "waiting"
  BY <1>2 DEF ServerInv
<1>4. PICK step : step = IF q = TTP THEN "recvShard" ELSE "recvShare"
  OBVIOUS
<1>5. /\ conn' = [conn EXCEPT ![c] = [conn[c] EXCEPT !.state = "open"]]
      /\ backlog' = [backlog EXCEPT ![q] = Tail(backlog[q])]
      /\ hpc' = [hpc EXCEPT ![c] = step]
      /\ toAccept' = [toAccept EXCEPT ![q] = toAccept[q] - 1]
      /\ pc' = [pc EXCEPT ![q] = IF toAccept[q] = 1 THEN "destroy" ELSE "accept"]
      /\ UNCHANGED <<listening, peer, zero, tmp_shares, random_list, pk>>
  BY <1>1, <1>4 DEF Accept, AcceptFirst, Enough, numbers
<1>6. /\ p \in Players /\ q \in Callees(p) /\ p \in Parties /\ (p < q \/ q = TTP)
      /\ p # q /\ (q # TTP => q \in Players /\ p < q)
  BY Calls, Sizes DEF Callees
<1>7. /\ conn[c] = [state |-> "waiting", up |-> <<>>, down |-> <<>>] /\ hpc[c] = "none"
      /\ At(p, q) = "id" /\ (q # TTP => Own(p, q) /\ Own(q, p))
  BY <1>3, <1>6, NotOpenYet DEF Is, State
<1>8. Goes(p, q, "open", step, <<>>, <<>>)
  <2>1. [conn[c] EXCEPT !.state = "open"] = [state |-> "open", up |-> <<>>, down |-> <<>>]
    BY <1>7
  <2>. QED
    BY <1>3, <1>5, <2>1 DEF Goes
<1>9. /\ ConnsElsewhere(p, q)
      /\ conn'[c] = [state |-> "open", up |-> <<>>, down |-> <<>>] /\ hpc'[c] = step
      /\ DOMAIN conn' = Conns /\ hpc' \in [Conns -> HandlerSteps]
  BY <1>2, <1>3, <1>4, <1>6, <1>8, GoesTo DEF HandlerSteps
<1>10. /\ pc'[q] = (IF toAccept[q] = 1 THEN "destroy" ELSE "accept")
       /\ \A r \in Parties : r # q => pc'[r] = pc[r]
       /\ toAccept'[q] = toAccept[q] - 1 /\ toAccept' \in [Parties -> Int]
       /\ \A r \in Parties : r # q => toAccept'[r] = toAccept[r]
       /\ pc[q] \in Serving /\ pc'[q] \in Serving /\ pc'[q] \notin Calling /\ q # 1
       /\ pc' \in [Parties -> Serving \cup Calling]
  <2>1. /\ "accept" \in Serving /\ "destroy" \in Serving
        /\ "accept" \notin Calling /\ "destroy" \notin Calling
    BY DEF Serving, Calling
  <2>2. toAccept[q] - 1 \in Int
    BY <1>2 DEF TypeOK
  <2>. QED
    BY <1>2, <1>5, <2>1, <2>2 DEF TypeOK
<1>11. \A r \in Players : \A s \in Callees(r) : At(r, s)' = At(r, s)
  <2>. SUFFICES ASSUME NEW r \in Players, NEW s \in Callees(r) PROVE At(r, s)' = At(r, s)
    OBVIOUS
  <2>1. CASE r = q
    BY <1>10, <2>1 DEF At
  <2>2. CASE r # q
    BY <1>5, <1>10, <2>2, Sizes DEF At
  <2>. QED
    BY <2>1, <2>2
<1>12. AtElsewhere(p, q) /\ At(p, q)' = "id"
  BY <1>6, <1>7, <1>11 DEF AtElsewhere
<1>13. \A r \in Clients(q) : r # p => State(r, q)' = State(r, q)
  BY <1>9, Calls DEF ConnsElsewhere, State
<1>14. State(p, q)' = "open"
  BY <1>3, <1>9 DEF State
<1>15. /\ backlog'[q] = Tail(backlog[q]) /\ backlog' \in [Parties -> Seq(Conns)]
       /\ \A r \in Parties : r # q => backlog'[r] = backlog[r]
  BY <1>2, <1>5, HeadTailProperties DEF TypeOK
<1>16. /\ \A j \in DOMAIN backlog'[q] :
              \E r \in Clients(q) : backlog'[q][j] = Conn(r, q) /\ State(r, q)' = "waiting"
       /\ \A j, n \in DOMAIN backlog'[q] : backlog'[q][j] = backlog'[q][n] => j = n
  <2>1. /\ Len(backlog[q]) \in Nat \ {0} /\ DOMAIN backlog[q] = 1..Len(backlog[q])
        /\ DOMAIN backlog'[q] = 1..(Len(backlog[q]) - 1)
        /\ \A j \in 1..(Len(backlog[q]) - 1) : backlog'[q][j] = backlog[q][j + 1]
    BY <1>2, <1>15, EmptySeq, LenProperties, HeadTailProperties
  <2>2. \A j \in DOMAIN backlog'[q] : j + 1 \in DOMAIN backlog[q] /\ j + 1 # 1 /\ j \in Int
    BY <2>1
  <2>3. \A j, n \in DOMAIN backlog[q] : backlog[q][j] = backlog[q][n] => j = n
    BY <1>2 DEF ServerInv
  <2>4. ASSUME NEW j \in DOMAIN backlog'[q]
        PROVE  \E r \in Clients(q) : backlog'[q][j] = Conn(r, q) /\ State(r, q)' = "waiting"
    <3>1. PICK r \in Clients(q) : backlog[q][j + 1] = Conn(r, q) /\ State(r, q) = "waiting"
      BY <1>2, <2>2 DEF ServerInv
    <3>2. backlog[q][j + 1] # c
      BY <1>2, <2>2, <2>3
    <3>3. r # p
      BY <1>3, <3>1, <3>2
    <3>. QED
      BY <1>13, <2>1, <3>1, <3>3
  <2>5. ASSUME NEW j \in DOMAIN backlog'[q], NEW n \in DOMAIN backlog'[q], backlog'[q][j] = backlog'[q][n]
        PROVE  j = n
    <3>1. j + 1 = n + 1
      BY <2>1, <2>2, <2>3, <2>5
    <3>. QED
      BY <2>2, <3>1
  <2>. QED
    BY <2>4, <2>5
<1>17. ServerInv(q)'
  <2>1. toAccept[q] = Cardinality(NotOpen(q)) /\ NotOpen(q) # {} /\ p \in NotOpen(q)
    BY <1>2, <1>3 DEF ServerInv, NotOpen
  <2>2. IsFiniteSet(NotOpen(q)) /\ Cardinality(NotOpen(q)) \in Nat \ {0}
    BY <2>1, NotOpenFinite
  <2>3. NotOpen(q)' = NotOpen(q) \ {p}
    BY <1>13, <1>14 DEF NotOpen
  <2>4. IsFiniteSet(NotOpen(q)') /\ Cardinality(NotOpen(q)') = Cardinality(NotOpen(q)) - 1
    BY <2>1, <2>2, <2>3, FS_RemoveElement
  <2>5. toAccept'[q] = Cardinality(NotOpen(q)') /\ (toAccept[q] = 1 <=> NotOpen(q)' = {})
    BY <1>10, <2>1, <2>2, <2>4, FS_EmptySet
  <2>6. listening'[q]
    BY <1>2, <1>5 DEF ServerInv
  <2>7. pc'[q] \in {"accept", "destroy"} /\ (pc'[q] = "accept" <=> NotOpen(q)' # {})
    BY <1>10, <2>5
  <2>8. "accept" \in Serving /\ "destroy" \in Serving
    BY DEF Serving
  <2>. QED
    BY <1>16, <2>5, <2>6, <2>7, <2>8 DEF ServerInv
<1>18. \A s \in Parties : ServerInv(s)'
  <2>. SUFFICES ASSUME NEW s \in Parties, s # q PROVE ServerInv(s)'
    BY <1>17
  <2>1. \A r \in Clients(s) : conn'[Conn(r, s)] = conn[Conn(r, s)] /\ hpc'[Conn(r, s)] = hpc[Conn(r, s)]
    BY <1>9, Calls DEF ConnsElsewhere
  <2>2. QuietAt(s)
    BY <1>5, <1>10, <1>15, <2>1 DEF QuietAt
  <2>. QED
    BY <2>2, ServerSame DEF NetKeygenInv
<1>19. TypeOK'
  <2>1. pc'[TTP] \in Serving \cup {"done"} /\ pc'[1] \in Calling
    BY <1>2, <1>10, Sizes DEF TypeOK
  <2>. QED
    BY <1>2, <1>5, <1>9, <1>10, <1>15, <2>1 DEF TypeOK
<1>20. \A r \in Players : CallsInTurn(r)'
  <2>. SUFFICES ASSUME NEW r \in Players PROVE CallsInTurn(r)'
    OBVIOUS
  <2>1. CASE r = q
    BY <1>10, <2>1 DEF CallsInTurn, Calling
  <2>2. CASE r # q
    BY <1>5, <1>10, <2>2, Sizes DEF CallsInTurn, NetKeygenInv
  <2>. QED
    BY <2>1, <2>2
<1>21. NumbersElsewhere(p, q)
  BY <1>5 DEF NumbersElsewhere
<1>22. p \in Players /\ q = TTP => ShardInv(p)'
  BY <1>3, <1>4, <1>9, <1>12 DEF ShardInv, Is
<1>23. q # TTP => PairInv(p, q)'
  <2>. SUFFICES ASSUME q # TTP PROVE Met(p, q)'
    BY DEF PairInv
  <2>. QED
    BY <1>3, <1>4, <1>5, <1>7, <1>9, <1>12 DEF Met, Is, Own
<1>. QED
  BY <1>5, <1>6, <1>9, <1>12, <1>18, <1>19, <1>20, <1>21, <1>22, <1>23, InvAfter

------------------------------------------------------------------------------
(* The barrier and the theorems.                                             *)

\* Nobody is missing when as many as there are players have come.
LEMMA AllAtBarrier ==
  ASSUME NetKeygenInv, AtBarrier, NEW p \in Players
  PROVE  hpc[Conn(p, TTP)] = "barrier"
<1>1. PICK B : B = {c \in Conns : hpc[c] = "barrier"}
  OBVIOUS
<1>2. PICK f : f = [c \in B |-> Client(c)]
  OBVIOUS
<1>3. \A c \in B : Client(c) \in Players /\ c = Conn(Client(c), TTP) /\ hpc[c] = "barrier"
  BY <1>1, HandlerOf
<1>4. f \in Injection(B, Players)
  BY <1>2, <1>3 DEF Injection, IsInjective
<1>5. IsFiniteSet(Players) /\ Cardinality(Players) = PLAYERS
  BY Sizes, FS_Interval DEF Players
<1>6. Cardinality(B) = Cardinality(Players)
  BY <1>1, <1>5 DEF AtBarrier
<1>7. f \in Surjection(B, Players)
  BY ONLY <1>4, <1>5, <1>6, FS_Injection
<1>8. PICK c \in B : f[c] = p
  BY <1>7 DEF Surjection
<1>. QED
  BY <1>2, <1>3, <1>8

LEMMA CompletePkInv ==
  ASSUME NetKeygenInv, CompletePk
  PROVE  NetKeygenInv'
<1>1. /\ AtBarrier /\ TypeOK
      /\ pk' = [pk EXCEPT ![TTP] = {tmp_shares[TTP][p] : p \in Players}]
      /\ hpc' = [c \in Conns |-> IF hpc[c] = "barrier" THEN "sendPk" ELSE hpc[c]]
      /\ UNCHANGED <<listening, backlog, conn, zero, pc, peer, toAccept, tmp_shares, random_list>>
  BY DEF CompletePk, netVars, mainVars, NetKeygenInv
<1>2. ASSUME NEW p \in Players
      PROVE  /\ At(p, TTP) = "recvPk" /\ Is(Conn(p, TTP), "open", "barrier", <<>>, <<>>)
             /\ tmp_shares[TTP][p] = RightShard(p)
  <2>1. hpc[Conn(p, TTP)] = "barrier" /\ ShardInv(p)
    BY <1>1, AllAtBarrier DEF NetKeygenInv
  <2>. QED
    BY <2>1 DEF ShardInv, Is
<1>3. {tmp_shares[TTP][p] : p \in Players} = RightKey
  BY <1>2 DEF RightKey
<1>4. pk'[TTP] = RightKey /\ pk' \in [Parties -> {{}, RightKey}]
  BY <1>1, <1>3, Sizes DEF TypeOK
<1>5. \A p, q : At(p, q)' = At(p, q)
  BY <1>1 DEF At
<1>6. \A c \in Conns : hpc'[c] = IF hpc[c] = "barrier" THEN "sendPk" ELSE hpc[c]
  BY <1>1
<1>7. ASSUME NEW p \in Players PROVE ShardInv(p)'
  <2>1. Conn(p, TTP) \in Conns
    BY Calls, ConnsAre
  <2>2. hpc'[Conn(p, TTP)] = "sendPk" /\ conn'[Conn(p, TTP)] = [state |-> "open", up |-> <<>>, down |-> <<>>]
    BY <1>1, <1>2, <1>6, <2>1 DEF Is
  <2>3. At(p, TTP)' = "recvPk"
    BY <1>2, <1>5
  <2>. QED
    BY <1>4, <2>2, <2>3 DEF ShardInv, Is
<1>8. ASSUME NEW p \in Players, NEW q \in Players, p < q PROVE PairInv(p, q)'
  <2>1. PairInv(p, q)
    BY <1>8 DEF NetKeygenInv
  <2>2. hpc[Conn(p, q)] # "barrier" /\ Conn(p, q) \in Conns
    <3>1. Conn(p, q) \in Conns
      BY <1>8, Calls, ConnsAre
    <3>. QED
      BY <2>1, <3>1
         DEF PairInv, Idle, Called, Met, ShareUp, ShareDown, RandomUp, RandomDown, Swapped, Is
  <2>3. hpc'[Conn(p, q)] = hpc[Conn(p, q)] /\ conn'[Conn(p, q)] = conn[Conn(p, q)]
    BY <1>1, <1>6, <2>2
  <2>. QED
    BY <1>1, <1>5, <2>1, <2>3, PairSame
<1>9. ASSUME NEW q \in Parties PROVE ServerInv(q)'
  <2>1. \A p \in Clients(q) : hpc[Conn(p, q)] = "over" => hpc'[Conn(p, q)] = "over"
    BY <1>6, Calls, ConnsAre
  <2>2. QuietAt(q)
    BY <1>1, <2>1 DEF QuietAt
  <2>. QED
    BY <2>2, ServerSame DEF NetKeygenInv
<1>10. hpc' \in [Conns -> HandlerSteps]
  <2>1. "sendPk" \in HandlerSteps
    BY DEF HandlerSteps
  <2>. QED
    BY <1>1, <2>1 DEF TypeOK
<1>11. TypeOK'
  BY <1>1, <1>4, <1>10 DEF TypeOK
<1>12. \A p \in Players : CallsInTurn(p)' /\ SelfInv(p)'
  BY <1>1 DEF NetKeygenInv, CallsInTurn, SelfInv
<1>. QED
  BY <1>7, <1>8, <1>9, <1>11, <1>12 DEF NetKeygenInv

LEMMA InitInv ==
  ASSUME Init
  PROVE  NetKeygenInv
<1>1. /\ listening = [q \in Parties |-> FALSE] /\ backlog = [q \in Parties |-> <<>>]
      /\ conn = [c \in Conns |-> [state |-> "none", up |-> <<>>, down |-> <<>>]]
      /\ pc = [q \in Parties |-> IF q = 1 THEN "connect" ELSE "listen"]
      /\ peer = [p \in Players |-> 2]
      /\ toAccept = [q \in Parties |-> 0]
      /\ hpc = [c \in Conns |-> "none"]
      /\ tmp_shares = [p \in Parties |-> [q \in Players |-> IF p = TTP THEN NoShard ELSE Share(p, q)]]
      /\ random_list = [p \in Players |-> [q \in Players |-> {Random(p, q)}]]
      /\ pk = [q \in Parties |-> {}]
  BY Sizes DEF Init, NetInit
<1>2. 2 \in Players /\ 2 \in Parties /\ 2 # TTP /\ 1 \in Players /\ 1 \in Parties /\ TTP # 1
  BY Sizes
<1>3. /\ "connect" \in Calling /\ "connect" \notin Serving /\ "listen" \in Serving /\ "listen" \notin Calling
      /\ "none" \in HandlerSteps
  BY DEF Calling, Serving, HandlerSteps
<1>4. TypeOK
  <2>1. \A p, q \in Players : Random(p, q) \in Randoms
    BY DEF Randoms
  <2>2. random_list \in [Players -> [Players -> SUBSET Randoms]]
    BY <1>1, <2>1
  <2>3. backlog \in [Parties -> Seq(Conns)] /\ toAccept \in [Parties -> Int]
    BY <1>1, EmptySeq
  <2>4. DOMAIN tmp_shares = Parties /\ \A p \in Parties : DOMAIN tmp_shares[p] = Players
    BY <1>1
  <2>5. pc \in [Parties -> Serving \cup Calling] /\ pc[TTP] \in Serving \cup {"done"} /\ pc[1] \in Calling
    BY <1>1, <1>2, <1>3, Sizes
  <2>. QED
    BY <1>1, <1>2, <1>3, <2>2, <2>3, <2>4, <2>5 DEF TypeOK
<1>5. \A c \in Conns : conn[c] = [state |-> "none", up |-> <<>>, down |-> <<>>] /\ hpc[c] = "none"
  BY <1>1
<1>6. \A p \in Players : \A q \in Callees(p) :
          At(p, q) = "before" /\ Is(Conn(p, q), "none", "none", <<>>, <<>>)
  <2>. SUFFICES ASSUME NEW p \in Players, NEW q \in Callees(p)
                PROVE  At(p, q) = "before" /\ Is(Conn(p, q), "none", "none", <<>>, <<>>)
    OBVIOUS
  <2>1. Is(Conn(p, q), "none", "none", <<>>, <<>>)
    BY <1>5, ConnsAre DEF Is
  <2>2. pc[p] = IF p = 1 THEN "connect" ELSE "listen"
    BY <1>1, Sizes
  <2>3. CASE p = 1
    <3>1. pc[p] = "connect" /\ peer[p] = 2
      BY <1>1, <1>2, <2>2, <2>3
    <3>2. q = TTP \/ q = 2 \/ 2 < q
      BY <2>3, Sizes DEF Callees
    <3>. QED
      BY <1>2, <2>1, <3>1, <3>2 DEF At
  <2>4. CASE p # 1
    BY <1>3, <2>1, <2>2, <2>4 DEF At
  <2>. QED
    BY <2>3, <2>4
<1>7. \A p, q \in Players : Own(p, q)
  BY <1>1, Sizes DEF Own
<1>8. ASSUME NEW p \in Players PROVE CallsInTurn(p) /\ SelfInv(p) /\ ShardInv(p)
  <2>1. ShardInv(p)
    BY <1>6, Calls DEF ShardInv
  <2>2. SelfInv(p)
    BY <1>7 DEF Own, SelfInv
  <2>3. CallsInTurn(p)
    <3>1. pc[p] \in Calling => p = 1
      BY <1>1, <1>3, Sizes
    <3>2. 2 \in Callees(1)
      BY <1>2 DEF Callees
    <3>3. pc[p] \notin {"recvShare", "recvRandom", "recvPk", "done"}
      BY <1>1, Sizes
    <3>. QED
      BY <1>1, <1>2, <3>1, <3>2, <3>3 DEF CallsInTurn
  <2>. QED
    BY <2>1, <2>2, <2>3
<1>9. ASSUME NEW p \in Players, NEW q \in Players, p < q PROVE PairInv(p, q)
  BY <1>6, <1>7, <1>9, Calls DEF PairInv, Idle
<1>10. ASSUME NEW q \in Parties PROVE ServerInv(q)
  <2>1. \A p \in Clients(q) : State(p, q) = "none"
    BY <1>5, Calls, ConnsAre DEF State
  <2>2. backlog[q] = <<>> /\ DOMAIN backlog[q] = {} /\ ~listening[q]
    BY <1>1
  <2>3. CASE q = 1
    <3>1. pc[q] = "connect"
      BY <1>1, <2>3
    <3>2. Clients(q) = {}
      BY <1>2, <2>3, Sizes DEF Clients
    <3>. QED
      BY <2>2, <3>1, <3>2 DEF ServerInv, NotOpen
  <2>4. CASE q # 1
    <3>1. pc[q] = "listen"
      BY <1>1, <2>4
    <3>. QED
      BY <1>3, <2>1, <2>2, <3>1 DEF ServerInv
  <2>. QED
    BY <2>3, <2>4
<1>. QED
  BY <1>4, <1>8, <1>9, <1>10 DEF NetKeygenInv

LEMMA StepInv ==
  ASSUME NetKeygenInv, [Next]_vars
  PROVE  NetKeygenInv'
<1>1. CASE UNCHANGED vars
  <2>1. UNCHANGED <<listening, backlog, conn, zero, pc, peer, toAccept, hpc, tmp_shares, random_list, pk>>
    BY <1>1 DEF vars, netVars, mainVars, numbers
  <2>2. AtElsewhere(TTP, TTP) /\ NoConnection
    BY <2>1 DEF AtElsewhere, At, NoConnection, NetKeygenInv, TypeOK
  <2>3. \A r \in Players : CallsInTurn(r)'
    BY <2>1 DEF NetKeygenInv, CallsInTurn
  <2>4. \A s \in Parties : ServerInv(s)'
    <3>1. \A s \in Parties : QuietAt(s)
      BY <2>1 DEF QuietAt
    <3>. QED
      BY <3>1, ServerSame DEF NetKeygenInv
  <2>. QED
    BY <2>1, <2>2, <2>3, <2>4, NoConnectionInv DEF NetKeygenInv, TypeOK
<1>2. ASSUME NEW p \in Players, Call(p) PROVE NetKeygenInv'
  BY <1>2, DialInv, SendShareInv, RecvShareInv, RecvRandomInv, SendShardInv, RecvPkInv DEF Call
<1>3. ASSUME NEW p \in Players, GiveUp(p) PROVE NetKeygenInv'
  BY <1>3, GiveUpInv
<1>4. ASSUME NEW q \in Parties, Serve(q) PROVE NetKeygenInv'
  BY <1>4, ListenInv, AcceptInv, CloseInv DEF Serve
<1>5. CASE CompletePk
  BY <1>5, CompletePkInv
<1>6. ASSUME NEW c \in Conns, Handle(c) PROVE NetKeygenInv'
  BY <1>6, AnswerShareInv, AnswerRandomInv, RecvShardInv, SendPkInv DEF Handle
<1>. QED
  BY <1>1, <1>2, <1>3, <1>4, <1>5, <1>6, Sizes DEF Next

\* What every connection has carried so far and who can still call a listener is as
\* the invariant says, in every state.
THEOREM Connected == SafeSpec => []NetKeygenInv
  BY InitInv, StepInv, PTL DEF SafeSpec

\* No listener is closed on a caller: each counts those that have still to call it.
THEOREM NobodyReset == SafeSpec => []NoConnectionReset
<1>1. ASSUME NetKeygenInv, NEW c \in Conns PROVE conn[c].state # "reset"
  <2>1. PICK p \in Players, q \in Parties :
            /\ c = Conn(p, q)
            /\ q = TTP => ShardInv(p)
            /\ q # TTP => PairInv(p, q)
    BY <1>1, HandlerOf
  <2>2. CASE q = TTP
    BY <2>1, <2>2 DEF ShardInv, Is
  <2>3. CASE q # TTP
    BY <2>1, <2>3 DEF PairInv, Idle, Called, Met, ShareUp, ShareDown, RandomUp, RandomDown, Swapped, Is
  <2>. QED
    BY <2>2, <2>3
<1>2. NetKeygenInv => NoConnectionReset
  BY <1>1 DEF NoConnectionReset
<1>. QED
  BY <1>2, Connected, PTL

\* Where a random number is in the shards: the higher of the two adds it, the lower
\* subtracts it.
LEMMA Blinded ==
  ASSUME NEW q \in Players, NEW r \in Players, NEW p \in Players
  PROVE  /\ RightShard(p).secret = p
         /\ Random(q, r) \in RightShard(p).added <=> (p = q /\ r < q) \/ (p = r /\ q < r)
         /\ Random(q, r) \in RightShard(p).subtracted <=> (p = q /\ r > q) \/ (p = r /\ q > r)
<1>1. \A i \in Players : Random(q, r) \in Both(p, i) <=> (p = q /\ i = r) \/ (p = r /\ i = q)
  BY DEF Both, Random, Number
<1>2. Random(q, r) \in RightShard(p).added <=> \E i \in Players : i < p /\ Random(q, r) \in Both(p, i)
  BY DEF RightShard
<1>3. Random(q, r) \in RightShard(p).subtracted <=> \E i \in Players : i > p /\ Random(q, r) \in Both(p, i)
  BY DEF RightShard
<1>4. RightShard(p).secret = p
  BY DEF RightShard
<1>. QED
  BY <1>1, <1>2, <1>3, <1>4

\* In the right key every secret is once, and the blinding cancels.
LEMMA RightKeyCancels ==
  /\ {s.secret : s \in RightKey} = Players /\ Cardinality(RightKey) = PLAYERS
  /\ \A q, r \in Players : Cancels(RightKey, q, r)
<1>1. \A p \in Players : RightShard(p).secret = p
  BY DEF RightShard
<1>2. {s.secret : s \in RightKey} = Players
  BY <1>1 DEF RightKey
<1>3. Cardinality(RightKey) = PLAYERS
  <2>. DEFINE F == [p \in 1..PLAYERS |-> RightShard(p)]
  <2>1. F \in [1..PLAYERS -> RightKey] /\ \A a, b \in 1..PLAYERS : F[a] = F[b] => a = b
    BY <1>1 DEF RightKey, Players
  <2>2. \A s \in RightKey : \E p \in 1..PLAYERS : F[p] = s
    BY DEF RightKey, Players
  <2>3. F \in Bijection(1..PLAYERS, RightKey)
    <3>. HIDE DEF F
    <3>1. F \in Injection(1..PLAYERS, RightKey)
      BY <2>1 DEF Injection, IsInjective
    <3>2. F \in Surjection(1..PLAYERS, RightKey)
      BY <2>1, <2>2 DEF Surjection
    <3>. QED
      BY <3>1, <3>2 DEF Bijection
  <2>4. ExistsBijection(1..PLAYERS, RightKey)
    BY <2>3 DEF ExistsBijection
  <2>. QED
    BY <2>4, Sizes, FS_CountingElements
<1>4. ASSUME NEW q \in Players, NEW r \in Players
      PROVE  Cancels(RightKey, q, r)
  <2>1. AddedBy(RightKey, Random(q, r)) = {p \in Players : (p = q /\ r < q) \/ (p = r /\ q < r)}
    <3>1. AddedBy(RightKey, Random(q, r)) = {p \in Players : Random(q, r) \in RightShard(p).added}
      BY <1>1 DEF AddedBy, RightKey
    <3>. QED
      BY <3>1, Blinded
  <2>2. SubtractedBy(RightKey, Random(q, r)) = {p \in Players : (p = q /\ r > q) \/ (p = r /\ q > r)}
    <3>1. SubtractedBy(RightKey, Random(q, r)) = {p \in Players : Random(q, r) \in RightShard(p).subtracted}
      BY <1>1 DEF SubtractedBy, RightKey
    <3>. QED
      BY <3>1, Blinded
  <2>3. CASE q = r
    <3>1. AddedBy(RightKey, Random(q, r)) = {} /\ SubtractedBy(RightKey, Random(q, r)) = {}
      BY <2>1, <2>2, <2>3, Sizes
    <3>. QED
      BY <2>3, <3>1 DEF Cancels
  <2>4. CASE r < q
    <3>1. AddedBy(RightKey, Random(q, r)) = {q} /\ SubtractedBy(RightKey, Random(q, r)) = {r}
      BY <2>1, <2>2, <2>4, Sizes
    <3>. QED
      BY <2>4, <3>1, Sizes DEF Cancels
  <2>5. CASE q < r
    <3>1. AddedBy(RightKey, Random(q, r)) = {r} /\ SubtractedBy(RightKey, Random(q, r)) = {q}
      BY <2>1, <2>2, <2>5, Sizes
    <3>. QED
      BY <2>5, <3>1, Sizes DEF Cancels
  <2>. QED
    BY <2>3, <2>4, <2>5, Sizes
<1>. QED
  BY <1>2, <1>3, <1>4

\* A player that is done has everybody's share for it and the key that all have, in
\* which every secret is once and the blinding of every pair cancels.
THEOREM AgreeOnKey == SafeSpec => []KeyAgreed
<1>1. ASSUME NetKeygenInv, NEW p \in Players, pc[p] = "done"
      PROVE  /\ \A q \in Players : tmp_shares[p][q] = Share(q, p)
             /\ pk[p] = RightKey /\ pk[TTP] = RightKey
  <2>1. pc[p] \in Calling /\ TTP = peer[p]
    BY <1>1 DEF Calling, NetKeygenInv, CallsInTurn
  <2>2. ASSUME NEW q \in Players PROVE tmp_shares[p][q] = Share(q, p)
    <3>1. CASE q = p
      BY <1>1, <3>1 DEF NetKeygenInv, SelfInv
    <3>2. CASE q # p
      BY <1>1, <2>1, <3>2, AllSwapped DEF Full
    <3>. QED
      BY <3>1, <3>2
  <2>3. ShardInv(p) /\ At(p, TTP) = "done"
    BY <1>1, <2>1, Calling1
  <2>4. pk[p] = RightKey /\ pk[TTP] = RightKey
    BY <2>3 DEF ShardInv
  <2>. QED
    BY <2>2, <2>4
<1>2. NetKeygenInv => KeyAgreed
  BY <1>1, RightKeyCancels DEF KeyAgreed
<1>. QED
  BY <1>2, Connected, PTL
==============================================================================
