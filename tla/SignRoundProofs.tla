---------------------------- MODULE SignRoundProofs ----------------------------
(***************************************************************************)
(* Proofs about the threaded signing session, for any number of layers and *)
(* any choice of the signers.                                              *)
(***************************************************************************)
EXTENDS SignRound, FiniteSetTheorems, SequenceTheorems, TLAPS

------------------------------------------------------------------------------
(* The invariant. A signer is named by its layer, from 0 to THRESHOLD - 1;   *)
(* the TTP has the layer THRESHOLD.                                          *)

Slots == 0..(THRESHOLD - 1)

Presign == {"send_share", "recv_R", "recv_seed", "barrier", "wait"}
Signing == {"first_sign", "recv_shard", "recv_root", "bc", "send_root", "recv_final", "done"}

Fors == ForsSig(RandR, ForsSeed)

\* What a participant may find in its queue.
Data == {RandR, ForsSeed} \cup {Share(p) : p \in Players}
            \cup {Right(l) : l \in Layers} \cup {RootBelow(l) : l \in Layers}

TypeOK ==
    /\ threshold \in Ascending
    /\ pc \in [Players -> Presign \cup Signing \cup {"idle"}]
    /\ i \in [Players -> 1..THRESHOLD]
    /\ to \in [Parties -> Players]
    /\ queue \in [Parties -> Seq(Data)]
    /\ sm \in [Players -> Seq(Data \cup {Fors})]
    /\ root \in [Parties -> Data \cup {<<>>}]
    /\ ttp \in {"recv_shares", "bc_R", "bc_seed", "recv_root", "bc_top", "done"}
    /\ k \in 0..(THRESHOLD - 1)
    /\ shares \in Seq(Data)
    /\ shortSeed \in BOOLEAN
    /\ verdict \in {"none", "successful", "failed"}

\* How far the signature of layer l is: the signer has made it, has pushed it to x,
\* has passed its root on, has done all of that and receives again.
Past(l) == \/ pc[SignerOf(l)] \in {"recv_final", "done"}
           \/ pc[SignerOf(l)] = "recv_shard" /\ i[SignerOf(l)] > l
Signed(l) == IF l = THRESHOLD THEN ttp \in {"bc_top", "done"}
             ELSE Past(l) \/ pc[SignerOf(l)] \in {"bc", "send_root"}
Pushed(l, x) ==
    IF l = THRESHOLD THEN ttp = "done" \/ (ttp = "bc_top" /\ x < to[TTP])
    ELSE \/ Past(l)
         \/ pc[SignerOf(l)] = "bc" /\ x < to[SignerOf(l)]
         \/ pc[SignerOf(l)] = "send_root" /\ l # THRESHOLD - 1
SentRoot(l) == Past(l) \/ (l = THRESHOLD - 1 /\ pc[SignerOf(l)] = "bc")

\* The signature is in p's signed message or waits for p.
Present(l, p) == IF p = SignerOf(l) THEN Signed(l) ELSE Pushed(l, p)

\* The layers are signed one after the other.
InTurn ==
    /\ \A l, m \in Slots : l < m /\ Signed(m) => Past(l)
    /\ Signed(THRESHOLD) => SentRoot(THRESHOLD - 1)

\* What the TTP has broadcast to p.
SentR(p) == ttp # "recv_shares" /\ (ttp = "bc_R" => p < to[TTP])
SentSeed(p) == ttp \notin {"recv_shares", "bc_R"} /\ (ttp = "bc_seed" => p < to[TTP])

\* The barrier of logic.c:38: nobody is past it while one is before it.
Together == (\A p \in Signers : pc[p] \in Presign) \/ (\A p \in Signers : pc[p] \in Signing)

\* What p has and what waits for it stand before the barrier for R and the seed.
Presigned(p) ==
    /\ pc[p] \in {"send_share", "recv_R"} =>
           /\ sm[p] = <<>>
           /\ queue[p] = IF SentSeed(p) THEN <<RandR, ForsSeed>>
                         ELSE IF SentR(p) THEN <<RandR>> ELSE <<>>
    /\ pc[p] = "recv_seed" =>
           sm[p] = <<RandR>> /\ SentR(p) /\ queue[p] = IF SentSeed(p) THEN <<ForsSeed>> ELSE <<>>
    /\ pc[p] \in {"barrier", "wait"} => sm[p] = <<RandR, Fors>> /\ queue[p] = <<>>
    /\ pc[p] \in {"barrier", "wait"} \cup Signing => SentSeed(p)
    /\ pc[p] \in {"barrier", "wait", "first_sign"} => root[p] = RootBelow(0)

\* The counters of p, the signer of layer l, and how many parts its signed message has.
Counted(l, p) ==
    /\ pc[p] \in Presign => i[p] = 1
    /\ pc[p] = "first_sign" => l = 0 /\ i[p] = 1 /\ Len(sm[p]) = 2
    /\ pc[p] = "recv_shard" => i[p] # l + 1 /\ Len(sm[p]) = i[p] + 1
    /\ pc[p] = "recv_root" => l # 0 /\ i[p] = l /\ Len(sm[p]) = l + 2
    /\ pc[p] \in {"bc", "send_root"} =>
           /\ i[p] = IF l = 0 THEN 1 ELSE l
           /\ Len(sm[p]) = l + 3
           /\ root[p] = RootBelow(l + 1)
    /\ pc[p] = "recv_final" => Len(sm[p]) = THRESHOLD + 2
    /\ pc[p] = "done" => Len(sm[p]) = THRESHOLD + 3
    /\ pc[p] # "bc" => to[p] = 1

\* What a signer has and what waits for it: the randomizer, the FORS signature and the
\* shards of the layers that are present, layer by layer but for the last two.
Line(p) == sm[p] \o queue[p]

\* The root that the signer of layer l is to sign waits as the last message.
Rooted(l) == l > 0 /\ SentRoot(l - 1) /\ ~Signed(l)

LastTwo(p) ==
    LET a == Present(THRESHOLD - 1, p)
        b == Present(THRESHOLD, p)
    IN  /\ ~a /\ ~b => Len(Line(p)) <= THRESHOLD + 1
        /\ a /\ ~b => Len(Line(p)) = THRESHOLD + 2 /\ Line(p)[THRESHOLD + 2] = Right(THRESHOLD - 1)
        /\ ~a /\ b => Len(Line(p)) = THRESHOLD + 2 /\ Line(p)[THRESHOLD + 2] = Right(THRESHOLD)
        /\ a /\ b =>
               /\ Len(Line(p)) = THRESHOLD + 3
               /\ \/ /\ Line(p)[THRESHOLD + 2] = Right(THRESHOLD - 1)
                     /\ Line(p)[THRESHOLD + 3] = Right(THRESHOLD)
                  \/ /\ p # SignerOf(THRESHOLD - 1)
                     /\ Line(p)[THRESHOLD + 2] = Right(THRESHOLD)
                     /\ Line(p)[THRESHOLD + 3] = Right(THRESHOLD - 1)

Lined(l, p) ==
    /\ Len(Line(p)) >= 2 /\ Line(p)[1] = RandR /\ Line(p)[2] = Fors
    /\ \A m \in 0..(THRESHOLD - 2) :
           Present(m, p) => m + 3 <= Len(Line(p)) /\ Line(p)[m + 3] = Right(m)
    /\ IF Rooted(l)
       THEN Len(Line(p)) = l + 3 /\ Line(p)[l + 3] = RootBelow(l)
       ELSE /\ \A m \in 0..(THRESHOLD - 2) : ~Present(m, p) => Len(Line(p)) <= m + 2
            /\ LastTwo(p)

Elements(s) == {s[j] : j \in DOMAIN s}
Different(s) == \A j, n \in DOMAIN s : s[j] = s[n] => j = n

\* The signers whose shares the TTP has taken from its queue.
GotShare == {p \in Signers : pc[p] # "send_share" /\ Share(p) \notin Elements(queue[TTP])}

TtpState ==
    /\ Different(queue[TTP])
    /\ ttp = "recv_shares" =>
          /\ \A d \in Elements(queue[TTP]) : \E p \in Signers : pc[p] # "send_share" /\ d = Share(p)
          /\ k = Cardinality(GotShare)
          /\ Elements(shares) = {Share(p) : p \in GotShare}
    /\ ttp # "recv_shares" =>
          /\ \A p \in Signers : pc[p] # "send_share"
          /\ queue[TTP] = IF SentRoot(THRESHOLD - 1) /\ ~Signed(THRESHOLD)
                          THEN <<RootBelow(THRESHOLD)>> ELSE <<>>
          /\ key \in {"joint", "stray"} /\ (key = "stray" => shortSeed)
    /\ ttp \in {"bc_top", "done"} => top = Right(THRESHOLD)
    /\ ttp \in {"recv_shares", "recv_root", "done"} => to[TTP] = 1

VerdictRight == verdict # "none" => Joined /\ VerifiesUnlessOvertaken

SlotInv(l, p) == Counted(l, p) /\ (pc[p] \in Signing => Lined(l, p))

\* The properties are about what signers have; they rest on what waits for them, in which
\* order, and on how far every signer is.
SignInv ==
    /\ TypeOK /\ Together /\ InTurn /\ TtpState /\ VerdictRight
    /\ \A p \in Players : IF p \in Signers THEN pc[p] \in Presign \cup Signing ELSE pc[p] = "idle"
    /\ \A p \in Signers : Presigned(p)
    /\ \A l \in Slots : \A p \in Signers : p = SignerOf(l) => SlotInv(l, p)

------------------------------------------------------------------------------
(* Lemmas.                                                                   *)

LEMMA Sizes ==
  /\ THRESHOLD \in Nat /\ THRESHOLD >= 2 /\ PLAYERS = THRESHOLD + 1 /\ SPX_D = THRESHOLD + 1
  /\ Layers = 0..THRESHOLD /\ TTP = 0
  /\ Parties = Players \cup {TTP} /\ TTP \notin Players
  /\ \A p \in Players : p \in Nat /\ 1 <= p /\ p <= PLAYERS
  /\ 1 \in Players /\ PLAYERS \in Players
  BY LayersAssumption DEF PLAYERS, THRESHOLD, Layers, Parties, Players, TTP

LEMMA SlotsAre ==
  ASSUME threshold \in Ascending
  PROVE  /\ \A l \in Slots : /\ l \in Nat /\ l < THRESHOLD /\ l \in Layers
                             /\ SignerOf(l) \in Signers /\ SignerOf(l) \in Players
                             /\ SignerOf(l) = threshold[l + 1]
                             /\ Idx(SignerOf(l)) = l
         /\ \A l, m \in Slots : SignerOf(l) = SignerOf(m) => l = m
         /\ \A p \in Signers : Idx(p) \in Slots /\ SignerOf(Idx(p)) = p
         /\ Signers \subseteq Players
         /\ SignerOf(THRESHOLD) = TTP
         /\ 0 \in Slots /\ THRESHOLD - 1 \in Slots
<1>1. threshold \in [1..THRESHOLD -> Players] /\ \A a, b \in 1..THRESHOLD : a < b => threshold[a] < threshold[b]
  BY DEF Ascending
<1>2. ASSUME NEW a \in 1..THRESHOLD, NEW b \in 1..THRESHOLD, threshold[a] = threshold[b]
      PROVE  a = b
  <2>1. threshold[a] \in Nat /\ threshold[b] \in Nat
    BY <1>1, Sizes
  <2>. QED
    BY <1>1, <1>2, <2>1, Sizes
<1>3. \A l \in Slots : l \in Nat /\ l < THRESHOLD /\ l \in Layers /\ l + 1 \in 1..THRESHOLD
  BY Sizes DEF Slots
<1>4. \A l \in Slots : SignerOf(l) = threshold[l + 1] /\ SignerOf(l) \in Players /\ SignerOf(l) \in Signers
  BY <1>1, <1>3, Sizes DEF SignerOf, Signers
<1>5. ASSUME NEW p \in Signers
      PROVE  Idx(p) \in Slots /\ SignerOf(Idx(p)) = p
  <2> DEFINE a == CHOOSE j \in 1..THRESHOLD : threshold[j] = p
  <2>1. a \in 1..THRESHOLD /\ threshold[a] = p
    BY DEF Signers
  <2>2. Idx(p) = a - 1
    BY DEF Idx
  <2>. HIDE DEF a
  <2>3. Idx(p) \in Slots /\ Idx(p) + 1 = a
    BY <2>1, <2>2, Sizes DEF Slots
  <2>. QED
    BY <1>4, <2>1, <2>3
<1>6. \A l, m \in Slots : SignerOf(l) = SignerOf(m) => l = m
  BY <1>2, <1>3, <1>4
<1>7. SignerOf(THRESHOLD) = TTP /\ 0 \in Slots /\ THRESHOLD - 1 \in Slots
  BY Sizes DEF SignerOf, Slots
<1>. QED
  BY <1>1, <1>3, <1>4, <1>5, <1>6, <1>7 DEF Signers

\* The signers are chosen once.
LEMMA SignersStay ==
  ASSUME threshold' = threshold
  PROVE  /\ \A l : SignerOf(l)' = SignerOf(l) /\ Right(l)' = Right(l) /\ RootBelow(l)' = RootBelow(l)
         /\ Signers' = Signers /\ Data' = Data
         /\ \A p : Idx(p)' = Idx(p)
  BY DEF SignerOf, Right, RootBelow, Signers, Data, Idx

LEMMA DataAre ==
  /\ RandR \in Data /\ ForsSeed \in Data
  /\ \A p \in Players : Share(p) \in Data
  /\ \A l \in Layers : Right(l) \in Data /\ RootBelow(l) \in Data
  BY DEF Data

LEMMA LineIs ==
  ASSUME TypeOK, NEW p \in Players
  PROVE  /\ Len(sm[p]) \in Nat /\ Len(queue[p]) \in Nat
         /\ Len(Line(p)) = Len(sm[p]) + Len(queue[p])
         /\ \A m \in 1..Len(sm[p]) : Line(p)[m] = sm[p][m]
         /\ \A m \in 1..Len(queue[p]) : Line(p)[Len(sm[p]) + m] = queue[p][m]
         /\ Line(p) \in Seq(Data \cup {Fors})
  BY Sizes DEF TypeOK, Line

LEMMA LineGrows ==
  ASSUME NEW S, NEW s \in Seq(S), NEW q \in Seq(S), NEW d \in S
  PROVE  s \o Append(q, d) = Append(s \o q, d)
  OBVIOUS

LEMMA LineShifts ==
  ASSUME NEW S, NEW s \in Seq(S), NEW q \in Seq(S), q # <<>>
  PROVE  Append(s, Head(q)) \o Tail(q) = s \o q
  OBVIOUS

LEMMA NothingWaits ==
  ASSUME NEW S, NEW s \in Seq(S)
  PROVE  s \o <<>> = s
  OBVIOUS

LEMMA AppendEffect ==
  ASSUME NEW S, NEW s \in Seq(S), NEW d \in S
  PROVE  /\ Elements(Append(s, d)) = Elements(s) \cup {d}
         /\ Different(s) /\ d \notin Elements(s) => Different(Append(s, d))
<1> DEFINE t == Append(s, d)
<1>1. /\ Len(s) \in Nat /\ DOMAIN s = 1..Len(s) /\ DOMAIN t = 1..(Len(s) + 1)
      /\ \A j \in 1..Len(s) : t[j] = s[j]
      /\ t[Len(s) + 1] = d
  OBVIOUS
<1>. HIDE DEF t
<1>2. 1..(Len(s) + 1) = (1..Len(s)) \cup {Len(s) + 1}
  BY <1>1
<1>3. Elements(t) = Elements(s) \cup {d}
  BY <1>1, <1>2 DEF Elements
<1>4. ASSUME Different(s), d \notin Elements(s)
      PROVE  Different(t)
  BY <1>1, <1>2, <1>4 DEF Different, Elements
<1>. QED
  BY <1>3, <1>4 DEF t

LEMMA TailEffect ==
  ASSUME NEW S, NEW s \in Seq(S), s # <<>>, Different(s)
  PROVE  /\ Head(s) \in Elements(s)
         /\ Elements(Tail(s)) = Elements(s) \ {Head(s)}
         /\ Different(Tail(s))
<1> DEFINE t == Tail(s)
<1>1. /\ Len(s) \in Nat \ {0} /\ DOMAIN s = 1..Len(s) /\ DOMAIN t = 1..(Len(s) - 1)
      /\ \A j \in 1..(Len(s) - 1) : t[j] = s[j + 1]
      /\ Head(s) = s[1]
  OBVIOUS
<1>. HIDE DEF t
<1>2. \A j \in DOMAIN s : j # 1 => j - 1 \in DOMAIN t /\ t[j - 1] = s[j]
  BY <1>1
<1>3. \A j \in DOMAIN t : j + 1 \in DOMAIN s /\ j + 1 # 1 /\ t[j] = s[j + 1]
  BY <1>1
<1>4. \A j \in DOMAIN s : j # 1 => s[j] # Head(s)
  BY <1>1 DEF Different
<1>5. Head(s) \in Elements(s)
  BY <1>1 DEF Elements
<1>6. ASSUME NEW d \in Elements(t) PROVE d \in Elements(s) /\ d # Head(s)
  BY <1>3, <1>4 DEF Elements
<1>7. ASSUME NEW d \in Elements(s), d # Head(s) PROVE d \in Elements(t)
  <2>1. PICK j \in DOMAIN s : d = s[j]
    BY DEF Elements
  <2>2. j # 1
    BY <1>1, <1>7, <2>1
  <2>. QED
    BY <1>2, <2>1, <2>2 DEF Elements
<1>8. Different(t)
  <2>1. ASSUME NEW j \in DOMAIN t, NEW n \in DOMAIN t, t[j] = t[n] PROVE j = n
    <3>1. j + 1 \in DOMAIN s /\ n + 1 \in DOMAIN s /\ s[j + 1] = s[n + 1]
      BY <1>3, <2>1
    <3>2. j + 1 = n + 1
      BY <3>1 DEF Different
    <3>. QED
      BY <1>1, <3>2
  <2>. QED
    BY <2>1 DEF Different
<1>. QED
  BY <1>5, <1>6, <1>7, <1>8 DEF t

\* The effects of SendMsg and RecvMsg.
LEMMA PushEffect ==
  ASSUME TypeOK, NEW x \in Parties, NEW data \in Data, SendMsg(x, data)
  PROVE  /\ queue' \in [Parties -> Seq(Data)] /\ queue'[x] = Append(queue[x], data)
         /\ \A y \in Parties : y # x => queue'[y] = queue[y]
<1>1. queue \in [Parties -> Seq(Data)] /\ queue' = [queue EXCEPT ![x] = Append(queue[x], data)]
  BY DEF TypeOK, SendMsg
<1>2. Append(queue[x], data) \in Seq(Data)
  BY <1>1
<1>. QED
  BY <1>1, <1>2

LEMMA TakeEffect ==
  ASSUME TypeOK, NEW x \in Parties, HasMsg(x), RecvMsg(x)
  PROVE  /\ queue' \in [Parties -> Seq(Data)] /\ queue'[x] = Tail(queue[x])
         /\ \A y \in Parties : y # x => queue'[y] = queue[y]
         /\ queue[x] \in Seq(Data) /\ queue[x] # <<>>
         /\ Received(x) = Head(queue[x]) /\ Received(x) \in Data
<1>1. /\ queue \in [Parties -> Seq(Data)] /\ queue[x] # <<>>
      /\ queue' = [queue EXCEPT ![x] = Tail(queue[x])]
  BY DEF TypeOK, HasMsg, RecvMsg
<1>2. queue[x] \in Seq(Data) /\ Tail(queue[x]) \in Seq(Data) /\ Head(queue[x]) \in Data
  BY <1>1
<1>. QED
  BY <1>1, <1>2 DEF Received

\* What the invariant says of how far the signers are, in a form that is easy to use.
LEMMA Order ==
  ASSUME threshold \in Ascending, InTurn
  PROVE  /\ \A l \in Slots : /\ SentRoot(l) => Signed(l)
                             /\ Past(l) => Signed(l) /\ SentRoot(l)
                             /\ l # THRESHOLD - 1 => (SentRoot(l) <=> Past(l))
                             /\ Signed(l) => pc[SignerOf(l)] \in Signing
                             /\ \A x : (Past(l) => Pushed(l, x)) /\ (Pushed(l, x) => Signed(l))
         /\ \A l, m \in Slots : l < m /\ Signed(m) => Signed(l) /\ Past(l)
         /\ Signed(THRESHOLD) => \A l \in Slots : /\ Signed(l)
                                                  /\ l # THRESHOLD - 1 => Past(l)
         /\ \A x : Pushed(THRESHOLD, x) => Signed(THRESHOLD)
<1>1. \A l \in Slots : l \in Nat /\ l < THRESHOLD /\ l # THRESHOLD
  BY Sizes DEF Slots
<1>2. \A l \in Slots : /\ SentRoot(l) => Signed(l)
                       /\ Past(l) => Signed(l) /\ SentRoot(l)
                       /\ l # THRESHOLD - 1 => (SentRoot(l) <=> Past(l))
                       /\ Signed(l) => pc[SignerOf(l)] \in Signing
                       /\ \A x : (Past(l) => Pushed(l, x)) /\ (Pushed(l, x) => Signed(l))
  BY <1>1 DEF SentRoot, Signed, Past, Pushed, Signing
<1>3. \A l, m \in Slots : l < m /\ Signed(m) => Signed(l) /\ Past(l)
  BY <1>2 DEF InTurn
<1>4. Signed(THRESHOLD) => \A l \in Slots : /\ Signed(l)
                                            /\ l # THRESHOLD - 1 => Past(l)
  <2>1. Signed(THRESHOLD) => Signed(THRESHOLD - 1)
    BY <1>2, SlotsAre DEF InTurn
  <2>2. \A l \in Slots : l # THRESHOLD - 1 => l < THRESHOLD - 1
    BY <1>1, Sizes
  <2>. QED
    BY <1>3, <2>1, <2>2, SlotsAre
<1>5. \A x : Pushed(THRESHOLD, x) => Signed(THRESHOLD)
  BY DEF Pushed, Signed
<1>. QED
  BY <1>2, <1>3, <1>4, <1>5

\* Frame conditions.
LEMMA ProgressStays ==
  ASSUME threshold' = threshold, NEW l \in Slots,
         pc'[SignerOf(l)] = pc[SignerOf(l)], i'[SignerOf(l)] = i[SignerOf(l)],
         to'[SignerOf(l)] = to[SignerOf(l)]
  PROVE  /\ Past(l)' <=> Past(l)
         /\ Signed(l)' <=> Signed(l)
         /\ SentRoot(l)' <=> SentRoot(l)
         /\ \A x : /\ Pushed(l, x)' <=> Pushed(l, x)
                   /\ Present(l, x)' <=> Present(l, x)
<1>1. SignerOf(l)' = SignerOf(l) /\ l # THRESHOLD
  BY SignersStay, Sizes DEF Slots
<1>2. /\ Past(l)' <=> Past(l)
      /\ Signed(l)' <=> Signed(l)
      /\ SentRoot(l)' <=> SentRoot(l)
      /\ \A x : Pushed(l, x)' <=> Pushed(l, x)
  BY <1>1 DEF Past, Signed, SentRoot, Pushed
<1>. QED
  BY <1>1, <1>2 DEF Present

LEMMA TtpProgressStays ==
  ASSUME ttp' = ttp, to'[TTP] = to[TTP]
  PROVE  /\ Signed(THRESHOLD)' <=> Signed(THRESHOLD)
         /\ \A x : /\ Pushed(THRESHOLD, x)' <=> Pushed(THRESHOLD, x)
                   /\ SentR(x)' <=> SentR(x)
                   /\ SentSeed(x)' <=> SentSeed(x)
  BY DEF Signed, Pushed, SentR, SentSeed

LEMMA LinedStays ==
  ASSUME threshold' = threshold, NEW l \in Slots, NEW p, Lined(l, p), Line(p)' = Line(p),
         \A m \in Slots : Present(m, p)' <=> Present(m, p),
         Present(THRESHOLD, p)' <=> Present(THRESHOLD, p),
         Rooted(l)' <=> Rooted(l)
  PROVE  Lined(l, p)'
<1>1. \A m : Right(m)' = Right(m) /\ RootBelow(m)' = RootBelow(m) /\ SignerOf(m)' = SignerOf(m)
  BY SignersStay
<1>2. 0..(THRESHOLD - 2) \subseteq Slots /\ THRESHOLD - 1 \in Slots
  BY Sizes DEF Slots
<1>3. LastTwo(p) => LastTwo(p)'
  BY <1>1, <1>2 DEF LastTwo
<1>. QED
  BY <1>1, <1>2, <1>3 DEF Lined

LEMMA CountedStays ==
  ASSUME threshold' = threshold, NEW l, NEW p, Counted(l, p), pc'[p] = pc[p], i'[p] = i[p],
         to'[p] = to[p], sm'[p] = sm[p], root'[p] = root[p]
  PROVE  Counted(l, p)'
<1>1. RootBelow(l + 1)' = RootBelow(l + 1)
  BY SignersStay
<1>. QED
  BY <1>1 DEF Counted

LEMMA PresignedStays ==
  ASSUME threshold' = threshold, NEW p, Presigned(p), pc'[p] = pc[p], sm'[p] = sm[p],
         root'[p] = root[p], pc[p] \in Presign => queue'[p] = queue[p],
         SentR(p)' <=> SentR(p), SentSeed(p)' <=> SentSeed(p)
  PROVE  Presigned(p)'
<1>1. RootBelow(0)' = RootBelow(0)
  BY SignersStay
<1>. QED
  BY <1>1 DEF Presigned, Presign

\* No step but the verification changes the verdict, and none follows it.
LEMMA NoVerdict ==
  ASSUME VerdictRight, threshold \in Ascending, ttp # "done" \/ \E p \in Signers : pc[p] # "done"
  PROVE  verdict = "none"
  BY DEF VerdictRight, Joined

LEMMA TtpStateStays ==
  ASSUME threshold' = threshold, TtpState, queue'[TTP] = queue[TTP],
         UNCHANGED <<ttp, k, shares, key, top, shortSeed>>, to'[TTP] = to[TTP],
         \A q \in Signers : pc'[q] = "send_share" <=> pc[q] = "send_share",
         SentRoot(THRESHOLD - 1)' <=> SentRoot(THRESHOLD - 1)
  PROVE  TtpState'
<1>1. Signers' = Signers /\ Right(THRESHOLD)' = Right(THRESHOLD)
        /\ RootBelow(THRESHOLD)' = RootBelow(THRESHOLD)
  BY SignersStay
<1>2. Elements(queue[TTP])' = Elements(queue[TTP]) /\ Elements(shares)' = Elements(shares)
         /\ Different(queue[TTP])' = Different(queue[TTP])
  BY DEF Elements, Different
<1>3. GotShare' = GotShare
  BY <1>1, <1>2 DEF GotShare
<1>4. Signed(THRESHOLD)' <=> Signed(THRESHOLD)
  BY DEF Signed
<1>. QED
  BY <1>1, <1>2, <1>3, <1>4 DEF TtpState

------------------------------------------------------------------------------
(* The presigning round.                                                     *)

LEMMA PresignMove ==
  ASSUME SignInv, NEW p \in Signers, pc[p] \in Presign, NEW next \in Presign,
         pc' = [pc EXCEPT ![p] = next], UNCHANGED <<threshold, i, to, ttp, verdict>>,
         TypeOK', TtpState', Presigned(p)',
         \A q \in Signers \ {p} : sm'[q] = sm[q] /\ queue'[q] = queue[q] /\ root'[q] = root[q]
  PROVE  SignInv'
<1>1. /\ TypeOK /\ Together /\ InTurn /\ VerdictRight /\ threshold \in Ascending
      /\ \A q \in Signers : Presigned(q)
      /\ \A l \in Slots : \A q \in Signers : q = SignerOf(l) => SlotInv(l, q)
  BY DEF SignInv, TypeOK
<1>2. /\ Signers \subseteq Players /\ Signers' = Signers
      /\ \A l \in Slots : SignerOf(l) \in Signers /\ SignerOf(l)' = SignerOf(l)
  BY <1>1, SlotsAre, SignersStay
<1>3. /\ pc'[p] = next /\ \A q \in Signers \ {p} : pc'[q] = pc[q]
      /\ \A q \in Signers : pc[q] \in Presign /\ pc'[q] \in Presign
  <2>1. \A q \in Signers : pc[q] \in Presign
    BY <1>1 DEF Together, Presign, Signing
  <2>. QED
    BY <1>1, <1>2, <2>1 DEF TypeOK
<1>4. \A l \in Slots : /\ ~Past(l)' /\ ~Signed(l)' /\ ~SentRoot(l)' /\ ~Signed(l)
  BY <1>2, <1>3, Sizes DEF Past, Signed, SentRoot, Presign, Slots
<1>5. ~Signed(THRESHOLD)'
  <2>1. ~Signed(THRESHOLD)
    BY <1>1, <1>4, Order, SlotsAre
  <2>. QED
    BY <2>1, TtpProgressStays
<1>6. Together' /\ InTurn'
  BY <1>2, <1>3, <1>4, <1>5 DEF Together, InTurn
<1>7. VerdictRight'
  <2>1. verdict = "none"
    BY <1>1, NoVerdict DEF Presign
  <2>. QED
    BY <2>1 DEF VerdictRight
<1>8. \A q \in Signers : Presigned(q)'
  <2>1. ASSUME NEW q \in Signers \ {p} PROVE Presigned(q)'
    BY <1>1, <1>3, PresignedStays, TtpProgressStays
  <2>. QED
    BY <2>1
<1>9. ASSUME NEW l \in Slots, NEW q \in Signers, q = SignerOf(l)
      PROVE  SlotInv(l, q)'
  <2>1. Counted(l, q)
    BY <1>1, <1>9 DEF SlotInv
  <2>2. Counted(l, q)'
    BY <1>3, <2>1 DEF Counted, Presign
  <2>. QED
    BY <1>3, <2>2 DEF SlotInv, Presign, Signing
<1>10. \A q \in Players : IF q \in Signers' THEN pc'[q] \in Presign \cup Signing ELSE pc'[q] = "idle"
  BY <1>1, <1>2, <1>3 DEF SignInv, TypeOK
<1>. QED
  BY <1>2, <1>6, <1>7, <1>8, <1>9, <1>10 DEF SignInv

LEMMA SendShareStep ==
  ASSUME SignInv, NEW p \in Signers, SendShare(p)
  PROVE  SignInv'
<1>. USE Sizes
<1>1. /\ TypeOK /\ TtpState /\ threshold \in Ascending /\ InTurn /\ Together
      /\ \A q \in Signers : Presigned(q)
  BY DEF SignInv, TypeOK
<1>2. /\ pc[p] = "send_share" /\ SendMsg(TTP, Share(p))
      /\ pc' = [pc EXCEPT ![p] = "recv_R"]
      /\ UNCHANGED <<threshold, i, to, sm, root, ttp, k, shares, key, top, shortSeed, verdict>>
  BY DEF SendShare, Goto, ttpVars
<1>3. p \in Players /\ Signers \subseteq Players /\ Signers' = Signers
  BY <1>1, <1>2, SlotsAre, SignersStay
<1>4. /\ queue' \in [Parties -> Seq(Data)] /\ queue'[TTP] = Append(queue[TTP], Share(p))
      /\ \A y \in Players : queue'[y] = queue[y]
  <2>1. TTP \in Parties /\ Share(p) \in Data
    BY <1>3, DataAre
  <2>2. TypeOK /\ SendMsg(TTP, Share(p))
    BY <1>1, <1>2
  <2>3. /\ queue' \in [Parties -> Seq(Data)] /\ queue'[TTP] = Append(queue[TTP], Share(p))
        /\ \A y \in Parties : y # TTP => queue'[y] = queue[y]
    BY ONLY <2>1, <2>2, PushEffect
  <2>. QED
    BY <2>3
<1>5. TypeOK'
  BY <1>1, <1>2, <1>3, <1>4, SignersStay DEF TypeOK, Presign
<1>6. ttp = "recv_shares"
  BY <1>1, <1>2 DEF TtpState
<1>7. Share(p) \notin Elements(queue[TTP])
  <2>1. \A q \in Signers : pc[q] # "send_share" => Share(q) # Share(p)
    BY <1>2 DEF Share
  <2>. QED
    BY <1>1, <1>6, <2>1 DEF TtpState
<1>8. /\ Elements(queue[TTP])' = Elements(queue[TTP]) \cup {Share(p)}
      /\ Different(queue[TTP])'
  <2>1. queue[TTP] \in Seq(Data) /\ Share(p) \in Data
    BY <1>1, <1>3, DataAre DEF TypeOK
  <2>2. Different(queue[TTP])
    BY <1>1 DEF TtpState
  <2>3. /\ Elements(Append(queue[TTP], Share(p))) = Elements(queue[TTP]) \cup {Share(p)}
        /\ Different(Append(queue[TTP], Share(p)))
    BY ONLY <1>7, <2>1, <2>2, AppendEffect
  <2>. QED
    BY <1>4, <2>3
<1>9. GotShare' = GotShare
  <2>1. \A q \in Signers : q # p => pc'[q] = pc[q] /\ Share(q) # Share(p)
    BY <1>1, <1>2, <1>3 DEF TypeOK, Share
  <2>. QED
    BY <1>2, <1>3, <1>8, <2>1 DEF GotShare
<1>10. TtpState'
  <2>1. \A d \in Elements(queue[TTP])' : \E q \in Signers : pc'[q] # "send_share" /\ d = Share(q)
    <3>1. \A q \in Signers : pc[q] # "send_share" => pc'[q] # "send_share"
      BY <1>1, <1>2, <1>3 DEF TypeOK
    <3>2. pc'[p] # "send_share"
      BY <1>1, <1>2, <1>3 DEF TypeOK
    <3>. QED
      BY <1>1, <1>6, <1>8, <3>1, <3>2 DEF TtpState
  <2>2. ttp' = "recv_shares" /\ to'[TTP] = 1 /\ k' = Cardinality(GotShare')
           /\ Elements(shares)' = {Share(q) : q \in GotShare'}
    <3>1. Elements(shares)' = Elements(shares)
      BY <1>2
    <3>. QED
      BY <1>1, <1>2, <1>6, <1>9, <3>1 DEF TtpState
  <2>. QED
    BY <1>3, <1>8, <2>1, <2>2 DEF TtpState
<1>11. Presigned(p)'
  <2>1. SentR(p)' <=> SentR(p)
    BY <1>2, TtpProgressStays
  <2>2. SentSeed(p)' <=> SentSeed(p)
    BY <1>2, TtpProgressStays
  <2>3. pc'[p] = "recv_R" /\ sm'[p] = sm[p] /\ queue'[p] = queue[p]
    BY <1>1, <1>2, <1>3, <1>4 DEF TypeOK
  <2>. QED
    BY <1>1, <1>2, <2>1, <2>2, <2>3 DEF Presigned, Signing
<1>12. \A q \in Signers \ {p} : sm'[q] = sm[q] /\ queue'[q] = queue[q] /\ root'[q] = root[q]
  BY <1>2, <1>3, <1>4
<1>. QED
  BY <1>2, <1>5, <1>10, <1>11, <1>12, PresignMove DEF Presign

LEMMA RecvRStep ==
  ASSUME SignInv, NEW p \in Signers, RecvR(p)
  PROVE  SignInv'
<1>. USE Sizes
<1>1. /\ TypeOK /\ TtpState /\ threshold \in Ascending /\ Presigned(p)
  BY DEF SignInv, TypeOK
<1>2. /\ pc[p] = "recv_R" /\ HasMsg(p) /\ RecvMsg(p)
      /\ sm' = [sm EXCEPT ![p] = <<Received(p)>>]
      /\ pc' = [pc EXCEPT ![p] = "recv_seed"]
      /\ UNCHANGED <<threshold, i, to, root, ttp, k, shares, key, top, shortSeed, verdict>>
  BY DEF RecvR, Goto, ttpVars
<1>3. p \in Players /\ p \in Parties /\ p # TTP /\ Signers \subseteq Players
  BY <1>1, SlotsAre
<1>4. /\ queue' \in [Parties -> Seq(Data)] /\ queue'[p] = Tail(queue[p])
      /\ \A y \in Parties : y # p => queue'[y] = queue[y]
      /\ queue[p] # <<>> /\ Received(p) = Head(queue[p]) /\ Received(p) \in Data
  BY <1>1, <1>2, <1>3, TakeEffect
<1>5. /\ SentR(p) /\ Received(p) = RandR
      /\ queue'[p] = IF SentSeed(p) THEN <<ForsSeed>> ELSE <<>>
  <2>1. queue[p] = IF SentSeed(p) THEN <<RandR, ForsSeed>> ELSE IF SentR(p) THEN <<RandR>> ELSE <<>>
    BY <1>1, <1>2 DEF Presigned
  <2>2. CASE SentSeed(p)
    <3>1. SentR(p)
      BY <2>2 DEF SentR, SentSeed
    <3>. QED
      BY <1>4, <2>1, <2>2, <3>1
  <2>3. CASE ~SentSeed(p)
    BY <1>4, <2>1, <2>3
  <2>. QED
    BY <2>2, <2>3
<1>6. sm' \in [Players -> Seq(Data \cup {Fors})] /\ sm'[p] = <<RandR>>
        /\ \A y \in Players : y # p => sm'[y] = sm[y]
  <2>1. <<Received(p)>> \in Seq(Data \cup {Fors})
    BY <1>4
  <2>. QED
    BY <1>1, <1>2, <1>3, <1>5, <2>1 DEF TypeOK
<1>7. TypeOK'
  BY <1>1, <1>2, <1>3, <1>4, <1>6, SignersStay DEF TypeOK, Presign
<1>8. pc'[p] = "recv_seed" /\ \A q \in Signers : q # p => pc'[q] = pc[q]
  BY <1>1, <1>2, <1>3 DEF TypeOK
<1>9. SentRoot(THRESHOLD - 1)' <=> SentRoot(THRESHOLD - 1)
  <2>1. SignerOf(THRESHOLD - 1)' = SignerOf(THRESHOLD - 1) /\ SignerOf(THRESHOLD - 1) \in Signers
    BY <1>1, <1>2, SlotsAre, SignersStay
  <2>. QED
    BY <1>2, <1>8, <2>1 DEF SentRoot, Past
<1>10. TtpState'
  BY <1>1, <1>2, <1>3, <1>4, <1>8, <1>9, TtpStateStays
<1>11. Presigned(p)'
  <2>1. SentR(p)' <=> SentR(p)
    BY <1>2, TtpProgressStays
  <2>2. SentSeed(p)' <=> SentSeed(p)
    BY <1>2, TtpProgressStays
  <2>. QED
    BY <1>5, <1>6, <1>8, <2>1, <2>2 DEF Presigned, Signing
<1>12. \A q \in Signers \ {p} : sm'[q] = sm[q] /\ queue'[q] = queue[q] /\ root'[q] = root[q]
  BY <1>2, <1>3, <1>4, <1>6
<1>. QED
  BY <1>2, <1>7, <1>10, <1>11, <1>12, PresignMove DEF Presign

LEMMA RecvSeedStep ==
  ASSUME SignInv, NEW p \in Signers, RecvSeed(p)
  PROVE  SignInv'
<1>. USE Sizes
<1>1. /\ TypeOK /\ TtpState /\ threshold \in Ascending /\ Presigned(p)
  BY DEF SignInv, TypeOK
<1>2. /\ pc[p] = "recv_seed" /\ HasMsg(p) /\ RecvMsg(p)
      /\ sm' = [sm EXCEPT ![p] = <<sm[p][1], ForsSig(sm[p][1], Received(p))>>]
      /\ root' = [root EXCEPT ![p] = ForsRoot(sm[p][1], Received(p))]
      /\ pc' = [pc EXCEPT ![p] = "barrier"]
      /\ UNCHANGED <<threshold, i, to, ttp, k, shares, key, top, shortSeed, verdict>>
  BY DEF RecvSeed, Goto, ttpVars
<1>3. p \in Players /\ p \in Parties /\ p # TTP /\ Signers \subseteq Players
  BY <1>1, SlotsAre
<1>4. /\ queue' \in [Parties -> Seq(Data)] /\ queue'[p] = Tail(queue[p])
      /\ \A y \in Parties : y # p => queue'[y] = queue[y]
      /\ queue[p] # <<>> /\ Received(p) = Head(queue[p]) /\ Received(p) \in Data
  BY <1>1, <1>2, <1>3, TakeEffect
<1>5. /\ SentSeed(p) /\ Received(p) = ForsSeed /\ queue'[p] = <<>>
      /\ sm[p][1] = RandR
  <2>1. sm[p] = <<RandR>> /\ queue[p] = IF SentSeed(p) THEN <<ForsSeed>> ELSE <<>>
    BY <1>1, <1>2 DEF Presigned
  <2>. QED
    BY <1>4, <2>1
<1>6. RootBelow(0) \in Data /\ ForsRoot(sm[p][1], Received(p)) = RootBelow(0)
        /\ ForsSig(sm[p][1], Received(p)) = Fors
  BY <1>5, DataAre DEF RootBelow, Fors
<1>7. sm' \in [Players -> Seq(Data \cup {Fors})] /\ sm'[p] = <<RandR, Fors>>
        /\ \A y \in Players : y # p => sm'[y] = sm[y]
  <2>1. <<RandR, Fors>> \in Seq(Data \cup {Fors})
    BY DataAre
  <2>. QED
    BY <1>1, <1>2, <1>3, <1>5, <1>6, <2>1 DEF TypeOK
<1>8. root' \in [Parties -> Data \cup {<<>>}] /\ root'[p] = RootBelow(0)
        /\ \A y \in Parties : y # p => root'[y] = root[y]
  BY <1>1, <1>2, <1>3, <1>6 DEF TypeOK
<1>9. TypeOK'
  BY <1>1, <1>2, <1>3, <1>4, <1>7, <1>8, SignersStay DEF TypeOK, Presign
<1>10. pc'[p] = "barrier" /\ \A q \in Signers : q # p => pc'[q] = pc[q]
  BY <1>1, <1>2, <1>3 DEF TypeOK
<1>11. SentRoot(THRESHOLD - 1)' <=> SentRoot(THRESHOLD - 1)
  <2>1. SignerOf(THRESHOLD - 1)' = SignerOf(THRESHOLD - 1) /\ SignerOf(THRESHOLD - 1) \in Signers
    BY <1>1, <1>2, SlotsAre, SignersStay
  <2>. QED
    BY <1>2, <1>10, <2>1 DEF SentRoot, Past
<1>12. TtpState'
  BY <1>1, <1>2, <1>3, <1>4, <1>10, <1>11, TtpStateStays
<1>13. Presigned(p)'
  <2>1. SentSeed(p)' <=> SentSeed(p)
    BY <1>2, TtpProgressStays
  <2>2. RootBelow(0)' = RootBelow(0)
    BY <1>2, SignersStay
  <2>. QED
    BY <1>5, <1>7, <1>8, <1>10, <2>1, <2>2 DEF Presigned, Signing
<1>14. \A q \in Signers \ {p} : sm'[q] = sm[q] /\ queue'[q] = queue[q] /\ root'[q] = root[q]
  BY <1>3, <1>4, <1>7, <1>8
<1>. QED
  BY <1>2, <1>9, <1>12, <1>13, <1>14, PresignMove DEF Presign

\* There are THRESHOLD signers.
LEMMA SignersCount ==
  ASSUME threshold \in Ascending
  PROVE  IsFiniteSet(Signers) /\ Cardinality(Signers) = THRESHOLD
<1>1. threshold \in [1..THRESHOLD -> Players] /\ \A a, b \in 1..THRESHOLD : a < b => threshold[a] < threshold[b]
  BY DEF Ascending
<1>2. ASSUME NEW a \in 1..THRESHOLD, NEW b \in 1..THRESHOLD, threshold[a] = threshold[b]
      PROVE  a = b
  <2>1. threshold[a] \in Nat /\ threshold[b] \in Nat
    BY <1>1, Sizes
  <2>. QED
    BY <1>1, <1>2, <2>1, Sizes
<1>3. threshold \in Bijection(1..THRESHOLD, Signers)
  <2>1. threshold \in Injection(1..THRESHOLD, Signers)
    BY <1>1, <1>2 DEF Injection, IsInjective, Signers
  <2>2. threshold \in Surjection(1..THRESHOLD, Signers)
    BY <1>1 DEF Surjection, Signers
  <2>. QED
    BY <2>1, <2>2 DEF Bijection
<1>4. IsFiniteSet(1..THRESHOLD) /\ Cardinality(1..THRESHOLD) = THRESHOLD
  BY Sizes, FS_Interval
<1>. QED
  BY <1>3, <1>4, FS_Bijection DEF ExistsBijection

\* A set of THRESHOLD signers is all of them.
LEMMA AllSigners ==
  ASSUME threshold \in Ascending, NEW G \in SUBSET Signers, Cardinality(G) >= THRESHOLD
  PROVE  G = Signers
<1>1. IsFiniteSet(Signers) /\ Cardinality(Signers) = THRESHOLD
  BY SignersCount
<1>2. Cardinality(G) \in Nat /\ Cardinality(G) <= THRESHOLD /\ (Cardinality(G) = THRESHOLD => G = Signers)
  BY <1>1, FS_Subset, FS_CardinalityType
<1>. QED
  BY <1>2, Sizes

LEMMA BarrierStep ==
  ASSUME SignInv, NEW p \in Signers, BarrierWait(p)
  PROVE  SignInv'
<1>. USE Sizes
<1> DEFINE arrived == {q \in Players : pc[q] = "wait"} \cup {p}
<1>1. /\ TypeOK /\ TtpState /\ threshold \in Ascending /\ InTurn /\ Together /\ VerdictRight
      /\ \A q \in Signers : Presigned(q)
      /\ \A l \in Slots : \A q \in Signers : q = SignerOf(l) => SlotInv(l, q)
  BY DEF SignInv, TypeOK
<1>2. /\ pc[p] = "barrier"
      /\ pc' = IF Cardinality(arrived) < THRESHOLD
               THEN [pc EXCEPT ![p] = "wait"]
               ELSE [q \in Players |-> IF q \in arrived THEN Begin(q) ELSE pc[q]]
      /\ UNCHANGED <<threshold, i, to, queue, sm, root, ttp, k, shares, key, top, shortSeed, verdict>>
  BY DEF BarrierWait, ttpVars
<1>3. p \in Players /\ Signers \subseteq Players /\ Signers' = Signers /\ Data' = Data
  BY <1>1, <1>2, SlotsAre, SignersStay
<1>4. \A q \in Signers : /\ SentSeed(q)' <=> SentSeed(q)
                         /\ SentR(q)' <=> SentR(q)
  BY <1>2, TtpProgressStays
<1>5. \A q \in Signers : pc[q] \in Presign
  BY <1>1, <1>2 DEF Together, Presign, Signing
<1>6. verdict = "none"
  BY <1>1, <1>2, NoVerdict
<1>7. \A l \in Slots : /\ SignerOf(l)' = SignerOf(l) /\ SignerOf(l) \in Signers
                       /\ l \in Nat /\ l # THRESHOLD
                       /\ ~Signed(l) /\ ~SentRoot(l)
  <2>1. ASSUME NEW l \in Slots PROVE ~Signed(l) /\ ~SentRoot(l)
    BY <1>1, <1>5, Order, SlotsAre DEF Presign, Signing
  <2>. QED
    BY <1>1, <1>2, <2>1, SlotsAre, SignersStay DEF Slots
<1>8. CASE Cardinality(arrived) < THRESHOLD
  <2>1. pc' = [pc EXCEPT ![p] = "wait"]
    BY <1>2, <1>8
  <2>2. pc'[p] = "wait" /\ \A q \in Signers : q # p => pc'[q] = pc[q]
    BY <1>1, <1>3, <2>1 DEF TypeOK
  <2>3. TypeOK'
    BY <1>1, <1>2, <1>3, <2>1 DEF TypeOK, Presign
  <2>4. SentRoot(THRESHOLD - 1)' <=> SentRoot(THRESHOLD - 1)
    <3>1. SignerOf(THRESHOLD - 1) \in Signers /\ SignerOf(THRESHOLD - 1)' = SignerOf(THRESHOLD - 1)
      BY <1>1, <1>7, SlotsAre
    <3>. QED
      BY <1>2, <2>2, <3>1 DEF SentRoot, Past
  <2>5. TtpState'
    BY <1>1, <1>2, <2>2, <2>4, TtpStateStays
  <2>6. Presigned(p)
    BY <1>1
  <2>7. RootBelow(0)' = RootBelow(0)
    BY <1>2, SignersStay
  <2>8. Presigned(p)'
    BY <1>2, <1>4, <2>2, <2>6, <2>7 DEF Presigned
  <2>. QED
    BY <1>2, <1>5, <2>1, <2>3, <2>5, <2>8, PresignMove DEF Presign
<1>9. CASE ~(Cardinality(arrived) < THRESHOLD)
  <2>1. arrived = Signers
    <3>1. arrived \subseteq Signers
      BY DEF SignInv
    <3>2. Cardinality(arrived) \in Nat
      BY <1>1, <3>1, SignersCount, FS_Subset, FS_CardinalityType
    <3>. QED
      BY <1>1, <1>9, <3>1, <3>2, AllSigners
  <2>2. /\ \A q \in Signers : pc[q] \in {"barrier", "wait"} /\ pc'[q] = Begin(q)
        /\ \A q \in Players : q \notin Signers => pc'[q] = pc[q]
        /\ pc' = [q \in Players |-> IF q \in Signers THEN Begin(q) ELSE pc[q]]
    BY <1>2, <1>3, <1>9, <2>1
  <2>3. \A q \in Signers : /\ pc'[q] \in {"first_sign", "recv_shard"}
                            /\ sm[q] = <<RandR, Fors>> /\ queue[q] = <<>>
                            /\ root[q] = RootBelow(0) /\ SentSeed(q)
    BY <1>1, <2>2 DEF Presigned, Begin
  <2>4. ASSUME NEW l \in Slots, NEW q \in Signers, q = SignerOf(l)
        PROVE  /\ i[q] = 1 /\ to[q] = 1
               /\ pc'[q] = IF l = 0 THEN "first_sign" ELSE "recv_shard"
    <3>1. i[q] = 1 /\ to[q] = 1
      BY <1>1, <2>2, <2>4 DEF SlotInv, Counted, Presign
    <3>2. Idx(q) = l
      BY <1>1, <2>4, SlotsAre
    <3>. QED
      BY <2>2, <3>1, <3>2 DEF Begin
  <2>5. \A l \in Slots : ~Signed(l)' /\ ~SentRoot(l)' /\ ~Past(l)' /\ \A x : ~Pushed(l, x)'
    <3>1. ASSUME NEW l \in Slots, NEW q \in Signers, q = SignerOf(l)
          PROVE  ~Signed(l)' /\ ~SentRoot(l)' /\ ~Past(l)' /\ \A x : ~Pushed(l, x)'
      <4>1. SignerOf(l)' = q /\ i'[q] = 1 /\ pc'[q] = (IF l = 0 THEN "first_sign" ELSE "recv_shard") /\ l \in Nat /\ l # THRESHOLD
        BY <1>2, <1>7, <2>4, <3>1
      <4>2. ~Past(l)'
        BY <4>1 DEF Past
      <4>. QED
        BY <4>1, <4>2 DEF Signed, SentRoot, Pushed
    <3>. QED
      BY <1>7, <3>1
  <2>6. ~Signed(THRESHOLD)' /\ \A x : ~Pushed(THRESHOLD, x)'
    <3>1. ~Signed(THRESHOLD)
      BY <1>1, <1>7, Order, SlotsAre
    <3>2. \A x : ~Pushed(THRESHOLD, x)
      BY <1>1, <3>1, Order
    <3>. QED
      BY <1>2, <3>1, <3>2, TtpProgressStays
  <2>7. TypeOK'
    <3>1. pc' \in [Players -> Presign \cup Signing \cup {"idle"}]
      BY <1>1, <2>2, <2>3 DEF TypeOK, Presign, Signing
    <3>. QED
      BY <1>1, <1>2, <1>3, <3>1 DEF TypeOK
  <2>8. TtpState'
    <3>1. SentRoot(THRESHOLD - 1)' <=> SentRoot(THRESHOLD - 1)
      BY <1>1, <1>7, <2>5, SlotsAre
    <3>2. \A q \in Signers : pc'[q] = "send_share" <=> pc[q] = "send_share"
      BY <2>2, <2>3
    <3>. QED
      BY <1>1, <1>2, <3>1, <3>2, TtpStateStays
  <2>9. Together' /\ InTurn' /\ VerdictRight'
    BY <1>2, <1>3, <1>6, <2>3, <2>5, <2>6 DEF Together, Signing, InTurn, VerdictRight
  <2>10. \A q \in Signers : Presigned(q)'
    <3>1. RootBelow(0)' = RootBelow(0)
      BY <1>2, SignersStay
    <3>. QED
      BY <1>2, <1>4, <2>3, <3>1 DEF Presigned
  <2>11. ASSUME NEW l \in Slots, NEW q \in Signers, q = SignerOf(l)
         PROVE  SlotInv(l, q)'
    <3>1. /\ i'[q] = 1 /\ to'[q] = 1 /\ sm'[q] = <<RandR, Fors>> /\ l \in Nat
          /\ pc'[q] = IF l = 0 THEN "first_sign" ELSE "recv_shard"
      BY <1>2, <1>7, <2>3, <2>4, <2>11
    <3>2. Counted(l, q)'
      BY <3>1 DEF Counted, Presign
    <3>3. Line(q)' = <<RandR, Fors>>
      <4>1. <<RandR, Fors>> \in Seq({RandR, Fors})
        OBVIOUS
      <4>2. sm'[q] = <<RandR, Fors>> /\ queue'[q] = <<>>
        BY <1>2, <2>3
      <4>. QED
        BY ONLY <4>1, <4>2, NothingWaits DEF Line
    <3>4. ~Rooted(l)'
      <4>1. l > 0 => l - 1 \in Slots
        BY DEF Slots
      <4>. QED
        BY <2>5, <4>1 DEF Rooted
    <3>5. \A m \in 0..THRESHOLD : ~Present(m, q)'
      <4>1. \A m \in 0..THRESHOLD : m \in Slots \/ m = THRESHOLD
        BY DEF Slots
      <4>. QED
        BY <2>5, <2>6, <4>1 DEF Present
    <3>6. LastTwo(q)'
      BY <3>3, <3>5 DEF LastTwo
    <3>7. /\ Len(Line(q)') = 2 /\ Line(q)'[1] = RandR /\ Line(q)'[2] = Fors
      BY <3>3
    <3>8. Lined(l, q)'
      BY <3>4, <3>5, <3>6, <3>7 DEF Lined
    <3>. QED
      BY <3>2, <3>8 DEF SlotInv
  <2>12. \A q \in Players : IF q \in Signers' THEN pc'[q] \in Presign \cup Signing ELSE pc'[q] = "idle"
    BY <1>3, <2>2, <2>3 DEF SignInv, Signing
  <2>13. \A l \in Slots : \A q \in Signers' : q = SignerOf(l)' => SlotInv(l, q)'
    BY <1>3, <1>7, <2>11
  <2>. QED
    BY <1>3, <2>7, <2>8, <2>9, <2>10, <2>12, <2>13 DEF SignInv
<1>. QED
  BY <1>8, <1>9

------------------------------------------------------------------------------
(* The signing round.                                                        *)

\* A step of player p leaves the others and the TTP what they are.
OnlyMoves(p) ==
    /\ UNCHANGED <<threshold, ttp, k, shares, key, top, shortSeed, verdict>> /\ to'[TTP] = to[TTP]
    /\ \A q \in Players : q # p => /\ pc'[q] = pc[q] /\ i'[q] = i[q] /\ to'[q] = to[q]
                                   /\ sm'[q] = sm[q] /\ root'[q] = root[q]

LEMMA OthersProgress ==
  ASSUME threshold \in Ascending, NEW l \in Slots, OnlyMoves(SignerOf(l))
  PROVE  /\ \A m \in Slots : m # l =>
                /\ Past(m)' <=> Past(m)
                /\ Signed(m)' <=> Signed(m)
                /\ SentRoot(m)' <=> SentRoot(m)
                /\ \A x : /\ Pushed(m, x)' <=> Pushed(m, x)
                          /\ Present(m, x)' <=> Present(m, x)
         /\ Signed(THRESHOLD)' <=> Signed(THRESHOLD)
         /\ \A x : /\ Pushed(THRESHOLD, x)' <=> Pushed(THRESHOLD, x)
                   /\ Present(THRESHOLD, x)' <=> Present(THRESHOLD, x)
                   /\ SentR(x)' <=> SentR(x)
                   /\ SentSeed(x)' <=> SentSeed(x)
<1>1. ASSUME NEW m \in Slots, m # l
      PROVE  /\ Past(m)' <=> Past(m)
             /\ Signed(m)' <=> Signed(m)
             /\ SentRoot(m)' <=> SentRoot(m)
             /\ \A x : /\ Pushed(m, x)' <=> Pushed(m, x)
                       /\ Present(m, x)' <=> Present(m, x)
  <2>1. SignerOf(m) \in Players /\ SignerOf(m) # SignerOf(l)
    BY <1>1, SlotsAre
  <2>2. pc'[SignerOf(m)] = pc[SignerOf(m)] /\ i'[SignerOf(m)] = i[SignerOf(m)]
           /\ to'[SignerOf(m)] = to[SignerOf(m)]
    BY <2>1 DEF OnlyMoves
  <2>3. threshold' = threshold
    BY DEF OnlyMoves
  <2>. QED
    BY ONLY <1>1, <2>2, <2>3, ProgressStays
<1>2. threshold' = threshold /\ ttp' = ttp /\ to'[TTP] = to[TTP]
  BY DEF OnlyMoves
<1>3. /\ Signed(THRESHOLD)' <=> Signed(THRESHOLD)
      /\ \A x : /\ Pushed(THRESHOLD, x)' <=> Pushed(THRESHOLD, x)
                /\ SentR(x)' <=> SentR(x)
                /\ SentSeed(x)' <=> SentSeed(x)
  BY ONLY <1>2, TtpProgressStays
<1>4. \A x : Present(THRESHOLD, x)' <=> Present(THRESHOLD, x)
  BY <1>2, <1>3, SignersStay DEF Present
<1>. QED
  BY <1>1, <1>3, <1>4

\* What a signer has and what waits for it, when the step is of no interest to it.
LEMMA OtherLined ==
  ASSUME threshold \in Ascending, NEW l \in Slots, OnlyMoves(SignerOf(l)),
         NEW m \in Slots, NEW q, Lined(m, q), Line(q)' = Line(q),
         Present(l, q)' <=> Present(l, q),
         m = l => (Signed(l)' <=> Signed(l)),
         m = l + 1 => (SentRoot(l)' <=> SentRoot(l))
  PROVE  Lined(m, q)'
<1>1. threshold' = threshold
  BY DEF OnlyMoves
<1>2. \A n \in Slots : Present(n, q)' <=> Present(n, q)
  BY OthersProgress
<1>3. Present(THRESHOLD, q)' <=> Present(THRESHOLD, q)
  BY OthersProgress
<1>4. Rooted(m)' <=> Rooted(m)
  <2>1. Signed(m)' <=> Signed(m)
    BY OthersProgress
  <2>2. m > 0 => m - 1 \in Slots /\ (m = l + 1 <=> m - 1 = l)
    BY Sizes DEF Slots
  <2>3. m > 0 => (SentRoot(m - 1)' <=> SentRoot(m - 1))
    BY <2>2, OthersProgress
  <2>. QED
    BY <2>1, <2>3 DEF Rooted
<1>. QED
  BY <1>1, <1>2, <1>3, <1>4, LinedStays

\* The invariant after a step of the signer of layer l.
LEMMA SigningStep ==
  ASSUME SignInv, NEW l \in Slots, NEW p, p = SignerOf(l), pc[p] \in Signing \ {"done"},
         pc'[p] \in Signing \ {"first_sign"}, OnlyMoves(p),
         TypeOK', TtpState',
         Past(l) => Past(l)', SentRoot(l) => SentRoot(l)',
         Signed(l)' => Signed(l) \/ l = 0 \/ SentRoot(l - 1),
         Counted(l, p)', Lined(l, p)',
         \A m \in Slots : m # l => Lined(m, SignerOf(m))'
  PROVE  SignInv'
<1>. USE Sizes
<1>1. /\ TypeOK /\ threshold \in Ascending /\ InTurn /\ Together /\ VerdictRight
      /\ \A q \in Signers : Presigned(q)
      /\ \A m \in Slots : \A q \in Signers : q = SignerOf(m) => SlotInv(m, q)
  BY DEF SignInv, TypeOK
<1>2. threshold' = threshold /\ verdict' = verdict
  BY DEF OnlyMoves
<1>3. /\ Signers \subseteq Players /\ Signers' = Signers /\ p \in Signers /\ p \in Players
      /\ \A m : SignerOf(m)' = SignerOf(m)
  BY <1>1, <1>2, SlotsAre, SignersStay
<1>4. \A q \in Signers : pc[q] \in Signing /\ pc'[q] \in Signing
  BY <1>1, <1>3 DEF Together, Presign, Signing, OnlyMoves
<1>5. Together'
  BY <1>3, <1>4 DEF Together
<1>6. \A m \in Slots : (Past(m) => Past(m)') /\ (SentRoot(m) => SentRoot(m)')
  BY <1>1, OthersProgress
<1>7. InTurn'
  <2>1. ASSUME NEW n \in Slots, NEW m \in Slots, n < m, Signed(m)' PROVE Past(n)'
    <3>1. CASE Signed(m)
      BY <1>1, <1>6, <2>1, <3>1, Order
    <3>2. CASE ~Signed(m)
      <4>1. m = l /\ l # 0
        BY <1>1, <2>1, <3>2, OthersProgress DEF Slots
      <4>2. SentRoot(l - 1) /\ l - 1 \in Slots /\ l - 1 # THRESHOLD - 1 /\ (n = l - 1 \/ n < l - 1)
        BY <2>1, <3>2, <4>1 DEF Slots
      <4>3. Past(l - 1) /\ Signed(l - 1)
        BY <1>1, <4>2, Order
      <4>4. Past(n)
        BY <1>1, <4>2, <4>3, Order
      <4>. QED
        BY <1>6, <4>4
    <3>. QED
      BY <3>1, <3>2
  <2>2. ASSUME Signed(THRESHOLD)' PROVE SentRoot(THRESHOLD - 1)'
    <3>1. Signed(THRESHOLD)
      BY <1>1, <2>2, OthersProgress
    <3>. QED
      BY <1>1, <1>6, <3>1, SlotsAre DEF InTurn
  <2>. QED
    BY <2>1, <2>2 DEF InTurn
<1>8. VerdictRight'
  <2>1. verdict = "none"
    BY <1>1, <1>3, NoVerdict
  <2>. QED
    BY <1>2, <2>1 DEF VerdictRight
<1>9. ASSUME NEW q \in Signers PROVE Presigned(q)'
  <2>1. (SentSeed(q)' <=> SentSeed(q)) /\ (SentR(q)' <=> SentR(q))
    BY <1>1, OthersProgress
  <2>2. CASE q = p
    <3>1. SentSeed(q)
      BY <1>1, <1>4 DEF Presigned
    <3>. QED
      BY <2>1, <2>2, <3>1 DEF Presigned, Signing
  <2>3. CASE q # p
    <3>1. /\ pc'[q] = pc[q] /\ sm'[q] = sm[q] /\ root'[q] = root[q] /\ pc[q] \notin Presign
          /\ Presigned(q)
      BY <1>1, <1>3, <1>4, <2>3 DEF OnlyMoves, Presign, Signing
    <3>. QED
      BY <1>2, <2>1, <3>1, PresignedStays
  <2>. QED
    BY <2>2, <2>3
<1>10. ASSUME NEW m \in Slots, NEW q \in Signers, q = SignerOf(m)
       PROVE  SlotInv(m, q)'
  <2>1. Counted(m, q)'
    <3>1. CASE m = l
      BY <1>10, <3>1
    <3>2. CASE m # l
      <4>1. q # p /\ q \in Players
        BY <1>1, <1>10, <3>2, SlotsAre
      <4>2. Counted(m, q) /\ pc'[q] = pc[q] /\ i'[q] = i[q] /\ to'[q] = to[q] /\ sm'[q] = sm[q] /\ root'[q] = root[q]
        BY <1>1, <1>10, <4>1 DEF SlotInv, OnlyMoves
      <4>. QED
        BY <1>2, <4>2, CountedStays
    <3>. QED
      BY <3>1, <3>2
  <2>2. Lined(m, q)'
    <3>1. CASE m = l
      BY <1>10, <3>1
    <3>2. CASE m # l
      BY <1>3, <1>10, <3>2
    <3>. QED
      BY <3>1, <3>2
  <2>. QED
    BY <2>1, <2>2 DEF SlotInv
<1>11. \A q \in Players : IF q \in Signers' THEN pc'[q] \in Presign \cup Signing ELSE pc'[q] = "idle"
  BY <1>3, <1>4 DEF SignInv, OnlyMoves
<1>. QED
  BY <1>3, <1>5, <1>7, <1>8, <1>9, <1>10, <1>11 DEF SignInv

LEMMA AtRest ==
  ASSUME NEW l \in Slots, pc[SignerOf(l)] \notin {"bc", "send_root"}
  PROVE  /\ Signed(l) <=> Past(l)
         /\ SentRoot(l) <=> Past(l)
         /\ \A x : (Pushed(l, x) <=> Past(l)) /\ (Present(l, x) <=> Past(l))
<1>1. l # THRESHOLD
  BY Sizes DEF Slots
<1>2. (Signed(l) <=> Past(l)) /\ (SentRoot(l) <=> Past(l)) /\ \A x : Pushed(l, x) <=> Past(l)
  BY <1>1 DEF Signed, SentRoot, Pushed
<1>. QED
  BY <1>2 DEF Present

LEMMA AtRestNext ==
  ASSUME threshold' = threshold, NEW l \in Slots, pc'[SignerOf(l)] \notin {"bc", "send_root"}
  PROVE  /\ Signed(l)' <=> Past(l)'
         /\ SentRoot(l)' <=> Past(l)'
         /\ \A x : (Pushed(l, x)' <=> Past(l)') /\ (Present(l, x)' <=> Past(l)')
<1>1. l # THRESHOLD /\ SignerOf(l)' = SignerOf(l)
  BY Sizes, SignersStay DEF Slots
<1>2. (Signed(l)' <=> Past(l)') /\ (SentRoot(l)' <=> Past(l)') /\ \A x : Pushed(l, x)' <=> Past(l)'
  BY <1>1 DEF Signed, SentRoot, Pushed
<1>. QED
  BY <1>2 DEF Present

\* A signer that receives a shard moves it from its queue to its signed message.
LEMMA ReceiveStep ==
  ASSUME SignInv, NEW l \in Slots, NEW p, p = SignerOf(l), OnlyMoves(p),
         pc[p] \in {"recv_shard", "recv_final"},
         HasMsg(p), RecvMsg(p), sm' = [sm EXCEPT ![p] = Append(@, Received(p))],
         pc' \in [Players -> Presign \cup Signing \cup {"idle"}], i' \in [Players -> 1..THRESHOLD],
         UNCHANGED <<to, root>>,
         pc'[p] \in {"recv_shard", "recv_root", "recv_final", "done"},
         Past(l)' <=> Past(l),
         Len(sm'[p]) = Len(sm[p]) + 1 => Counted(l, p)'
  PROVE  SignInv'
<1>. USE Sizes
<1>1. /\ TypeOK /\ threshold \in Ascending /\ TtpState
      /\ \A m \in Slots : \A q \in Signers : q = SignerOf(m) => SlotInv(m, q)
  BY DEF SignInv, TypeOK
<1>2. threshold' = threshold /\ UNCHANGED <<ttp, k, shares, key, top, shortSeed, verdict>>
  BY DEF OnlyMoves
<1>3. /\ Signers \subseteq Players /\ Signers' = Signers /\ p \in Signers /\ p \in Players
      /\ p \in Parties /\ p # TTP /\ Data' = Data
      /\ \A m : SignerOf(m)' = SignerOf(m)
  BY <1>1, <1>2, SlotsAre, SignersStay
<1>4. /\ queue' \in [Parties -> Seq(Data)] /\ queue'[p] = Tail(queue[p])
      /\ \A y \in Parties : y # p => queue'[y] = queue[y]
      /\ queue[p] \in Seq(Data) /\ queue[p] # <<>>
      /\ Received(p) = Head(queue[p]) /\ Received(p) \in Data
  BY <1>1, <1>3, TakeEffect
<1>5. /\ sm' \in [Players -> Seq(Data \cup {Fors})] /\ sm'[p] = Append(sm[p], Received(p))
      /\ sm[p] \in Seq(Data \cup {Fors}) /\ Len(sm'[p]) = Len(sm[p]) + 1
  <2>1. sm[p] \in Seq(Data \cup {Fors})
    BY <1>1, <1>3 DEF TypeOK
  <2>2. Append(sm[p], Received(p)) \in Seq(Data \cup {Fors})
    BY <1>4, <2>1
  <2>3. sm \in [Players -> Seq(Data \cup {Fors})] /\ sm' = [sm EXCEPT ![p] = Append(sm[p], Received(p))]
    BY <1>1 DEF TypeOK
  <2>4. Len(Append(sm[p], Received(p))) = Len(sm[p]) + 1
    BY <1>4, <2>1
  <2>. QED
    BY ONLY <1>3, <2>1, <2>2, <2>3, <2>4
<1>6. ASSUME NEW q \in Signers PROVE Line(q)' = Line(q)
  <2>1. CASE q = p
    <3>1. queue[p] \in Seq(Data \cup {Fors})
      BY <1>4
    <3>2. Append(sm[p], Head(queue[p])) \o Tail(queue[p]) = sm[p] \o queue[p]
      BY ONLY <1>4, <1>5, <3>1, LineShifts
    <3>. QED
      BY <1>4, <1>5, <2>1, <3>2 DEF Line
  <2>2. CASE q # p
    BY <1>3, <1>4, <2>2 DEF Line, OnlyMoves
  <2>. QED
    BY <2>1, <2>2
<1>7. TypeOK'
  BY <1>1, <1>2, <1>3, <1>4, <1>5 DEF TypeOK
<1>8. /\ Signed(l)' <=> Signed(l)
      /\ SentRoot(l)' <=> SentRoot(l)
      /\ \A x : Present(l, x)' <=> Present(l, x)
  <2>1. pc[SignerOf(l)] \notin {"bc", "send_root"} /\ pc'[SignerOf(l)] \notin {"bc", "send_root"}
    OBVIOUS
  <2>2. /\ Signed(l)' <=> Past(l)'
        /\ SentRoot(l)' <=> Past(l)'
        /\ \A x : Present(l, x)' <=> Past(l)'
    BY ONLY <1>2, <2>1, AtRestNext
  <2>3. /\ Signed(l) <=> Past(l)
        /\ SentRoot(l) <=> Past(l)
        /\ \A x : Present(l, x) <=> Past(l)
    BY ONLY <2>1, AtRest
  <2>. QED
    BY <2>2, <2>3
<1>9. ASSUME NEW m \in Slots PROVE Lined(m, SignerOf(m))'
  <2>1. SignerOf(m) \in Signers /\ SignerOf(m)' = SignerOf(m)
    BY <1>1, <1>3, SlotsAre
  <2>2. \A q : q = SignerOf(m) => Line(q)' = Line(q) /\ (Present(l, q)' <=> Present(l, q))
    BY <1>6, <1>8, <2>1
  <2>3. Lined(m, SignerOf(m))
    <3>1. pc[SignerOf(m)] \in Signing
      BY <1>3, <2>1 DEF SignInv, Together, Presign, Signing
    <3>. QED
      BY <1>1, <2>1, <3>1 DEF SlotInv
  <2>4. \E q : q = SignerOf(m) /\ Lined(m, q)'
    <3>1. PICK q : q = SignerOf(m)
      OBVIOUS
    <3>2. /\ threshold \in Ascending /\ OnlyMoves(SignerOf(l)) /\ Lined(m, q) /\ Line(q)' = Line(q)
          /\ Present(l, q)' <=> Present(l, q)
          /\ SentRoot(l)' <=> SentRoot(l)
          /\ Signed(l)' <=> Signed(l)
      BY <1>1, <1>8, <2>2, <2>3, <3>1
    <3>3. Lined(m, q)'
      BY ONLY <3>2, OtherLined
    <3>. QED
      BY <3>1, <3>3
  <2>. QED
    BY <2>1, <2>4
<1>10. Lined(l, p)' /\ \A m \in Slots : m # l => Lined(m, SignerOf(m))'
  <2>1. p = SignerOf(l)'
    BY <1>3
  <2>. QED
    BY <1>9, <2>1
<1>11. TtpState'
  <2>1. SentRoot(THRESHOLD - 1)' <=> SentRoot(THRESHOLD - 1)
    BY <1>1, <1>8, OthersProgress, SlotsAre
  <2>2. \A q \in Signers : pc'[q] = "send_share" <=> pc[q] = "send_share"
    BY <1>3 DEF OnlyMoves
  <2>. QED
    BY <1>1, <1>2, <1>3, <1>4, <2>1, <2>2, TtpStateStays
<1>. QED
  BY <1>5, <1>7, <1>8, <1>10, <1>11, SigningStep DEF Signing

LEMMA NextRoundIs ==
  ASSUME NEW p, NEW rounds, NextRound(p, rounds)
  PROVE  IF i[p] + rounds > THRESHOLD
         THEN pc' = [pc EXCEPT ![p] = "recv_final"] /\ i' = [i EXCEPT ![p] = 1]
         ELSE pc' = [pc EXCEPT ![p] = "recv_shard"] /\ i' = [i EXCEPT ![p] = i[p] + rounds]
<1>1. CASE i[p] + rounds > THRESHOLD
  BY <1>1 DEF NextRound, Goto
<1>2. CASE ~(i[p] + rounds > THRESHOLD)
  BY <1>2 DEF NextRound, Goto
<1>. QED
  BY <1>1, <1>2

LEMMA RecvShardStep ==
  ASSUME SignInv, NEW p \in Signers, RecvShard(p)
  PROVE  SignInv'
<1>. USE Sizes
<1>1. TypeOK /\ threshold \in Ascending
  BY DEF SignInv, TypeOK
<1>2. PICK l \in Slots : l = Idx(p) /\ p = SignerOf(l)
  BY <1>1, SlotsAre
<1>3. /\ pc[p] = "recv_shard" /\ HasMsg(p) /\ RecvMsg(p)
      /\ sm' = [sm EXCEPT ![p] = Append(@, Received(p))]
      /\ UNCHANGED <<threshold, to, root, ttp, k, shares, key, top, shortSeed, verdict>>
  BY DEF RecvShard, ttpVars
<1>4. p \in Players /\ l \in Nat /\ l < THRESHOLD /\ i[p] \in 1..THRESHOLD /\ l # THRESHOLD
  BY <1>1, <1>2, SlotsAre DEF TypeOK
<1>5. i[p] # l + 1 /\ Len(sm[p]) = i[p] + 1 /\ to[p] = 1
  BY <1>2, <1>3 DEF SignInv, SlotInv, Counted
<1>6. \/ /\ i[p] = l /\ pc' = [pc EXCEPT ![p] = "recv_root"] /\ i' = i
      \/ /\ i[p] # l /\ i[p] < THRESHOLD
         /\ pc' = [pc EXCEPT ![p] = "recv_shard"] /\ i' = [i EXCEPT ![p] = i[p] + 1]
      \/ /\ i[p] # l /\ i[p] = THRESHOLD
         /\ pc' = [pc EXCEPT ![p] = "recv_final"] /\ i' = [i EXCEPT ![p] = 1]
  <2>1. CASE i[p] = l
    BY <1>2, <2>1 DEF RecvShard, Goto
  <2>2. CASE i[p] # l
    <3>1. NextRound(p, 1)
      BY <1>2, <2>2 DEF RecvShard
    <3>2. IF i[p] + 1 > THRESHOLD
          THEN pc' = [pc EXCEPT ![p] = "recv_final"] /\ i' = [i EXCEPT ![p] = 1]
          ELSE pc' = [pc EXCEPT ![p] = "recv_shard"] /\ i' = [i EXCEPT ![p] = i[p] + 1]
      BY ONLY <3>1, NextRoundIs
    <3>. QED
      BY <1>4, <2>2, <3>2
  <2>. QED
    BY <2>1, <2>2
<1>7. /\ pc' \in [Players -> Presign \cup Signing \cup {"idle"}] /\ i' \in [Players -> 1..THRESHOLD]
      /\ \A q \in Players : q # p => pc'[q] = pc[q] /\ i'[q] = i[q]
      /\ \/ i[p] = l /\ pc'[p] = "recv_root" /\ i'[p] = l
         \/ i[p] # l /\ i[p] < THRESHOLD /\ pc'[p] = "recv_shard" /\ i'[p] = i[p] + 1
         \/ i[p] # l /\ i[p] = THRESHOLD /\ pc'[p] = "recv_final"
  <2>1. pc \in [Players -> Presign \cup Signing \cup {"idle"}] /\ i \in [Players -> 1..THRESHOLD]
    BY <1>1 DEF TypeOK
  <2>2. {"recv_root", "recv_shard", "recv_final"} \subseteq Signing
    BY DEF Signing
  <2>3. 1 \in 1..THRESHOLD /\ (i[p] < THRESHOLD => i[p] + 1 \in 1..THRESHOLD)
    BY <1>4
  <2>4. CASE i[p] = l /\ pc' = [pc EXCEPT ![p] = "recv_root"] /\ i' = i
    BY ONLY <1>4, <2>1, <2>2, <2>4
  <2>5. CASE /\ i[p] # l /\ i[p] < THRESHOLD
             /\ pc' = [pc EXCEPT ![p] = "recv_shard"] /\ i' = [i EXCEPT ![p] = i[p] + 1]
    BY ONLY <1>4, <2>1, <2>2, <2>3, <2>5
  <2>6. CASE /\ i[p] # l /\ i[p] = THRESHOLD
             /\ pc' = [pc EXCEPT ![p] = "recv_final"] /\ i' = [i EXCEPT ![p] = 1]
    BY ONLY <1>4, <2>1, <2>2, <2>3, <2>6
  <2>. QED
    BY <1>6, <2>4, <2>5, <2>6
<1>8. OnlyMoves(p)
  BY <1>3, <1>4, <1>7 DEF OnlyMoves
<1>9. Past(l)' <=> Past(l)
  <2>1. SignerOf(l)' = p
    BY <1>2, <1>3, SignersStay
  <2>. QED
    BY <1>2, <1>3, <1>4, <1>5, <1>7, <2>1 DEF Past
<1>10. ASSUME Len(sm'[p]) = Len(sm[p]) + 1 PROVE Counted(l, p)'
  <2>1. Len(sm'[p]) = i[p] + 2 /\ to'[p] = 1
    BY <1>3, <1>4, <1>5, <1>10
  <2>2. i[p] = l => l # 0
    BY <1>4
  <2>3. CASE pc'[p] = "recv_root" /\ i'[p] = l /\ i[p] = l
    BY <1>4, <2>1, <2>2, <2>3 DEF Counted, Presign
  <2>4. CASE pc'[p] = "recv_shard" /\ i'[p] = i[p] + 1 /\ i[p] # l
    BY <1>4, <2>1, <2>4 DEF Counted, Presign
  <2>5. CASE pc'[p] = "recv_final" /\ i[p] = THRESHOLD
    BY <1>4, <2>1, <2>5 DEF Counted, Presign
  <2>. QED
    BY <1>7, <2>3, <2>4, <2>5
<1>. QED
  BY <1>2, <1>3, <1>7, <1>8, <1>9, <1>10, ReceiveStep

LEMMA RecvFinalStep ==
  ASSUME SignInv, NEW p \in Signers, RecvFinal(p)
  PROVE  SignInv'
<1>. USE Sizes
<1>1. TypeOK /\ threshold \in Ascending
  BY DEF SignInv, TypeOK
<1>2. PICK l \in Slots : p = SignerOf(l)
  BY <1>1, SlotsAre
<1>3. /\ pc[p] = "recv_final" /\ HasMsg(p) /\ RecvMsg(p)
      /\ sm' = [sm EXCEPT ![p] = Append(@, Received(p))]
      /\ pc' = [pc EXCEPT ![p] = "done"]
      /\ UNCHANGED <<threshold, i, to, root, ttp, k, shares, key, top, shortSeed, verdict>>
  BY DEF RecvFinal, Goto, ttpVars
<1>4. p \in Players
  BY <1>1, <1>2, SlotsAre
<1>5. Len(sm[p]) = THRESHOLD + 2 /\ to[p] = 1
  BY <1>2, <1>3 DEF SignInv, SlotInv, Counted
<1>6. /\ pc' \in [Players -> Presign \cup Signing \cup {"idle"}] /\ i' \in [Players -> 1..THRESHOLD]
      /\ pc'[p] = "done" /\ \A q \in Players : q # p => pc'[q] = pc[q]
  BY <1>1, <1>3, <1>4 DEF TypeOK, Signing
<1>7. OnlyMoves(p)
  BY <1>3, <1>4, <1>6 DEF OnlyMoves
<1>8. Past(l)' <=> Past(l)
  <2>1. SignerOf(l)' = p
    BY <1>2, <1>3, SignersStay
  <2>. QED
    BY <1>2, <1>3, <1>6, <2>1 DEF Past
<1>9. Len(sm'[p]) = Len(sm[p]) + 1 => Counted(l, p)'
  BY <1>3, <1>5, <1>6 DEF Counted, Presign
<1>. QED
  BY <1>2, <1>3, <1>6, <1>7, <1>8, <1>9, ReceiveStep

\* What the loop does after p has signed: its counter is the one of its own round, or 1
\* for the first signer, which did not enter the loop yet.
LEMMA AfterOwn ==
  ASSUME TypeOK, NEW l \in Slots, NEW p \in Players, l = Idx(p),
         i[p] = IF l = 0 THEN 1 ELSE l, AfterOwnRound(p)
  PROVE  /\ pc' \in [Players -> Presign \cup Signing \cup {"idle"}] /\ i' \in [Players -> 1..THRESHOLD]
         /\ \A q \in Players : q # p => pc'[q] = pc[q] /\ i'[q] = i[q]
         /\ IF l = THRESHOLD - 1 THEN pc'[p] = "recv_final"
            ELSE pc'[p] = "recv_shard" /\ i'[p] = l + 2
<1>. USE Sizes
<1>1. l \in Nat /\ l < THRESHOLD
  BY DEF Slots
<1>2. CASE l = THRESHOLD - 1
  <2>1. pc' = [pc EXCEPT ![p] = "recv_final"] /\ i' = [i EXCEPT ![p] = 1]
    <3>1. NextRound(p, 2) /\ i[p] = l /\ i[p] + 2 > THRESHOLD
      BY <1>1, <1>2 DEF AfterOwnRound
    <3>. QED
      BY ONLY <3>1, NextRoundIs
  <2>. QED
    BY <1>2, <2>1 DEF TypeOK, Signing
<1>3. CASE l # THRESHOLD - 1
  <2>1. pc' = [pc EXCEPT ![p] = "recv_shard"] /\ i' = [i EXCEPT ![p] = l + 2]
    <3>1. CASE l = 0
      <4>1. NextRound(p, 1) /\ i[p] = 1
        BY <3>1 DEF AfterOwnRound
      <4>2. ~(i[p] + 1 > THRESHOLD) /\ i[p] + 1 = l + 2
        BY <3>1, <4>1
      <4>. QED
        BY ONLY <4>1, <4>2, NextRoundIs
    <3>2. CASE l # 0
      <4>1. NextRound(p, 2) /\ i[p] = l
        BY <3>2 DEF AfterOwnRound
      <4>2. ~(i[p] + 2 > THRESHOLD) /\ i[p] + 2 = l + 2
        BY <1>1, <1>3, <4>1
      <4>. QED
        BY ONLY <4>1, <4>2, NextRoundIs
    <3>. QED
      BY <3>1, <3>2
  <2>2. l + 2 \in 1..THRESHOLD
    BY <1>1, <1>3
  <2>. QED
    BY <1>3, <2>1, <2>2 DEF TypeOK, Signing
<1>. QED
  BY <1>2, <1>3

\* Who is signed when the signer of layer l is about to sign.
LEMMA WhoSigned ==
  ASSUME threshold \in Ascending, InTurn, NEW l \in Slots, NEW p, p = SignerOf(l),
         pc[p] \in {"first_sign", "recv_root"}
  PROVE  /\ ~Past(l) /\ ~Signed(l) /\ ~SentRoot(l) /\ \A x : ~Pushed(l, x)
         /\ \A m \in Slots : m >= l => ~Signed(m) /\ ~Past(m) /\ \A x : ~Present(m, x)
         /\ \A x \in Players : ~Present(THRESHOLD, x)
         /\ l = 0 \/ SentRoot(l - 1) => \A m \in Slots : m < l => Past(m) /\ \A x : Present(m, x)
<1>1. ~Past(l) /\ ~Signed(l) /\ ~SentRoot(l) /\ \A x : ~Pushed(l, x)
  <2>1. ~Past(l)
    BY DEF Past
  <2>. QED
    BY <2>1, AtRest
<1>2. ASSUME NEW m \in Slots, m >= l PROVE ~Signed(m) /\ ~Past(m) /\ \A x : ~Present(m, x)
  <2>1. ~Signed(m)
    <3>1. l \in Nat /\ m \in Nat /\ (m = l \/ l < m)
      BY <1>2, Sizes DEF Slots
    <3>. QED
      BY <1>1, <1>2, <3>1, Order
  <2>. QED
    BY <1>2, <2>1, Order DEF Present
<1>3. ~Signed(THRESHOLD)
  BY <1>1, Order
<1>4. \A x \in Players : ~Present(THRESHOLD, x)
  BY <1>3, Order DEF Present
<1>5. ASSUME l # 0, SentRoot(l - 1), NEW m \in Slots, m < l
      PROVE  Past(m) /\ \A x : Present(m, x)
  <2>1. /\ l \in Nat /\ m \in Nat /\ l - 1 \in Slots /\ l - 1 # THRESHOLD - 1
        /\ m = l - 1 \/ m < l - 1
    BY <1>5, Sizes DEF Slots
  <2>2. Past(l - 1) /\ Signed(l - 1)
    BY <1>5, <2>1, Order
  <2>3. Past(m)
    BY <2>1, <2>2, Order
  <2>. QED
    BY <2>3, Order DEF Present
<1>6. l = 0 => \A m \in Slots : ~(m < l)
  BY Sizes DEF Slots
<1>. QED
  BY <1>1, <1>2, <1>4, <1>5, <1>6

LEMMA MakeSignature ==
  ASSUME SignInv, NEW l \in Slots, NEW p, p = SignerOf(l), OnlyMoves(p),
         pc[p] \in {"first_sign", "recv_root"}, l = 0 \/ SentRoot(l - 1),
         SignWOTS(p, sm[p], RootBelow(l)), Goto(p, AfterSigning(p)[1]), UNCHANGED <<i, to>>,
         queue' \in [Parties -> Seq(Data)], queue'[p] = <<>>,
         \A y \in Parties : y # p => queue'[y] = queue[y]
  PROVE  SignInv'
<1>. USE Sizes
<1>1. /\ TypeOK /\ threshold \in Ascending /\ TtpState /\ InTurn
      /\ \A m \in Slots : \A q \in Signers : q = SignerOf(m) => SlotInv(m, q)
  BY DEF SignInv, TypeOK
<1>2. threshold' = threshold /\ UNCHANGED <<ttp, k, shares, key, top, shortSeed, verdict>>
  BY DEF OnlyMoves
<1>3. /\ Signers \subseteq Players /\ Signers' = Signers /\ p \in Signers /\ p \in Players
      /\ p \in Parties /\ p # TTP /\ Data' = Data /\ Idx(p) = l
      /\ l \in Nat /\ l < THRESHOLD /\ l \in Layers /\ l + 1 \in Layers
      /\ \A m : SignerOf(m)' = SignerOf(m) /\ Right(m)' = Right(m) /\ RootBelow(m)' = RootBelow(m)
  <2>1. l \in Nat /\ l < THRESHOLD /\ l + 1 \in Layers
    BY DEF Slots
  <2>. QED
    BY <1>1, <1>2, <2>1, SlotsAre, SignersStay
<1>4. Counted(l, p) /\ Lined(l, p)
  BY <1>1, <1>3 DEF SlotInv, Signing
<1>5. /\ sm[p] \in Seq(Data \cup {Fors}) /\ Len(sm[p]) = l + 2 /\ to[p] = 1
      /\ i[p] = IF l = 0 THEN 1 ELSE l
      /\ \A m \in 1..(l + 2) : Line(p)[m] = sm[p][m]
  <2>1. Len(sm[p]) = l + 2 /\ to[p] = 1 /\ i[p] = IF l = 0 THEN 1 ELSE l
    <3>1. CASE pc[p] = "first_sign"
      BY <1>4, <3>1 DEF Counted
    <3>2. CASE pc[p] = "recv_root"
      BY <1>4, <3>2 DEF Counted
    <3>. QED
      BY <3>1, <3>2
  <2>2. sm[p] \in Seq(Data \cup {Fors})
    BY <1>1, <1>3 DEF TypeOK
  <2>. QED
    BY <1>1, <1>3, <2>1, <2>2, LineIs
<1>6. sm[p][1] = RandR /\ sm[p][2] = Fors
  <2>1. 1 \in 1..(l + 2) /\ 2 \in 1..(l + 2)
    BY ONLY <1>3
  <2>2. Line(p)[1] = RandR /\ Line(p)[2] = Fors
    BY <1>4 DEF Lined
  <2>. QED
    BY ONLY <1>5, <2>1, <2>2
<1>7. /\ sm' = [sm EXCEPT ![p] = Append(sm[p], Right(l))]
      /\ root' = [root EXCEPT ![p] = RootBelow(l + 1)]
  <2>1. Address(p) = At(RandR, l)
    BY <1>3, <1>6 DEF Address
  <2>2. Sig(p, Address(p), RootBelow(l)) = Right(l)
    BY <2>1 DEF Right
  <2>3. TreeRoot(p, Address(p)) = RootBelow(l + 1)
    BY <1>3, <2>1 DEF RootBelow
  <2>. QED
    BY <2>2, <2>3 DEF SignWOTS
<1>8. Append(sm[p], Right(l)) \in Seq(Data \cup {Fors}) /\ RootBelow(l + 1) \in Data /\ Right(l) \in Data
  BY <1>3, <1>5, DataAre
<1>9. /\ sm' \in [Players -> Seq(Data \cup {Fors})] /\ sm'[p] = Append(sm[p], Right(l))
      /\ \A q \in Players : q # p => sm'[q] = sm[q]
  <2>1. sm \in [Players -> Seq(Data \cup {Fors})]
    BY <1>1 DEF TypeOK
  <2>. QED
    BY ONLY <1>3, <1>7, <1>8, <2>1
<1>10. root' \in [Parties -> Data \cup {<<>>}] /\ root'[p] = RootBelow(l + 1)
  <2>1. root \in [Parties -> Data \cup {<<>>}]
    BY <1>1 DEF TypeOK
  <2>. QED
    BY ONLY <1>3, <1>7, <1>8, <2>1
<1>11. /\ pc' \in [Players -> Presign \cup Signing \cup {"idle"}]
       /\ pc'[p] = IF l = THRESHOLD - 1 THEN "send_root" ELSE "bc"
  <2>1. AfterSigning(p)[1] = IF l = THRESHOLD - 1 THEN "send_root" ELSE "bc"
    BY <1>3 DEF AfterSigning
  <2>2. AfterSigning(p)[1] \in Signing
    BY <2>1 DEF Signing
  <2>3. pc \in [Players -> Presign \cup Signing \cup {"idle"}] /\ pc' = [pc EXCEPT ![p] = AfterSigning(p)[1]]
    BY <1>1 DEF TypeOK, Goto
  <2>. QED
    BY ONLY <1>3, <2>1, <2>2, <2>3
<1>12. TypeOK'
  BY <1>1, <1>2, <1>3, <1>9, <1>10, <1>11 DEF TypeOK
<1>13. /\ ~Past(l) /\ ~Signed(l) /\ ~SentRoot(l) /\ \A x : ~Pushed(l, x)
       /\ \A m \in Slots : m >= l => ~Signed(m) /\ ~Past(m) /\ \A x : ~Present(m, x)
       /\ \A x \in Players : ~Present(THRESHOLD, x)
       /\ \A m \in Slots : m < l => Past(m) /\ \A x : Present(m, x)
  BY <1>1, WhoSigned
<1>14. /\ Signed(l)' /\ ~Past(l)' /\ ~SentRoot(l)' /\ \A x \in Players : ~Pushed(l, x)'
  <2>1. SignerOf(l)' = p /\ l # THRESHOLD /\ to'[p] = 1
    BY <1>3, <1>5
  <2>2. ~Past(l)'
    BY <1>11, <2>1 DEF Past
  <2>3. Signed(l)'
    BY <1>11, <2>1 DEF Signed
  <2>4. ~SentRoot(l)'
    BY <1>11, <2>1, <2>2 DEF SentRoot
  <2>5. \A x \in Players : ~(x < 1)
    OBVIOUS
  <2>6. \A x \in Players : ~Pushed(l, x)'
    BY <1>11, <2>1, <2>2, <2>5 DEF Pushed
  <2>. QED
    BY <2>2, <2>3, <2>4, <2>6
<1>15. Counted(l, p)'
  <2>1. Len(sm'[p]) = l + 3 /\ i'[p] = i[p] /\ to'[p] = 1
    BY SMTT(30), <1>3, <1>5, <1>9
  <2>2. RootBelow(l + 1)' = RootBelow(l + 1)
    BY <1>3
  <2>. QED
    BY <1>5, <1>10, <1>11, <2>1, <2>2 DEF Counted, Presign
<1>16. /\ \A m \in Slots : m # l => (Present(m, p)' <=> Present(m, p))
       /\ Present(l, p)'
       /\ ~Present(THRESHOLD, p)'
  <2>1. Present(l, p)'
    BY <1>3, <1>14 DEF Present
  <2>. QED
    BY <1>1, <1>3, <1>13, <2>1, OthersProgress
<1>17. Lined(l, p)'
  <2>1. Line(p)' = Append(sm[p], Right(l))
    BY ONLY <1>8, <1>9, queue'[p] = <<>>, NothingWaits DEF Line
  <2>2. /\ Len(Line(p)') = l + 3
        /\ \A m \in 1..(l + 2) : Line(p)'[m] = Line(p)[m]
        /\ Line(p)'[l + 3] = Right(l)
    BY SMTT(30), <1>3, <1>5, <2>1
  <2>3. Line(p)'[1] = RandR /\ Line(p)'[2] = Fors
    <3>1. Line(p)[1] = RandR /\ Line(p)[2] = Fors
      BY <1>4 DEF Lined
    <3>2. 1 \in 1..(l + 2) /\ 2 \in 1..(l + 2)
      BY <1>3
    <3>. QED
      BY <2>2, <3>1, <3>2
  <2>4. ASSUME NEW m \in 0..(THRESHOLD - 2), Present(m, p)'
        PROVE  m + 3 <= l + 3 /\ Line(p)'[m + 3] = Right(m)'
    <3>1. m \in Slots /\ m \in Nat
      BY DEF Slots
    <3>2. CASE m = l
      BY <1>3, <2>2, <3>2
    <3>3. CASE m # l
      <4>1. Present(m, p) /\ m < l
        BY <1>3, <1>13, <1>16, <2>4, <3>1, <3>3
      <4>2. Line(p)[m + 3] = Right(m)
        BY <1>4, <4>1 DEF Lined
      <4>3. m + 3 \in 1..(l + 2)
        BY <1>3, <3>1, <4>1
      <4>. QED
        BY <1>3, <2>2, <3>1, <4>1, <4>2, <4>3
    <3>. QED
      BY <3>2, <3>3
  <2>5. ASSUME NEW m \in 0..(THRESHOLD - 2), ~Present(m, p)'
        PROVE  l + 3 <= m + 2
    <3>1. m \in Slots /\ m \in Nat
      BY DEF Slots
    <3>2. m > l
      BY <1>3, <1>13, <1>16, <2>5, <3>1
    <3>. QED
      BY <1>3, <3>1, <3>2
  <2>6. LastTwo(p)'
    <3>1. CASE l = THRESHOLD - 1
      BY <1>3, <1>16, <2>2, <3>1 DEF LastTwo
    <3>2. CASE l # THRESHOLD - 1
      <4>1. ~Present(THRESHOLD - 1, p)'
        BY <1>1, <1>3, <1>13, <1>16, <3>2, SlotsAre
      <4>2. l + 3 <= THRESHOLD + 1
        BY <1>3, <3>2
      <4>. QED
        BY <1>16, <2>2, <4>1, <4>2 DEF LastTwo
    <3>. QED
      BY <3>1, <3>2
  <2>7. ~Rooted(l)'
    BY <1>14 DEF Rooted
  <2>. QED
    BY <1>3, <2>2, <2>3, <2>4, <2>5, <2>6, <2>7 DEF Lined
<1>18. ASSUME NEW m \in Slots, m # l PROVE Lined(m, SignerOf(m))'
  <2>1. PICK q : q = SignerOf(m)
    OBVIOUS
  <2>2. q \in Signers /\ q \in Players /\ q # p /\ q \in Parties /\ SignerOf(m)' = q
    BY <1>1, <1>3, <1>18, <2>1, SlotsAre
  <2>3. Line(q)' = Line(q)
    BY <1>9, <2>2 DEF Line
  <2>4. Lined(m, q)
    <3>1. pc[q] \in Signing
      BY <1>3, <2>2 DEF SignInv, Together, Presign, Signing
    <3>. QED
      BY <1>1, <2>1, <2>2, <3>1 DEF SlotInv
  <2>5. Present(l, q)' <=> Present(l, q)
    BY <1>3, <1>13, <1>14, <2>2 DEF Present
  <2>6. SentRoot(l)' <=> SentRoot(l)
    BY <1>13, <1>14
  <2>7. threshold \in Ascending /\ OnlyMoves(SignerOf(l))
    BY <1>1
  <2>8. Lined(m, q)'
    BY ONLY <1>18, <2>3, <2>4, <2>5, <2>6, <2>7, OtherLined
  <2>. QED
    BY <2>2, <2>8
<1>19. TtpState'
  <2>1. SentRoot(THRESHOLD - 1)' <=> SentRoot(THRESHOLD - 1)
    BY <1>1, <1>13, <1>14, OthersProgress, SlotsAre
  <2>2. \A q \in Signers : pc'[q] = "send_share" <=> pc[q] = "send_share"
    BY <1>3, <1>11 DEF OnlyMoves
  <2>. QED
    BY <1>1, <1>2, <1>3, <2>1, <2>2, TtpStateStays
<1>. QED
  BY <1>11, <1>12, <1>13, <1>15, <1>17, <1>18, <1>19, SigningStep DEF Signing

LEMMA FirstSignStep ==
  ASSUME SignInv, NEW p \in Signers, FirstSign(p)
  PROVE  SignInv'
<1>. USE Sizes
<1>1. TypeOK /\ threshold \in Ascending /\ InTurn /\ Presigned(p)
  BY DEF SignInv, TypeOK
<1>2. PICK l \in Slots : p = SignerOf(l)
  BY <1>1, SlotsAre
<1>3. /\ pc[p] = "first_sign" /\ SignWOTS(p, sm[p], root[p]) /\ Goto(p, AfterSigning(p)[1])
      /\ UNCHANGED <<threshold, i, to, queue, ttp, k, shares, key, top, shortSeed, verdict>>
  BY DEF FirstSign, ttpVars
<1>4. p \in Players /\ p \in Parties
  BY <1>1, <1>2, SlotsAre
<1>5. Counted(l, p) /\ Lined(l, p)
  BY <1>2, <1>3 DEF SignInv, SlotInv, Signing
<1>6. l = 0 /\ Len(sm[p]) = 2 /\ root[p] = RootBelow(0)
  BY <1>1, <1>3, <1>5 DEF Counted, Presigned
<1>7. queue[p] = <<>>
  <2>1. ~Present(0, p) /\ 0 \in 0..(THRESHOLD - 2) /\ ~Rooted(l)
    BY <1>1, <1>2, <1>3, <1>6, WhoSigned DEF Rooted
  <2>2. Len(Line(p)) <= 2
    BY <1>5, <2>1 DEF Lined
  <2>3. Len(queue[p]) = 0 /\ queue[p] \in Seq(Data)
    <3>1. Len(queue[p]) \in Nat /\ Len(Line(p)) = Len(sm[p]) + Len(queue[p])
      BY <1>1, <1>4, LineIs
    <3>. QED
      BY <1>1, <1>4, <1>6, <2>2, <3>1 DEF TypeOK
  <2>. QED
    BY <2>3
<1>8. OnlyMoves(p)
  BY <1>1, <1>3, <1>4 DEF OnlyMoves, TypeOK, SignWOTS, Goto
<1>9. queue' \in [Parties -> Seq(Data)] /\ queue'[p] = <<>> /\ \A y \in Parties : y # p => queue'[y] = queue[y]
  BY <1>1, <1>3, <1>7 DEF TypeOK
<1>10. SignWOTS(p, sm[p], RootBelow(l))
  BY <1>3, <1>6
<1>. QED
  BY <1>2, <1>3, <1>6, <1>8, <1>9, <1>10, MakeSignature

LEMMA Sums ==
  ASSUME NEW n \in Nat, NEW q \in Nat
  PROVE  /\ n + 3 = n + 2 + q => q = 1
         /\ n + 2 + q <= n + 2 => ~(q >= 1)
  OBVIOUS

LEMMA OneWaits ==
  ASSUME NEW S, NEW q \in Seq(S), Len(q) = 1
  PROVE  Head(q) = q[1] /\ Tail(q) = <<>>
<1>1. q # <<>> /\ Head(q) = q[1]
  OBVIOUS
<1>2. Tail(q) \in Seq(S) /\ Len(Tail(q)) = 0
  BY <1>1
<1>. QED
  BY <1>1, <1>2, EmptySeq

\* The root of the layer below is what waits, and nothing else does.
LEMMA RecvRootStep ==
  ASSUME SignInv, NEW p \in Signers, RecvRoot(p)
  PROVE  SignInv'
<1>. USE Sizes
<1>1. TypeOK /\ threshold \in Ascending /\ InTurn
  BY DEF SignInv, TypeOK
<1>2. PICK l \in Slots : p = SignerOf(l)
  BY <1>1, SlotsAre
<1>3. /\ pc[p] = "recv_root" /\ HasMsg(p) /\ RecvMsg(p)
      /\ SignWOTS(p, sm[p], Received(p)) /\ Goto(p, AfterSigning(p)[1])
      /\ UNCHANGED <<threshold, i, to, ttp, k, shares, key, top, shortSeed, verdict>>
  BY DEF RecvRoot, ttpVars
<1>4. p \in Players /\ p \in Parties /\ p # TTP /\ l \in Nat /\ l < THRESHOLD
  BY <1>1, <1>2, SlotsAre
<1>5. Counted(l, p) /\ Lined(l, p)
  BY <1>2, <1>3 DEF SignInv, SlotInv, Signing
<1>6. l # 0 /\ Len(sm[p]) = l + 2
  BY <1>3, <1>5 DEF Counted
<1>7. /\ queue' \in [Parties -> Seq(Data)] /\ queue'[p] = Tail(queue[p])
      /\ \A y \in Parties : y # p => queue'[y] = queue[y]
      /\ queue[p] \in Seq(Data) /\ queue[p] # <<>>
      /\ Received(p) = Head(queue[p]) /\ Received(p) \in Data
  BY <1>1, <1>3, <1>4, TakeEffect
<1>8. /\ Len(queue[p]) \in Nat /\ Len(queue[p]) >= 1 /\ Len(Line(p)) = l + 2 + Len(queue[p])
      /\ Line(p)[l + 3] = queue[p][1]
  <2>1. /\ Len(queue[p]) \in Nat /\ Len(Line(p)) = Len(sm[p]) + Len(queue[p])
        /\ \A m \in 1..Len(queue[p]) : Line(p)[Len(sm[p]) + m] = queue[p][m]
    BY <1>1, <1>4, LineIs
  <2>2. Len(queue[p]) >= 1
    BY <1>7
  <2>. QED
    BY SMTT(30), <1>4, <1>6, <2>1, <2>2
<1>9. /\ ~Present(l, p) /\ ~Present(THRESHOLD - 1, p) /\ ~Present(THRESHOLD, p)
  <2>1. l \in Slots /\ THRESHOLD - 1 \in Slots /\ THRESHOLD - 1 >= l
    BY <1>4 DEF Slots
  <2>. QED
    BY <1>1, <1>2, <1>3, <1>4, <2>1, WhoSigned
<1>10. Rooted(l)
  <2>1. ASSUME ~Rooted(l) PROVE FALSE
    <3>1. CASE l = THRESHOLD - 1
      BY <1>4, <1>5, <1>8, <1>9, <2>1, <3>1 DEF Lined, LastTwo
    <3>2. CASE l # THRESHOLD - 1
      <4>1. l \in 0..(THRESHOLD - 2)
        BY <1>4, <3>2
      <4>2. Len(Line(p)) <= l + 2
        BY <1>5, <1>9, <2>1, <4>1 DEF Lined
      <4>3. l + 2 + Len(queue[p]) <= l + 2
        BY ONLY <1>8, <4>2
      <4>. QED
        BY ONLY <1>4, <1>8, <4>3, Sums
    <3>. QED
      BY <3>1, <3>2
  <2>. QED
    BY <2>1
<1>11. Received(p) = RootBelow(l) /\ queue'[p] = <<>>
  <2>1. Len(Line(p)) = l + 3 /\ Line(p)[l + 3] = RootBelow(l)
    BY <1>5, <1>10 DEF Lined
  <2>2. Len(queue[p]) = 1
    <3>1. l + 3 = l + 2 + Len(queue[p]) /\ Len(queue[p]) \in Nat
      BY ONLY <1>8, <2>1
    <3>. QED
      BY ONLY <1>4, <3>1, Sums
  <2>3. queue[p][1] = RootBelow(l)
    BY ONLY <1>8, <2>1
  <2>4. Head(queue[p]) = queue[p][1] /\ Tail(queue[p]) = <<>>
    BY ONLY <1>7, <2>2, OneWaits
  <2>. QED
    BY ONLY <1>7, <2>3, <2>4
<1>12. OnlyMoves(p)
  BY <1>1, <1>3, <1>4 DEF OnlyMoves, TypeOK, SignWOTS, Goto
<1>13. SentRoot(l - 1)
  BY <1>10 DEF Rooted
<1>14. SignWOTS(p, sm[p], RootBelow(l))
  BY <1>3, <1>11
<1>. QED
  BY <1>2, <1>3, <1>7, <1>11, <1>12, <1>13, <1>14, MakeSignature

\* The shard of layer l joins what q has or waits for it: the layers below are there, but
\* the top layer's shard may come before the last signer's.
LEMMA ShardArrives ==
  ASSUME TypeOK, threshold' = threshold, NEW m \in Slots, NEW q \in Players, NEW l \in Layers,
         Lined(m, q), ~Rooted(m), ~Rooted(m)', Line(q)' = Append(Line(q), Right(l)),
         ~Present(l, q), Present(l, q)',
         \A j \in Layers : j # l => (Present(j, q)' <=> Present(j, q)),
         \A j \in 0..(THRESHOLD - 2) : j < l => Present(j, q),
         l <= THRESHOLD - 2 => \A j \in Layers : j > l => ~Present(j, q),
         l = THRESHOLD - 1 => q # SignerOf(l)
  PROVE  Lined(m, q)'
<1>. USE Sizes
<1>1. \A j : Right(j)' = Right(j) /\ RootBelow(j)' = RootBelow(j) /\ SignerOf(j)' = SignerOf(j)
  BY SignersStay
<1> DEFINE n == Len(Line(q))
<1>2. /\ n \in Nat /\ Len(Line(q)') = n + 1
      /\ \A j \in 1..n : Line(q)'[j] = Line(q)[j]
      /\ Line(q)'[n + 1] = Right(l)
  <2>1. Line(q) \in Seq(Data \cup {Fors}) /\ Right(l) \in Data \cup {Fors}
    BY LineIs, DataAre
  <2>. QED
    BY ONLY <2>1, Line(q)' = Append(Line(q), Right(l)), AppendProperties, LenProperties
<1>3. /\ n >= 2 /\ Line(q)[1] = RandR /\ Line(q)[2] = Fors
      /\ \A j \in 0..(THRESHOLD - 2) :
             IF Present(j, q) THEN j + 3 <= n /\ Line(q)[j + 3] = Right(j) ELSE n <= j + 2
      /\ LastTwo(q)
  BY DEF Lined
<1>. HIDE DEF n
<1>4. l \in Nat /\ l <= THRESHOLD
  OBVIOUS
<1>5. IF l <= THRESHOLD - 2 THEN n = l + 2 ELSE n >= THRESHOLD + 1
  <2>1. CASE l = 0
    <3>1. 0 \in 0..(THRESHOLD - 2) /\ ~Present(0, q)
      BY <2>1
    <3>2. n <= 2
      BY <1>3, <3>1
    <3>. QED
      BY <1>2, <1>3, <2>1, <3>2
  <2>2. CASE l # 0
    <3>1. PICK j \in 0..(THRESHOLD - 2) : j = IF l <= THRESHOLD - 2 THEN l - 1 ELSE THRESHOLD - 2
      BY <1>4, <2>2
    <3>2. j + 3 <= n
      <4>1. j < l
        BY <1>4, <2>2, <3>1
      <4>2. Present(j, q)
        BY <4>1
      <4>. QED
        BY <1>3, <4>2
    <3>3. CASE l <= THRESHOLD - 2
      <4>1. n <= l + 2
        BY <1>3, <1>4, <3>3
      <4>. QED
        BY <1>2, <1>4, <3>1, <3>2, <3>3, <4>1
    <3>4. CASE ~(l <= THRESHOLD - 2)
      BY <1>2, <1>4, <3>1, <3>2, <3>4
    <3>. QED
      BY <3>3, <3>4
  <2>. QED
    BY <2>1, <2>2
<1>6. Line(q)'[1] = RandR /\ Line(q)'[2] = Fors /\ n + 1 >= 2
  <2>1. 1 \in 1..n /\ 2 \in 1..n
    BY <1>2, <1>3
  <2>. QED
    BY <1>2, <1>3, <2>1
<1>7. ASSUME NEW j \in 0..(THRESHOLD - 2)
      PROVE  IF Present(j, q)' THEN j + 3 <= n + 1 /\ Line(q)'[j + 3] = Right(j) ELSE n + 1 <= j + 2
  <2>1. j \in Layers /\ j \in Nat
    OBVIOUS
  <2>2. CASE j = l
    <3>1. n = l + 2
      BY <1>5, <2>2
    <3>. QED
      BY <1>2, <1>4, <2>2, <3>1
  <2>3. CASE j # l /\ Present(j, q)
    <3>1. j + 3 <= n /\ Line(q)[j + 3] = Right(j)
      BY <1>3, <2>3
    <3>2. j + 3 \in 1..n
      BY <1>2, <2>1, <3>1
    <3>. QED
      BY <1>2, <2>1, <2>3, <3>1, <3>2
  <2>4. CASE j # l /\ ~Present(j, q)
    <3>1. ~(j < l) /\ l <= THRESHOLD - 2
      BY <1>4, <2>1, <2>4
    <3>2. n = l + 2 /\ j > l
      BY <1>4, <1>5, <2>1, <2>4, <3>1
    <3>. QED
      BY <1>4, <2>1, <2>4, <3>2
  <2>. QED
    BY <2>2, <2>3, <2>4
<1>8. LastTwo(q)'
  <2>1. CASE l <= THRESHOLD - 2
    <3>1. ~Present(THRESHOLD - 1, q)' /\ ~Present(THRESHOLD, q)'
      BY <1>4, <2>1
    <3>2. n + 1 <= THRESHOLD + 1
      BY <1>4, <1>5, <2>1
    <3>. QED
      BY <1>2, <3>1, <3>2 DEF LastTwo
  <2>2. CASE l = THRESHOLD - 1
    <3>1. /\ Present(THRESHOLD - 1, q)' /\ ~Present(THRESHOLD - 1, q)
          /\ Present(THRESHOLD, q)' <=> Present(THRESHOLD, q)
      BY <2>2
    <3>2. CASE ~Present(THRESHOLD, q)
      <4>1. n <= THRESHOLD + 1
        BY <1>3, <3>1, <3>2 DEF LastTwo, n
      <4>2. n = THRESHOLD + 1
        BY <1>2, <1>5, <2>2, <4>1
      <4>. QED
        BY <1>1, <1>2, <2>2, <3>1, <3>2, <4>2 DEF LastTwo
    <3>3. CASE Present(THRESHOLD, q)
      <4>1. n = THRESHOLD + 2 /\ Line(q)[THRESHOLD + 2] = Right(THRESHOLD)
        BY <1>3, <3>1, <3>3 DEF LastTwo, n
      <4>2. /\ Len(Line(q)') = THRESHOLD + 3 /\ Line(q)'[THRESHOLD + 2] = Right(THRESHOLD)
            /\ Line(q)'[THRESHOLD + 3] = Right(THRESHOLD - 1)
        <5>1. THRESHOLD + 2 \in 1..n /\ n + 1 = THRESHOLD + 3
          BY <4>1
        <5>. QED
          BY <1>2, <2>2, <4>1, <5>1
      <4>. QED
        BY <1>1, <2>2, <3>1, <3>3, <4>2 DEF LastTwo
    <3>. QED
      BY <3>2, <3>3
  <2>3. CASE l = THRESHOLD
    <3>1. /\ Present(THRESHOLD, q)' /\ ~Present(THRESHOLD, q)
          /\ Present(THRESHOLD - 1, q)' <=> Present(THRESHOLD - 1, q)
      BY <2>3
    <3>2. CASE ~Present(THRESHOLD - 1, q)
      <4>1. n <= THRESHOLD + 1
        BY <1>3, <3>1, <3>2 DEF LastTwo, n
      <4>2. n = THRESHOLD + 1
        BY <1>2, <1>5, <2>3, <4>1
      <4>. QED
        BY <1>1, <1>2, <2>3, <3>1, <3>2, <4>2 DEF LastTwo
    <3>3. CASE Present(THRESHOLD - 1, q)
      <4>1. n = THRESHOLD + 2 /\ Line(q)[THRESHOLD + 2] = Right(THRESHOLD - 1)
        BY <1>3, <3>1, <3>3 DEF LastTwo, n
      <4>2. /\ Len(Line(q)') = THRESHOLD + 3 /\ Line(q)'[THRESHOLD + 2] = Right(THRESHOLD - 1)
            /\ Line(q)'[THRESHOLD + 3] = Right(THRESHOLD)
        <5>1. THRESHOLD + 2 \in 1..n /\ n + 1 = THRESHOLD + 3
          BY <4>1
        <5>. QED
          BY <1>2, <2>3, <4>1, <5>1
      <4>. QED
        BY <1>1, <3>1, <3>3, <4>2 DEF LastTwo
    <3>. QED
      BY <3>2, <3>3
  <2>. QED
    BY <1>4, <2>1, <2>2, <2>3
<1>. QED
  BY <1>1, <1>2, <1>6, <1>7, <1>8 DEF Lined

\* The effect of one push of a broadcast.
LEMMA PushIs ==
  ASSUME TypeOK, NEW x \in Parties, NEW data \in Data, Push(x, data), CountPush(x)
  PROVE  /\ to[x] \in Players
         /\ queue' \in [Parties -> Seq(Data)] /\ to' \in [Parties -> Players]
         /\ to[x] # x => queue'[to[x]] = Append(queue[to[x]], data)
         /\ \A y \in Parties : y # to[x] \/ to[x] = x => queue'[y] = queue[y]
         /\ to'[x] = IF to[x] = PLAYERS THEN 1 ELSE to[x] + 1
         /\ \A y \in Parties : y # x => to'[y] = to[y]
<1>. USE Sizes
<1>1. to \in [Parties -> Players] /\ to[x] \in Players /\ to[x] \in Parties
  BY DEF TypeOK
<1>2. to[x] # x => SendMsg(to[x], data)
  BY DEF Push
<1>3. to[x] = x => queue' = queue
  BY DEF Push
<1>4. /\ queue' \in [Parties -> Seq(Data)]
      /\ to[x] # x => queue'[to[x]] = Append(queue[to[x]], data)
      /\ \A y \in Parties : y # to[x] \/ to[x] = x => queue'[y] = queue[y]
  <2>1. CASE to[x] = x
    BY <1>3, <2>1 DEF TypeOK
  <2>2. CASE to[x] # x
    BY <1>1, <1>2, <2>2, PushEffect
  <2>. QED
    BY <2>1, <2>2
<1>5. to' = [to EXCEPT ![x] = IF to[x] = PLAYERS THEN 1 ELSE to[x] + 1]
  BY DEF CountPush, LastPush
<1>6. to[x] # PLAYERS => to[x] + 1 \in Players
  BY <1>1 DEF Players
<1>. QED
  BY <1>1, <1>4, <1>5, <1>6

LEMMA Upto ==
  \A x, y \in Nat : ~(x < x) /\ (y < x + 1 <=> y < x \/ y = x)
  OBVIOUS

LEMMA BroadcastStep ==
  ASSUME SignInv, NEW p \in Signers, Broadcast(p)
  PROVE  SignInv'
<1>. USE Sizes
<1>1. /\ TypeOK /\ threshold \in Ascending /\ TtpState /\ InTurn
      /\ \A m \in Slots : \A q \in Signers : q = SignerOf(m) => SlotInv(m, q)
  BY DEF SignInv, TypeOK
<1>2. PICK l \in Slots : l = Idx(p) /\ p = SignerOf(l)
  BY <1>1, SlotsAre
<1>3. /\ pc[p] = "bc" /\ Push(p, sm[p][Len(sm[p])]) /\ CountPush(p)
      /\ IF LastPush(p) THEN Then(p, "bc") ELSE UNCHANGED <<pc, i>>
      /\ UNCHANGED <<threshold, sm, root, ttp, k, shares, key, top, shortSeed, verdict>>
  BY DEF Broadcast, ttpVars
<1>4. /\ Signers \subseteq Players /\ Signers' = Signers /\ p \in Players
      /\ p \in Parties /\ p # TTP /\ Data' = Data
      /\ l \in Nat /\ l < THRESHOLD /\ l \in Layers /\ l # THRESHOLD
      /\ \A m : SignerOf(m)' = SignerOf(m) /\ RootBelow(m)' = RootBelow(m)
  BY <1>1, <1>2, <1>3, SlotsAre, SignersStay
<1>5. Counted(l, p) /\ Lined(l, p)
  BY <1>1, <1>2, <1>3 DEF SlotInv, Signing
<1>6. Len(sm[p]) = l + 3 /\ root[p] = RootBelow(l + 1) /\ i[p] = IF l = 0 THEN 1 ELSE l
  BY <1>3, <1>5 DEF Counted
<1>7. /\ ~Past(l) /\ Signed(l) /\ (SentRoot(l) <=> l = THRESHOLD - 1)
      /\ \A x : Pushed(l, x) <=> x < to[p]
  <2>1. ~Past(l)
    BY <1>2, <1>3 DEF Past
  <2>. QED
    BY <1>2, <1>3, <1>4, <2>1 DEF Signed, SentRoot, Pushed
<1>8. sm[p][Len(sm[p])] = Right(l) /\ Right(l) \in Data
  <2>1. ~Rooted(l) /\ Present(l, p)
    BY <1>2, <1>7 DEF Rooted, Present
  <2>2. Line(p)[l + 3] = Right(l)
    <3>1. CASE l = THRESHOLD - 1
      BY <1>2, <1>5, <2>1, <3>1 DEF Lined, LastTwo
    <3>2. CASE l # THRESHOLD - 1
      <4>1. l \in 0..(THRESHOLD - 2)
        BY <1>4, <3>2
      <4>. QED
        BY <1>5, <2>1, <4>1 DEF Lined
    <3>. QED
      BY <3>1, <3>2
  <2>3. l + 3 \in 1..Len(sm[p])
    BY <1>4, <1>6
  <2>. QED
    BY ZenonT(60), <1>1, <1>4, <1>6, <2>2, <2>3, LineIs, DataAre
<1> DEFINE x == to[p]
<1>9. /\ x \in Players
      /\ queue' \in [Parties -> Seq(Data)] /\ to' \in [Parties -> Players]
      /\ x # p => queue'[x] = Append(queue[x], Right(l))
      /\ \A y \in Parties : y # x \/ x = p => queue'[y] = queue[y]
      /\ to'[p] = IF x = PLAYERS THEN 1 ELSE x + 1
      /\ \A y \in Parties : y # p => to'[y] = to[y]
  <2>1. Push(p, Right(l)) /\ CountPush(p) /\ TypeOK /\ p \in Parties /\ Right(l) \in Data
    BY <1>1, <1>3, <1>4, <1>8
  <2>. QED
    BY ONLY <2>1, PushIs
<1>10. /\ pc' \in [Players -> Presign \cup Signing \cup {"idle"}] /\ i' \in [Players -> 1..THRESHOLD]
       /\ \A q \in Players : q # p => pc'[q] = pc[q] /\ i'[q] = i[q]
       /\ IF x # PLAYERS THEN pc'[p] = "bc" /\ i'[p] = i[p]
          ELSE IF l # THRESHOLD - 1 THEN pc'[p] = "send_root" /\ i'[p] = i[p]
          ELSE pc'[p] = "recv_final"
  <2>1. CASE x # PLAYERS
    <3>1. pc' = pc /\ i' = i
      BY <1>3, <2>1 DEF LastPush
    <3>. QED
      BY <1>1, <1>3, <2>1, <3>1 DEF TypeOK
  <2>2. CASE x = PLAYERS /\ l # THRESHOLD - 1
    <3>1. Then(p, "bc")
      BY <1>3, <2>2 DEF LastPush
    <3>2. AfterSigning(p)[1] = "bc" /\ AfterSigning(p)[2] = "send_root"
      BY <1>2, <2>2 DEF AfterSigning
    <3>3. pc' = [pc EXCEPT ![p] = "send_root"] /\ i' = i
      BY <3>1, <3>2 DEF Then, Goto
    <3>. QED
      BY <1>1, <1>4, <2>2, <3>3 DEF TypeOK, Signing
  <2>3. CASE x = PLAYERS /\ l = THRESHOLD - 1
    <3>1. Then(p, "bc")
      BY <1>3, <2>3 DEF LastPush
    <3>2. AfterSigning(p)[1] = "send_root"
      BY <1>2, <2>3 DEF AfterSigning
    <3>3. AfterOwnRound(p)
      BY <3>1, <3>2 DEF Then
    <3>. QED
      BY <1>1, <1>2, <1>4, <1>6, <2>3, <3>3, AfterOwn
  <2>. QED
    BY <2>1, <2>2, <2>3
<1>11. OnlyMoves(p)
  <2>1. TTP \in Parties /\ \A q \in Players : q \in Parties
    OBVIOUS
  <2>. QED
    BY <1>3, <1>4, <1>9, <1>10, <2>1 DEF OnlyMoves
<1>12. TypeOK'
  BY <1>1, <1>3, <1>4, <1>9, <1>10 DEF TypeOK
<1>13. /\ Signed(l)' /\ (SentRoot(l)' <=> SentRoot(l))
       /\ \A y \in Players : Pushed(l, y)' <=> Pushed(l, y) \/ y = x
  <2>1. \A y \in Players : y <= PLAYERS /\ y \in Nat
    OBVIOUS
  <2>2. CASE x # PLAYERS
    <3>1. pc'[p] = "bc" /\ to'[p] = x + 1 /\ SignerOf(l)' = p
      BY <1>2, <1>4, <1>9, <1>10, <2>2
    <3>2. ~Past(l)' /\ Signed(l)' /\ (SentRoot(l)' <=> l = THRESHOLD - 1)
      BY <1>4, <3>1 DEF Past, Signed, SentRoot
    <3>3. \A y : Pushed(l, y)' <=> y < x + 1
      BY <1>4, <3>1, <3>2 DEF Pushed
    <3>4. \A y \in Players : y < x + 1 <=> y < x \/ y = x
      <4>1. x \in Nat
        BY <1>9, <2>1
      <4>. QED
        BY ONLY <2>1, <4>1, Upto
    <3>. QED
      BY <1>7, <3>2, <3>3, <3>4
  <2>3. CASE x = PLAYERS
    <3>1. SignerOf(l)' = p /\ pc'[p] = IF l # THRESHOLD - 1 THEN "send_root" ELSE "recv_final"
      BY <1>2, <1>4, <1>10, <2>3
    <3>2. (Past(l)' <=> l = THRESHOLD - 1) /\ Signed(l)' /\ (SentRoot(l)' <=> l = THRESHOLD - 1)
      BY <1>4, <3>1 DEF Past, Signed, SentRoot
    <3>3. \A y : Pushed(l, y)'
      BY <1>4, <3>1, <3>2 DEF Pushed
    <3>4. \A y \in Players : y < x \/ y = x
      BY <2>1, <2>3
    <3>. QED
      BY <1>7, <3>2, <3>3, <3>4
  <2>. QED
    BY <2>2, <2>3
<1>14. Counted(l, p)'
  BY SMTT(30), <1>3, <1>4, <1>6, <1>9, <1>10 DEF Counted, Presign
<1>15. ASSUME NEW m \in Slots PROVE ~Rooted(m) /\ ~Rooted(m)'
  <2>1. m \in Nat /\ m # THRESHOLD /\ (m > 0 => m - 1 \in Slots /\ m - 1 # THRESHOLD - 1)
    BY DEF Slots
  <2>2. m <= l => Signed(m)
    BY <1>1, <1>4, <1>7, <2>1, Order
  <2>3. m > l => ~SentRoot(m - 1)
    <3>1. ASSUME m > l, SentRoot(m - 1) PROVE FALSE
      <4>1. Past(m - 1) /\ Signed(m - 1)
        BY <1>1, <1>4, <2>1, <3>1, Order
      <4>2. CASE m - 1 = l
        BY <1>7, <4>1, <4>2
      <4>3. CASE m - 1 # l
        <5>1. l < m - 1 /\ m - 1 \in Slots
          BY <1>4, <2>1, <3>1, <4>3
        <5>. QED
          BY <1>1, <1>7, <4>1, <5>1, Order
      <4>. QED
        BY <4>2, <4>3
    <3>. QED
      BY <3>1
  <2>4. Signed(m)' <=> Signed(m)
    BY <1>1, <1>2, <1>7, <1>11, <1>13, OthersProgress
  <2>5. m > 0 => (SentRoot(m - 1)' <=> SentRoot(m - 1))
    BY <1>1, <1>2, <1>11, <1>13, <2>1, OthersProgress
  <2>. QED
    BY <1>4, <2>1, <2>2, <2>3, <2>4, <2>5 DEF Rooted
<1>16. ASSUME NEW m \in Slots PROVE Lined(m, SignerOf(m))'
  <2>1. PICK q : q = SignerOf(m)
    OBVIOUS
  <2>2. q \in Signers /\ q \in Players /\ q \in Parties /\ SignerOf(m)' = q /\ (q = p => m = l)
    BY <1>1, <1>2, <1>4, <2>1, SlotsAre
  <2>3. Lined(m, q)
    <3>1. pc[q] \in Signing
      BY <1>3, <2>2 DEF SignInv, Together, Presign, Signing
    <3>. QED
      BY <1>1, <2>1, <2>2, <3>1 DEF SlotInv
  <2>4. CASE q = x /\ q # p
    <3>1. Line(q)' = Append(Line(q), Right(l))
      <4>1. queue'[q] = Append(queue[q], Right(l)) /\ sm'[q] = sm[q]
        BY <1>3, <1>9, <2>4
      <4>2. sm[q] \in Seq(Data \cup {Fors}) /\ queue[q] \in Seq(Data)
        BY <1>1, <2>2 DEF TypeOK
      <4>3. queue[q] \in Seq(Data \cup {Fors}) /\ Right(l) \in Data \cup {Fors}
        BY <1>8, <4>2
      <4>4. sm[q] \o Append(queue[q], Right(l)) = Append(sm[q] \o queue[q], Right(l))
        <5>1. PICK s, w, d, S : s = sm[q] /\ w = queue[q] /\ d = Right(l) /\ S = Data \cup {Fors}
          OBVIOUS
        <5>2. s \in Seq(S) /\ w \in Seq(S) /\ d \in S
          BY ONLY <4>2, <4>3, <5>1
        <5>3. s \o Append(w, d) = Append(s \o w, d)
          BY ONLY <5>2, LineGrows
        <5>. QED
          BY ONLY <5>1, <5>3
      <4>. QED
        BY ONLY <4>1, <4>4 DEF Line
    <3>2. ~Present(l, q) /\ Present(l, q)' /\ q # SignerOf(l)
      <4>1. x \in Nat
        BY <1>9
      <4>2. ~(x < x)
        BY ONLY <4>1, Upto
      <4>. QED
        BY <1>2, <1>4, <1>7, <1>13, <2>2, <2>4, <4>2 DEF Present
    <3>3. \A j \in Layers : j # l => (Present(j, q)' <=> Present(j, q))
      <4>1. \A j \in Layers : j \in Slots \/ j = THRESHOLD
        BY DEF Slots
      <4>2. /\ \A j \in Slots : j # l => (Present(j, q)' <=> Present(j, q))
            /\ Present(THRESHOLD, q)' <=> Present(THRESHOLD, q)
        BY ONLY <1>1, <1>2, <1>11, OthersProgress
      <4>. QED
        BY <4>1, <4>2
    <3>4. \A j \in 0..(THRESHOLD - 2) : j < l => Present(j, q)
      <4>1. \A j \in 0..(THRESHOLD - 2) : j \in Slots
        BY DEF Slots
      <4>. QED
        BY <1>1, <1>7, <4>1, Order DEF Present
    <3>5. ASSUME l <= THRESHOLD - 2, NEW j \in Layers, j > l PROVE ~Present(j, q)
      <4>1. CASE j = THRESHOLD
        <5>1. ~Signed(THRESHOLD)
          BY <1>1, <1>4, <1>7, <3>5, Order
        <5>. QED
          BY <1>1, <4>1, <5>1, <2>2, SlotsAre, Order DEF Present
      <4>2. CASE j # THRESHOLD
        <5>1. j \in Slots
          BY <4>2 DEF Slots
        <5>2. ~Signed(j)
          BY <1>1, <1>4, <1>7, <3>5, <5>1, Order
        <5>. QED
          BY <1>1, <5>1, <5>2, Order DEF Present
      <4>. QED
        BY <4>1, <4>2
    <3>6. /\ TypeOK /\ threshold' = threshold /\ q \in Players /\ l \in Layers
          /\ ~Rooted(m) /\ ~Rooted(m)'
      BY <1>1, <1>3, <1>4, <1>15, <2>2
    <3>7. Lined(m, q)'
      BY ONLY <2>3, <3>1, <3>2, <3>3, <3>4, <3>5, <3>6, ShardArrives
    <3>. QED
      BY <2>2, <3>7
  <2>5. CASE ~(q = x /\ q # p)
    <3>1. Line(q)' = Line(q)
      BY <1>3, <1>9, <2>2, <2>5 DEF Line
    <3>2. Present(l, q)' <=> Present(l, q)
      BY <1>2, <1>4, <1>7, <1>13, <2>2, <2>5 DEF Present
    <3>3. (Signed(l)' <=> Signed(l)) /\ (SentRoot(l)' <=> SentRoot(l))
      BY <1>7, <1>13
    <3>4. threshold \in Ascending /\ OnlyMoves(SignerOf(l))
      BY <1>1, <1>2, <1>11
    <3>5. Lined(m, q)'
      BY ONLY <2>3, <3>1, <3>2, <3>3, <3>4, OtherLined
    <3>. QED
      BY <2>2, <3>5
  <2>. QED
    BY <2>4, <2>5
<1>17. Lined(l, p)' /\ \A m \in Slots : m # l => Lined(m, SignerOf(m))'
  <2>1. p = SignerOf(l)'
    BY <1>2, <1>4
  <2>. QED
    BY <1>16, <2>1
<1>18. TtpState'
  <2>1. SentRoot(THRESHOLD - 1)' <=> SentRoot(THRESHOLD - 1)
    BY <1>1, <1>2, <1>11, <1>13, OthersProgress, SlotsAre
  <2>2. \A q \in Signers : pc'[q] = "send_share" <=> pc[q] = "send_share"
    BY <1>3, <1>4, <1>10
  <2>3. queue'[TTP] = queue[TTP] /\ to'[TTP] = to[TTP]
    BY <1>4, <1>9
  <2>. QED
    BY <1>1, <1>3, <2>1, <2>2, <2>3, TtpStateStays
<1>19. pc[p] \in Signing \ {"done"} /\ pc'[p] \in Signing \ {"first_sign"}
  BY <1>3, <1>10 DEF Signing
<1>. QED
  BY <1>2, <1>7, <1>11, <1>12, <1>13, <1>14, <1>17, <1>18, <1>19, SigningStep

LEMMA RootArrives ==
  ASSUME TypeOK, threshold' = threshold, NEW m \in Slots, NEW q \in Players,
         Lined(m, q), ~Rooted(m), Rooted(m)', Line(q)' = Append(Line(q), RootBelow(m)), m > 0,
         \A j \in Slots : Present(j, q)' <=> Present(j, q),
         Present(m - 1, q), ~Present(m, q), ~Present(THRESHOLD, q)
  PROVE  Lined(m, q)'
<1>. USE Sizes
<1>1. \A j : Right(j)' = Right(j) /\ RootBelow(j)' = RootBelow(j)
  BY SignersStay
<1> DEFINE n == Len(Line(q))
<1>2. /\ n \in Nat /\ Len(Line(q)') = n + 1
      /\ \A j \in 1..n : Line(q)'[j] = Line(q)[j]
      /\ Line(q)'[n + 1] = RootBelow(m)
  <2>1. m \in Layers
    BY DEF Slots
  <2>2. Line(q) \in Seq(Data \cup {Fors}) /\ RootBelow(m) \in Data \cup {Fors}
    BY <2>1, LineIs, DataAre
  <2>. QED
    BY ONLY <2>2, Line(q)' = Append(Line(q), RootBelow(m)), AppendProperties, LenProperties
<1>3. /\ n >= 2 /\ Line(q)[1] = RandR /\ Line(q)[2] = Fors
      /\ \A j \in 0..(THRESHOLD - 2) :
             IF Present(j, q) THEN j + 3 <= n /\ Line(q)[j + 3] = Right(j) ELSE n <= j + 2
      /\ LastTwo(q)
  BY DEF Lined
<1>4. m \in Nat /\ m < THRESHOLD /\ m - 1 \in 0..(THRESHOLD - 2)
  BY DEF Slots
<1>5. n <= m + 2
  <2>1. CASE m = THRESHOLD - 1
    BY <1>3, <2>1 DEF LastTwo
  <2>2. CASE m # THRESHOLD - 1
    <3>1. m \in 0..(THRESHOLD - 2)
      BY <1>4, <2>2
    <3>. QED
      BY <1>3, <3>1
  <2>. QED
    BY <2>1, <2>2
<1>. HIDE DEF n
<1>6. n = m + 2
  <2>1. m + 2 <= n
    BY <1>3, <1>4
  <2>. QED
    BY <1>2, <1>4, <1>5, <2>1
<1>7. Line(q)'[1] = RandR /\ Line(q)'[2] = Fors /\ n + 1 >= 2
  <2>1. 1 \in 1..n /\ 2 \in 1..n
    BY <1>2, <1>3
  <2>. QED
    BY <1>2, <1>3, <2>1
<1>8. ASSUME NEW j \in 0..(THRESHOLD - 2), Present(j, q)'
      PROVE  j + 3 <= n + 1 /\ Line(q)'[j + 3] = Right(j)
  <2>1. j \in Slots /\ j \in Nat
    BY DEF Slots
  <2>2. j + 3 <= n /\ Line(q)[j + 3] = Right(j)
    BY <1>3, <1>8, <2>1
  <2>3. j + 3 \in 1..n
    BY <1>2, <2>1, <2>2
  <2>. QED
    BY <1>2, <2>1, <2>2, <2>3
<1>9. n + 1 = m + 3
  BY <1>4, <1>6
<1>. QED
  BY <1>1, <1>2, <1>7, <1>8, <1>9 DEF Lined

LEMMA SendRootStep ==
  ASSUME SignInv, NEW p \in Signers, SendRoot(p)
  PROVE  SignInv'
<1>. USE Sizes
<1>1. /\ TypeOK /\ threshold \in Ascending /\ TtpState /\ InTurn /\ Presigned(p)
      /\ \A m \in Slots : \A q \in Signers : q = SignerOf(m) => SlotInv(m, q)
  BY DEF SignInv, TypeOK
<1>2. PICK l \in Slots : l = Idx(p) /\ p = SignerOf(l)
  BY <1>1, SlotsAre
<1>3. /\ pc[p] = "send_root" /\ Then(p, "send_root")
      /\ SendMsg(IF Idx(p) = THRESHOLD - 1 THEN TTP ELSE threshold[Idx(p) + 2], root[p])
      /\ UNCHANGED <<threshold, to, sm, root, ttp, k, shares, key, top, shortSeed, verdict>>
  BY DEF SendRoot, ttpVars
<1>4. /\ Signers \subseteq Players /\ Signers' = Signers /\ p \in Players
      /\ p \in Parties /\ p # TTP /\ Data' = Data
      /\ l \in Nat /\ l < THRESHOLD /\ l + 1 \in Layers /\ l # THRESHOLD
      /\ \A m : SignerOf(m)' = SignerOf(m) /\ RootBelow(m)' = RootBelow(m)
      /\ l # THRESHOLD - 1 => l + 1 \in Slots
  <2>1. l \in Nat /\ l < THRESHOLD /\ l + 1 \in Layers /\ (l # THRESHOLD - 1 => l + 1 \in Slots)
    BY DEF Slots
  <2>. QED
    BY <1>1, <1>2, <1>3, <2>1, SlotsAre, SignersStay
<1>5. Counted(l, p)
  BY <1>1, <1>2, <1>3 DEF SlotInv
<1>6. Len(sm[p]) = l + 3 /\ root[p] = RootBelow(l + 1) /\ (i[p] = IF l = 0 THEN 1 ELSE l) /\ to[p] = 1
  BY <1>3, <1>5 DEF Counted
<1> DEFINE y == SignerOf(l + 1)
<1>7. y \in Parties /\ (l = THRESHOLD - 1 => y = TTP) /\ (l # THRESHOLD - 1 => y \in Players /\ y # p)
  <2>1. CASE l = THRESHOLD - 1
    BY <1>1, <2>1, SlotsAre
  <2>2. CASE l # THRESHOLD - 1
    BY <1>1, <1>2, <1>4, <2>2, SlotsAre
  <2>. QED
    BY <2>1, <2>2
<1>8. /\ queue' \in [Parties -> Seq(Data)] /\ queue'[y] = Append(queue[y], RootBelow(l + 1))
      /\ \A z \in Parties : z # y => queue'[z] = queue[z]
  <2>1. (IF Idx(p) = THRESHOLD - 1 THEN TTP ELSE threshold[Idx(p) + 2]) = y
    <3>1. CASE l = THRESHOLD - 1
      BY <1>2, <1>7, <3>1
    <3>2. CASE l # THRESHOLD - 1
      <4>1. y = threshold[l + 1 + 1] /\ l + 1 + 1 = l + 2
        BY <1>1, <1>4, <3>2, SlotsAre
      <4>. QED
        BY <1>2, <3>2, <4>1
    <3>. QED
      BY <3>1, <3>2
  <2>2. SendMsg(y, RootBelow(l + 1))
    BY <1>3, <1>6, <2>1
  <2>3. RootBelow(l + 1) \in Data /\ TypeOK
    BY <1>1, <1>4, DataAre
  <2>. QED
    BY ONLY <1>7, <2>2, <2>3, PushEffect
<1>9. /\ pc' \in [Players -> Presign \cup Signing \cup {"idle"}] /\ i' \in [Players -> 1..THRESHOLD]
      /\ \A q \in Players : q # p => pc'[q] = pc[q] /\ i'[q] = i[q]
      /\ IF l = THRESHOLD - 1 THEN pc'[p] = "bc" /\ i'[p] = i[p]
         ELSE pc'[p] = "recv_shard" /\ i'[p] = l + 2
  <2>1. CASE l = THRESHOLD - 1
    <3>1. AfterSigning(p)[1] = "send_root" /\ AfterSigning(p)[2] = "bc"
      BY <1>2, <2>1 DEF AfterSigning
    <3>2. pc' = [pc EXCEPT ![p] = "bc"] /\ i' = i
      BY <1>3, <3>1 DEF Then, Goto
    <3>. QED
      BY <1>1, <1>4, <2>1, <3>2 DEF TypeOK, Signing
  <2>2. CASE l # THRESHOLD - 1
    <3>1. AfterSigning(p)[1] = "bc"
      BY <1>2, <2>2 DEF AfterSigning
    <3>2. AfterOwnRound(p)
      BY <1>3, <3>1 DEF Then
    <3>. QED
      BY <1>1, <1>2, <1>4, <1>6, <2>2, <3>2, AfterOwn
  <2>. QED
    BY <2>1, <2>2
<1>10. OnlyMoves(p)
  BY <1>3, <1>4, <1>9 DEF OnlyMoves
<1>11. TypeOK'
  BY <1>1, <1>3, <1>4, <1>8, <1>9 DEF TypeOK
<1>12. /\ ~Past(l) /\ Signed(l) /\ ~SentRoot(l) /\ \A x : Pushed(l, x) <=> l # THRESHOLD - 1
  <2>1. ~Past(l)
    BY <1>2, <1>3 DEF Past
  <2>. QED
    BY <1>2, <1>3, <1>4, <2>1 DEF Signed, SentRoot, Pushed
<1>13. /\ Signed(l)' /\ SentRoot(l)' /\ \A x \in Players : Pushed(l, x)' <=> Pushed(l, x)
  <2>1. CASE l = THRESHOLD - 1
    <3>1. SignerOf(l)' = p /\ pc'[p] = "bc" /\ to'[p] = 1
      BY <1>2, <1>3, <1>4, <1>6, <1>9, <2>1
    <3>2. ~Past(l)' /\ Signed(l)' /\ SentRoot(l)'
      BY <1>4, <2>1, <3>1 DEF Past, Signed, SentRoot
    <3>3. \A x \in Players : ~(x < 1)
      OBVIOUS
    <3>. QED
      BY <1>4, <1>12, <2>1, <3>1, <3>2, <3>3 DEF Pushed
  <2>2. CASE l # THRESHOLD - 1
    <3>1. SignerOf(l)' = p /\ pc'[p] = "recv_shard" /\ i'[p] = l + 2
      BY <1>2, <1>4, <1>9, <2>2
    <3>2. Past(l)'
      BY <1>4, <3>1 DEF Past
    <3>. QED
      BY <1>4, <1>12, <2>2, <3>2 DEF Pushed, Signed, SentRoot
  <2>. QED
    BY <2>1, <2>2
<1>14. Counted(l, p)'
  BY <1>3, <1>4, <1>6, <1>9 DEF Counted, Presign
<1>15. ASSUME NEW m \in Slots PROVE Lined(m, SignerOf(m))'
  <2>1. PICK q : q = SignerOf(m)
    OBVIOUS
  <2>2. q \in Signers /\ q \in Players /\ q \in Parties /\ q # TTP /\ SignerOf(m)' = q
    BY <1>1, <1>4, <2>1, SlotsAre
  <2>3. Lined(m, q)
    <3>1. pc[q] \in Signing
      BY <1>3, <2>2 DEF SignInv, Together, Presign, Signing
    <3>. QED
      BY <1>1, <2>1, <2>2, <3>1 DEF SlotInv
  <2>4. Present(l, q)' <=> Present(l, q)
    BY <1>4, <1>12, <1>13, <2>2 DEF Present
  <2>5. threshold \in Ascending /\ OnlyMoves(SignerOf(l))
    BY <1>1, <1>2, <1>10
  <2>6. CASE m = l + 1
    <3>1. q = y /\ l # THRESHOLD - 1 /\ m - 1 = l /\ m > 0 /\ m # l /\ m # THRESHOLD /\ l < m
      BY <1>4, <2>1, <2>6 DEF Slots
    <3>2. ~Signed(m)
      BY <1>1, <1>12, <3>1, Order
    <3>3. ~Signed(m)'
      BY ONLY <2>5, <3>1, <3>2, OthersProgress
    <3>4. ~Rooted(m) /\ Rooted(m)'
      BY <1>4, <1>12, <1>13, <3>1, <3>2, <3>3 DEF Rooted
    <3>5. Line(q)' = Append(Line(q), RootBelow(m))
      <4>1. queue'[q] = Append(queue[q], RootBelow(m)) /\ sm'[q] = sm[q]
        BY <1>3, <1>8, <2>6, <3>1
      <4>2. sm[q] \in Seq(Data \cup {Fors}) /\ queue[q] \in Seq(Data)
        BY <1>1, <2>2 DEF TypeOK
      <4>3. RootBelow(m) \in Data
        BY <1>4, <2>6, DataAre
      <4>4. PICK s, w, d, S : s = sm[q] /\ w = queue[q] /\ d = RootBelow(m) /\ S = Data \cup {Fors}
        OBVIOUS
      <4>5. s \in Seq(S) /\ w \in Seq(S) /\ d \in S
        BY ONLY <4>2, <4>3, <4>4
      <4>6. s \o Append(w, d) = Append(s \o w, d)
        BY ONLY <4>5, LineGrows
      <4>. QED
        BY ONLY <4>1, <4>4, <4>6 DEF Line
    <3>6. \A j \in Slots : Present(j, q)' <=> Present(j, q)
      BY <2>4, <2>5, OthersProgress
    <3>7. Present(m - 1, q) /\ ~Present(m, q) /\ ~Present(THRESHOLD, q)
      <4>1. Present(l, q)
        BY <1>12, <3>1 DEF Present
      <4>2. ~Present(m, q)
        BY <1>1, <3>2, Order DEF Present
      <4>3. ~Signed(THRESHOLD)
        BY <1>1, <3>2, Order
      <4>4. ~Present(THRESHOLD, q)
        BY <1>1, <2>2, <4>3, SlotsAre, Order DEF Present
      <4>. QED
        BY <3>1, <4>1, <4>2, <4>4
    <3>8. TypeOK /\ threshold' = threshold
      BY <1>1, <1>3
    <3>9. Lined(m, q)'
      BY ONLY <2>2, <2>3, <3>1, <3>4, <3>5, <3>6, <3>7, <3>8, RootArrives
    <3>. QED
      BY <2>2, <3>9
  <2>7. CASE m # l + 1
    <3>1. q # y
      <4>1. CASE l = THRESHOLD - 1
        BY <1>7, <2>2, <4>1
      <4>2. CASE l # THRESHOLD - 1
        BY <1>1, <1>4, <2>1, <2>7, <4>2, SlotsAre
      <4>. QED
        BY <4>1, <4>2
    <3>2. Line(q)' = Line(q)
      BY <1>3, <1>8, <2>2, <3>1 DEF Line
    <3>3. Signed(l)' <=> Signed(l)
      BY <1>12, <1>13
    <3>4. Lined(m, q)'
      BY ONLY <2>3, <2>4, <2>5, <2>7, <3>2, <3>3, OtherLined
    <3>. QED
      BY <2>2, <3>4
  <2>. QED
    BY <2>6, <2>7
<1>16. Lined(l, p)' /\ \A m \in Slots : m # l => Lined(m, SignerOf(m))'
  <2>1. p = SignerOf(l)'
    BY <1>2, <1>4
  <2>. QED
    BY <1>15, <2>1
<1>17. \A q \in Signers : pc'[q] = "send_share" <=> pc[q] = "send_share"
  BY <1>3, <1>4, <1>9
<1>18. TtpState'
  <2>1. CASE l # THRESHOLD - 1
    <3>1. SentRoot(THRESHOLD - 1)' <=> SentRoot(THRESHOLD - 1)
      BY <1>1, <1>2, <1>10, <2>1, OthersProgress, SlotsAre
    <3>2. queue'[TTP] = queue[TTP] /\ to'[TTP] = to[TTP]
      BY <1>3, <1>7, <1>8, <2>1
    <3>. QED
      BY <1>1, <1>3, <1>17, <3>1, <3>2, TtpStateStays
  <2>2. CASE l = THRESHOLD - 1
    <3>1. ttp # "recv_shares"
      BY <1>1, <1>3 DEF Presigned, Signing, SentSeed
    <3>2. ~Signed(THRESHOLD) /\ ~Signed(THRESHOLD)'
      BY <1>1, <1>2, <1>10, <1>12, <2>2, OthersProgress DEF InTurn
    <3>3. queue[TTP] = <<>>
      BY <1>1, <1>12, <2>2, <3>1 DEF TtpState
    <3>4. queue'[TTP] = <<RootBelow(THRESHOLD)>>
      BY <1>7, <1>8, <2>2, <3>3
    <3>5. Different(queue[TTP])'
      BY <3>4 DEF Different
    <3>6. /\ \A q \in Signers : pc'[q] # "send_share"
          /\ key \in {"joint", "stray"} /\ (key = "stray" => shortSeed)
      BY <1>1, <1>17, <3>1 DEF TtpState
    <3>7. SentRoot(THRESHOLD - 1)'
      BY <1>13, <2>2
    <3>8. /\ ttp' = ttp /\ key' = key /\ shortSeed' = shortSeed /\ to' = to
          /\ Signers' = Signers /\ RootBelow(THRESHOLD)' = RootBelow(THRESHOLD)
      BY <1>3, <1>4
    <3>9. ttp \in {"recv_shares", "recv_root", "done"} => to[TTP] = 1
      BY <1>1 DEF TtpState
    <3>10. ttp \notin {"bc_top", "done"}
      BY <3>2 DEF Signed
    <3>. QED
      BY <3>1, <3>2, <3>4, <3>5, <3>6, <3>7, <3>8, <3>9, <3>10 DEF TtpState
  <2>. QED
    BY <2>1, <2>2
<1>19. pc[p] \in Signing \ {"done"} /\ pc'[p] \in Signing \ {"first_sign"}
  BY <1>3, <1>9 DEF Signing
<1>. QED
  BY <1>2, <1>10, <1>11, <1>12, <1>13, <1>14, <1>16, <1>18, <1>19, SigningStep

------------------------------------------------------------------------------
(* The TTP.                                                                  *)

\* A step of the TTP leaves the signers what they are.
TtpMoves ==
    /\ UNCHANGED <<threshold, pc, i, sm>>
    /\ \A p \in Players : to'[p] = to[p] /\ root'[p] = root[p]

LEMMA SignersProgress ==
  ASSUME threshold \in Ascending, TtpMoves
  PROVE  \A m \in Slots :
             /\ Past(m)' <=> Past(m)
             /\ Signed(m)' <=> Signed(m)
             /\ SentRoot(m)' <=> SentRoot(m)
             /\ Rooted(m)' <=> Rooted(m)
             /\ \A x : Present(m, x)' <=> Present(m, x)
<1>1. ASSUME NEW m \in Slots
      PROVE  /\ Past(m)' <=> Past(m)
             /\ Signed(m)' <=> Signed(m)
             /\ SentRoot(m)' <=> SentRoot(m)
             /\ \A x : Present(m, x)' <=> Present(m, x)
  <2>1. /\ threshold' = threshold
        /\ pc'[SignerOf(m)] = pc[SignerOf(m)] /\ i'[SignerOf(m)] = i[SignerOf(m)]
        /\ to'[SignerOf(m)] = to[SignerOf(m)]
    BY SlotsAre DEF TtpMoves
  <2>. QED
    BY ONLY <2>1, ProgressStays
<1>2. \A m \in Slots : m > 0 => m - 1 \in Slots
  BY Sizes DEF Slots
<1>. QED
  BY <1>1, <1>2 DEF Rooted

LEMMA TtpLined ==
  ASSUME threshold \in Ascending, TtpMoves, NEW m \in Slots, NEW q, Lined(m, q),
         Line(q)' = Line(q), Present(THRESHOLD, q)' <=> Present(THRESHOLD, q)
  PROVE  Lined(m, q)'
<1>1. threshold' = threshold
  BY DEF TtpMoves
<1>2. /\ \A n \in Slots : Present(n, q)' <=> Present(n, q)
      /\ Rooted(m)' <=> Rooted(m)
  BY SignersProgress
<1>. QED
  BY ONLY <1>1, <1>2, Lined(m, q), Line(q)' = Line(q), LinedStays,
          Present(THRESHOLD, q)' <=> Present(THRESHOLD, q)

\* The invariant after a step of the TTP.
LEMMA TtpStep ==
  ASSUME SignInv, ttp # "done", TtpMoves, verdict' = verdict, TypeOK', TtpState',
         Signed(THRESHOLD)' => SentRoot(THRESHOLD - 1),
         \A p \in Signers : Presigned(p)',
         \A m \in Slots : \A q \in Signers :
             q = SignerOf(m) /\ pc[q] \in Signing => Lined(m, q)'
  PROVE  SignInv'
<1>. USE Sizes
<1>1. /\ TypeOK /\ threshold \in Ascending /\ InTurn /\ Together /\ VerdictRight
      /\ \A m \in Slots : \A q \in Signers : q = SignerOf(m) => SlotInv(m, q)
  BY DEF SignInv, TypeOK
<1>2. UNCHANGED <<threshold, pc, i, sm, verdict>>
  BY DEF TtpMoves
<1>3. /\ Signers \subseteq Players /\ Signers' = Signers
      /\ \A m : SignerOf(m)' = SignerOf(m)
  BY <1>1, <1>2, SlotsAre, SignersStay
<1>4. Together'
  BY <1>1, <1>2, <1>3 DEF Together
<1>5. InTurn'
  <2>1. \A n, m \in Slots : n < m /\ Signed(m)' => Past(n)'
    BY <1>1, SignersProgress DEF InTurn
  <2>2. Signed(THRESHOLD)' => SentRoot(THRESHOLD - 1)'
    BY <1>1, SignersProgress, SlotsAre
  <2>. QED
    BY <2>1, <2>2 DEF InTurn
<1>6. VerdictRight'
  <2>1. verdict = "none"
    BY <1>1, NoVerdict
  <2>. QED
    BY <1>2, <2>1 DEF VerdictRight
<1>7. ASSUME NEW m \in Slots, NEW q \in Signers, q = SignerOf(m)
      PROVE  SlotInv(m, q)'
  <2>1. Counted(m, q)'
    <3>1. Counted(m, q) /\ q \in Players
      BY <1>1, <1>3, <1>7 DEF SlotInv
    <3>2. pc'[q] = pc[q] /\ i'[q] = i[q] /\ to'[q] = to[q] /\ sm'[q] = sm[q] /\ root'[q] = root[q]
      BY <3>1 DEF TtpMoves
    <3>. QED
      BY ONLY <1>2, <3>1, <3>2, CountedStays
  <2>2. pc'[q] \in Signing => Lined(m, q)'
    BY <1>2, <1>7
  <2>. QED
    BY <2>1, <2>2 DEF SlotInv
<1>8. \A q \in Players : IF q \in Signers' THEN pc'[q] \in Presign \cup Signing ELSE pc'[q] = "idle"
  BY <1>2, <1>3 DEF SignInv
<1>9. \A m \in Slots : \A q \in Signers' : q = SignerOf(m)' => SlotInv(m, q)'
  BY <1>3, <1>7
<1>. QED
  BY <1>3, <1>4, <1>5, <1>6, <1>8, <1>9 DEF SignInv

LEMMA TtpRecvShareStep ==
  ASSUME SignInv, TtpRecvShare
  PROVE  SignInv'
<1>. USE Sizes
<1>1. /\ TypeOK /\ threshold \in Ascending /\ TtpState
      /\ \A p \in Signers : Presigned(p) /\ pc[p] \in Presign \cup Signing
  BY SlotsAre DEF SignInv, TypeOK
<1>2. /\ ttp = "recv_shares" /\ HasMsg(TTP) /\ RecvMsg(TTP)
      /\ shares' = Append(shares, Received(TTP))
      /\ UNCHANGED <<threshold, pc, i, to, sm, root, top, shortSeed, verdict>>
  BY DEF TtpRecvShare, playerVars
<1>3. /\ Signers \subseteq Players /\ Signers' = Signers /\ Data' = Data
      /\ RootBelow(THRESHOLD)' = RootBelow(THRESHOLD)
  BY <1>1, <1>2, SlotsAre, SignersStay
<1>4. /\ queue' \in [Parties -> Seq(Data)] /\ queue'[TTP] = Tail(queue[TTP])
      /\ \A y \in Players : queue'[y] = queue[y]
      /\ queue[TTP] \in Seq(Data) /\ queue[TTP] # <<>>
      /\ Received(TTP) = Head(queue[TTP]) /\ Received(TTP) \in Data
  <2>1. TTP \in Parties
    OBVIOUS
  <2>2. /\ queue' \in [Parties -> Seq(Data)] /\ queue'[TTP] = Tail(queue[TTP])
        /\ \A y \in Parties : y # TTP => queue'[y] = queue[y]
        /\ queue[TTP] \in Seq(Data) /\ queue[TTP] # <<>>
        /\ Received(TTP) = Head(queue[TTP]) /\ Received(TTP) \in Data
    BY ONLY <1>1, <1>2, <2>1, TakeEffect
  <2>. QED
    BY <2>2
<1>5. /\ Head(queue[TTP]) \in Elements(queue[TTP])
      /\ Elements(queue[TTP])' = Elements(queue[TTP]) \ {Head(queue[TTP])}
      /\ Different(queue[TTP])'
  <2>1. Different(queue[TTP])
    BY <1>1 DEF TtpState
  <2>2. /\ Head(queue[TTP]) \in Elements(queue[TTP])
        /\ Elements(Tail(queue[TTP])) = Elements(queue[TTP]) \ {Head(queue[TTP])}
        /\ Different(Tail(queue[TTP]))
    BY ONLY <1>4, <2>1, TailEffect
  <2>. QED
    BY <1>4, <2>2
<1>6. PICK s \in Signers : pc[s] # "send_share" /\ Received(TTP) = Share(s)
  BY <1>1, <1>2, <1>4, <1>5 DEF TtpState
<1>7. \A p \in Signers : Share(p) = Share(s) => p = s
  BY DEF Share
<1>8. GotShare' = GotShare \cup {s} /\ s \notin GotShare
  BY <1>2, <1>3, <1>4, <1>5, <1>6, <1>7 DEF GotShare
<1>9. /\ Cardinality(GotShare') = k + 1 /\ GotShare' \subseteq Signers
      /\ Elements(shares)' = {Share(p) : p \in GotShare'}
  <2>1. IsFiniteSet(GotShare)
    <3>1. GotShare \subseteq Signers
      BY DEF GotShare
    <3>. QED
      BY <1>1, <3>1, SignersCount, FS_Subset
  <2>2. Cardinality(GotShare') = k + 1
    <3>1. k = Cardinality(GotShare)
      BY <1>1, <1>2 DEF TtpState
    <3>. QED
      BY ONLY <1>8, <2>1, <3>1, FS_AddElement
  <2>3. Elements(shares)' = {Share(p) : p \in GotShare'}
    <3>1. shares \in Seq(Data) /\ Elements(shares) = {Share(p) : p \in GotShare}
      BY <1>1, <1>2 DEF TtpState, TypeOK
    <3>2. Elements(Append(shares, Received(TTP))) = Elements(shares) \cup {Received(TTP)}
      BY ONLY <1>4, <3>1, AppendEffect
    <3>. QED
      BY <1>2, <1>6, <1>8, <3>1, <3>2
  <2>. QED
    BY <1>8, <2>2, <2>3 DEF GotShare
<1>10. /\ k \in Nat /\ k <= THRESHOLD - 1
       /\ IF k + 1 < THRESHOLD
          THEN k' = k + 1 /\ ttp' = "recv_shares" /\ key' = key
          ELSE k' = 0 /\ ttp' = "bc_R" /\ key' \in Recovered(shares')
  BY <1>1, <1>2 DEF TypeOK, TtpRecvShare
<1>11. TypeOK'
  <2>1. shares' \in Seq(Data)
    BY <1>1, <1>2, <1>4 DEF TypeOK
  <2>2. k' \in 0..(THRESHOLD - 1) /\ ttp' \in {"recv_shares", "bc_R"}
    BY ONLY <1>10, Sizes
  <2>. QED
    BY <1>1, <1>2, <1>3, <1>4, <2>1, <2>2 DEF TypeOK
<1>12. to[TTP] = 1 /\ to' = to /\ pc' = pc
  BY <1>1, <1>2 DEF TtpState
<1>13. TtpState'
  <2>1. CASE k + 1 < THRESHOLD
    <3>1. \A d \in Elements(queue[TTP])' : \E p \in Signers : pc[p] # "send_share" /\ d = Share(p)
      BY <1>1, <1>2, <1>5 DEF TtpState
    <3>2. ttp' = "recv_shares" /\ k' = Cardinality(GotShare')
      BY <1>9, <1>10, <2>1
    <3>. QED
      BY <1>3, <1>5, <1>9, <1>12, <3>1, <3>2 DEF TtpState
  <2>2. CASE ~(k + 1 < THRESHOLD)
    <3>1. GotShare' = Signers
      BY <1>1, <1>9, <1>10, <2>2, AllSigners
    <3>2. \A p \in Signers : pc'[p] # "send_share" /\ Share(p) \notin Elements(queue[TTP])'
      <4>1. GotShare' = {p \in Signers' : pc'[p] # "send_share" /\ Share(p) \notin Elements(queue[TTP])'}
        BY DEF GotShare
      <4>. QED
        BY <1>3, <3>1, <4>1
    <3>3. Elements(queue[TTP])' = {}
      <4>1. \A d \in Elements(queue[TTP])' : \E p \in Signers : d = Share(p)
        BY <1>1, <1>2, <1>5 DEF TtpState
      <4>. QED
        BY <3>2, <4>1
    <3>4. queue'[TTP] = <<>>
      <4>1. queue'[TTP] \in Seq(Data)
        BY <1>4
      <4>2. queue'[TTP] # <<>> => queue'[TTP][1] \in Elements(queue[TTP])'
        BY <4>1 DEF Elements
      <4>. QED
        BY <3>3, <4>2
    <3>5. key' \in {"joint", "stray"} /\ (key' = "stray" => shortSeed)
      <4>1. {shares'[j] : j \in DOMAIN shares'} = {Share(p) : p \in Signers}
        BY <1>9, <3>1 DEF Elements
      <4>. QED
        BY <1>10, <2>2, <4>1 DEF Recovered
    <3>6. ~SentRoot(THRESHOLD - 1)'
      <4>1. PICK p : p = SignerOf(THRESHOLD - 1) /\ p \in Signers /\ p = SignerOf(THRESHOLD - 1)'
        BY <1>1, <1>2, SlotsAre, SignersStay
      <4>2. pc[p] \notin Signing
        BY <1>1, <1>2, <4>1 DEF Presigned, SentSeed
      <4>. QED
        BY <1>12, <4>1, <4>2 DEF SentRoot, Past, Signing
    <3>7. ttp' = "bc_R" /\ shortSeed' = shortSeed
      BY <1>2, <1>10, <2>2
    <3>. QED
      BY <1>3, <1>5, <3>2, <3>4, <3>5, <3>6, <3>7 DEF TtpState
  <2>. QED
    BY <2>1, <2>2
<1>14. TtpMoves
  BY <1>2 DEF TtpMoves
<1>15. ~Signed(THRESHOLD)'
  BY <1>10 DEF Signed
<1>16. ASSUME NEW p \in Signers PROVE Presigned(p)' /\ pc[p] \notin Signing
  <2>1. ~SentR(p) /\ ~SentSeed(p)
    BY <1>2 DEF SentR, SentSeed
  <2>2. ~SentR(p)' /\ ~SentSeed(p)'
    <3>1. ~(p < 1)
      BY <1>3
    <3>. QED
      BY <1>10, <1>12, <3>1 DEF SentR, SentSeed
  <2>3. Presigned(p) /\ queue'[p] = queue[p] /\ UNCHANGED <<threshold, pc, sm, root>>
    BY <1>1, <1>2, <1>3, <1>4
  <2>4. Presigned(p)'
    BY ONLY <2>1, <2>2, <2>3, PresignedStays
  <2>. QED
    BY <2>1, <2>3, <2>4 DEF Presigned
<1>. QED
  BY <1>2, <1>11, <1>13, <1>14, <1>15, <1>16, TtpStep

LEMMA TtpRecvRootStep ==
  ASSUME SignInv, TtpRecvRoot
  PROVE  SignInv'
<1>. USE Sizes
<1>1. /\ TypeOK /\ threshold \in Ascending /\ TtpState /\ Together
      /\ \A p \in Signers : Presigned(p)
      /\ \A m \in Slots : \A q \in Signers : q = SignerOf(m) => SlotInv(m, q)
  BY DEF SignInv, TypeOK
<1>2. /\ ttp = "recv_root" /\ HasMsg(TTP) /\ RecvMsg(TTP)
      /\ root' = [root EXCEPT ![TTP] = Received(TTP)]
      /\ top' = Sig(TTP, At(RandR, SPX_D - 1), Received(TTP))
      /\ ttp' = "bc_top"
      /\ UNCHANGED <<threshold, pc, i, to, sm, k, shares, key, shortSeed, verdict>>
  BY DEF TtpRecvRoot
<1>3. /\ Signers \subseteq Players /\ Signers' = Signers /\ Data' = Data
      /\ Right(THRESHOLD)' = Right(THRESHOLD) /\ SignerOf(THRESHOLD) = TTP
  BY <1>1, <1>2, SlotsAre, SignersStay
<1>4. /\ queue' \in [Parties -> Seq(Data)] /\ queue'[TTP] = Tail(queue[TTP])
      /\ \A y \in Players : queue'[y] = queue[y]
      /\ queue[TTP] # <<>> /\ Received(TTP) = Head(queue[TTP]) /\ Received(TTP) \in Data
  <2>1. TTP \in Parties
    OBVIOUS
  <2>2. /\ queue' \in [Parties -> Seq(Data)] /\ queue'[TTP] = Tail(queue[TTP])
        /\ \A y \in Parties : y # TTP => queue'[y] = queue[y]
        /\ queue[TTP] # <<>> /\ Received(TTP) = Head(queue[TTP]) /\ Received(TTP) \in Data
    BY ONLY <1>1, <1>2, <2>1, TakeEffect
  <2>. QED
    BY <2>2
<1>5. /\ SentRoot(THRESHOLD - 1) /\ ~Signed(THRESHOLD)
      /\ queue[TTP] = <<RootBelow(THRESHOLD)>>
      /\ \A p \in Signers : pc[p] # "send_share"
      /\ key \in {"joint", "stray"} /\ (key = "stray" => shortSeed)
      /\ to[TTP] = 1
  BY <1>1, <1>2, <1>4 DEF TtpState
<1>6. Received(TTP) = RootBelow(THRESHOLD) /\ queue'[TTP] = <<>>
  BY <1>4, <1>5
<1>7. top' = Right(THRESHOLD)
  BY <1>2, <1>3, <1>6 DEF Right
<1>8. TypeOK' /\ \A p \in Players : root'[p] = root[p]
  BY <1>1, <1>2, <1>3, <1>4 DEF TypeOK
<1>9. TtpMoves
  BY <1>2, <1>8 DEF TtpMoves
<1>10. Signed(THRESHOLD)'
  BY <1>2 DEF Signed
<1>11. TtpState'
  <2>1. Different(queue[TTP])'
    BY <1>6 DEF Different
  <2>. QED
    BY <1>2, <1>3, <1>5, <1>6, <1>7, <1>10, <2>1 DEF TtpState
<1>12. ASSUME NEW p \in Signers
       PROVE  /\ SentR(p)' <=> SentR(p)
              /\ SentSeed(p)' <=> SentSeed(p)
              /\ Present(THRESHOLD, p)' <=> Present(THRESHOLD, p)
  <2>1. (SentR(p)' <=> SentR(p)) /\ (SentSeed(p)' <=> SentSeed(p))
    BY <1>2 DEF SentR, SentSeed
  <2>2. ~Pushed(THRESHOLD, p)
    BY <1>2 DEF Pushed
  <2>3. ~Pushed(THRESHOLD, p)'
    <3>1. ~(p < 1)
      BY <1>3
    <3>. QED
      BY <1>2, <1>5, <3>1 DEF Pushed
  <2>4. p # TTP /\ SignerOf(THRESHOLD)' = TTP
    BY <1>2, <1>3, SignersStay
  <2>. QED
    BY <1>3, <2>1, <2>2, <2>3, <2>4 DEF Present
<1>13. ASSUME NEW p \in Signers PROVE Presigned(p)'
  <2>1. Presigned(p) /\ queue'[p] = queue[p] /\ UNCHANGED <<threshold, pc, sm>> /\ root'[p] = root[p]
    BY <1>1, <1>2, <1>3, <1>4, <1>8
  <2>. QED
    BY ONLY <1>12, <2>1, PresignedStays
<1>14. ASSUME NEW m \in Slots, NEW q \in Signers, q = SignerOf(m), pc[q] \in Signing
       PROVE  Lined(m, q)'
  <2>1. Lined(m, q) /\ threshold \in Ascending
    BY <1>1, <1>14 DEF SlotInv
  <2>2. Line(q)' = Line(q)
    BY <1>2, <1>3, <1>4 DEF Line
  <2>3. Present(THRESHOLD, q)' <=> Present(THRESHOLD, q)
    BY <1>12
  <2>. QED
    BY ONLY <1>9, <2>1, <2>2, <2>3, TtpLined
<1>. QED
  BY <1>2, <1>5, <1>8, <1>9, <1>11, <1>13, <1>14, TtpStep

LEMMA TtpBroadcastStep ==
  ASSUME SignInv, TtpBroadcast
  PROVE  SignInv'
<1>. USE Sizes
<1>1. /\ TypeOK /\ threshold \in Ascending /\ TtpState /\ Together /\ InTurn
      /\ \A p \in Signers : Presigned(p) /\ pc[p] \in Presign \cup Signing
      /\ \A m \in Slots : \A q \in Signers : q = SignerOf(m) => SlotInv(m, q)
  BY SlotsAre DEF SignInv, TypeOK
<1>2. /\ ttp \in {"bc_R", "bc_seed", "bc_top"} /\ Push(TTP, TtpData) /\ CountPush(TTP)
      /\ ttp' = IF to[TTP] = PLAYERS THEN TtpNext ELSE ttp
      /\ UNCHANGED <<threshold, pc, i, sm, root, k, shares, key, top, shortSeed, verdict>>
  BY DEF TtpBroadcast, LastPush
<1>3. /\ Signers \subseteq Players /\ Signers' = Signers /\ Data' = Data
      /\ Right(THRESHOLD)' = Right(THRESHOLD) /\ SignerOf(THRESHOLD) = TTP
      /\ RootBelow(THRESHOLD)' = RootBelow(THRESHOLD)
      /\ SignerOf(THRESHOLD)' = TTP
  BY <1>1, <1>2, SlotsAre, SignersStay
<1>4. /\ ttp = "bc_R" => TtpData = RandR /\ TtpNext = "bc_seed"
      /\ ttp = "bc_seed" => TtpData = ForsSeed /\ TtpNext = "recv_root"
      /\ ttp = "bc_top" => TtpData = Right(THRESHOLD) /\ TtpNext = "done"
  BY <1>1 DEF TtpData, TtpNext, TtpState
<1>5. TtpData \in Data
  BY <1>2, <1>4, DataAre
<1> DEFINE x == to[TTP]
<1>6. /\ x \in Players
      /\ queue' \in [Parties -> Seq(Data)] /\ to' \in [Parties -> Players]
      /\ queue'[x] = Append(queue[x], TtpData)
      /\ \A y \in Parties : y # x => queue'[y] = queue[y]
      /\ to'[TTP] = IF x = PLAYERS THEN 1 ELSE x + 1
      /\ \A y \in Players : to'[y] = to[y]
  <2>1. TTP \in Parties
    OBVIOUS
  <2>2. /\ x \in Players
        /\ queue' \in [Parties -> Seq(Data)] /\ to' \in [Parties -> Players]
        /\ x # TTP => queue'[x] = Append(queue[x], TtpData)
        /\ \A y \in Parties : y # x \/ x = TTP => queue'[y] = queue[y]
        /\ to'[TTP] = IF x = PLAYERS THEN 1 ELSE x + 1
        /\ \A y \in Parties : y # TTP => to'[y] = to[y]
    BY ONLY <1>1, <1>2, <1>5, <2>1, PushIs
  <2>. QED
    BY <2>2
<1>7. TtpMoves
  BY <1>2, <1>6 DEF TtpMoves
<1>8. TypeOK'
  <2>1. ttp' \in {"bc_R", "bc_seed", "recv_root", "bc_top", "done"}
    BY <1>2, <1>4
  <2>. QED
    BY <1>1, <1>2, <1>3, <1>6, <2>1 DEF TypeOK
\* Who has been served before and after the step.
<1>9. /\ x \in Nat /\ \A y \in Players : y \in Nat /\ y <= PLAYERS /\ ~(y < 1)
      /\ \A y \in Players : y < x + 1 <=> y < x \/ y = x
      /\ x = PLAYERS => \A y \in Players : y < x \/ y = x
      /\ ~(x < x)
  <2>1. x \in Nat /\ \A y \in Players : y \in Nat /\ y <= PLAYERS /\ ~(y < 1)
    <3>1. PLAYERS \in Nat
      OBVIOUS
    <3>. QED
      BY ONLY <1>6, <3>1 DEF Players
  <2>2. /\ \A y \in Players : y < x + 1 <=> y < x \/ y = x
        /\ ~(x < x)
    BY ONLY <2>1, Upto
  <2>. QED
    BY <2>1, <2>2
<1>10. /\ queue[TTP] = IF SentRoot(THRESHOLD - 1) /\ ~Signed(THRESHOLD) THEN <<RootBelow(THRESHOLD)>> ELSE <<>>
       /\ \A p \in Signers : pc[p] # "send_share"
       /\ key \in {"joint", "stray"} /\ (key = "stray" => shortSeed)
       /\ Different(queue[TTP])
  BY <1>1, <1>2 DEF TtpState
<1>11. Signed(THRESHOLD)' <=> Signed(THRESHOLD)
  BY <1>2, <1>4 DEF Signed
<1>12. TtpState'
  <2>1. queue'[TTP] = queue[TTP]
    BY <1>6
  <2>2. Different(queue[TTP])'
    BY <1>10, <2>1 DEF Different
  <2>3. SentRoot(THRESHOLD - 1)' <=> SentRoot(THRESHOLD - 1)
    BY <1>1, <1>7, SignersProgress, SlotsAre
  <2>4. ttp' # "recv_shares" /\ (ttp' \in {"recv_root", "done"} => to'[TTP] = 1)
    BY <1>2, <1>4, <1>6
  <2>5. ttp' \in {"bc_top", "done"} => top' = Right(THRESHOLD)
    BY <1>1, <1>2, <1>4 DEF TtpState
  <2>. QED
    BY <1>2, <1>3, <1>10, <1>11, <2>1, <2>2, <2>3, <2>4, <2>5 DEF TtpState
<1>13. Signed(THRESHOLD)' => SentRoot(THRESHOLD - 1)
  BY <1>1, <1>11 DEF InTurn
<1>14. CASE ttp = "bc_R"
  <2>1. ASSUME NEW p \in Signers
        PROVE  /\ SentR(p) <=> p < x
               /\ SentR(p)' <=> p < x \/ p = x
               /\ ~SentSeed(p) /\ ~SentSeed(p)'
    <3>1. p \in Players
      BY <1>3
    <3>2. (SentR(p) <=> p < x) /\ ~SentSeed(p)
      BY <1>14 DEF SentR, SentSeed
    <3>3. CASE x # PLAYERS
      BY <1>2, <1>6, <1>9, <1>14, <3>1, <3>2, <3>3 DEF SentR, SentSeed
    <3>4. CASE x = PLAYERS
      BY <1>2, <1>4, <1>6, <1>9, <1>14, <3>1, <3>2, <3>4 DEF SentR, SentSeed
    <3>. QED
      BY <3>3, <3>4
  <2>2. ASSUME NEW p \in Signers PROVE Presigned(p)' /\ pc[p] \notin Signing
    <3>1. Presigned(p) /\ pc[p] # "send_share"
      BY <1>1, <1>10
    <3>2. pc[p] \in {"recv_R", "recv_seed"} /\ pc[p] \notin Signing
      BY <1>1, <2>1, <3>1 DEF Presigned, Presign
    <3>3. CASE p = x
      <4>1. ~SentR(p)
        BY <1>9, <2>1, <3>3
      <4>2. pc[p] = "recv_R" /\ sm[p] = <<>> /\ queue[p] = <<>>
        BY <2>1, <3>1, <3>2, <4>1 DEF Presigned
      <4>3. queue'[p] = <<RandR>>
        BY <1>4, <1>6, <1>14, <3>3, <4>2
      <4>. QED
        BY <1>2, <2>1, <3>2, <3>3, <4>2, <4>3 DEF Presigned, Signing
    <3>4. CASE p # x
      <4>1. (SentR(p)' <=> SentR(p)) /\ (SentSeed(p)' <=> SentSeed(p))
        BY <2>1, <3>4
      <4>2. UNCHANGED <<threshold, pc, sm, root>> /\ queue'[p] = queue[p]
        BY <1>2, <1>3, <1>6, <3>4
      <4>3. Presigned(p)'
        BY ONLY <3>1, <4>1, <4>2, PresignedStays
      <4>. QED
        BY <3>2, <4>3
    <3>. QED
      BY <3>3, <3>4
  <2>. QED
    BY <1>2, <1>7, <1>8, <1>12, <1>13, <1>14, <2>2, TtpStep
<1>15. CASE ttp = "bc_seed"
  <2>1. ASSUME NEW p \in Signers
        PROVE  /\ SentSeed(p) <=> p < x
               /\ SentSeed(p)' <=> p < x \/ p = x
               /\ SentR(p) /\ SentR(p)'
               /\ Present(THRESHOLD, p)' <=> Present(THRESHOLD, p)
    <3>1. p \in Players /\ p # TTP
      BY <1>3
    <3>2. (SentSeed(p) <=> p < x) /\ SentR(p) /\ ~Pushed(THRESHOLD, p)
      BY <1>15 DEF SentR, SentSeed, Pushed
    <3>3. (SentSeed(p)' <=> p < x \/ p = x) /\ SentR(p)' /\ ~Pushed(THRESHOLD, p)'
      <4>1. CASE x # PLAYERS
        BY <1>2, <1>6, <1>9, <1>15, <3>1, <4>1 DEF SentR, SentSeed, Pushed
      <4>2. CASE x = PLAYERS
        BY <1>2, <1>4, <1>6, <1>9, <1>15, <3>1, <4>2 DEF SentR, SentSeed, Pushed
      <4>. QED
        BY <4>1, <4>2
    <3>. QED
      BY <1>3, <3>1, <3>2, <3>3 DEF Present
  <2>2. ASSUME NEW p \in Signers PROVE Presigned(p)' /\ (pc[p] \in Signing => p # x)
    <3>1. Presigned(p) /\ pc[p] # "send_share"
      BY <1>1, <1>10
    <3>2. CASE p = x
      <4>1. ~SentSeed(p) /\ SentR(p)
        BY <1>9, <2>1, <3>2
      <4>2. pc[p] \in {"recv_R", "recv_seed"} /\ pc[p] \notin Signing
        BY <1>1, <3>1, <4>1 DEF Presigned, Presign, Signing
      <4>3. CASE pc[p] = "recv_R"
        <5>1. sm[p] = <<>> /\ queue[p] = <<RandR>>
          BY <3>1, <4>1, <4>3 DEF Presigned
        <5>2. queue'[p] = <<RandR, ForsSeed>>
          BY <1>4, <1>6, <1>15, <3>2, <5>1
        <5>. QED
          BY <1>2, <2>1, <3>2, <4>2, <4>3, <5>1, <5>2 DEF Presigned
      <4>4. CASE pc[p] = "recv_seed"
        <5>1. sm[p] = <<RandR>> /\ queue[p] = <<>>
          BY <3>1, <4>1, <4>4 DEF Presigned
        <5>2. queue'[p] = <<ForsSeed>>
          BY <1>4, <1>6, <1>15, <3>2, <5>1
        <5>. QED
          BY <1>2, <2>1, <3>2, <4>2, <4>4, <5>1, <5>2 DEF Presigned
      <4>. QED
        BY <4>2, <4>3, <4>4
    <3>3. CASE p # x
      <4>1. (SentR(p)' <=> SentR(p)) /\ (SentSeed(p)' <=> SentSeed(p))
        BY <2>1, <3>3
      <4>2. UNCHANGED <<threshold, pc, sm, root>> /\ queue'[p] = queue[p]
        BY <1>2, <1>3, <1>6, <3>3
      <4>3. Presigned(p)'
        BY ONLY <3>1, <4>1, <4>2, PresignedStays
      <4>. QED
        BY <3>3, <4>3
    <3>. QED
      BY <3>2, <3>3
  <2>3. ASSUME NEW m \in Slots, NEW q \in Signers, q = SignerOf(m), pc[q] \in Signing
        PROVE  Lined(m, q)'
    <3>1. Lined(m, q) /\ threshold \in Ascending
      BY <1>1, <2>3 DEF SlotInv
    <3>2. Line(q)' = Line(q)
      BY <1>2, <1>3, <1>6, <2>2, <2>3 DEF Line
    <3>3. Present(THRESHOLD, q)' <=> Present(THRESHOLD, q)
      BY <2>1
    <3>. QED
      BY ONLY <1>7, <3>1, <3>2, <3>3, TtpLined
  <2>. QED
    BY <1>2, <1>7, <1>8, <1>12, <1>13, <1>15, <2>2, <2>3, TtpStep
<1>16. CASE ttp = "bc_top"
  <2>1. Signed(THRESHOLD) /\ Signed(THRESHOLD)' /\ \A m \in Slots : Signed(m) /\ (m # THRESHOLD - 1 => Past(m))
    <3>1. Signed(THRESHOLD)
      BY <1>16 DEF Signed
    <3>. QED
      BY <1>1, <1>11, <3>1, Order
  <2>2. \A p \in Signers : pc[p] \in Signing
    <3>1. SignerOf(THRESHOLD - 1) \in Signers /\ pc[SignerOf(THRESHOLD - 1)] \in Signing
      BY <1>1, <2>1, Order, SlotsAre
    <3>. QED
      BY <1>1, <3>1 DEF Together, Presign, Signing
  <2>3. ASSUME NEW p \in Signers
        PROVE  /\ SentSeed(p) /\ SentSeed(p)'
               /\ SentR(p) /\ SentR(p)'
               /\ Present(THRESHOLD, p) <=> p < x
               /\ Present(THRESHOLD, p)' <=> p < x \/ p = x
    <3>1. p \in Players /\ p # TTP
      BY <1>3
    <3>2. (Pushed(THRESHOLD, p) <=> p < x) /\ SentR(p) /\ SentSeed(p)
      BY <1>16 DEF SentR, SentSeed, Pushed
    <3>3. (Pushed(THRESHOLD, p)' <=> p < x \/ p = x) /\ SentR(p)' /\ SentSeed(p)'
      <4>1. CASE x # PLAYERS
        BY <1>2, <1>6, <1>9, <1>16, <3>1, <4>1 DEF SentR, SentSeed, Pushed
      <4>2. CASE x = PLAYERS
        BY <1>2, <1>4, <1>6, <1>9, <1>16, <3>1, <4>2 DEF SentR, SentSeed, Pushed
      <4>. QED
        BY <4>1, <4>2
    <3>. QED
      BY <1>3, <3>1, <3>2, <3>3 DEF Present
  <2>4. ASSUME NEW p \in Signers PROVE Presigned(p)'
    <3>1. /\ Presigned(p) /\ pc[p] \notin Presign /\ UNCHANGED <<threshold, pc, sm, root>>
      BY <1>1, <1>2, <2>2 DEF Presign, Signing
    <3>. QED
      BY ONLY <2>3, <3>1, PresignedStays
  <2>5. ASSUME NEW m \in Slots, NEW q \in Signers, q = SignerOf(m)
        PROVE  Lined(m, q)'
    <3>1. Lined(m, q) /\ threshold \in Ascending /\ threshold' = threshold /\ TypeOK
      BY <1>1, <1>2, <2>2, <2>5 DEF SlotInv
    <3>2. q \in Players /\ q \in Parties /\ q # TTP
      BY <1>3
    <3>3. CASE q = x
      <4>1. Line(q)' = Append(Line(q), Right(THRESHOLD))
        <5>1. queue'[q] = Append(queue[q], Right(THRESHOLD)) /\ sm'[q] = sm[q]
          BY <1>2, <1>4, <1>6, <1>16, <3>3
        <5>2. sm[q] \in Seq(Data \cup {Fors}) /\ queue[q] \in Seq(Data)
          BY <1>1, <3>2 DEF TypeOK
        <5>3. Right(THRESHOLD) \in Data
          BY DataAre
        <5>4. PICK s, w, d, S : s = sm[q] /\ w = queue[q] /\ d = Right(THRESHOLD) /\ S = Data \cup {Fors}
          OBVIOUS
        <5>5. s \in Seq(S) /\ w \in Seq(S) /\ d \in S
          BY ONLY <5>2, <5>3, <5>4
        <5>6. s \o Append(w, d) = Append(s \o w, d)
          BY ONLY <5>5, LineGrows
        <5>. QED
          BY ONLY <5>1, <5>4, <5>6 DEF Line
      <4>2. ~Present(THRESHOLD, q) /\ Present(THRESHOLD, q)'
        BY <1>9, <2>3, <3>3
      <4>3. ~Rooted(m) /\ ~Rooted(m)'
        <5>1. ~Rooted(m)
          BY <2>1 DEF Rooted
        <5>. QED
          BY <1>1, <1>7, <5>1, SignersProgress
      <4>4. \A j \in Layers : j # THRESHOLD => (Present(j, q)' <=> Present(j, q))
        <5>1. \A j \in Layers : j \in Slots \/ j = THRESHOLD
          BY DEF Slots
        <5>. QED
          BY <1>1, <1>7, <5>1, SignersProgress
      <4>5. \A j \in 0..(THRESHOLD - 2) : j < THRESHOLD => Present(j, q)
        <5>1. \A j \in 0..(THRESHOLD - 2) : j \in Slots /\ j # THRESHOLD - 1
          BY DEF Slots
        <5>. QED
          BY <1>1, <2>1, <5>1, Order DEF Present
      <4>6. THRESHOLD \in Layers /\ ~(THRESHOLD <= THRESHOLD - 2) /\ THRESHOLD # THRESHOLD - 1
        OBVIOUS
      <4>. QED
        BY ONLY <3>1, <3>2, <4>1, <4>2, <4>3, <4>4, <4>5, <4>6, ShardArrives
    <3>4. CASE q # x
      <4>1. Line(q)' = Line(q)
        BY <1>2, <1>6, <3>2, <3>4 DEF Line
      <4>2. Present(THRESHOLD, q)' <=> Present(THRESHOLD, q)
        BY <2>3, <3>4
      <4>. QED
        BY ONLY <1>7, <3>1, <4>1, <4>2, TtpLined
    <3>. QED
      BY <3>3, <3>4
  <2>. QED
    BY <1>2, <1>7, <1>8, <1>12, <1>13, <1>16, <2>4, <2>5, TtpStep
<1>. QED
  BY <1>2, <1>14, <1>15, <1>16

------------------------------------------------------------------------------
(* The verification, and the invariant.                                      *)

\* A signer that is done has all the shards.
LEMMA DoneHas ==
  ASSUME SignInv, NEW l \in Slots, NEW p \in Signers, p = SignerOf(l), pc[p] = "done"
  PROVE  /\ Len(sm[p]) = THRESHOLD + 3 /\ sm[p][1] = RandR /\ sm[p][2] = Fors
         /\ \A m \in 0..(THRESHOLD - 2) : sm[p][m + 3] = Right(m)
         /\ \/ sm[p][THRESHOLD + 2] = Right(THRESHOLD - 1) /\ sm[p][THRESHOLD + 3] = Right(THRESHOLD)
            \/ /\ l # THRESHOLD - 1
               /\ sm[p][THRESHOLD + 2] = Right(THRESHOLD) /\ sm[p][THRESHOLD + 3] = Right(THRESHOLD - 1)
<1>. USE Sizes
<1>1. TypeOK /\ threshold \in Ascending /\ Counted(l, p) /\ Lined(l, p) /\ p \in Players
  BY SlotsAre DEF SignInv, SlotInv, Signing, TypeOK
<1>2. Len(sm[p]) = THRESHOLD + 3
  BY <1>1 DEF Counted
<1> DEFINE n == Len(Line(p))
<1>3. /\ n \in Nat /\ n >= THRESHOLD + 3
      /\ \A m \in 1..(THRESHOLD + 3) : Line(p)[m] = sm[p][m]
  <2>1. /\ Len(sm[p]) \in Nat /\ Len(queue[p]) \in Nat /\ n = Len(sm[p]) + Len(queue[p])
        /\ \A m \in 1..Len(sm[p]) : Line(p)[m] = sm[p][m]
    BY ONLY <1>1, LineIs
  <2>. QED
    BY ONLY <1>2, <2>1
<1>4. ~Rooted(l)
  <2>1. Signed(l)
    BY DEF Signed, Past, Slots
  <2>. QED
    BY <2>1 DEF Rooted
<1>5. /\ Line(p)[1] = RandR /\ Line(p)[2] = Fors
      /\ \A m \in 0..(THRESHOLD - 2) :
             IF Present(m, p) THEN m + 3 <= n /\ Line(p)[m + 3] = Right(m) ELSE n <= m + 2
      /\ LastTwo(p)
  BY <1>1, <1>4 DEF Lined
<1>6. \/ Line(p)[THRESHOLD + 2] = Right(THRESHOLD - 1) /\ Line(p)[THRESHOLD + 3] = Right(THRESHOLD)
      \/ /\ p # SignerOf(THRESHOLD - 1)
         /\ Line(p)[THRESHOLD + 2] = Right(THRESHOLD) /\ Line(p)[THRESHOLD + 3] = Right(THRESHOLD - 1)
  BY <1>3, <1>5 DEF LastTwo
<1>. HIDE DEF n
<1>7. \A m \in 0..(THRESHOLD - 2) : Line(p)[m + 3] = Right(m) /\ m + 3 \in 1..(THRESHOLD + 3)
  BY <1>3, <1>5
<1>8. {1, 2, THRESHOLD + 2, THRESHOLD + 3} \subseteq 1..(THRESHOLD + 3)
  OBVIOUS
<1>. QED
  BY <1>2, <1>3, <1>5, <1>6, <1>7, <1>8

LEMMA NothingMoves ==
  ASSUME SignInv, VerdictRight', verdict' \in {"none", "successful", "failed"},
         UNCHANGED <<threshold, playerVars, queue, ttpVars, shortSeed>>
  PROVE  SignInv'
<1>. USE Sizes
<1>1. /\ TypeOK /\ threshold \in Ascending /\ TtpState /\ InTurn /\ Together
      /\ \A q \in Signers : Presigned(q)
      /\ \A m \in Slots : \A q \in Signers : q = SignerOf(m) => SlotInv(m, q)
  BY DEF SignInv, TypeOK
<1>2. UNCHANGED <<threshold, pc, i, to, queue, sm, root, ttp, k, shares, key, top, shortSeed>>
  BY DEF playerVars, ttpVars
<1>3. /\ Signers' = Signers /\ Data' = Data /\ Signers \subseteq Players
      /\ \A m : SignerOf(m)' = SignerOf(m)
  BY <1>1, <1>2, SlotsAre, SignersStay
<1>4. TypeOK'
  BY <1>1, <1>2, <1>3 DEF TypeOK
<1>5. TtpMoves
  BY <1>2 DEF TtpMoves
<1>6. \A m \in Slots : /\ Past(m)' <=> Past(m)
                       /\ Signed(m)' <=> Signed(m)
                       /\ SentRoot(m)' <=> SentRoot(m)
  BY <1>1, <1>5, SignersProgress
<1>7. /\ Signed(THRESHOLD)' <=> Signed(THRESHOLD)
      /\ \A x : /\ Pushed(THRESHOLD, x)' <=> Pushed(THRESHOLD, x)
                /\ SentR(x)' <=> SentR(x)
                /\ SentSeed(x)' <=> SentSeed(x)
  BY <1>2, TtpProgressStays
<1>8. \A x : Present(THRESHOLD, x)' <=> Present(THRESHOLD, x)
  BY <1>3, <1>7, <1>1, <1>2, SlotsAre, SignersStay DEF Present
<1>9. InTurn'
  <2>1. \A n, m \in Slots : n < m /\ Signed(m)' => Past(n)'
    BY <1>1, <1>6 DEF InTurn
  <2>2. Signed(THRESHOLD)' => SentRoot(THRESHOLD - 1)'
    BY <1>1, <1>6, <1>7, SlotsAre DEF InTurn
  <2>. QED
    BY <2>1, <2>2 DEF InTurn
<1>10. Together'
  BY <1>1, <1>2, <1>3 DEF Together
<1>11. TtpState'
  <2>1. SentRoot(THRESHOLD - 1)' <=> SentRoot(THRESHOLD - 1)
    BY <1>1, <1>6, SlotsAre
  <2>2. /\ queue'[TTP] = queue[TTP] /\ to'[TTP] = to[TTP]
        /\ \A q \in Signers : pc'[q] = "send_share" <=> pc[q] = "send_share"
    BY <1>2
  <2>. QED
    BY ONLY <1>1, <1>2, <2>1, <2>2, TtpStateStays
<1>12. ASSUME NEW q \in Signers PROVE Presigned(q)'
  <2>1. Presigned(q) /\ queue'[q] = queue[q] /\ pc'[q] = pc[q] /\ sm'[q] = sm[q] /\ root'[q] = root[q]
    BY <1>1, <1>2
  <2>. QED
    BY ONLY <1>2, <1>7, <2>1, PresignedStays
<1>13. ASSUME NEW m \in Slots, NEW q \in Signers, q = SignerOf(m)
       PROVE  SlotInv(m, q)'
  <2>1. Counted(m, q) /\ (pc[q] \in Signing => Lined(m, q)) /\ threshold \in Ascending
    BY <1>1, <1>13 DEF SlotInv
  <2>2. Counted(m, q)'
    <3>1. pc'[q] = pc[q] /\ i'[q] = i[q] /\ to'[q] = to[q] /\ sm'[q] = sm[q] /\ root'[q] = root[q]
      BY <1>2
    <3>. QED
      BY ONLY <1>2, <2>1, <3>1, CountedStays
  <2>3. ASSUME pc[q] \in Signing PROVE Lined(m, q)'
    <3>1. Line(q)' = Line(q) /\ (Present(THRESHOLD, q)' <=> Present(THRESHOLD, q)) /\ Lined(m, q)
      BY <1>2, <1>8, <2>1, <2>3 DEF Line
    <3>. QED
      BY ONLY <1>5, <2>1, <3>1, TtpLined
  <2>. QED
    BY <1>2, <2>2, <2>3 DEF SlotInv
<1>14. \A q \in Players : IF q \in Signers' THEN pc'[q] \in Presign \cup Signing ELSE pc'[q] = "idle"
  BY <1>2, <1>3 DEF SignInv
<1>15. \A m \in Slots : \A q \in Signers' : q = SignerOf(m)' => SlotInv(m, q)'
  BY <1>3, <1>13
<1>. QED
  BY <1>3, <1>4, <1>9, <1>10, <1>11, <1>12, <1>14, <1>15 DEF SignInv

\* The first signer accepts the signature, but for the two cases of the property.
LEMMA VerdictReached ==
  ASSUME SignInv, Joined, ~Accepts(threshold[1])
  PROVE  \/ shortSeed /\ key = "stray"
         \/ Len(sm[threshold[1]]) = SPX_D + 2 /\ sm[threshold[1]][SPX_D + 1] = Right(SPX_D - 1)
<1>. USE Sizes
<1> DEFINE p == threshold[1]
<1>1. /\ TypeOK /\ threshold \in Ascending /\ TtpState /\ 0 \in Slots
      /\ p \in Signers /\ p = SignerOf(0) /\ pc[p] = "done" /\ ttp = "done"
  <2>1. TypeOK /\ threshold \in Ascending /\ TtpState
    BY DEF SignInv, TypeOK
  <2>2. 0 \in Slots /\ SignerOf(0) \in Signers /\ SignerOf(0) = threshold[0 + 1]
    BY <2>1, SlotsAre
  <2>. QED
    BY <2>1, <2>2 DEF Joined
<1>2. /\ Len(sm[p]) = THRESHOLD + 3 /\ sm[p][1] = RandR /\ sm[p][2] = Fors
      /\ \A m \in 0..(THRESHOLD - 2) : sm[p][m + 3] = Right(m)
      /\ \/ sm[p][THRESHOLD + 2] = Right(THRESHOLD - 1) /\ sm[p][THRESHOLD + 3] = Right(THRESHOLD)
         \/ sm[p][THRESHOLD + 2] = Right(THRESHOLD) /\ sm[p][THRESHOLD + 3] = Right(THRESHOLD - 1)
  BY <1>1, DoneHas
<1>3. key \in {"joint", "stray"} /\ (key = "stray" => shortSeed)
  BY <1>1 DEF TtpState
<1>. HIDE DEF p
<1>4. ASSUME key = "joint", sm[p][THRESHOLD + 2] = Right(THRESHOLD - 1), sm[p][THRESHOLD + 3] = Right(THRESHOLD)
      PROVE  Accepts(p)
  <2> DEFINE layer(l) == IF l + 3 <= Len(sm[p]) THEN sm[p][l + 3] ELSE <<"nothing", -1>>
             r == sm[p][1]
             Below(l) == IF l = 0 THEN ForsRoot(r, ForsSeed) ELSE TreeRoot(layer(l - 1)[2], At(r, l - 1))
  <2>1. ASSUME NEW l \in 0..THRESHOLD
        PROVE  layer(l) = Right(l)
    <3>1. l + 3 <= Len(sm[p])
      BY <1>2
    <3>2. CASE l \in 0..(THRESHOLD - 2)
      BY <1>2, <3>1, <3>2
    <3>3. CASE l = THRESHOLD - 1
      BY <1>4, <3>1, <3>3
    <3>4. CASE l = THRESHOLD
      BY <1>4, <3>1, <3>4
    <3>. QED
      BY <3>2, <3>3, <3>4
  <2>2. \A l \in 0..THRESHOLD : l # 0 => l - 1 \in 0..THRESHOLD
    OBVIOUS
  <2>3. \A l : Right(l)[2] = SignerOf(l) /\ Kind(Right(l)) = "sig"
    BY DEF Right, Sig, Kind
  <2>. HIDE DEF layer
  <2>4. ASSUME NEW l \in 0..THRESHOLD
        PROVE  Below(l) = RootBelow(l)
    BY <1>2, <2>1, <2>2, <2>3 DEF RootBelow
  <2>5. ASSUME NEW l \in 0..THRESHOLD
        PROVE  Kind(layer(l)) = "sig" /\ layer(l) = Sig(layer(l)[2], At(r, l), Below(l))
    <3>1. layer(l) = Right(l) /\ Below(l) = RootBelow(l) /\ r = RandR
      BY <1>2, <2>1, <2>4
    <3>. QED
      BY ONLY <2>3, <3>1 DEF Right
  <2>6. layer(SPX_D - 1)[2] = TTP
    BY <2>1, <2>3 DEF SignerOf
  <2>7. sm[p][2] = ForsSig(r, ForsSeed)
    BY <1>2 DEF Fors
  <2>. HIDE DEF Below
  <2>8. SPX_D - 1 = THRESHOLD
    OBVIOUS
  <2>. QED
    BY <1>4, <2>5, <2>6, <2>7, <2>8 DEF Accepts, layer, Below
<1>. QED
  BY <1>2, <1>3, <1>4 DEF p

LEMMA VerifyStep ==
  ASSUME SignInv, Verify
  PROVE  SignInv'
<1>1. /\ Joined /\ verdict' = IF Accepts(threshold[1]) THEN "successful" ELSE "failed"
      /\ UNCHANGED <<threshold, playerVars, queue, ttpVars, shortSeed>>
  BY DEF Verify
<1>2. /\ Signers' = Signers /\ Right(SPX_D - 1)' = Right(SPX_D - 1)
  BY <1>1, SignersStay
<1>3. Joined'
  BY <1>1, <1>2 DEF Joined, playerVars, ttpVars
<1>4. VerifiesUnlessOvertaken'
  BY <1>1, <1>2, VerdictReached DEF VerifiesUnlessOvertaken, playerVars, ttpVars
<1>. QED
  BY <1>1, <1>3, <1>4, NothingMoves DEF VerdictRight

LEMMA StutterStep ==
  ASSUME SignInv, UNCHANGED vars
  PROVE  SignInv'
<1>1. UNCHANGED <<threshold, playerVars, queue, ttpVars, shortSeed, verdict>>
  BY DEF vars, playerVars, ttpVars
<1>2. Signers' = Signers /\ Right(SPX_D - 1)' = Right(SPX_D - 1)
  BY <1>1, SignersStay
<1>3. VerdictRight /\ verdict \in {"none", "successful", "failed"}
  BY DEF SignInv, TypeOK
<1>4. VerdictRight'
  BY <1>1, <1>2, <1>3 DEF VerdictRight, Joined, VerifiesUnlessOvertaken, playerVars, ttpVars
<1>. QED
  BY <1>1, <1>3, <1>4, NothingMoves

LEMMA NextStep ==
  ASSUME SignInv, [Next]_vars
  PROVE  SignInv'
<1>1. ASSUME TrustedParty PROVE SignInv'
  BY <1>1, TtpRecvShareStep, TtpBroadcastStep, TtpRecvRootStep DEF TrustedParty
<1>2. ASSUME NEW p \in Signers, Player(p) PROVE SignInv'
  BY <1>2, SendShareStep, RecvRStep, RecvSeedStep, BarrierStep, FirstSignStep, RecvShardStep,
     RecvRootStep, BroadcastStep, SendRootStep, RecvFinalStep DEF Player
<1>. QED
  BY <1>1, <1>2, VerifyStep, StutterStep DEF Next, Finish

LEMMA InitHolds ==
  ASSUME Init
  PROVE  SignInv
<1>. USE Sizes
<1>1. /\ threshold \in Ascending
      /\ pc = [p \in Players |-> IF p \in Signers THEN "send_share" ELSE "idle"]
      /\ i = [p \in Players |-> 1]
      /\ to = [x \in Parties |-> 1]
      /\ queue = [x \in Parties |-> <<>>]
      /\ sm = [p \in Players |-> <<>>]
      /\ root = [x \in Parties |-> <<>>]
      /\ ttp = "recv_shares" /\ k = 0 /\ shares = <<>> /\ shortSeed \in BOOLEAN /\ verdict = "none"
  BY DEF Init
<1>2. Signers \subseteq Players /\ TTP \in Parties /\ \A p \in Signers : pc[p] = "send_share"
  BY <1>1, SlotsAre
<1>3. TypeOK
  <2>1. \A S : <<>> \in Seq(S)
    OBVIOUS
  <2>. QED
    BY <1>1, <1>2, <2>1 DEF TypeOK, Presign
<1>4. Together
  BY <1>2 DEF Together, Presign
<1>5. \A m \in Slots : ~Signed(m) /\ ~Past(m) /\ SignerOf(m) \in Signers
  <2>1. \A m \in Slots : SignerOf(m) \in Signers /\ m # THRESHOLD
    BY <1>1, SlotsAre
  <2>. QED
    BY <1>2, <2>1 DEF Signed, Past
<1>6. InTurn
  BY <1>1, <1>5 DEF InTurn, Signed
<1>7. TtpState
  <2>1. queue[TTP] = <<>>
    BY <1>1, <1>2
  <2>2. Elements(queue[TTP]) = {} /\ Different(queue[TTP])
    BY <2>1 DEF Elements, Different
  <2>3. GotShare = {}
    BY <1>2 DEF GotShare
  <2>4. Elements(shares) = {}
    BY <1>1 DEF Elements
  <2>5. Cardinality(GotShare) = 0
    BY <2>3, FS_EmptySet
  <2>6. to[TTP] = 1
    BY <1>1, <1>2
  <2>. QED
    BY <1>1, <2>2, <2>3, <2>4, <2>5, <2>6 DEF TtpState
<1>8. VerdictRight
  BY <1>1 DEF VerdictRight
<1>9. ASSUME NEW p \in Signers PROVE Presigned(p)
  BY <1>1, <1>2 DEF Presigned, SentR, SentSeed, Signing
<1>10. ASSUME NEW m \in Slots, NEW p \in Signers PROVE SlotInv(m, p)
  <2>1. pc[p] = "send_share" /\ i[p] = 1 /\ to[p] = 1
    BY <1>1, <1>2
  <2>. QED
    BY <2>1 DEF SlotInv, Counted, Signing
<1>11. \A p \in Players : IF p \in Signers THEN pc[p] \in Presign \cup Signing ELSE pc[p] = "idle"
  BY <1>1 DEF Presign
<1>. QED
  BY <1>3, <1>4, <1>6, <1>7, <1>8, <1>9, <1>10, <1>11 DEF SignInv

------------------------------------------------------------------------------
(* Theorems.                                                                 *)

\* A session is always in a state of the invariant: which signature each message carries,
\* and where it stands in the queue of whoever takes it.
THEOREM SignInvariant == SafeSpec => []SignInv
<1>1. Init => SignInv
  BY InitHolds
<1>2. SignInv /\ [Next]_vars => SignInv'
  BY NextStep
<1>. QED
  BY <1>1, <1>2, PTL DEF SafeSpec

\* Nothing is ever written, sent or held but the randomizer, the seed, the shares and the
\* right signatures and roots of the layers.
THEOREM TypeCorrect == SafeSpec => []TypeOK
<1>1. SignInv => TypeOK
  BY DEF SignInv
<1>. QED
  BY <1>1, SignInvariant, PTL

\* Whoever is past the presigning round has signed with the TTP's randomizer and seed: the
\* barrier of logic.c:38 keeps every shard behind them in the queues.
THEOREM AllPresignAlike == SafeSpec => []PresignedAlike
<1>1. ASSUME SignInv PROVE PresignedAlike
  <2>. SUFFICES ASSUME NEW p \in Signers, pc[p] \notin {"send_share", "recv_R", "recv_seed"}
                PROVE  sm[p][1] = RandR /\ sm[p][2] = Fors
    BY DEF PresignedAlike, Fors
  <2>1. /\ TypeOK /\ threshold \in Ascending /\ Presigned(p) /\ p \in Players
        /\ pc[p] \in Presign \cup Signing
    BY <1>1, SlotsAre DEF SignInv, TypeOK
  <2>2. CASE pc[p] \in {"barrier", "wait"}
    BY <2>1, <2>2 DEF Presigned
  <2>3. CASE pc[p] \in Signing
    <3>1. PICK l \in Slots : p = SignerOf(l)
      BY <2>1, SlotsAre
    <3>2. Counted(l, p) /\ Lined(l, p)
      BY <1>1, <2>3, <3>1 DEF SignInv, SlotInv
    <3>3. Len(sm[p]) >= 2
      <4>1. l \in Nat /\ i[p] \in Nat /\ i[p] >= 1 /\ THRESHOLD \in Nat
        <5>1. i[p] \in 1..THRESHOLD
          BY <2>1 DEF TypeOK
        <5>. QED
          BY <5>1, Sizes DEF Slots
      <4>2. \/ Len(sm[p]) = 2 \/ Len(sm[p]) = i[p] + 1 \/ Len(sm[p]) = l + 2 \/ Len(sm[p]) = l + 3
            \/ Len(sm[p]) = THRESHOLD + 2 \/ Len(sm[p]) = THRESHOLD + 3
        BY <2>3, <3>2 DEF Counted, Signing
      <4>3. PICK n, c : n = Len(sm[p]) /\ c = i[p]
        OBVIOUS
      <4>4. c \in Nat /\ c >= 1 /\ l \in Nat /\ THRESHOLD \in Nat
        BY ONLY <4>1, <4>3
      <4>5. n = 2 \/ n = c + 1 \/ n = l + 2 \/ n = l + 3 \/ n = THRESHOLD + 2 \/ n = THRESHOLD + 3
        BY ONLY <4>2, <4>3
      <4>6. n >= 2
        BY ONLY <4>4, <4>5
      <4>. QED
        BY ONLY <4>3, <4>6
    <3>4. Line(p)[1] = sm[p][1] /\ Line(p)[2] = sm[p][2]
      <4>1. Len(sm[p]) \in Nat /\ \A m \in 1..Len(sm[p]) : Line(p)[m] = sm[p][m]
        BY ONLY <2>1, LineIs
      <4>. QED
        BY ONLY <3>3, <4>1
    <3>. QED
      BY <3>2, <3>4 DEF Lined
  <2>. QED
    BY <2>1, <2>2, <2>3 DEF Presign
<1>. QED
  BY <1>1, SignInvariant, PTL

\* No one-time key signs anything but the root of the tree below its layer: nobody takes a
\* shard for a root or signs at the address of another layer (round.c:138-205).
THEOREM OnlyRightSignatures == SafeSpec => []SignaturesRight
<1>1. ASSUME TypeOK PROVE SignaturesRight
  <2>1. ASSUME NEW d \in Data \cup {Fors}, Kind(d) = "sig"
        PROVE  d \in {Right(l) : l \in Layers}
    <3>1. \A l : Kind(RootBelow(l)) # "sig"
      BY DEF RootBelow, ForsRoot, TreeRoot, Kind
    <3>2. Kind(RandR) # "sig" /\ Kind(ForsSeed) # "sig" /\ Kind(Fors) # "sig" /\ \A p : Kind(Share(p)) # "sig"
      BY DEF RandR, ForsSeed, Fors, ForsSig, Share, Kind
    <3>. QED
      BY <2>1, <3>1, <3>2 DEF Data
  <2>2. ASSUME NEW s \in Seq(Data \cup {Fors}), NEW j \in DOMAIN s, Kind(s[j]) = "sig"
        PROVE  s[j] \in {Right(l) : l \in Layers}
    BY <2>1, <2>2
  <2>3. /\ \A p \in Signers : sm[p] \in Seq(Data \cup {Fors})
        /\ \A x \in Parties : queue[x] \in Seq(Data \cup {Fors})
    <3>1. Signers \subseteq Players
      BY <1>1, SlotsAre DEF TypeOK
    <3>. QED
      BY <1>1, <3>1 DEF TypeOK
  <2>. QED
    BY <2>2, <2>3 DEF SignaturesRight
<1>. QED
  BY <1>1, TypeCorrect, PTL

\* Whoever is done has a signature of every layer and in the right order, but for the last
\* two layers, which two parties broadcast at the same time.
THEOREM MessagesComplete == SafeSpec => []SignedMessageComplete
<1>1. ASSUME SignInv PROVE SignedMessageComplete
  <2>. SUFFICES ASSUME NEW p \in Signers, pc[p] = "done"
                PROVE  /\ Len(sm[p]) = SPX_D + 2
                       /\ \A l \in 0..SPX_D - 3 : sm[p][l + 3] = Right(l)
                       /\ \/ sm[p][SPX_D + 1] = Right(SPX_D - 2) /\ sm[p][SPX_D + 2] = Right(SPX_D - 1)
                          \/ /\ Idx(p) # THRESHOLD - 1
                             /\ sm[p][SPX_D + 1] = Right(SPX_D - 1) /\ sm[p][SPX_D + 2] = Right(SPX_D - 2)
    BY DEF SignedMessageComplete
  <2>1. Idx(p) \in Slots /\ p = SignerOf(Idx(p))
    BY <1>1, SlotsAre DEF SignInv, TypeOK
  <2>2. /\ Len(sm[p]) = THRESHOLD + 3
        /\ \A m \in 0..(THRESHOLD - 2) : sm[p][m + 3] = Right(m)
        /\ \/ sm[p][THRESHOLD + 2] = Right(THRESHOLD - 1) /\ sm[p][THRESHOLD + 3] = Right(THRESHOLD)
           \/ /\ Idx(p) # THRESHOLD - 1
              /\ sm[p][THRESHOLD + 2] = Right(THRESHOLD) /\ sm[p][THRESHOLD + 3] = Right(THRESHOLD - 1)
    BY ONLY <1>1, <2>1, pc[p] = "done", p \in Signers, DoneHas
  <2>3. /\ SPX_D + 2 = THRESHOLD + 3 /\ SPX_D + 1 = THRESHOLD + 2 /\ SPX_D - 3 = THRESHOLD - 2
        /\ SPX_D - 2 = THRESHOLD - 1 /\ SPX_D - 1 = THRESHOLD
    BY Sizes
  <2>. QED
    BY <2>2, <2>3
<1>. QED
  BY <1>1, SignInvariant, PTL

\* The first signer's signature verifies but for the two cases that the property names; the
\* chain of roots from the FORS signature to the public key never breaks elsewhere.
THEOREM VerifiesElse == SafeSpec => []VerifiesUnlessOvertaken
<1>1. SignInv => VerifiesUnlessOvertaken
  BY DEF SignInv, VerdictRight, VerifiesUnlessOvertaken
<1>. QED
  BY <1>1, SignInvariant, PTL

------------------------------------------------------------------------------
(***************************************************************************)
(* The threaded signing session implements HypertreeChain: its layers are  *)
(* signed one after the other, each once and over the root of the one      *)
(* before, whatever the threads' interleaving.                             *)
(***************************************************************************)

\* The first n layers are signed and no others.
Depth(n) == \A l \in Layers : Signed(l) <=> l < n

\* The TTP's signature exists when it has received the last signer's root, not before.
TopMade == ttp \notin {"bc_top", "done"} => top = <<>>

\* The chain that HypertreeChain has after n layers.
Chained(n) == [j \in 1..n |-> [layer |-> j - 1, signs |-> j - 2]]

ChainInv == TopMade /\ \E n \in 0..SPX_D : Depth(n)

------------------------------------------------------------------------------
(* A step signs at most one layer more.                                      *)

Grows(l) == /\ Signed(l) => Signed(l)'
            /\ \A m \in Layers : m # l => (Signed(m)' <=> Signed(m))

LEMMA LayersAre ==
  /\ \A l \in Layers : l \in Slots \/ l = THRESHOLD
  /\ \A l \in Slots : l \in Layers /\ l # THRESHOLD
  /\ THRESHOLD \in Layers /\ THRESHOLD \notin Slots
  BY Sizes DEF Slots

\* All that a player does outside the barrier concerns its own state.
LEMMA PlayerFrame ==
  ASSUME TypeOK, NEW p \in Signers, Player(p), ~BarrierWait(p)
  PROVE  OnlyMoves(p)
<1>. USE Sizes
<1>1. /\ p \in Players /\ p # TTP
      /\ pc \in [Players -> Presign \cup Signing \cup {"idle"}] /\ i \in [Players -> 1..THRESHOLD]
      /\ to \in [Parties -> Players] /\ sm \in [Players -> Seq(Data \cup {Fors})]
      /\ root \in [Parties -> Data \cup {<<>>}]
      /\ Players \subseteq Parties /\ TTP \in Parties
  BY SlotsAre DEF TypeOK
<1>2. ASSUME NEW rounds, NextRound(p, rounds)
      PROVE  \A q \in Players : q # p => pc'[q] = pc[q] /\ i'[q] = i[q]
  BY <1>1, <1>2, NextRoundIs
<1>3. ASSUME NEW label, Then(p, label)
      PROVE  \A q \in Players : q # p => pc'[q] = pc[q] /\ i'[q] = i[q]
  <2>1. CASE label = AfterSigning(p)[1]
    BY <1>1, <1>3, <2>1 DEF Then, Goto
  <2>2. CASE label # AfterSigning(p)[1]
    BY <1>2, <1>3, <2>2 DEF Then, AfterOwnRound
  <2>. QED
    BY <2>1, <2>2
<1>4. CASE SendShare(p)
  BY <1>1, <1>4 DEF SendShare, Goto, ttpVars, OnlyMoves
<1>5. CASE RecvR(p)
  BY <1>1, <1>5 DEF RecvR, Goto, ttpVars, OnlyMoves
<1>6. CASE RecvSeed(p)
  BY <1>1, <1>6 DEF RecvSeed, Goto, ttpVars, OnlyMoves
<1>7. CASE FirstSign(p)
  BY <1>1, <1>7 DEF FirstSign, SignWOTS, Goto, ttpVars, OnlyMoves
<1>8. CASE RecvShard(p)
  <2>1. \A q \in Players : q # p => pc'[q] = pc[q] /\ i'[q] = i[q]
    <3>1. CASE i[p] = Idx(p)
      BY <1>1, <1>8, <3>1 DEF RecvShard, Goto
    <3>2. CASE i[p] # Idx(p)
      BY <1>2, <1>8, <3>2 DEF RecvShard
    <3>. QED
      BY <3>1, <3>2
  <2>. QED
    BY <1>1, <1>8, <2>1 DEF RecvShard, ttpVars, OnlyMoves
<1>9. CASE RecvRoot(p)
  BY <1>1, <1>9 DEF RecvRoot, SignWOTS, Goto, ttpVars, OnlyMoves
<1>10. CASE Broadcast(p)
  <2>1. \A q \in Players : q # p => pc'[q] = pc[q] /\ i'[q] = i[q]
    <3>1. CASE LastPush(p)
      BY <1>3, <1>10, <3>1 DEF Broadcast
    <3>2. CASE ~LastPush(p)
      BY <1>10, <3>2 DEF Broadcast
    <3>. QED
      BY <3>1, <3>2
  <2>2. \A y \in Parties : y # p => to'[y] = to[y]
    BY <1>1, <1>10 DEF Broadcast, CountPush
  <2>. QED
    BY <1>1, <1>10, <2>1, <2>2 DEF Broadcast, ttpVars, OnlyMoves
<1>11. CASE SendRoot(p)
  <2>1. \A q \in Players : q # p => pc'[q] = pc[q] /\ i'[q] = i[q]
    BY <1>3, <1>11 DEF SendRoot
  <2>. QED
    BY <1>1, <1>11, <2>1 DEF SendRoot, ttpVars, OnlyMoves
<1>12. CASE RecvFinal(p)
  BY <1>1, <1>12 DEF RecvFinal, Goto, ttpVars, OnlyMoves
<1>. QED
  BY <1>4, <1>5, <1>6, <1>7, <1>8, <1>9, <1>10, <1>11, <1>12 DEF Player

\* A signature is not taken back.
LEMMA SignedStays ==
  ASSUME SignInv, NEW l \in Slots, NEW p \in Signers, p = SignerOf(l), Player(p), ~BarrierWait(p), Signed(l)
  PROVE  Signed(l)'
<1>. USE Sizes
<1>1. /\ TypeOK /\ threshold \in Ascending /\ Counted(l, p) /\ p \in Players /\ Idx(p) = l
      /\ l \in Nat /\ l # THRESHOLD /\ l < THRESHOLD
  BY SlotsAre DEF SignInv, SlotInv, TypeOK
<1>2. \/ pc[p] \in {"recv_final", "done", "bc", "send_root"}
      \/ pc[p] = "recv_shard" /\ i[p] > l
  BY <1>1 DEF Signed, Past
<1>3. i[p] \in Nat /\ pc \in [Players -> Presign \cup Signing \cup {"idle"}] /\ i \in [Players -> 1..THRESHOLD]
  BY <1>1 DEF TypeOK
<1>4. SignerOf(l)' = p
  <2>1. threshold' = threshold
    BY <1>1, PlayerFrame DEF OnlyMoves
  <2>. QED
    BY <2>1, SignersStay
<1>5. SUFFICES \/ pc'[p] \in {"recv_final", "done", "bc", "send_root"}
               \/ pc'[p] = "recv_shard" /\ i'[p] > l
  BY <1>1, <1>4 DEF Signed, Past
<1>6. ASSUME pc[p] \in {"bc", "send_root"}, NEW label \in {"bc", "send_root"}, Then(p, label)
      PROVE  \/ pc'[p] \in {"recv_final", "done", "bc", "send_root"}
             \/ pc'[p] = "recv_shard" /\ i'[p] > l
  <2>1. CASE label = AfterSigning(p)[1]
    BY <1>1, <1>3, <1>6, <2>1 DEF Then, Goto, AfterSigning
  <2>2. CASE label # AfterSigning(p)[1]
    <3>1. AfterOwnRound(p)
      BY <1>6, <2>2 DEF Then
    <3>2. i[p] = IF l = 0 THEN 1 ELSE l
      BY <1>1, <1>6 DEF Counted
    <3>3. IF l = THRESHOLD - 1 THEN pc'[p] = "recv_final"
          ELSE pc'[p] = "recv_shard" /\ i'[p] = l + 2
      BY <1>1, <3>1, <3>2, AfterOwn
    <3>. QED
      BY <1>1, <3>3
  <2>. QED
    BY <2>1, <2>2
<1>7. CASE RecvShard(p)
  <2>1. i[p] > l /\ i[p] # Idx(p)
    BY <1>1, <1>2, <1>3, <1>7 DEF RecvShard
  <2>2. NextRound(p, 1)
    BY <1>7, <2>1 DEF RecvShard
  <2>3. IF i[p] + 1 > THRESHOLD
        THEN pc' = [pc EXCEPT ![p] = "recv_final"] /\ i' = [i EXCEPT ![p] = 1]
        ELSE pc' = [pc EXCEPT ![p] = "recv_shard"] /\ i' = [i EXCEPT ![p] = i[p] + 1]
    BY ONLY <2>2, NextRoundIs
  <2>4. CASE i[p] + 1 > THRESHOLD
    BY <1>1, <1>3, <2>3, <2>4
  <2>5. CASE ~(i[p] + 1 > THRESHOLD)
    BY <1>1, <1>3, <2>1, <2>3, <2>5
  <2>. QED
    BY <2>4, <2>5
<1>8. CASE Broadcast(p)
  <2>1. CASE LastPush(p)
    BY <1>6, <1>8, <2>1 DEF Broadcast
  <2>2. CASE ~LastPush(p)
    BY <1>8, <2>2 DEF Broadcast
  <2>. QED
    BY <2>1, <2>2
<1>9. CASE SendRoot(p)
  BY <1>6, <1>9 DEF SendRoot
<1>10. CASE RecvFinal(p)
  BY <1>1, <1>3, <1>10 DEF RecvFinal, Goto
<1>11. pc[p] \notin {"send_share", "recv_R", "recv_seed", "first_sign", "recv_root"}
  BY <1>2
<1>. QED
  BY <1>7, <1>8, <1>9, <1>10, <1>11 DEF Player, SendShare, RecvR, RecvSeed, FirstSign, RecvRoot

\* The barrier lets the signers in before any of them has signed.
LEMMA BarrierSignsNothing ==
  ASSUME SignInv, SignInv', NEW p \in Signers, BarrierWait(p)
  PROVE  \A l \in Layers : Signed(l)' <=> Signed(l)
<1>. USE Sizes
<1>1. /\ TypeOK /\ threshold \in Ascending /\ p \in Players
  BY SlotsAre DEF SignInv, TypeOK
<1>2. UNCHANGED <<threshold, ttp, i>> /\ pc[p] = "barrier"
  BY DEF BarrierWait, ttpVars
<1>3. \A q \in Signers : pc[q] \in Presign
  BY <1>2 DEF SignInv, Together, Presign, Signing
<1>4. \A q \in Players : pc'[q] = pc[q] \/ pc'[q] \in {"wait", "first_sign", "recv_shard"}
  <2> DEFINE arrived == {q \in Players : pc[q] = "wait"} \cup {p}
  <2>1. pc' = IF Cardinality(arrived) < THRESHOLD
              THEN [pc EXCEPT ![p] = "wait"]
              ELSE [q \in Players |-> IF q \in arrived THEN Begin(q) ELSE pc[q]]
    BY DEF BarrierWait
  <2>2. pc \in [Players -> Presign \cup Signing \cup {"idle"}]
    BY <1>1 DEF TypeOK
  <2>. HIDE DEF arrived
  <2>3. CASE Cardinality(arrived) < THRESHOLD
    BY <2>1, <2>2, <2>3
  <2>4. CASE ~(Cardinality(arrived) < THRESHOLD)
    BY <2>1, <2>2, <2>4 DEF Begin
  <2>. QED
    BY <2>3, <2>4
<1>5. ASSUME NEW l \in Slots PROVE ~Signed(l) /\ ~Signed(l)'
  <2>1. PICK q \in Signers : q = SignerOf(l) /\ q = SignerOf(l)' /\ q \in Players /\ q \in Signers'
    BY <1>1, <1>2, SlotsAre, SignersStay
  <2>2. /\ l # THRESHOLD /\ l \in Nat /\ Counted(l, q) /\ Counted(l, q)' /\ pc[q] \in Presign
    <3>1. l # THRESHOLD /\ l \in Nat
      BY DEF Slots
    <3>2. Counted(l, q)
      BY <2>1 DEF SignInv, SlotInv
    <3>3. SlotInv(l, q)'
      BY <2>1 DEF SignInv
    <3>4. Counted(l, q)'
      BY <3>3 DEF SlotInv
    <3>. QED
      BY <1>3, <3>1, <3>2, <3>4
  <2>3. ~Signed(l)
    BY <2>1, <2>2 DEF Signed, Past, Presign
  <2>4. i'[q] = 1 /\ pc'[q] \in Presign \cup {"first_sign", "recv_shard"}
    BY <1>2, <1>4, <2>1, <2>2 DEF Counted, Presign
  <2>5. pc'[q] = "recv_shard" => ~(i'[q] > l)
    BY <2>2, <2>4 DEF Counted
  <2>6. ~Signed(l)'
    BY <2>1, <2>2, <2>4, <2>5 DEF Signed, Past, Presign
  <2>. QED
    BY <2>3, <2>6
<1>6. Signed(THRESHOLD)' <=> Signed(THRESHOLD)
  BY <1>2 DEF Signed
<1>. QED
  BY <1>5, <1>6, LayersAre

LEMMA TtpFrame ==
  ASSUME TypeOK, TrustedParty
  PROVE  /\ TtpMoves /\ (Signed(THRESHOLD) => Signed(THRESHOLD)')
         /\ TopMade => TopMade'
<1>. USE Sizes
<1>1. /\ to \in [Parties -> Players] /\ root \in [Parties -> Data \cup {<<>>}]
      /\ Players \subseteq Parties /\ TTP \in Parties /\ TTP \notin Players
  BY DEF TypeOK
<1>2. CASE TtpRecvShare
  <2>1. UNCHANGED <<threshold, pc, i, to, sm, root, top>> /\ ttp = "recv_shares" /\ ttp' \in {"recv_shares", "bc_R"}
    BY <1>2 DEF TtpRecvShare, playerVars
  <2>. QED
    BY <2>1 DEF TtpMoves, Signed, TopMade
<1>3. CASE TtpBroadcast
  <2>1. /\ UNCHANGED <<threshold, pc, i, sm, root, top>>
        /\ ttp \in {"bc_R", "bc_seed", "bc_top"}
        /\ ttp' = ttp \/ ttp' = TtpNext
    BY <1>3 DEF TtpBroadcast
  <2>2. \A p \in Players : to'[p] = to[p]
    BY <1>1, <1>3 DEF TtpBroadcast, CountPush
  <2>3. /\ ttp = "bc_R" => TtpNext = "bc_seed"
        /\ ttp = "bc_seed" => TtpNext = "recv_root"
        /\ ttp = "bc_top" => TtpNext = "done"
    BY DEF TtpNext
  <2>. QED
    BY <2>1, <2>2, <2>3 DEF TtpMoves, Signed, TopMade
<1>4. CASE TtpRecvRoot
  <2>1. /\ UNCHANGED <<threshold, pc, i, to, sm>> /\ ttp' = "bc_top"
        /\ \A p \in Players : root'[p] = root[p]
    BY <1>1, <1>4 DEF TtpRecvRoot
  <2>. QED
    BY <2>1 DEF TtpMoves, Signed, TopMade
<1>. QED
  BY <1>2, <1>3, <1>4 DEF TrustedParty

LEMMA OneMore ==
  ASSUME SignInv, SignInv', [Next]_vars
  PROVE  \E l \in Layers : Grows(l)
<1>. USE Sizes
<1>1. TypeOK /\ threshold \in Ascending
  BY DEF SignInv, TypeOK
<1>2. ASSUME NEW p \in Signers, Player(p), ~BarrierWait(p)
      PROVE  \E l \in Layers : Grows(l)
  <2>1. PICK l \in Slots : p = SignerOf(l)
    BY <1>1, SlotsAre
  <2>2. OnlyMoves(SignerOf(l))
    BY <1>1, <1>2, <2>1, PlayerFrame
  <2>3. Signed(l) => Signed(l)'
    BY <1>2, <2>1, SignedStays
  <2>4. /\ \A m \in Slots : m # l => (Signed(m)' <=> Signed(m))
        /\ Signed(THRESHOLD)' <=> Signed(THRESHOLD)
    BY <1>1, <2>2, OthersProgress
  <2>5. Grows(l)
    BY <2>3, <2>4, LayersAre DEF Grows
  <2>. QED
    BY <2>5, LayersAre
<1>3. ASSUME TrustedParty PROVE Grows(THRESHOLD)
  <2>1. TtpMoves /\ (Signed(THRESHOLD) => Signed(THRESHOLD)')
    BY <1>1, <1>3, TtpFrame
  <2>2. \A m \in Slots : Signed(m)' <=> Signed(m)
    BY <1>1, <2>1, SignersProgress
  <2>. QED
    BY <2>1, <2>2, LayersAre DEF Grows
<1>4. ASSUME UNCHANGED <<threshold, pc, i, to, sm, root, ttp>> PROVE Grows(THRESHOLD)
  <2>1. TtpMoves
    BY <1>4 DEF TtpMoves
  <2>2. \A m \in Slots : Signed(m)' <=> Signed(m)
    BY <1>1, <2>1, SignersProgress
  <2>3. Signed(THRESHOLD)' <=> Signed(THRESHOLD)
    BY <1>4 DEF Signed
  <2>. QED
    BY <2>2, <2>3, LayersAre DEF Grows
<1>5. ASSUME NEW p \in Signers, BarrierWait(p) PROVE Grows(THRESHOLD)
  BY <1>5, BarrierSignsNothing, LayersAre DEF Grows
<1>6. CASE Verify \/ Finish \/ UNCHANGED vars
  BY <1>4, <1>6, LayersAre DEF Verify, Finish, vars, playerVars, ttpVars
<1>. QED
  BY <1>2, <1>3, <1>5, <1>6, LayersAre DEF Next

------------------------------------------------------------------------------
(* The layers' signatures.                                                   *)

\* Only its signer and its layer make a right signature.
LEMMA RightIs ==
  /\ \A l : Kind(Right(l)) = "sig" /\ Right(l)[2] = SignerOf(l) /\ Right(l)[4] = RootBelow(l)
  /\ \A d \in Data \cup {Fors} : Kind(d) = "sig" => \E l \in Layers : d = Right(l)
<1>1. \A l : Kind(Right(l)) = "sig" /\ Right(l)[2] = SignerOf(l) /\ Right(l)[4] = RootBelow(l)
  BY DEF Right, Sig, Kind
<1>2. ASSUME NEW d \in Data \cup {Fors}, Kind(d) = "sig"
      PROVE  \E l \in Layers : d = Right(l)
  <2>1. \A l : Kind(RootBelow(l)) # "sig"
    BY DEF RootBelow, ForsRoot, TreeRoot, Kind
  <2>2. Kind(RandR) # "sig" /\ Kind(ForsSeed) # "sig" /\ Kind(Fors) # "sig" /\ \A p : Kind(Share(p)) # "sig"
    BY DEF RandR, ForsSeed, Fors, ForsSig, Share, Kind
  <2>. QED
    BY <1>2, <2>1, <2>2 DEF Data
<1>. QED
  BY <1>1, <1>2

\* How much of its message a signer has when it has signed, and before.
LEMMA SignedLength ==
  ASSUME SignInv, NEW l \in Slots, NEW p, p = SignerOf(l), pc[p] \in Signing
  PROVE  IF Signed(l) THEN Len(sm[p]) >= l + 3 ELSE Len(sm[p]) <= l + 2
<1>. USE Sizes
<1>1. /\ TypeOK /\ threshold \in Ascending /\ p \in Players /\ p \in Signers
      /\ l \in Nat /\ l # THRESHOLD /\ l < THRESHOLD
  BY SlotsAre DEF SignInv, TypeOK
<1>2. Counted(l, p)
  BY <1>1 DEF SignInv, SlotInv
<1>3. PICK n, c, t : n = Len(sm[p]) /\ c = i[p] /\ t = THRESHOLD
  OBVIOUS
<1>4. /\ n \in Nat /\ c \in Nat /\ t \in Nat /\ c >= 1 /\ l < t /\ l \in Nat
  <2>1. i[p] \in 1..THRESHOLD
    BY <1>1 DEF TypeOK
  <2>2. Len(sm[p]) \in Nat
    BY <1>1, LineIs
  <2>. QED
    BY <1>1, <1>3, <2>1, <2>2
<1>5. CASE pc[p] \in {"recv_final", "done", "bc", "send_root"}
  <2>1. Signed(l)
    BY <1>1, <1>5 DEF Signed, Past
  <2>2. n = t + 2 \/ n = t + 3 \/ n = l + 3
    BY <1>2, <1>3, <1>5 DEF Counted
  <2>3. n >= l + 3
    BY ONLY <1>4, <2>2
  <2>. QED
    BY <1>3, <2>1, <2>3
<1>6. CASE pc[p] \in {"first_sign", "recv_root"}
  <2>1. ~Signed(l)
    BY <1>1, <1>6 DEF Signed, Past
  <2>2. n = 2 \/ n = l + 2
    BY <1>2, <1>3, <1>6 DEF Counted
  <2>3. n <= l + 2
    BY ONLY <1>4, <2>2
  <2>. QED
    BY <1>3, <2>1, <2>3
<1>7. CASE pc[p] = "recv_shard"
  <2>1. Signed(l) <=> c > l
    BY <1>1, <1>3, <1>7 DEF Signed, Past
  <2>2. n = c + 1 /\ c # l + 1
    BY <1>2, <1>3, <1>7 DEF Counted
  <2>3. IF c > l THEN n >= l + 3 ELSE n <= l + 2
    BY ONLY <1>4, <2>2
  <2>. QED
    BY <1>3, <2>1, <2>3
<1>. QED
  BY <1>5, <1>6, <1>7 DEF Signing

\* The part of its message that p has at position m + 3 before its own turn comes.
LEMMA BeforeOwn ==
  ASSUME SignInv, NEW l \in Slots, NEW p, p = SignerOf(l), pc[p] \in Signing, ~Signed(l),
         NEW m \in Nat, m + 3 <= Len(sm[p])
  PROVE  m < l /\ sm[p][m + 3] = Right(m)
<1>. USE Sizes
<1>1. /\ TypeOK /\ threshold \in Ascending /\ InTurn /\ p \in Players /\ p \in Signers
      /\ l \in Nat /\ l # THRESHOLD /\ l < THRESHOLD
  BY SlotsAre DEF SignInv, TypeOK
<1>2. Lined(l, p)
  BY <1>1 DEF SignInv, SlotInv
<1>3. Len(sm[p]) <= l + 2 /\ Len(sm[p]) \in Nat
  <2>1. Len(sm[p]) <= l + 2
    BY SignedLength
  <2>2. Len(sm[p]) \in Nat
    BY <1>1, LineIs
  <2>. QED
    BY <2>1, <2>2
<1>4. m < l /\ m \in 0..(THRESHOLD - 2) /\ m \in Slots /\ m + 3 \in 1..Len(sm[p])
  <2>1. m < l
    BY ONLY <1>1, <1>3, m \in Nat, m + 3 <= Len(sm[p])
  <2>2. m \in 0..(THRESHOLD - 2) /\ m \in Slots
    BY <1>1, <2>1 DEF Slots
  <2>3. m + 3 \in 1..Len(sm[p])
    <3>1. PICK n : n = Len(sm[p])
      OBVIOUS
    <3>2. n \in Nat /\ m + 3 <= n
      BY <1>3, <3>1
    <3>. QED
      BY ONLY m \in Nat, <3>1, <3>2
  <2>. QED
    BY <2>1, <2>2, <2>3
<1>5. Line(p)[m + 3] = sm[p][m + 3] /\ Len(Line(p)) >= m + 3
  <2>1. /\ Len(sm[p]) \in Nat /\ Len(queue[p]) \in Nat
        /\ Len(Line(p)) = Len(sm[p]) + Len(queue[p])
        /\ \A j \in 1..Len(sm[p]) : Line(p)[j] = sm[p][j]
    BY ONLY <1>1, LineIs
  <2>2. Line(p)[m + 3] = sm[p][m + 3]
    BY ONLY <1>4, <2>1
  <2>3. PICK a, b, n : a = Len(sm[p]) /\ b = Len(queue[p]) /\ n = Len(Line(p))
    OBVIOUS
  <2>4. a \in Nat /\ b \in Nat /\ n = a + b /\ m + 3 <= a
    BY <2>1, <2>3
  <2>5. n >= m + 3
    BY ONLY <2>4, m \in Nat
  <2>. QED
    BY <2>2, <2>3, <2>5
<1>6. Present(m, p)
  <2>1. CASE Rooted(l)
    <3>1. l - 1 \in Slots /\ l - 1 # THRESHOLD - 1 /\ (m = l - 1 \/ m < l - 1) /\ SentRoot(l - 1)
      BY <1>1, <1>4, <2>1 DEF Rooted, Slots
    <3>2. Past(l - 1) /\ Signed(l - 1)
      BY <1>1, <3>1, Order
    <3>3. Past(m)
      BY <1>1, <1>4, <3>1, <3>2, Order
    <3>. QED
      BY <1>1, <1>4, <3>3, Order DEF Present
  <2>2. CASE ~Rooted(l)
    <3>1. ~Present(m, p) => Len(Line(p)) <= m + 2
      BY <1>2, <1>4, <2>2 DEF Lined
    <3>2. Len(Line(p)) \in Nat
      BY <1>1, LineIs
    <3>. QED
      BY <1>5, <3>1, <3>2
  <2>. QED
    BY <2>1, <2>2
<1>7. Line(p)[m + 3] = Right(m)
  BY <1>2, <1>4, <1>6 DEF Lined
<1>. QED
  BY <1>4, <1>5, <1>7

\* A layer's signature is in its signer's message as soon as it is made.
LEMMA OwnThere ==
  ASSUME SignInv, NEW l \in Slots, NEW p, p = SignerOf(l), Signed(l)
  PROVE  l + 3 \in DOMAIN sm[p] /\ sm[p][l + 3] = Right(l)
<1>. USE Sizes
<1>1. /\ TypeOK /\ threshold \in Ascending /\ InTurn /\ p \in Players /\ p \in Signers
      /\ l \in Nat /\ l # THRESHOLD /\ l < THRESHOLD
  BY SlotsAre DEF SignInv, TypeOK
<1>2. pc[p] \in Signing
  BY <1>1, Order
<1>3. Lined(l, p) /\ ~Rooted(l)
  BY <1>1, <1>2 DEF SignInv, SlotInv, Rooted
<1>4. l + 3 \in 1..Len(sm[p]) /\ DOMAIN sm[p] = 1..Len(sm[p])
  <2>1. Len(sm[p]) >= l + 3
    BY <1>2, SignedLength
  <2>2. sm[p] \in Seq(Data \cup {Fors})
    BY <1>1 DEF TypeOK
  <2>. QED
    BY <1>1, <2>1, <2>2
<1>5. Line(p)[l + 3] = sm[p][l + 3]
  <2>1. \A j \in 1..Len(sm[p]) : Line(p)[j] = sm[p][j]
    BY ONLY <1>1, LineIs
  <2>. QED
    BY ONLY <1>4, <2>1
<1>6. Present(l, p)
  BY DEF Present
<1>7. Line(p)[l + 3] = Right(l)
  <2>1. CASE l = THRESHOLD - 1
    <3>1. LastTwo(p) /\ l + 3 = THRESHOLD + 2
      BY <1>3, <2>1 DEF Lined
    <3>. QED
      BY <1>6, <2>1, <3>1 DEF LastTwo
  <2>2. CASE l # THRESHOLD - 1
    <3>1. l \in 0..(THRESHOLD - 2)
      BY <1>1, <2>2
    <3>. QED
      BY <1>3, <1>6, <3>1 DEF Lined
  <2>. QED
    BY <2>1, <2>2
<1>. QED
  BY <1>4, <1>5, <1>7

\* What HypertreeChain sees of a layer is the right signature, from when it is made.
LEMMA MadeByIs ==
  ASSUME SignInv, TopMade, NEW l \in Layers
  PROVE  MadeBy(l) = IF Signed(l) THEN {Right(l)} ELSE {}
<1>. USE Sizes
<1>1. TypeOK /\ threshold \in Ascending /\ TtpState
  BY DEF SignInv, TypeOK
<1>2. CASE l = THRESHOLD
  <2>1. Right(l) # <<>>
    BY DEF Right, Sig
  <2>2. Signed(l) => top = Right(l)
    BY <1>1, <1>2 DEF Signed, TtpState
  <2>3. ~Signed(l) => top = <<>>
    BY <1>2 DEF Signed, TopMade
  <2>4. MadeBy(l) = IF top = <<>> THEN {} ELSE {top}
    BY <1>2 DEF MadeBy
  <2>. QED
    BY ONLY <2>1, <2>2, <2>3, <2>4
<1>3. CASE l \in Slots
  <2>1. PICK p \in Signers : p = SignerOf(l) /\ p \in Players
    BY <1>1, <1>3, SlotsAre
  <2>2. MadeBy(l) = {s \in {sm[p][j] : j \in DOMAIN sm[p]} : Kind(s) = "sig" /\ s[2] = p}
    BY <1>3, <2>1, LayersAre DEF MadeBy
  <2>3. /\ sm[p] \in Seq(Data \cup {Fors}) /\ DOMAIN sm[p] = 1..Len(sm[p]) /\ Len(sm[p]) \in Nat
        /\ \A j \in DOMAIN sm[p] : sm[p][j] \in Data \cup {Fors}
    <3>1. sm[p] \in Seq(Data \cup {Fors})
      BY <1>1, <2>1 DEF TypeOK
    <3>. QED
      BY <3>1
  <2>4. ASSUME NEW m \in Layers, Right(m)[2] = p PROVE m = l
    <3>1. SignerOf(m) = p
      BY <2>4, RightIs
    <3>2. m # THRESHOLD
      <4>1. SignerOf(THRESHOLD) = TTP
        BY <1>1, SlotsAre
      <4>. QED
        BY <2>1, <3>1, <4>1
    <3>. QED
      BY <1>1, <1>3, <2>1, <3>1, <3>2, SlotsAre, LayersAre
  <2>5. MadeBy(l) \subseteq {Right(l)}
    BY <2>2, <2>3, <2>4, RightIs
  <2>6. CASE Signed(l)
    <3>1. l + 3 \in DOMAIN sm[p] /\ sm[p][l + 3] = Right(l)
      BY <1>3, <2>1, <2>6, OwnThere
    <3>2. Right(l) \in MadeBy(l)
      BY <2>1, <2>2, <3>1, RightIs
    <3>. QED
      BY <2>5, <2>6, <3>2
  <2>7. CASE ~Signed(l)
    <3>1. ASSUME NEW j \in DOMAIN sm[p], sm[p][j] = Right(l) PROVE FALSE
      <4>1. CASE pc[p] \in Signing
        <5>1. j = 1 \/ j = 2 \/ j - 3 \in Nat
          BY <2>3
        <5>2. CASE j - 3 \in Nat
          <6>1. PICK m \in Nat : j = m + 3 /\ m + 3 <= Len(sm[p])
            <7>1. j \in Int /\ j <= Len(sm[p])
              BY <2>3
            <7>2. j = (j - 3) + 3
              BY <7>1
            <7>. QED
              BY ONLY <5>2, <7>1, <7>2
          <6>2. m < l /\ sm[p][m + 3] = Right(m)
            BY ONLY SignInv, <1>3, <2>1, <2>7, <4>1, <6>1, BeforeOwn
          <6>3. m \in Layers
            BY <1>3, <6>2 DEF Slots
          <6>4. Right(m)[2] = p
            BY <2>1, <3>1, <6>1, <6>2, RightIs
          <6>5. m = l
            BY <2>4, <6>3, <6>4
          <6>. QED
            BY <6>1, <6>2, <6>5
        <5>3. CASE j = 1 \/ j = 2
          <6>1. Line(p)[j] = sm[p][j]
            BY <1>1, <2>1, <2>3, LineIs
          <6>2. sm[p][j] \in {RandR, Fors}
            <7>1. Lined(l, p)
              BY <1>3, <2>1, <4>1 DEF SignInv, SlotInv
            <7>. QED
              BY <5>3, <6>1, <7>1 DEF Lined
          <6>. QED
            BY <3>1, <6>2 DEF RandR, Fors, ForsSig, Right, Sig
        <5>. QED
          BY <5>1, <5>2, <5>3
      <4>2. CASE pc[p] \notin Signing
        <5>1. sm[p] \in {<<>>, <<RandR>>, <<RandR, Fors>>}
          <6>1. Presigned(p) /\ pc[p] \in Presign
            BY <2>1, <4>2 DEF SignInv
          <6>. QED
            BY <6>1 DEF Presigned, Presign
        <5>2. sm[p][j] \in {RandR, Fors}
          BY <2>3, <5>1
        <5>. QED
          BY <3>1, <5>2 DEF RandR, Fors, ForsSig, Right, Sig
      <4>. QED
        BY <4>1, <4>2
    <3>2. Right(l) \notin MadeBy(l)
      BY <2>2, <3>1
    <3>. QED
      BY <2>5, <2>7, <3>2
  <2>. QED
    BY <2>6, <2>7
<1>. QED
  BY <1>2, <1>3, LayersAre

\* A root is that of the layer below the one that signs it.
LEMMA LayerOfRoot ==
  ASSUME NEW l \in Layers
  PROVE  LayerOf(RootBelow(l)) = l - 1
<1>. USE Sizes
<1>1. CASE l = 0
  BY <1>1 DEF LayerOf, RootBelow, ForsRoot, Kind
<1>2. CASE l # 0
  <2>1. RootBelow(l) = TreeRoot(SignerOf(l - 1), At(RandR, l - 1)) /\ l - 1 \in Layers
    BY <1>2 DEF RootBelow
  <2>2. \A m \in Layers : RootBelow(l) = TreeRoot(SignerOf(m), At(RandR, m)) => m = l - 1
    BY <2>1 DEF TreeRoot, At
  <2>3. Kind(RootBelow(l)) = "root"
    BY <2>1 DEF TreeRoot, Kind
  <2>. QED
    BY <2>1, <2>2, <2>3 DEF LayerOf
<1>. QED
  BY <1>1, <1>2

LEMMA ChainIs ==
  ASSUME SignInv, TopMade, NEW n \in 0..SPX_D, Depth(n)
  PROVE  Signatures = Chained(n)
<1>. USE Sizes
<1>1. n \in Nat /\ n <= THRESHOLD + 1
  OBVIOUS
<1>2. Made = 0..(n - 1)
  <2>1. \A l \in Layers : l \in Made <=> l < n
    BY MadeByIs DEF Made, Depth
  <2>2. Made \subseteq Layers
    BY DEF Made
  <2>3. \A l : l \in 0..(n - 1) <=> l \in Layers /\ l < n
    BY <1>1
  <2>. QED
    BY ONLY <2>1, <2>2, <2>3
<1>3. Cardinality(Made) = n
  <2>1. 0 \in Int /\ n - 1 \in Int
    BY <1>1
  <2>2. Cardinality(0..(n - 1)) = IF 0 > n - 1 THEN 0 ELSE (n - 1) - 0 + 1
    BY ONLY <2>1, FS_Interval
  <2>. QED
    BY <1>1, <1>2, <2>2
<1>4. ASSUME NEW j \in 1..n
      PROVE  (IF j - 1 \in Made THEN LayerOf((CHOOSE s \in MadeBy(j - 1) : TRUE)[4]) ELSE -2) = j - 2
  <2>1. PICK l \in Layers : l = j - 1 /\ l \in Made /\ l < n
    BY <1>1, <1>2
  <2>2. MadeBy(l) = {Right(l)}
    BY <2>1, MadeByIs DEF Depth
  <2>3. (CHOOSE s \in MadeBy(l) : TRUE) = Right(l)
    BY <2>2
  <2>4. LayerOf((CHOOSE s \in MadeBy(l) : TRUE)[4]) = l - 1
    BY <2>3, RightIs, LayerOfRoot
  <2>5. l - 1 = j - 2
    BY <2>1
  <2>. QED
    BY <2>1, <2>4, <2>5
<1>. QED
  BY <1>3, <1>4 DEF Signatures, Chained

------------------------------------------------------------------------------
(* The refinement.                                                           *)

\* Below a layer that is signed all layers are.
Downward == \A l, m \in Layers : m < l /\ Signed(l) => Signed(m)

LEMMA SignedDownward ==
  ASSUME SignInv
  PROVE  Downward
<1>1. threshold \in Ascending /\ InTurn
  BY DEF SignInv, TypeOK
<1>2. /\ \A l, m \in Slots : m < l /\ Signed(l) => Signed(m)
      /\ Signed(THRESHOLD) => \A m \in Slots : Signed(m)
  BY <1>1, Order
<1>3. \A m \in Layers : ~(THRESHOLD < m) /\ ~(THRESHOLD < THRESHOLD)
  BY Sizes
<1>. QED
  BY <1>2, <1>3, LayersAre DEF Downward

\* What a step does to the number of layers signed.
LEMMA DepthStep ==
  ASSUME SignInv, SignInv', Downward', [Next]_vars, NEW n \in 0..SPX_D, Depth(n)
  PROVE  Depth(n)' \/ (n < SPX_D /\ Depth(n + 1)')
<1>. USE Sizes
<1>1. PICK l \in Layers : Grows(l)
  BY OneMore
<1>2. /\ Signed(l) => Signed(l)'
      /\ \A m \in Layers : m # l => (Signed(m)' <=> Signed(m))
  BY <1>1 DEF Grows
<1>3. \A m \in Layers : Signed(m) <=> m < n
  BY DEF Depth
<1>4. CASE Signed(l)' <=> Signed(l)
  <2>1. \A m \in Layers : Signed(m)' <=> m < n
    BY <1>2, <1>3, <1>4
  <2>. QED
    BY <2>1 DEF Depth
<1>5. CASE ~Signed(l) /\ Signed(l)'
  <2>1. \A m \in Layers : m < l => Signed(m)'
    BY <1>5 DEF Downward
  <2>2. l = n
    BY <1>2, <1>3, <1>5, <2>1
  <2>3. \A m \in Layers : Signed(m)' <=> m < n + 1
    BY <1>2, <1>3, <1>5, <2>2
  <2>. QED
    BY <2>2, <2>3 DEF Depth
<1>. QED
  BY <1>2, <1>4, <1>5

LEMMA ChainInvKept ==
  ASSUME SignInv, SignInv', Downward', ChainInv, [Next]_vars
  PROVE  ChainInv'
<1>. USE Sizes
<1>1. \E n \in 0..SPX_D : Depth(n)'
  <2>1. PICK n \in 0..SPX_D : Depth(n)
    BY DEF ChainInv
  <2>2. Depth(n)' \/ (n < SPX_D /\ Depth(n + 1)')
    BY <2>1, DepthStep
  <2>3. n < SPX_D => n + 1 \in 0..SPX_D
    OBVIOUS
  <2>. QED
    BY <2>2, <2>3
<1>2. TopMade'
  <2>1. TypeOK /\ TopMade
    BY DEF SignInv, ChainInv
  <2>2. CASE TrustedParty
    BY <2>1, <2>2, TtpFrame
  <2>3. CASE UNCHANGED <<ttp, top>>
    BY <2>1, <2>3 DEF TopMade
  <2>4. ASSUME NEW p \in Signers, Player(p) PROVE UNCHANGED <<ttp, top>>
    BY <2>4 DEF Player, SendShare, RecvR, RecvSeed, BarrierWait, FirstSign, RecvShard, RecvRoot,
       Broadcast, SendRoot, RecvFinal, ttpVars
  <2>5. Verify \/ Finish \/ UNCHANGED vars => UNCHANGED <<ttp, top>>
    BY DEF Verify, Finish, vars, ttpVars
  <2>. QED
    BY <2>2, <2>3, <2>4, <2>5 DEF Next
<1>. QED
  BY <1>1, <1>2 DEF ChainInv

\* A layer more is one step of the chain.
LEMMA ChainGrows ==
  ASSUME NEW n \in 0..SPX_D, n < SPX_D, Signatures = Chained(n), Signatures' = Chained(n + 1)
  PROVE  Chain!Extend
<1>1. n \in Nat /\ SPX_D \in Nat
  BY Sizes
<1>2. Len(Chained(n)) = n
  BY <1>1 DEF Chained
<1>3. Chain!Signature(n) = [layer |-> n, signs |-> n - 1]
  BY DEF Chain!Signature
<1>4. Chained(n + 1) = Append(Chained(n), [layer |-> n, signs |-> n - 1])
  <2> DEFINE s == Chained(n)
             d == [layer |-> n, signs |-> n - 1]
             S == [layer : Int, signs : Int]
  <2>1. s \in Seq(S) /\ d \in S /\ Len(s) = n
    BY <1>1 DEF Chained
  <2>2. Append(s, d) = [j \in 1..(n + 1) |-> IF j <= n THEN s[j] ELSE d]
    BY <1>1, <2>1
  <2>3. \A j \in 1..(n + 1) : (IF j <= n THEN s[j] ELSE d) = [layer |-> j - 1, signs |-> j - 2]
    BY <1>1 DEF Chained
  <2>. QED
    BY <2>2, <2>3 DEF Chained
<1>. QED
  BY <1>2, <1>3, <1>4 DEF Chain!Extend

\* How many layers are signed, and as what HypertreeChain sees them.
AsChained == \E n \in 0..SPX_D : Depth(n) /\ Signatures = Chained(n)

LEMMA ChainStep ==
  ASSUME SignInv, SignInv', Downward', AsChained, AsChained', [Next]_vars
  PROVE  [Chain!Extend]_Signatures
<1>. USE Sizes
<1>1. PICK n \in 0..SPX_D : Depth(n) /\ Signatures = Chained(n)
  BY DEF AsChained
<1>2. PICK m \in 0..SPX_D : Depth(m)' /\ Signatures' = Chained(m)
  BY DEF AsChained, Chained
<1>3. Depth(n)' \/ (n < SPX_D /\ Depth(n + 1)')
  BY <1>1, DepthStep
\* Only one number is the depth.
<1>4. ASSUME NEW a \in 0..SPX_D, Depth(a)' PROVE a = m
  <2>1. \A l \in Layers : l < a <=> l < m
    BY <1>2, <1>4 DEF Depth
  <2>2. a < SPX_D => a \in Layers
    BY DEF Layers
  <2>3. m < SPX_D => m \in Layers
    BY DEF Layers
  <2>. QED
    BY <2>1, <2>2, <2>3
<1>5. CASE Depth(n)'
  BY <1>1, <1>2, <1>4, <1>5
<1>6. CASE n < SPX_D /\ Depth(n + 1)'
  <2>1. n + 1 = m
    BY <1>4, <1>6
  <2>. QED
    BY <1>1, <1>2, <1>6, <2>1, ChainGrows
<1>. QED
  BY <1>3, <1>5, <1>6

LEMMA NothingSigned ==
  ASSUME Init
  PROVE  \A l \in Layers : ~Signed(l)
<1>1. ~Signed(THRESHOLD)
  BY DEF Init, Signed
<1>2. threshold \in Ascending /\ \A p \in Players : pc[p] \in {"send_share", "idle"}
  BY DEF Init
<1>3. \A l \in Slots : ~Signed(l)
  BY <1>2, SlotsAre, LayersAre DEF Signed, Past
<1>. QED
  BY <1>1, <1>3, LayersAre

\* The layers of the hypertree are signed one after the other, each once and each over the
\* root of the layer below, and never a layer before the one below it: every behaviour of
\* the threads (round.c:132-270) is one of HypertreeChain.
THEOREM SessionImplementsChain == SafeSpec => Chain!SafeSpec
<1>1. Init => ChainInv
  <2>. SUFFICES ASSUME Init PROVE ChainInv
    OBVIOUS
  <2>1. SignInv /\ TopMade
    BY InitHolds DEF Init, TopMade
  <2>2. Depth(0)
    <3>1. \A l \in Layers : ~(l < 0)
      BY Sizes
    <3>. QED
      BY <3>1, NothingSigned DEF Depth
  <2>3. 0 \in 0..SPX_D
    BY Sizes
  <2>. QED
    BY <2>1, <2>2, <2>3 DEF ChainInv
<1>2. SignInv => Downward
  BY SignedDownward
<1>3. SignInv /\ SignInv' /\ Downward' /\ ChainInv /\ [Next]_vars => ChainInv'
  BY ChainInvKept
<1>4. SignInv /\ ChainInv => AsChained
  BY ChainIs DEF ChainInv, AsChained
<1>5. Init => Chain!Init
  <2>. SUFFICES ASSUME Init PROVE Signatures = <<>>
    BY DEF Chain!Init
  <2>1. SignInv /\ TopMade
    BY InitHolds DEF Init, TopMade
  <2>2. Made = {}
    BY <2>1, NothingSigned, MadeByIs DEF Made
  <2>3. Cardinality(Made) = 0
    BY <2>2, FS_EmptySet
  <2>. QED
    BY <2>3 DEF Signatures
<1>6. SignInv /\ SignInv' /\ Downward' /\ AsChained /\ AsChained' /\ [Next]_vars => [Chain!Extend]_Signatures
  BY ChainStep
<1>. QED
  BY <1>1, <1>2, <1>3, <1>4, <1>5, <1>6, SignInvariant, PTL DEF SafeSpec, Chain!SafeSpec
==============================================================================
