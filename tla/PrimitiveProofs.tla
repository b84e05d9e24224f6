--------------------------- MODULE PrimitiveProofs ---------------------------
(***************************************************************************)
(* Proofs about the algorithms. The sharing of the secret: Lagrange        *)
(* interpolation at zero and Horner's scheme modulo a prime, for every     *)
(* prime, every number of players and every threshold. A signature: trees, *)
(* hash chains, FORS and the hypertree, of every height, for every number  *)
(* of layers and signers and every digest.                                 *)
(***************************************************************************)
EXTENDS Signature, ShamirSharing, FiniteSetTheorems, WellFoundedInduction, TLAPS

------------------------------------------------------------------------------
(* Induction.                                                                *)

LEMMA NatSetInduction ==
  ASSUME NEW S, 0 \in S, \A n \in Nat : n \in S => n + 1 \in S
  PROVE  Nat \subseteq S
<1>. SUFFICES ASSUME Nat \ S # {} PROVE FALSE
  OBVIOUS
<1>1. PICK x \in Nat \ S : \A y \in Nat \ S : ~(<<y, x>> \in OpToRel(<,Nat))
  BY NatLessThanWellFounded, WFMin, Zenon
<1>2. \A y \in Nat \ S : ~(y < x)
  BY <1>1 DEF OpToRel
<1>3. x # 0 /\ x - 1 \in Nat /\ x - 1 < x
  OBVIOUS
<1>4. x - 1 \in S
  BY <1>2, <1>3
<1>. QED
  BY <1>3, <1>4

LEMMA SubsetInduction ==
  ASSUME NEW S, IsFiniteSet(S), NEW P,
         \A T \in SUBSET S : (\A x \in T : T \ {x} \in P) => T \in P
  PROVE  \A T \in SUBSET S : T \in P
<1>. DEFINE N == {n \in Nat : \A T \in SUBSET S : Cardinality(T) = n => T \in P}
<1>1. 0 \in N
  <2>. SUFFICES ASSUME NEW T \in SUBSET S, Cardinality(T) = 0 PROVE T \in P
    OBVIOUS
  <2>1. T = {}
    BY FS_Subset, FS_EmptySet
  <2>. QED
    BY <2>1
<1>2. ASSUME NEW n \in Nat, n \in N PROVE n + 1 \in N
  <2>. SUFFICES ASSUME NEW T \in SUBSET S, Cardinality(T) = n + 1 PROVE T \in P
    OBVIOUS
  <2>1. IsFiniteSet(T)
    BY FS_Subset
  <2>2. ASSUME NEW x \in T PROVE T \ {x} \in P
    <3>1. Cardinality(T \ {x}) = Cardinality(T) - 1
      BY <2>1, FS_RemoveElement
    <3>. QED
      BY <1>2, <3>1
  <2>. QED
    BY <2>2
<1>. HIDE DEF N
<1>3. Nat \subseteq N
  BY <1>1, <1>2, NatSetInduction
<1>. SUFFICES ASSUME NEW T \in SUBSET S PROVE T \in P
  OBVIOUS
<1>4. Cardinality(T) \in N
  BY <1>3, FS_Subset, FS_CardinalityType
<1>. QED
  BY <1>4 DEF N

LEMMA Smallest ==
  ASSUME NEW S, S \subseteq Nat, S # {}
  PROVE  Min(S) \in S /\ \A y \in S : Min(S) <= y
<1>1. PICK x \in S : \A y \in S : ~(<<y, x>> \in OpToRel(<,Nat))
  BY NatLessThanWellFounded, WFMin, Zenon
<1>2. \A y \in S : ~(y < x)
  <2>. SUFFICES ASSUME NEW y \in S, y < x PROVE FALSE
    OBVIOUS
  <2>1. x \in Nat /\ y \in Nat /\ ~(<<y, x>> \in OpToRel(<,Nat))
    BY <1>1
  <2>. QED
    BY <2>1 DEF OpToRel
<1>3. \A y \in S : x <= y
  BY <1>2
<1>. QED
  BY <1>3, Zenon DEF Min

------------------------------------------------------------------------------
(* Arithmetic modulo prime.                                                  *)

LEMMA PrimeIs == prime \in Nat /\ prime > 1 /\ Residues = 0..(prime - 1)
BY SharingAssumption DEF Residues

LEMMA MulMonotone ==
  ASSUME NEW a \in Nat, NEW b \in Int, b >= 1
  PROVE  a * b >= a
OBVIOUS

LEMMA ModIs ==
  ASSUME NEW x \in Int
  PROVE  Mod(x) \in Residues /\ \E q \in Int : x = q * prime + Mod(x)
<1>1. x % prime \in 0..(prime - 1) /\ x \div prime \in Int /\ x = (x \div prime) * prime + (x % prime)
  BY PrimeIs
<1>. QED
  BY <1>1, PrimeIs DEF Mod

LEMMA ModUnique ==
  ASSUME NEW q \in Int, NEW r \in Residues
  PROVE  Mod(q * prime + r) = r
<1>. DEFINE m == Mod(q * prime + r)
<1>a. q * prime + r \in Int /\ r \in Int
  BY PrimeIs
<1>1. PICK k \in Int : q * prime + r = k * prime + Mod(q * prime + r)
  BY <1>a, ModIs
<1>2. m \in Residues /\ r \in Int /\ m \in Int
  <2>1. m \in Residues
    BY <1>a, ModIs
  <2>. QED
    BY <1>a, <2>1, PrimeIs
<1>. HIDE DEF m
<1>3. (q - k) * prime = m - r
  BY <1>1, <1>2, PrimeIs DEF m
<1>4. q - k < 1
  BY <1>2, <1>3, PrimeIs, MulMonotone
<1>5. k - q < 1
  <2>1. (k - q) * prime = r - m
    BY <1>2, <1>3, PrimeIs
  <2>. QED
    BY <1>2, <2>1, PrimeIs, MulMonotone
<1>6. q = k
  BY <1>4, <1>5
<1>. QED
  BY <1>2, <1>3, <1>6, PrimeIs DEF m

LEMMA ModShift ==
  ASSUME NEW x \in Int, NEW q \in Int
  PROVE  Mod(x + q * prime) = Mod(x)
<1>1. PICK k \in Int : x = k * prime + Mod(x)
  BY ModIs
<1>2. x + q * prime = (k + q) * prime + Mod(x)
  <2>1. Mod(x) \in Int /\ prime \in Int
    BY ModIs, PrimeIs
  <2>. QED
    BY <1>1, <2>1
<1>. QED
  BY <1>2, ModIs, ModUnique

LEMMA ModSmall ==
  ASSUME NEW r \in Residues
  PROVE  r \in Int /\ Mod(r) = r
<1>1. 0 * prime + r = r /\ r \in Int
  BY PrimeIs
<1>. QED
  BY <1>1, ModUnique

LEMMA ModEqual ==
  ASSUME NEW x \in Int, NEW y \in Int, Mod(x) = Mod(y)
  PROVE  \E q \in Int : x = y + q * prime
<1>1. PICK k \in Int : x = k * prime + Mod(x)
  BY ModIs
<1>2. PICK l \in Int : y = l * prime + Mod(y)
  BY ModIs
<1>3. x = y + (k - l) * prime
  <2>1. Mod(x) \in Int /\ prime \in Int
    BY ModIs, PrimeIs
  <2>. QED
    BY <1>1, <1>2, <2>1
<1>. QED
  BY <1>3

LEMMA ModAdd ==
  ASSUME NEW x \in Int, NEW y \in Int, NEW u \in Int, NEW v \in Int, Mod(x) = Mod(y), Mod(u) = Mod(v)
  PROVE  Mod(x + u) = Mod(y + v)
<1>1. PICK k \in Int : x = y + k * prime
  BY ModEqual
<1>2. PICK l \in Int : u = v + l * prime
  BY ModEqual
<1>3. x + u = (y + v) + (k + l) * prime
  BY <1>1, <1>2, PrimeIs
<1>. QED
  BY <1>3, ModShift

LEMMA ModMul ==
  ASSUME NEW x \in Int, NEW y \in Int, NEW u \in Int, NEW v \in Int, Mod(x) = Mod(y), Mod(u) = Mod(v)
  PROVE  Mod(x * u) = Mod(y * v)
<1>1. PICK k \in Int : x = y + k * prime
  BY ModEqual
<1>2. PICK l \in Int : u = v + l * prime
  BY ModEqual
<1>3. x * u = y * v + (y * l + k * v + k * l * prime) * prime
  BY <1>1, <1>2, PrimeIs
<1>4. y * l + k * v + k * l * prime \in Int
  BY PrimeIs
<1>. QED
  BY <1>3, <1>4, ModShift

LEMMA ModMod ==
  ASSUME NEW x \in Int
  PROVE  Mod(x) \in Int /\ Mod(Mod(x)) = Mod(x)
BY ModIs, ModSmall

LEMMA ModTerm ==
  ASSUME NEW x \in Int, NEW y \in Int
  PROVE  /\ Mod(Mod(x) + y) = Mod(x + y) /\ Mod(x + Mod(y)) = Mod(x + y)
         /\ Mod(Mod(x) * y) = Mod(x * y) /\ Mod(x * Mod(y)) = Mod(x * y)
<1>1. Mod(x) \in Int /\ Mod(Mod(x)) = Mod(x) /\ Mod(y) \in Int /\ Mod(Mod(y)) = Mod(y)
  BY ModMod
<1>2. Mod(Mod(x) + y) = Mod(x + y)
  BY <1>1, ModAdd
<1>3. Mod(x + Mod(y)) = Mod(x + y)
  BY <1>1, ModAdd
<1>4. Mod(Mod(x) * y) = Mod(x * y)
  BY <1>1, ModMul
<1>5. Mod(x * Mod(y)) = Mod(x * y)
  BY <1>1, ModMul
<1>. QED
  BY <1>2, <1>3, <1>4, <1>5

LEMMA ModSum ==
  ASSUME NEW x \in Int, NEW y \in Int
  PROVE  Mod(x + y) = Mod(Mod(x) + Mod(y))
<1>1. Mod(x) \in Int
  BY ModMod
<1>2. Mod(Mod(x) + Mod(y)) = Mod(Mod(x) + y)
  BY <1>1, ModTerm
<1>. QED
  BY <1>2, ModTerm

LEMMA ModProduct ==
  ASSUME NEW x \in Int, NEW y \in Int
  PROVE  Mod(x * y) = Mod(Mod(x) * Mod(y))
<1>1. Mod(x) \in Int
  BY ModMod
<1>2. Mod(Mod(x) * Mod(y)) = Mod(Mod(x) * y)
  BY <1>1, ModTerm
<1>. QED
  BY <1>2, ModTerm

\* Numbers that are not multiples of prime have inverses.
LEMMA InverseIs ==
  ASSUME NEW x \in Int, Mod(x) # 0
  PROVE  Inverted(x) \in Residues /\ Mod(x * Inverted(x)) = 1
<1>. DEFINE M == {m \in Nat : m > 0 /\ \E y \in Int : Mod(x * y) = m}
<1>1. Mod(x) \in M
  <2>1. Mod(x * 1) = Mod(x) /\ Mod(x) \in Nat
    BY ModIs, PrimeIs
  <2>. QED
    BY <2>1, <2>1
<1>. DEFINE m == Min(M)
<1>2. m \in M /\ \A k \in M : m <= k
  BY <1>1, Smallest
<1>3. PICK y \in Int : Mod(x * y) = m
  BY <1>2
<1>4. m \in Nat /\ m > 0 /\ m < prime
  BY <1>2, <1>3, ModIs, PrimeIs
<1>. HIDE DEF m
<1>5. m = 1
  <2>. SUFFICES ASSUME m # 1 PROVE FALSE
    OBVIOUS
  <2>1. prime % m # 0
    <3>1. m \in 2..(prime - 1)
      BY <1>4, PrimeIs
    <3>. QED
      BY <3>1, SharingAssumption
  <2>. DEFINE q == prime \div m  r == prime % m
  <2>2. q \in Int /\ r \in 0..(m - 1) /\ prime = m * q + r
    BY <1>4, PrimeIs
  <2>. HIDE DEF q, r
  <2>3. Mod(x * (-(y * q))) = r
    <3>1. Mod((x * y) * (-q)) = Mod(m * (-q))
      <4>1. x * y \in Int /\ -q \in Int /\ m \in Int /\ Mod(m) = Mod(x * y)
        BY <1>3, <1>4, <2>2, ModMod
      <4>. QED
        BY <4>1, ModMul
    <3>2. m * (-q) = r + (-1) * prime
      BY <1>4, <2>2
    <3>3. Mod(r + (-1) * prime) = Mod(r)
      BY <2>2, ModShift
    <3>4. r \in Residues
      BY <1>4, <2>2, PrimeIs
    <3>5. x * (-(y * q)) = (x * y) * (-q)
      BY <2>2
    <3>. QED
      BY <3>1, <3>2, <3>3, <3>4, <3>5, ModSmall
  <2>4. r \in M
    <3>1. -(y * q) \in Int
      BY <2>2
    <3>2. r \in Nat /\ r > 0
      BY <2>1, <2>2 DEF r
    <3>. QED
      BY <2>3, <3>1, <3>2
  <2>. QED
    BY <1>2, <1>4, <2>2, <2>4
<1>6. Mod(y) \in Residues /\ Mod(x * Mod(y)) = 1
  BY <1>3, <1>5, ModIs, ModTerm
<1>. QED
  BY <1>6, Zenon DEF Inverted

LEMMA ModCancel ==
  ASSUME NEW a \in Int, Mod(a) # 0, NEW x \in Int, NEW y \in Int, Mod(a * x) = Mod(a * y)
  PROVE  Mod(x) = Mod(y)
<1>. DEFINE b == Inverted(a)
<1>1. b \in Int /\ Mod(a * b) = 1
  BY InverseIs, PrimeIs
<1>. HIDE DEF b
<1>2. Mod(b * (a * x)) = Mod(b * (a * y))
  <2>. DEFINE u == a * x  v == a * y
  <2>1. u \in Int /\ v \in Int /\ Mod(u) = Mod(v) /\ Mod(b) = Mod(b)
    OBVIOUS
  <2>. HIDE DEF u, v
  <2>2. Mod(b * u) = Mod(b * Mod(u)) /\ Mod(b * v) = Mod(b * Mod(v))
    BY <1>1, <2>1, ModTerm
  <2>. QED
    BY <2>1, <2>2 DEF u, v
<1>3. \A z \in Int : Mod(b * (a * z)) = Mod(z)
  <2>. SUFFICES ASSUME NEW z \in Int PROVE Mod(b * (a * z)) = Mod(z)
    OBVIOUS
  <2>1. b * (a * z) = (a * b) * z
    BY <1>1
  <2>2. Mod((a * b) * z) = Mod(Mod(a * b) * z)
    BY <1>1, ModTerm
  <2>3. 1 * z = z
    OBVIOUS
  <2>. QED
    BY <1>1, <2>1, <2>2, <2>3
<1>. QED
  BY <1>2, <1>3

------------------------------------------------------------------------------
(* Sums and products over finite sets, in whatever order they are computed.  *)

\* One step of a sum, of a product.
Combined(kind, x, l) == IF kind = "sum" THEN x + l ELSE Mod(l * x)
Neutral(kind) == IF kind = "sum" THEN 0 ELSE 1

FoldBody(kind, f, iter, s) ==
    IF s = {} THEN Neutral(kind)
    ELSE Combined(kind, f[CHOOSE x \in s : TRUE], iter[s \ {CHOOSE x \in s : TRUE}])

IsFold(kind, f, iter, S) == iter = [s \in SUBSET S |-> FoldBody(kind, f, iter, s)]

LEMMA FoldExists ==
  ASSUME NEW kind, NEW f, NEW S, IsFiniteSet(S)
  PROVE  \E iter : IsFold(kind, f, iter, S)
<1>. DEFINE Small(n) == {s \in SUBSET S : Cardinality(s) <= n}
            N == {n \in Nat : \E iter : iter = [s \in Small(n) |-> FoldBody(kind, f, iter, s)]}
<1>0. \A s \in SUBSET S : IsFiniteSet(s) /\ Cardinality(s) \in Nat
  BY FS_Subset, FS_CardinalityType
<1>1. 0 \in N
  <2>. DEFINE iter == [s \in Small(0) |-> Neutral(kind)]
  <2>1. \A s \in Small(0) : s = {}
    BY <1>0, FS_EmptySet
  <2>2. iter = [s \in Small(0) |-> FoldBody(kind, f, iter, s)]
    BY <2>1 DEF FoldBody
  <2>. QED
    BY <2>2
<1>2. ASSUME NEW n \in Nat, n \in N PROVE n + 1 \in N
  <2>1. PICK part : part = [s \in Small(n) |-> FoldBody(kind, f, part, s)]
    BY <1>2
  <2>. DEFINE iter == [s \in Small(n + 1) |-> FoldBody(kind, f, part, s)]
  <2>2. ASSUME NEW s \in Small(n + 1) PROVE iter[s] = FoldBody(kind, f, iter, s)
    <3>1. CASE s = {}
      BY <3>1 DEF FoldBody
    <3>2. CASE s # {}
      <4>. DEFINE x == CHOOSE y \in s : TRUE
      <4>1. x \in s
        BY <3>2
      <4>2. Cardinality(s \ {x}) = Cardinality(s) - 1
        BY <1>0, <4>1, FS_RemoveElement
      <4>3. s \ {x} \in Small(n) /\ s \ {x} \in Small(n + 1)
        BY <1>0, <4>2
      <4>4. iter[s \ {x}] = part[s \ {x}]
        BY <2>1, <4>3
      <4>. QED
        BY <3>2, <4>4 DEF FoldBody
    <3>. QED
      BY <3>1, <3>2
  <2>3. iter = [s \in Small(n + 1) |-> FoldBody(kind, f, iter, s)]
    BY <2>2
  <2>4. \E it : it = [s \in Small(n + 1) |-> FoldBody(kind, f, it, s)]
    <3>. HIDE DEF iter, Small
    <3>. QED
      BY <2>3
  <2>. HIDE DEF Small
  <2>. QED
    BY <2>4
<1>3. Nat \subseteq N
  <2>. HIDE DEF N
  <2>. QED
    BY <1>1, <1>2, NatSetInduction
<1>4. Cardinality(S) \in Nat /\ Small(Cardinality(S)) = SUBSET S
  BY <1>0, FS_Subset
<1>. QED
  BY <1>3, <1>4 DEF IsFold

\* A fold over a part is the same, whatever the whole.
LEMMA FoldAgrees ==
  ASSUME NEW kind, NEW f, NEW S, IsFiniteSet(S), NEW T \in SUBSET S, NEW g, \A x \in T : f[x] = g[x],
         NEW iter, IsFold(kind, f, iter, S), NEW other, IsFold(kind, g, other, T)
  PROVE  \A U \in SUBSET T : iter[U] = other[U]
<1>. DEFINE P == {U \in SUBSET T : iter[U] = other[U]}
<1>1. ASSUME NEW U \in SUBSET T, \A x \in U : U \ {x} \in P PROVE U \in P
  <2>1. iter[U] = FoldBody(kind, f, iter, U) /\ other[U] = FoldBody(kind, g, other, U)
    BY DEF IsFold
  <2>. QED
    BY <1>1, <2>1 DEF FoldBody
<1>2. IsFiniteSet(T)
  BY FS_Subset
<1>. HIDE DEF P
<1>3. \A U \in SUBSET T : U \in P
  BY <1>1, <1>2, SubsetInduction
<1>. QED
  BY <1>3 DEF P

LEMMA FoldInt ==
  ASSUME NEW kind, NEW f, NEW S, IsFiniteSet(S), NEW iter, IsFold(kind, f, iter, S), \A x \in S : f[x] \in Int
  PROVE  \A T \in SUBSET S : iter[T] \in Int
<1>. DEFINE P == {T \in SUBSET S : iter[T] \in Int}
<1>1. ASSUME NEW T \in SUBSET S, \A x \in T : T \ {x} \in P PROVE T \in P
  <2>1. iter[T] = FoldBody(kind, f, iter, T)
    BY DEF IsFold
  <2>2. CASE T = {}
    BY <2>1, <2>2 DEF FoldBody, Neutral
  <2>3. CASE T # {}
    <3>. DEFINE x == CHOOSE y \in T : TRUE
    <3>1. x \in T /\ f[x] \in Int /\ iter[T \ {x}] \in Int
      BY <1>1, <2>3
    <3>2. iter[T] = Combined(kind, f[x], iter[T \ {x}])
      BY <2>1, <2>3 DEF FoldBody
    <3>. HIDE DEF x
    <3>3. Combined(kind, f[x], iter[T \ {x}]) \in Int
      BY <3>1, ModMod DEF Combined
    <3>. QED
      BY <3>2, <3>3
  <2>. QED
    BY <2>2, <2>3
<1>. HIDE DEF P
<1>2. \A T \in SUBSET S : T \in P
  BY <1>1, SubsetInduction
<1>. QED
  BY <1>2 DEF P

LEMMA CombinedCommutes ==
  ASSUME NEW kind, NEW x \in Int, NEW y \in Int, NEW l \in Int
  PROVE  Combined(kind, x, Combined(kind, y, l)) = Combined(kind, y, Combined(kind, x, l))
<1>1. CASE kind = "sum"
  BY <1>1 DEF Combined
<1>2. CASE kind # "sum"
  <2>. DEFINE u == l * y  v == l * x
  <2>1. u \in Int /\ v \in Int /\ u * x = v * y
    OBVIOUS
  <2>. HIDE DEF u, v
  <2>2. Mod(Mod(u) * x) = Mod(u * x) /\ Mod(Mod(v) * y) = Mod(v * y)
    BY <2>1, ModTerm
  <2>. QED
    BY <1>2, <2>1, <2>2 DEF Combined, u, v
<1>. QED
  BY <1>1, <1>2

\* Any element may be the last.
LEMMA FoldLast ==
  ASSUME NEW kind, NEW f, NEW S, IsFiniteSet(S), NEW iter, IsFold(kind, f, iter, S), \A x \in S : f[x] \in Int
  PROVE  \A T \in SUBSET S : \A x \in T : iter[T] = Combined(kind, f[x], iter[T \ {x}])
<1>. DEFINE P == {T \in SUBSET S : \A x \in T : iter[T] = Combined(kind, f[x], iter[T \ {x}])}
<1>1. ASSUME NEW T \in SUBSET S, \A x \in T : T \ {x} \in P PROVE T \in P
  <2>. SUFFICES ASSUME NEW x \in T PROVE iter[T] = Combined(kind, f[x], iter[T \ {x}])
    OBVIOUS
  <2>. DEFINE cs == CHOOSE y \in T : TRUE
  <2>1. cs \in T /\ iter[T] = Combined(kind, f[cs], iter[T \ {cs}])
    BY DEF IsFold, FoldBody
  <2>. HIDE DEF cs
  <2>2. CASE x = cs
    BY <2>1, <2>2
  <2>3. CASE x # cs
    <3>. DEFINE U == T \ {x, cs}
    <3>1. U = (T \ {cs}) \ {x} /\ U = (T \ {x}) \ {cs} /\ x \in T \ {cs} /\ cs \in T \ {x}
      BY <2>1, <2>3
    <3>2. iter[T \ {cs}] = Combined(kind, f[x], iter[U]) /\ iter[T \ {x}] = Combined(kind, f[cs], iter[U])
      BY <1>1, <2>1, <3>1
    <3>3. f[x] \in Int /\ f[cs] \in Int /\ iter[U] \in Int
      BY <2>1, FoldInt
    <3>. HIDE DEF U
    <3>. QED
      BY <2>1, <3>2, <3>3, CombinedCommutes
  <2>. QED
    BY <2>2, <2>3
<1>. HIDE DEF P
<1>2. \A T \in SUBSET S : T \in P
  BY <1>1, SubsetInduction
<1>. QED
  BY <1>2 DEF P

LEMMA FoldRecurs ==
  ASSUME NEW kind, NEW f, NEW S, IsFiniteSet(S), \A x \in S : f[x] \in Int, NEW a \in S,
         NEW iter, IsFold(kind, f, iter, S), NEW g, \A x \in S \ {a} : f[x] = g[x],
         NEW other, IsFold(kind, g, other, S \ {a})
  PROVE  iter[S] = Combined(kind, f[a], other[S \ {a}])
<1>1. iter[S] = Combined(kind, f[a], iter[S \ {a}])
  BY FoldLast
<1>2. \A U \in SUBSET (S \ {a}) : iter[U] = other[U]
  BY FoldAgrees
<1>. QED
  BY <1>1, <1>2

LEMMA SumIsFold ==
  ASSUME NEW f, NEW S, IsFiniteSet(S)
  PROVE  \E iter : IsFold("sum", f, iter, S) /\ SumFunctionOnSet(f, S) = iter[S]
<1>. DEFINE Is(iter) ==
         iter = [s \in SUBSET S |-> IF s = {} THEN 0 ELSE f[CHOOSE x \in s : TRUE] + iter[s \ {CHOOSE x \in s : TRUE}]]
<1>1. SumFunctionOnSet(f, S) = (CHOOSE iter : Is(iter))[S]
  BY DEF SumFunctionOnSet, FoldFunctionOnSet, MapThenFoldSet
<1>2. \A iter : Is(iter) <=> IsFold("sum", f, iter, S)
  BY DEF IsFold, FoldBody, Combined, Neutral
<1>. HIDE DEF Is
<1>. QED
  BY <1>1, <1>2, FoldExists

LEMMA ProductIsFold ==
  ASSUME NEW f, IsFiniteSet(DOMAIN f)
  PROVE  \E iter : IsFold("product", f, iter, DOMAIN f) /\ Product(f) = iter[DOMAIN f]
<1>. DEFINE S == DOMAIN f
            Is(iter) ==
         iter = [s \in SUBSET S |-> IF s = {} THEN 1
                                    ELSE Mod(iter[s \ {CHOOSE x \in s : TRUE}] * f[CHOOSE x \in s : TRUE])]
<1>1. Product(f) = (CHOOSE iter : Is(iter))[S]
  BY DEF Product, FoldFunction, FoldFunctionOnSet, MapThenFoldSet
<1>2. \A iter : Is(iter) <=> IsFold("product", f, iter, S)
  BY DEF IsFold, FoldBody, Combined, Neutral
<1>. HIDE DEF Is
<1>. QED
  BY <1>1, <1>2, FoldExists

LEMMA SumEmpty ==
  ASSUME NEW f
  PROVE  SumFunctionOnSet(f, {}) = 0
<1>1. PICK iter : IsFold("sum", f, iter, {}) /\ SumFunctionOnSet(f, {}) = iter[{}]
  BY SumIsFold, FS_EmptySet
<1>. QED
  BY <1>1 DEF IsFold, FoldBody, Neutral

LEMMA SumInt ==
  ASSUME NEW f, NEW S, IsFiniteSet(S), \A x \in S : f[x] \in Int
  PROVE  SumFunctionOnSet(f, S) \in Int
BY SumIsFold, FoldInt

LEMMA SumLast ==
  ASSUME NEW f, NEW S, IsFiniteSet(S), \A x \in S : f[x] \in Int, NEW a \in S, NEW g, \A x \in S \ {a} : f[x] = g[x]
  PROVE  SumFunctionOnSet(f, S) = f[a] + SumFunctionOnSet(g, S \ {a})
<1>1. IsFiniteSet(S \ {a})
  BY FS_RemoveElement
<1>2. PICK iter : IsFold("sum", f, iter, S) /\ SumFunctionOnSet(f, S) = iter[S]
  BY SumIsFold
<1>3. PICK other : IsFold("sum", g, other, S \ {a}) /\ SumFunctionOnSet(g, S \ {a}) = other[S \ {a}]
  BY <1>1, SumIsFold
<1>4. iter[S] = Combined("sum", f[a], other[S \ {a}])
  BY <1>2, <1>3, FoldRecurs
<1>. QED
  BY <1>2, <1>3, <1>4 DEF Combined

LEMMA SumAgrees ==
  ASSUME NEW f, NEW g, NEW S, IsFiniteSet(S), \A x \in S : f[x] = g[x]
  PROVE  SumFunctionOnSet(f, S) = SumFunctionOnSet(g, S)
<1>1. PICK iter : IsFold("sum", f, iter, S) /\ SumFunctionOnSet(f, S) = iter[S]
  BY SumIsFold
<1>2. PICK other : IsFold("sum", g, other, S) /\ SumFunctionOnSet(g, S) = other[S]
  BY SumIsFold
<1>3. S \in SUBSET S /\ \A U \in SUBSET S : iter[U] = other[U]
  BY <1>1, <1>2, FoldAgrees
<1>. QED
  BY <1>1, <1>2, <1>3

\* A sum of combinations is the combination of the sums.
LEMMA SumLinear ==
  ASSUME NEW S, IsFiniteSet(S), NEW a \in Int, NEW b \in Int, NEW f, NEW g, NEW h,
         \A x \in S : f[x] \in Int /\ g[x] \in Int /\ h[x] \in Int /\ Mod(h[x]) = Mod(a * f[x] + b * g[x])
  PROVE  Mod(SumFunctionOnSet(h, S)) = Mod(a * SumFunctionOnSet(f, S) + b * SumFunctionOnSet(g, S))
<1>. DEFINE Total(k, T) == SumFunctionOnSet(k, T)
            P == {T \in SUBSET S : Mod(Total(h, T)) = Mod(a * Total(f, T) + b * Total(g, T))}
<1>1. ASSUME NEW T \in SUBSET S, \A x \in T : T \ {x} \in P PROVE T \in P
  <2>1. CASE T = {}
    <3>1. Total(h, T) = 0 /\ Total(f, T) = 0 /\ Total(g, T) = 0
      BY <2>1, SumEmpty
    <3>. QED
      BY <3>1
  <2>2. CASE T # {}
    <3>1. PICK x : x \in T
      BY <2>2
    <3>. DEFINE U == T \ {x}
    <3>2. IsFiniteSet(T) /\ IsFiniteSet(U)
      BY FS_Subset
    <3>3. Total(h, U) \in Int /\ Total(f, U) \in Int /\ Total(g, U) \in Int
      BY <3>2, SumInt
    <3>4. /\ Total(h, T) = h[x] + Total(h, U) /\ Total(f, T) = f[x] + Total(f, U)
          /\ Total(g, T) = g[x] + Total(g, U)
      BY <3>1, <3>2, SumLast
    <3>5. Mod(Total(h, U)) = Mod(a * Total(f, U) + b * Total(g, U))
      BY <1>1, <3>1
    <3>. HIDE DEF Total, U
    <3>6. x \in S
      BY <3>1
    <3>. DEFINE u == a * f[x] + b * g[x]  v == a * Total(f, U) + b * Total(g, U)
    <3>7. u \in Int /\ v \in Int /\ u + v = a * Total(f, T) + b * Total(g, T)
      BY <3>3, <3>4, <3>6
    <3>8. Mod(h[x]) = Mod(u) /\ Mod(Total(h, U)) = Mod(v) /\ h[x] \in Int
      BY <3>5, <3>6
    <3>. HIDE DEF u, v
    <3>9. Mod(h[x] + Total(h, U)) = Mod(u + v)
      <4>1. Mod(h[x] + Total(h, U)) = Mod(Mod(h[x]) + Mod(Total(h, U)))
        BY <3>3, <3>8, ModSum
      <4>2. Mod(u + v) = Mod(Mod(u) + Mod(v))
        BY <3>7, ModSum
      <4>. QED
        BY <3>8, <4>1, <4>2
    <3>. QED
      BY <3>4, <3>7, <3>9
  <2>. QED
    BY <2>1, <2>2
<1>. HIDE DEF P
<1>2. \A T \in SUBSET S : T \in P
  BY <1>1, SubsetInduction
<1>. QED
  BY <1>2 DEF P

LEMMA ProductEmpty ==
  ASSUME NEW f, DOMAIN f = {}
  PROVE  Product(f) = 1
<1>1. PICK iter : IsFold("product", f, iter, {}) /\ Product(f) = iter[{}]
  BY ProductIsFold, FS_EmptySet
<1>. QED
  BY <1>1 DEF IsFold, FoldBody, Neutral

LEMMA ProductInt ==
  ASSUME NEW f, IsFiniteSet(DOMAIN f), \A x \in DOMAIN f : f[x] \in Int
  PROVE  Product(f) \in Int
<1>1. PICK iter : IsFold("product", f, iter, DOMAIN f) /\ Product(f) = iter[DOMAIN f]
  BY ProductIsFold
<1>2. DOMAIN f \in SUBSET DOMAIN f
  OBVIOUS
<1>. QED
  BY <1>1, <1>2, FoldInt

LEMMA ProductLast ==
  ASSUME NEW f, IsFiniteSet(DOMAIN f), \A x \in DOMAIN f : f[x] \in Int, NEW a \in DOMAIN f,
         NEW g, DOMAIN g = DOMAIN f \ {a}, \A x \in DOMAIN g : f[x] = g[x]
  PROVE  Product(f) = Mod(Product(g) * f[a])
<1>1. IsFiniteSet(DOMAIN g)
  BY FS_RemoveElement
<1>2. PICK iter : IsFold("product", f, iter, DOMAIN f) /\ Product(f) = iter[DOMAIN f]
  BY ProductIsFold
<1>3. PICK other : IsFold("product", g, other, DOMAIN g) /\ Product(g) = other[DOMAIN g]
  BY <1>1, ProductIsFold
<1>4. iter[DOMAIN f] = Combined("product", f[a], other[DOMAIN f \ {a}])
  BY <1>2, <1>3, FoldRecurs
<1>. QED
  BY <1>2, <1>3, <1>4 DEF Combined

------------------------------------------------------------------------------
(* Lagrange's interpolation at zero.                                         *)

Factor(j, k) == Mod(Inverted(j - k) * j)

\* What the signer k multiplies its share by, if the signers are T.
Weight(T, k) == Product([j \in T \ {k} |-> Factor(j, k)])

Weighted(y, T) == SumFunctionOnSet([k \in T |-> y[k] * Weight(T, k)], T)

LEMMA PlayersAre == IsFiniteSet(Players) /\ Players \subseteq Int /\ \A k \in Players : k \in Residues /\ k # 0
BY FS_Interval, SharingAssumption DEF Players, Residues

LEMMA NodesDiffer ==
  ASSUME NEW j \in Players, NEW k \in Players, j # k
  PROVE  j - k \in Int /\ Mod(j - k) # 0 /\ Factor(j, k) \in Int
<1>1. j \in Int /\ k \in Int /\ j < prime /\ k < prime /\ j > 0 /\ k > 0
  BY PrimeIs, SharingAssumption DEF Players
<1>2. Mod(j - k) # 0
  <2>1. CASE j > k
    <3>1. j - k \in Residues
      BY <1>1, <2>1, PrimeIs
    <3>. QED
      BY <2>1, <3>1, <1>1, ModSmall
  <2>2. CASE j < k
    <3>1. j - k + prime \in Residues /\ j - k + prime # 0 /\ j - k = (-1) * prime + (j - k + prime)
      BY <1>1, <2>2, PrimeIs
    <3>2. -1 \in Int
      OBVIOUS
    <3>. QED
      BY <3>1, <3>2, ModUnique
  <2>. QED
    BY <1>1, <2>1, <2>2
<1>3. Inverted(j - k) \in Int
  BY <1>1, <1>2, InverseIs, PrimeIs
<1>. QED
  BY <1>1, <1>2, <1>3, ModMod DEF Factor

LEMMA WeightInt ==
  ASSUME NEW T \in SUBSET Players, NEW k \in Players
  PROVE  Weight(T, k) \in Int
<1>. DEFINE f == [j \in T \ {k} |-> Factor(j, k)]
<1>1. IsFiniteSet(DOMAIN f)
  BY PlayersAre, FS_Subset
<1>2. \A j \in DOMAIN f : f[j] \in Int
  BY NodesDiffer
<1>. HIDE DEF f
<1>3. Product(f) \in Int
  BY <1>1, <1>2, ProductInt
<1>. QED
  BY <1>3 DEF Weight, f

\* One signer more.
LEMMA WeightLast ==
  ASSUME NEW T \in SUBSET Players, NEW k \in Players, NEW n \in T, n # k
  PROVE  Mod((n - k) * Weight(T, k)) = Mod(n * Weight(T \ {n}, k))
<1>. DEFINE f == [j \in T \ {k} |-> Factor(j, k)]
            g == [j \in (T \ {n}) \ {k} |-> Factor(j, k)]
            w == Weight(T \ {n}, k)
            d == n - k
<1>1. IsFiniteSet(DOMAIN f) /\ \A j \in DOMAIN f : f[j] \in Int
  BY PlayersAre, FS_Subset, NodesDiffer
<1>2. DOMAIN g = DOMAIN f \ {n} /\ (\A j \in DOMAIN g : f[j] = g[j]) /\ n \in DOMAIN f /\ f[n] = Factor(n, k)
  OBVIOUS
<1>3. Product(f) = Mod(Product(g) * f[n])
  <2>. HIDE DEF f, g
  <2>. QED
    BY <1>1, <1>2, ProductLast
<1>4. Weight(T, k) = Mod(w * Factor(n, k))
  BY <1>2, <1>3 DEF Weight
<1>5. w \in Int /\ d \in Int /\ n \in Int /\ Mod(d) # 0 /\ Factor(n, k) \in Int
  <2>1. n \in Players /\ T \ {n} \in SUBSET Players
    OBVIOUS
  <2>. QED
    BY <2>1, WeightInt, NodesDiffer, PlayersAre
<1>6. Inverted(d) \in Int /\ Mod(d * Inverted(d)) = 1
  BY <1>5, InverseIs, PrimeIs
<1>7. Factor(n, k) = Mod(Inverted(d) * n)
  BY DEF Factor
<1>. HIDE DEF f, g, w, d
<1>. DEFINE e == Inverted(d)  a == e * n
<1>8. a \in Int /\ w * a \in Int /\ d * e \in Int /\ n * w \in Int
  BY <1>5, <1>6
<1>9. Weight(T, k) = Mod(w * a)
  BY <1>4, <1>5, <1>7, <1>8, ModTerm
<1>10. d * (w * a) = (d * e) * (n * w)
  BY <1>5, <1>6
<1>11. Mod(d * Weight(T, k)) = Mod(d * (w * a))
  BY <1>5, <1>8, <1>9, ModTerm
<1>12. Mod((d * e) * (n * w)) = Mod(1 * (n * w))
  BY <1>6, <1>8, ModTerm
<1>13. 1 * (n * w) = n * w
  BY <1>8
<1>14. Mod(d * Weight(T, k)) = Mod(n * w)
  BY <1>10, <1>11, <1>12, <1>13
<1>. QED
  BY <1>14 DEF d, w

LEMMA WeightedInt ==
  ASSUME NEW T \in SUBSET Players, NEW y, \A k \in Players : y[k] \in Int
  PROVE  Weighted(y, T) \in Int
<1>. DEFINE f == [k \in T |-> y[k] * Weight(T, k)]
<1>1. \A k \in T : f[k] \in Int
  <2>. SUFFICES ASSUME NEW k \in T PROVE y[k] * Weight(T, k) \in Int
    OBVIOUS
  <2>1. y[k] \in Int /\ Weight(T, k) \in Int
    BY WeightInt
  <2>. QED
    BY <2>1
<1>2. IsFiniteSet(T)
  BY PlayersAre, FS_Subset
<1>. HIDE DEF f
<1>3. SumFunctionOnSet(f, T) \in Int
  BY <1>1, <1>2, SumInt
<1>. QED
  BY <1>3 DEF Weighted, f

LEMMA WeightedLinear ==
  ASSUME NEW T \in SUBSET Players, NEW a \in Int, NEW b \in Int, NEW f, NEW g, NEW h,
         \A k \in Players : f[k] \in Int /\ g[k] \in Int /\ h[k] \in Int /\ Mod(h[k]) = Mod(a * f[k] + b * g[k])
  PROVE  Mod(Weighted(h, T)) = Mod(a * Weighted(f, T) + b * Weighted(g, T))
<1>. DEFINE F == [k \in T |-> f[k] * Weight(T, k)]
            G == [k \in T |-> g[k] * Weight(T, k)]
            H == [k \in T |-> h[k] * Weight(T, k)]
<1>1. ASSUME NEW k \in T
      PROVE  F[k] \in Int /\ G[k] \in Int /\ H[k] \in Int /\ Mod(H[k]) = Mod(a * F[k] + b * G[k])
  <2>. DEFINE u == a * f[k] + b * g[k]  w == Weight(T, k)
  <2>1. f[k] \in Int /\ g[k] \in Int /\ h[k] \in Int /\ u \in Int /\ w \in Int /\ Mod(h[k]) = Mod(u)
    BY WeightInt
  <2>2. u * w = a * F[k] + b * G[k] /\ F[k] \in Int /\ G[k] \in Int /\ H[k] \in Int
    <3>1. u * w = a * (f[k] * w) + b * (g[k] * w)
      BY <2>1
    <3>. QED
      BY <2>1, <3>1
  <2>3. H[k] = h[k] * w
    OBVIOUS
  <2>. HIDE DEF u, w, F, G, H
  <2>4. Mod(h[k] * w) = Mod(u * w)
    <3>. DEFINE v == h[k]
    <3>1. v \in Int /\ u \in Int /\ w \in Int /\ Mod(v) = Mod(u)
      BY <2>1
    <3>. HIDE DEF v
    <3>2. Mod(v * w) = Mod(Mod(v) * Mod(w))
      BY <3>1, ModProduct
    <3>3. Mod(u * w) = Mod(Mod(u) * Mod(w))
      BY <3>1, ModProduct
    <3>. QED
      BY <3>1, <3>2, <3>3 DEF v
  <2>5. u * w = a * F[k] + b * G[k]
    BY <2>2
  <2>6. Mod(H[k]) = Mod(a * F[k] + b * G[k])
    BY ONLY <2>3, <2>4, <2>5
  <2>. QED
    BY <2>2, <2>6
<1>2. IsFiniteSet(T)
  BY PlayersAre, FS_Subset
<1>. HIDE DEF F, G, H
<1>3. Mod(SumFunctionOnSet(H, T)) = Mod(a * SumFunctionOnSet(F, T) + b * SumFunctionOnSet(G, T))
  BY <1>1, <1>2, SumLinear
<1>. QED
  BY <1>3 DEF Weighted, F, G, H

LEMMA ModLike ==
  ASSUME NEW a \in Int, NEW b \in Int, NEW cs \in Int, Mod(a) = Mod(b)
  PROVE  /\ Mod(a + cs) = Mod(b + cs) /\ Mod(cs + a) = Mod(cs + b)
         /\ Mod(a * cs) = Mod(b * cs) /\ Mod(cs * a) = Mod(cs * b)
<1>1. Mod(a + cs) = Mod(Mod(a) + cs) /\ Mod(b + cs) = Mod(Mod(b) + cs)
  BY ModTerm
<1>2. Mod(cs + a) = Mod(cs + Mod(a)) /\ Mod(cs + b) = Mod(cs + Mod(b))
  BY ModTerm
<1>3. Mod(a * cs) = Mod(Mod(a) * cs) /\ Mod(b * cs) = Mod(Mod(b) * cs)
  BY ModTerm
<1>4. Mod(cs * a) = Mod(cs * Mod(a)) /\ Mod(cs * b) = Mod(cs * Mod(b))
  BY ModTerm
<1>. HIDE DEF Mod
<1>. QED
  BY <1>1, <1>2, <1>3, <1>4

LEMMA SumPart ==
  ASSUME NEW f, NEW S, IsFiniteSet(S), \A x \in S : f[x] \in Int, NEW a \in S
  PROVE  SumFunctionOnSet(f, S) = f[a] + SumFunctionOnSet(f, S \ {a})
<1>1. \A x \in S \ {a} : f[x] = f[x]
  OBVIOUS
<1>. QED
  BY <1>1, SumLast

\* Without n, the factors k - n make the weights those of the other signers.
LEMMA WeightedWithout ==
  ASSUME NEW T \in SUBSET Players, NEW n \in T, NEW y, \A k \in Players : y[k] \in Int,
         NEW z, \A k \in Players : z[k] = (k - n) * y[k]
  PROVE  Mod(Weighted(z, T)) = Mod((-n) * Weighted(y, T \ {n}))
<1>. DEFINE U == T \ {n}
            F == [k \in T |-> z[k] * Weight(T, k)]
            G == [k \in U |-> y[k] * Weight(U, k)]
<1>1. IsFiniteSet(T) /\ IsFiniteSet(U) /\ U \in SUBSET Players /\ n \in Players /\ n \in Int
  BY PlayersAre, FS_Subset
<1>2. ASSUME NEW k \in U PROVE F[k] \in Int /\ G[k] \in Int /\ Mod(F[k]) = Mod((-n) * G[k] + 0 * G[k])
  <2>. DEFINE w == Weight(T, k)  v == Weight(U, k)  x == -y[k]
  <2>1. k \in Players /\ k \in Int /\ k # n /\ w \in Int /\ v \in Int /\ y[k] \in Int /\ x \in Int
    BY <1>1, WeightInt, PlayersAre
  <2>2. Mod((n - k) * w) = Mod(n * v)
    BY <2>1, WeightLast
  <2>3. F[k] = ((k - n) * y[k]) * w /\ G[k] = y[k] * v
    BY <2>1
  <2>4. x = -y[k]
    OBVIOUS
  <2>. HIDE DEF w, v, x, F, G
  <2>. DEFINE p == (n - k) * w  q == n * v
  <2>5. p \in Int /\ q \in Int /\ F[k] = x * p /\ (-n) * G[k] = x * q
    BY <1>1, <2>1, <2>3, <2>4
  <2>6. (-n) * G[k] + 0 * G[k] = (-n) * G[k] /\ F[k] \in Int /\ G[k] \in Int
    BY <1>1, <2>1, <2>3
  <2>7. Mod(p) = Mod(q)
    BY <2>2
  <2>. HIDE DEF p, q
  <2>8. Mod(x * p) = Mod(x * q)
    BY <2>1, <2>5, <2>7, ModLike
  <2>. QED
    BY <2>5, <2>6, <2>8
<1>3. F[n] = 0
  <2>1. z[n] = (n - n) * y[n] /\ y[n] \in Int /\ Weight(T, n) \in Int
    BY <1>1, WeightInt
  <2>. QED
    BY <1>1, <2>1
<1>4. \A k \in T : F[k] \in Int
  BY <1>2, <1>3
<1>. HIDE DEF F, G, U
<1>5. SumFunctionOnSet(F, T) = F[n] + SumFunctionOnSet(F, U)
  <2>1. IsFiniteSet(T) /\ n \in T /\ U = T \ {n}
    BY <1>1 DEF U
  <2>. QED
    BY <1>4, <2>1, SumPart
<1>6. Mod(SumFunctionOnSet(F, U)) = Mod((-n) * SumFunctionOnSet(G, U) + 0 * SumFunctionOnSet(G, U))
  <2>1. -n \in Int /\ 0 \in Int /\ IsFiniteSet(U)
    BY <1>1
  <2>. QED
    BY <1>2, <2>1, SumLinear
<1>7. SumFunctionOnSet(F, U) \in Int /\ SumFunctionOnSet(G, U) \in Int
  BY <1>1, <1>2, SumInt
<1>8. (-n) * SumFunctionOnSet(G, U) + 0 * SumFunctionOnSet(G, U) = (-n) * SumFunctionOnSet(G, U)
  BY <1>1, <1>7
<1>9. Weighted(z, T) = SumFunctionOnSet(F, U)
  BY <1>3, <1>5, <1>7 DEF Weighted, F
<1>10. Weighted(y, U) = SumFunctionOnSet(G, U)
  BY DEF Weighted, G
<1>. QED
  BY <1>6, <1>8, <1>9, <1>10 DEF U

\* Times the signers' numbers.
LEMMA WeightedTimes ==
  ASSUME NEW T \in SUBSET Players, NEW n \in T, NEW y, \A k \in Players : y[k] \in Int,
         NEW z, \A k \in Players : z[k] = k * y[k]
  PROVE  Mod(Weighted(z, T)) = Mod(n * (Weighted(y, T) - Weighted(y, T \ {n})))
<1>. DEFINE x == [k \in Players |-> (k - n) * y[k]]
            U == T \ {n}
<1>1. n \in Players /\ n \in Int /\ U \in SUBSET Players /\ \A k \in Players : k \in Int
  BY PlayersAre
<1>2. Mod(Weighted(x, T)) = Mod((-n) * Weighted(y, U))
  BY WeightedWithout
<1>3. ASSUME NEW k \in Players
      PROVE  x[k] \in Int /\ y[k] \in Int /\ z[k] \in Int /\ Mod(z[k]) = Mod(1 * x[k] + n * y[k])
  <2>1. y[k] \in Int /\ k \in Int
    BY <1>1
  <2>2. x[k] = (k - n) * y[k] /\ z[k] = k * y[k]
    OBVIOUS
  <2>3. z[k] = 1 * x[k] + n * y[k]
    BY <1>1, <2>1, <2>2
  <2>. QED
    BY <1>1, <2>1, <2>2, <2>3
<1>. HIDE DEF x, U
<1>4. Mod(Weighted(z, T)) = Mod(1 * Weighted(x, T) + n * Weighted(y, T))
  BY <1>1, <1>3, WeightedLinear
<1>5. Weighted(x, T) \in Int /\ Weighted(y, T) \in Int /\ Weighted(y, U) \in Int
  BY <1>1, <1>3, WeightedInt
<1>. DEFINE a == Weighted(x, T)  b == n * Weighted(y, T)  cs == (-n) * Weighted(y, U)
<1>6. a \in Int /\ b \in Int /\ cs \in Int /\ Mod(a) = Mod(cs)
  BY <1>1, <1>2, <1>5
<1>7. 1 * Weighted(x, T) + n * Weighted(y, T) = a + b
  BY <1>1, <1>5
<1>8. n * (Weighted(y, T) - Weighted(y, U)) = cs + b
  BY <1>1, <1>5
<1>. HIDE DEF a, b, cs
<1>9. Mod(a + b) = Mod(cs + b)
  BY <1>6, ModLike
<1>. QED
  BY <1>4, <1>7, <1>8, <1>9 DEF U

One == [k \in Players |-> 1]

\* The weights add up to one: a constant is interpolated, by any signers.
LEMMA WeightsSum ==
  ASSUME NEW S \in SUBSET Players, S # {}
  PROVE  Mod(Weighted(One, S)) = Mod(1)
<1>. DEFINE P == {T \in SUBSET Players : T # {} => Mod(Weighted(One, T)) = Mod(1)}
<1>0. \A k \in Players : One[k] \in Int
  BY DEF One
<1>1. ASSUME NEW T \in SUBSET Players, \A k \in T : T \ {k} \in P PROVE T \in P
  <2>. SUFFICES ASSUME T # {} PROVE Mod(Weighted(One, T)) = Mod(1)
    OBVIOUS
  <2>0. IsFiniteSet(T)
    BY PlayersAre, FS_Subset
  <2>1. PICK a : a \in T
    OBVIOUS
  <2>2. CASE T = {a}
    <3>. DEFINE F == [k \in T |-> One[k] * Weight(T, k)]
                f == [j \in T \ {a} |-> Factor(j, a)]
    <3>1. Product(f) = 1
      BY <2>2, ProductEmpty
    <3>2. F[a] = 1
      BY <2>1, <3>1 DEF Weight, One
    <3>3. \A k \in T : F[k] \in Int /\ k = a
      BY <2>2, <3>2
    <3>. HIDE DEF F, f
    <3>4. SumFunctionOnSet(F, T) = F[a] + SumFunctionOnSet(F, T \ {a})
      BY <2>0, <2>1, <3>3, SumPart
    <3>5. SumFunctionOnSet(F, T \ {a}) = 0
      BY <2>2, SumEmpty
    <3>. QED
      BY <3>2, <3>4, <3>5 DEF Weighted, F
  <2>3. CASE T # {a}
    <3>1. PICK b : b \in T /\ b # a
      BY <2>1, <2>3
    <3>. DEFINE Ta == T \ {a}  Tb == T \ {b}
                d == b - a
                F == [k \in T |-> IF k = b THEN 0 ELSE Weight(Tb, k)]
                G == [k \in T |-> IF k = a THEN 0 ELSE Weight(Ta, k)]
                H == [k \in T |-> One[k] * Weight(T, k)]
    <3>2. a \in Players /\ b \in Players /\ a \in Int /\ b \in Int /\ d \in Int /\ Mod(d) # 0
      BY <2>1, <3>1, PlayersAre, NodesDiffer
    <3>3. Mod(Weighted(One, Ta)) = Mod(1) /\ Mod(Weighted(One, Tb)) = Mod(1)
      <4>1. Ta # {} /\ Tb # {}
        BY <2>1, <3>1
      <4>. QED
        BY <1>1, <2>1, <3>1, <4>1
    <3>4. /\ Ta \in SUBSET Players /\ Tb \in SUBSET Players /\ IsFiniteSet(Ta) /\ IsFiniteSet(Tb)
          /\ -a \in Int /\ T \in SUBSET Players /\ \A k \in T : k \in Players /\ k \in Int
      <4>1. T \in SUBSET Players /\ \A k \in T : k \in Players /\ k \in Int
        BY <2>0, PlayersAre
      <4>2. IsFiniteSet(T)
        BY <4>1, PlayersAre, FS_Subset
      <4>3. IsFiniteSet(Ta) /\ IsFiniteSet(Tb)
        BY <4>2, FS_RemoveElement
      <4>4. Ta \in SUBSET Players /\ Tb \in SUBSET Players
        BY <4>1
      <4>5. -a \in Int
        BY <3>2
      <4>. QED
        BY <4>1, <4>3, <4>4, <4>5
    <3>5. ASSUME NEW k \in T
          PROVE  F[k] \in Int /\ G[k] \in Int /\ H[k] \in Int /\ Mod(d * H[k] + 0 * H[k]) = Mod(b * F[k] + (-a) * G[k])
      <4>. DEFINE w == Weight(T, k)  u == Weight(Tb, k)  v == Weight(Ta, k)
      <4>1. w \in Int /\ u \in Int /\ v \in Int /\ k \in Int /\ k \in Players
        BY <3>4, WeightInt
      <4>2. H[k] = w
        BY <4>1 DEF One
      <4>3. k # b => Mod((b - k) * w) = Mod(b * u)
        BY <3>1, <4>1, WeightLast
      <4>4. k # a => Mod((a - k) * w) = Mod(a * v)
        BY <2>1, <4>1, WeightLast
      <4>5. F[k] = (IF k = b THEN 0 ELSE u) /\ G[k] = (IF k = a THEN 0 ELSE v)
        OBVIOUS
      <4>. HIDE DEF w, u, v, F, G, H, d
      <4>6. F[k] \in Int /\ G[k] \in Int /\ H[k] \in Int /\ d * H[k] + 0 * H[k] = d * w
        BY <3>2, <4>1, <4>2, <4>5
      <4>7. CASE k = a
        <5>1. b * F[k] + (-a) * G[k] = b * u /\ d * w = (b - k) * w
          BY <3>1, <3>2, <4>1, <4>5, <4>7 DEF d
        <5>. QED
          BY <3>1, <4>3, <4>6, <4>7, <5>1
      <4>8. CASE k = b
        <5>. DEFINE p == (a - k) * w  q == a * v
        <5>1. b * F[k] + (-a) * G[k] = (-1) * q /\ d * w = (-1) * p /\ p \in Int /\ q \in Int /\ Mod(p) = Mod(q) /\ -1 \in Int
          BY <3>1, <3>2, <4>1, <4>4, <4>5, <4>8 DEF d
        <5>. HIDE DEF p, q
        <5>2. Mod((-1) * p) = Mod((-1) * q)
          BY <5>1, ModLike
        <5>. QED
          BY <4>6, <5>1, <5>2
      <4>9. CASE k # a /\ k # b
        <5>. DEFINE p == (b - k) * w  q == b * u  r == (a - k) * w  s == a * v
        <5>1. p \in Int /\ q \in Int /\ r \in Int /\ s \in Int /\ Mod(p) = Mod(q) /\ Mod(r) = Mod(s) /\ -1 \in Int
          BY <3>2, <4>1, <4>3, <4>4, <4>9
        <5>2. d * w = p + (-1) * r /\ b * F[k] + (-a) * G[k] = q + (-1) * s
          BY <3>2, <4>1, <4>5, <4>9 DEF d
        <5>. HIDE DEF p, q, r, s
        <5>3. Mod((-1) * r) = Mod((-1) * s) /\ (-1) * r \in Int /\ (-1) * s \in Int
          <6>1. Mod((-1) * r) = Mod((-1) * s)
            BY <5>1, ModLike
          <6>. QED
            BY <5>1, <6>1
        <5>4. Mod(p + (-1) * r) = Mod(q + (-1) * r)
          BY <5>1, <5>3, ModLike
        <5>5. Mod(q + (-1) * r) = Mod(q + (-1) * s)
          BY <5>1, <5>3, ModLike
        <5>. QED
          BY <4>6, <5>2, <5>4, <5>5
      <4>. QED
        BY <4>7, <4>8, <4>9
    <3>6. SumFunctionOnSet(F, T) = Weighted(One, Tb)
      <4>. DEFINE K == [k \in Tb |-> One[k] * Weight(Tb, k)]
      <4>1. F[b] = 0
        BY <3>1
      <4>2. \A k \in Tb : F[k] = K[k] /\ K[k] \in Int
        BY <3>4, WeightInt DEF One
      <4>3. SumFunctionOnSet(F, T) = F[b] + SumFunctionOnSet(F, Tb)
        <5>. HIDE DEF F, G, H
        <5>. QED
          BY <2>0, <3>1, <3>5, SumPart
      <4>. HIDE DEF F, G, H, K, Tb
      <4>4. SumFunctionOnSet(F, Tb) = SumFunctionOnSet(K, Tb)
        BY <3>4, <4>2, SumAgrees
      <4>5. SumFunctionOnSet(K, Tb) \in Int
        BY <3>4, <4>2, SumInt
      <4>. QED
        BY <4>1, <4>3, <4>4, <4>5 DEF Weighted, K
    <3>7. SumFunctionOnSet(G, T) = Weighted(One, Ta)
      <4>. DEFINE K == [k \in Ta |-> One[k] * Weight(Ta, k)]
      <4>1. G[a] = 0
        BY <2>1
      <4>2. \A k \in Ta : G[k] = K[k] /\ K[k] \in Int
        BY <3>4, WeightInt DEF One
      <4>3. SumFunctionOnSet(G, T) = G[a] + SumFunctionOnSet(G, Ta)
        <5>. HIDE DEF F, G, H
        <5>. QED
          BY <2>0, <2>1, <3>5, SumPart
      <4>. HIDE DEF F, G, H, K, Ta
      <4>4. SumFunctionOnSet(G, Ta) = SumFunctionOnSet(K, Ta)
        BY <3>4, <4>2, SumAgrees
      <4>5. SumFunctionOnSet(K, Ta) \in Int
        BY <3>4, <4>2, SumInt
      <4>. QED
        BY <4>1, <4>3, <4>4, <4>5 DEF Weighted, K
    <3>. DEFINE E == [k \in T |-> d * H[k]]
                x == Weighted(One, T)  y == Weighted(One, Tb)  z == Weighted(One, Ta)
    <3>8. SumFunctionOnSet(H, T) = x
      BY DEF Weighted
    <3>9. x \in Int /\ y \in Int /\ z \in Int
      BY <1>0, <3>4, WeightedInt
    <3>. HIDE DEF F, G, H, E, x, y, z, Ta, Tb
    <3>10. \A k \in T : E[k] \in Int /\ E[k] = d * H[k] /\ d * H[k] + 0 * H[k] = d * H[k]
      BY <3>2, <3>5 DEF E, d
    <3>. HIDE DEF d
    <3>11. Mod(SumFunctionOnSet(E, T)) = Mod(d * x + 0 * x)
      <4>1. \A k \in T : H[k] \in Int /\ E[k] \in Int /\ Mod(E[k]) = Mod(d * H[k] + 0 * H[k])
        BY <3>5, <3>10
      <4>2. 0 \in Int
        OBVIOUS
      <4>3. d \in Int
        BY <3>2
      <4>4. Mod(SumFunctionOnSet(E, T)) = Mod(d * SumFunctionOnSet(H, T) + 0 * SumFunctionOnSet(H, T))
        BY <2>0, <4>1, <4>2, <4>3, SumLinear
      <4>. QED
        BY <3>8, <4>4
    <3>12. Mod(SumFunctionOnSet(E, T)) = Mod(b * y + (-a) * z)
      <4>1. \A k \in T : F[k] \in Int /\ G[k] \in Int /\ E[k] \in Int /\ Mod(E[k]) = Mod(b * F[k] + (-a) * G[k])
        BY <3>5, <3>10
      <4>2. SumFunctionOnSet(F, T) = y /\ SumFunctionOnSet(G, T) = z
        BY <3>6, <3>7 DEF y, z
      <4>3. b \in Int /\ -a \in Int
        BY <3>2, <3>4
      <4>4. Mod(SumFunctionOnSet(E, T)) = Mod(b * SumFunctionOnSet(F, T) + (-a) * SumFunctionOnSet(G, T))
        BY <2>0, <4>1, <4>3, SumLinear
      <4>. QED
        BY <4>2, <4>4
    <3>. DEFINE q == b * y  r == (-a) * z  s == b * 1  t == (-a) * 1
    <3>13. q \in Int /\ r \in Int /\ s \in Int /\ t \in Int /\ d * x + 0 * x = d * x /\ s + t = d * 1
      BY <3>2, <3>9 DEF d
    <3>14. Mod(q) = Mod(s) /\ Mod(r) = Mod(t)
      <4>1. Mod(y) = Mod(1) /\ Mod(z) = Mod(1) /\ 1 \in Int
        BY <3>3 DEF y, z
      <4>2. Mod(b * y) = Mod(b * 1)
        BY <3>2, <3>9, <4>1, ModLike
      <4>3. Mod((-a) * z) = Mod((-a) * 1)
        BY <3>4, <3>9, <4>1, ModLike
      <4>. QED
        BY <4>2, <4>3
    <3>. HIDE DEF q, r, s, t
    <3>15. Mod(q + r) = Mod(s + r)
      BY <3>13, <3>14, ModLike
    <3>16. Mod(s + r) = Mod(s + t)
      BY <3>13, <3>14, ModLike
    <3>17. Mod(d * x) = Mod(d * 1)
      BY <3>11, <3>12, <3>13, <3>15, <3>16 DEF q, r
    <3>18. Mod(x) = Mod(1)
      BY <3>2, <3>9, <3>17, ModCancel
    <3>. QED
      BY <3>18 DEF x
  <2>. QED
    BY <2>2, <2>3
<1>2. IsFiniteSet(Players)
  BY PlayersAre
<1>. HIDE DEF P
<1>3. \A T \in SUBSET Players : T \in P
  BY <1>1, <1>2, SubsetInduction
<1>. QED
  BY <1>3 DEF P

------------------------------------------------------------------------------
(* Polynomials: the loop of evaluate_poly and Horner's rule.                 *)

Polynomials == [0..(THRESHOLD - 1) -> Residues]

\* One round of evaluate_poly's loop.
PolyRound(a, x, loop, k) ==
    IF k = 0 THEN [result |-> 0, xPow |-> 1]
    ELSE [result |-> Mod(loop[k - 1].result + Mod(a[k - 1] * loop[k - 1].xPow)),
          xPow |-> Mod(loop[k - 1].xPow * x)]

Loop(a, x) == CHOOSE loop : loop = [k \in 0..(THRESHOLD - 1 + 1) |-> PolyRound(a, x, loop, k)]

\* The coefficients of the joint polynomial, if the players drew cs.
Joined(cs, k) == SumFunctionOnSet([p \in Players |-> cs[p][k]], Players)

HornerRound(cs, x, h, k) == IF k = 0 THEN 0 ELSE Mod(h[k - 1] * x + Joined(cs, THRESHOLD - k))

Horner(cs, x) == CHOOSE h : h = [k \in 0..THRESHOLD |-> HornerRound(cs, x, h, k)]

LEMMA ThresholdIs == THRESHOLD \in Nat /\ THRESHOLD > 0 /\ THRESHOLD - 1 + 1 = THRESHOLD /\ THRESHOLD <= PLAYERS
BY SharingAssumption

LEMMA JointLoopIs ==
  ASSUME NEW a, NEW x
  PROVE  Loop(a, x) = [k \in 0..THRESHOLD |-> PolyRound(a, x, Loop(a, x), k)]
<1>. DEFINE N == {n \in Nat : \E loop : loop = [k \in 0..n |-> PolyRound(a, x, loop, k)]}
<1>1. 0 \in N
  <2>. DEFINE loop == [k \in 0..0 |-> [result |-> 0, xPow |-> 1]]
  <2>1. loop = [k \in 0..0 |-> PolyRound(a, x, loop, k)]
    BY DEF PolyRound
  <2>. QED
    BY <2>1
<1>2. ASSUME NEW n \in Nat, n \in N PROVE n + 1 \in N
  <2>1. PICK part : part = [k \in 0..n |-> PolyRound(a, x, part, k)]
    BY <1>2
  <2>. DEFINE loop == [k \in 0..(n + 1) |-> PolyRound(a, x, part, k)]
  <2>2. ASSUME NEW k \in 0..(n + 1) PROVE loop[k] = PolyRound(a, x, loop, k)
    <3>1. k # 0 => loop[k - 1] = part[k - 1]
      BY <2>1
    <3>2. loop[k] = PolyRound(a, x, part, k)
      OBVIOUS
    <3>. HIDE DEF loop
    <3>. QED
      BY <3>1, <3>2 DEF PolyRound
  <2>3. loop = [k \in 0..(n + 1) |-> PolyRound(a, x, loop, k)]
    <3>1. \A k \in 0..(n + 1) : loop[k] = PolyRound(a, x, loop, k)
      BY <2>2
    <3>. QED
      BY <3>1
  <2>. HIDE DEF loop
  <2>4. \E it : it = [k \in 0..(n + 1) |-> PolyRound(a, x, it, k)]
    BY <2>3
  <2>. QED
    BY <2>4
<1>3. Nat \subseteq N
  <2>. HIDE DEF N
  <2>. QED
    BY <1>1, <1>2, NatSetInduction
<1>4. \E loop : loop = [k \in 0..THRESHOLD |-> PolyRound(a, x, loop, k)]
  BY <1>3, ThresholdIs
<1>. QED
  BY <1>4, ThresholdIs, Zenon DEF Loop

LEMMA HornerIs ==
  ASSUME NEW cs, NEW x
  PROVE  Horner(cs, x) = [k \in 0..THRESHOLD |-> HornerRound(cs, x, Horner(cs, x), k)]
<1>. DEFINE N == {n \in Nat : \E h : h = [k \in 0..n |-> HornerRound(cs, x, h, k)]}
<1>1. 0 \in N
  <2>. DEFINE h == [k \in 0..0 |-> 0]
  <2>1. h = [k \in 0..0 |-> HornerRound(cs, x, h, k)]
    BY DEF HornerRound
  <2>. QED
    BY <2>1
<1>2. ASSUME NEW n \in Nat, n \in N PROVE n + 1 \in N
  <2>1. PICK part : part = [k \in 0..n |-> HornerRound(cs, x, part, k)]
    BY <1>2
  <2>. DEFINE h == [k \in 0..(n + 1) |-> HornerRound(cs, x, part, k)]
  <2>2. ASSUME NEW k \in 0..(n + 1) PROVE h[k] = HornerRound(cs, x, h, k)
    <3>1. k # 0 => h[k - 1] = part[k - 1]
      BY <2>1
    <3>2. h[k] = HornerRound(cs, x, part, k)
      OBVIOUS
    <3>. HIDE DEF h
    <3>. QED
      BY <3>1, <3>2 DEF HornerRound
  <2>3. h = [k \in 0..(n + 1) |-> HornerRound(cs, x, h, k)]
    <3>1. \A k \in 0..(n + 1) : h[k] = HornerRound(cs, x, h, k)
      BY <2>2
    <3>. QED
      BY <3>1
  <2>. HIDE DEF h
  <2>4. \E it : it = [k \in 0..(n + 1) |-> HornerRound(cs, x, it, k)]
    BY <2>3
  <2>. QED
    BY <2>4
<1>3. Nat \subseteq N
  <2>. HIDE DEF N
  <2>. QED
    BY <1>1, <1>2, NatSetInduction
<1>4. \E h : h = [k \in 0..THRESHOLD |-> HornerRound(cs, x, h, k)]
  BY <1>3, ThresholdIs
<1>. QED
  BY <1>4, Zenon DEF Horner

LEMMA JoinedInt ==
  ASSUME NEW cs \in [Players -> Polynomials], NEW k \in 0..(THRESHOLD - 1)
  PROVE  Joined(cs, k) \in Int
<1>. DEFINE f == [p \in Players |-> cs[p][k]]
<1>1. \A p \in Players : f[p] \in Int
  <2>1. \A p \in Players : cs[p][k] \in Residues
    BY DEF Polynomials
  <2>. QED
    BY <2>1, ModSmall
<1>. HIDE DEF f
<1>2. SumFunctionOnSet(f, Players) \in Int
  BY <1>1, PlayersAre, SumInt
<1>. QED
  BY <1>2 DEF Joined, f

LEMMA HornerStep ==
  ASSUME NEW cs \in [Players -> Polynomials], NEW x \in Players
  PROVE  /\ Horner(cs, x)[0] = 0
         /\ \A k \in 1..THRESHOLD : Horner(cs, x)[k] = Mod(Horner(cs, x)[k - 1] * x + Joined(cs, THRESHOLD - k))
         /\ \A k \in 0..THRESHOLD : Horner(cs, x)[k] \in Residues
<1>. DEFINE h == Horner(cs, x)
            N == {n \in Nat : n <= THRESHOLD => h[n] \in Residues}
<1>1. \A k \in 0..THRESHOLD : h[k] = HornerRound(cs, x, h, k)
  <2>1. h = [k \in 0..THRESHOLD |-> HornerRound(cs, x, h, k)]
    BY HornerIs
  <2>. HIDE DEF h
  <2>. QED
    BY <2>1
<1>. HIDE DEF h
<1>2. h[0] = 0
  BY <1>1, ThresholdIs DEF HornerRound
<1>3. \A k \in 1..THRESHOLD : h[k] = Mod(h[k - 1] * x + Joined(cs, THRESHOLD - k))
  BY <1>1, ThresholdIs DEF HornerRound
<1>4. 0 \in N
  BY <1>2, PrimeIs
<1>5. ASSUME NEW n \in Nat, n \in N PROVE n + 1 \in N
  <2>. SUFFICES ASSUME n + 1 <= THRESHOLD PROVE h[n + 1] \in Residues
    OBVIOUS
  <2>. DEFINE b == Joined(cs, THRESHOLD - (n + 1))
  <2>1. h[n] \in Int
    BY <1>5, ModSmall, ThresholdIs
  <2>2. b \in Int /\ x \in Int
    <3>1. THRESHOLD - (n + 1) \in 0..(THRESHOLD - 1)
      BY ThresholdIs
    <3>. QED
      BY <3>1, JoinedInt, PlayersAre
  <2>3. h[n + 1] = Mod(h[n] * x + b)
    <3>1. n + 1 \in 1..THRESHOLD /\ (n + 1) - 1 = n
      BY ThresholdIs
    <3>. QED
      BY <1>3, <3>1
  <2>4. h[n] * x + b \in Int
    <3>. HIDE DEF b
    <3>. QED
      BY <2>1, <2>2
  <2>. HIDE DEF b
  <2>. QED
    BY <2>3, <2>4, ModIs
<1>6. Nat \subseteq N
  <2>. HIDE DEF N
  <2>. QED
    BY <1>4, <1>5, NatSetInduction
<1>7. \A k \in 0..THRESHOLD : h[k] \in Residues
  BY <1>6, ThresholdIs
<1>. QED
  BY <1>2, <1>3, <1>7 DEF h

\* The n leading coefficients, at the signers' numbers, add up to the last of them.
LEMMA HornerAtZero ==
  ASSUME NEW cs \in [Players -> Polynomials], NEW n \in Nat, NEW S \in SUBSET Players,
         n <= THRESHOLD, n > 0, Cardinality(S) >= n
  PROVE  Mod(Weighted([k \in Players |-> Horner(cs, k)[n]], S)) = Mod(Joined(cs, THRESHOLD - n))
<1>. DEFINE y(j) == [k \in Players |-> Horner(cs, k)[j]]
            e(j) == IF j = 0 THEN 0 ELSE Joined(cs, THRESHOLD - j)
            N == {j \in Nat : j <= THRESHOLD => \A T \in SUBSET Players :
                      Cardinality(T) >= j => Mod(Weighted(y(j), T)) = Mod(e(j))}
<1>0. ASSUME NEW j \in 0..THRESHOLD
      PROVE  e(j) \in Int /\ \A k \in Players : y(j)[k] \in Int /\ y(j)[k] = Horner(cs, k)[j]
  <2>1. \A k \in Players : Horner(cs, k)[j] \in Int
    BY HornerStep, ModSmall
  <2>2. j # 0 => THRESHOLD - j \in 0..(THRESHOLD - 1)
    BY ThresholdIs
  <2>. QED
    BY <2>1, <2>2, JoinedInt
<1>1. 0 \in N
  <2>. SUFFICES ASSUME NEW T \in SUBSET Players PROVE Mod(Weighted(y(0), T)) = Mod(0)
    OBVIOUS
  <2>1. /\ 0 \in Int /\ 0 \in 0..THRESHOLD
        /\ \A k \in Players : y(0)[k] \in Int /\ Mod(y(0)[k]) = Mod(0 * y(0)[k] + 0 * y(0)[k])
    <3>1. 0 \in 0..THRESHOLD /\ \A k \in Players : y(0)[k] = 0
      BY HornerStep, ThresholdIs
    <3>. HIDE DEF y
    <3>. QED
      BY <3>1
  <2>. HIDE DEF y
  <2>2. Mod(Weighted(y(0), T)) = Mod(0 * Weighted(y(0), T) + 0 * Weighted(y(0), T))
    BY <2>1, WeightedLinear
  <2>3. Weighted(y(0), T) \in Int
    BY <2>1, WeightedInt
  <2>. QED
    BY <2>2, <2>3
<1>2. ASSUME NEW j \in Nat, j \in N PROVE j + 1 \in N
  <2>. SUFFICES ASSUME j + 1 <= THRESHOLD, NEW T \in SUBSET Players, Cardinality(T) >= j + 1
                PROVE  Mod(Weighted(y(j + 1), T)) = Mod(e(j + 1))
    OBVIOUS
  <2>0. j \in 0..THRESHOLD /\ j + 1 \in 0..THRESHOLD /\ j + 1 \in 1..THRESHOLD /\ (j + 1) - 1 = j /\ j + 1 # 0
    BY ThresholdIs
  <2>1. IsFiniteSet(T) /\ Cardinality(T) \in Nat
    BY PlayersAre, FS_Subset, FS_CardinalityType
  <2>2. PICK m : m \in T
    <3>1. T # {}
      BY <2>1, FS_EmptySet
    <3>. QED
      BY <3>1
  <2>. DEFINE U == T \ {m}  z == [k \in Players |-> k * y(j)[k]]  b == e(j + 1)
  <2>3. U \in SUBSET Players /\ m \in Int /\ T # {} /\ \A k \in Players : k \in Int
    BY <2>2, PlayersAre
  <2>4. Cardinality(U) >= j
    <3>1. Cardinality(T \ {m}) = Cardinality(T) - 1
      BY <2>1, <2>2, FS_RemoveElement
    <3>. QED
      BY <2>1, <3>1
  <2>5. Mod(Weighted(y(j), T)) = Mod(e(j)) /\ Mod(Weighted(y(j), U)) = Mod(e(j))
    BY <1>2, <2>0, <2>1, <2>3, <2>4
  <2>6. b \in Int /\ e(j) \in Int /\ \A k \in Players : y(j)[k] \in Int /\ y(j + 1)[k] \in Int
    BY <1>0, <2>0
  <2>7. ASSUME NEW k \in Players
        PROVE  /\ z[k] \in Int /\ z[k] = k * y(j)[k] /\ One[k] \in Int
               /\ Mod(y(j + 1)[k]) = Mod(1 * z[k] + b * One[k])
    <3>1. y(j + 1)[k] = Mod(y(j)[k] * k + b)
      BY <2>0, HornerStep
    <3>2. z[k] = k * y(j)[k] /\ One[k] = 1
      BY DEF One
    <3>3. y(j)[k] \in Int /\ k \in Int
      BY <2>3, <2>6
    <3>. HIDE DEF y, b, z
    <3>. DEFINE s == y(j)[k] * k + b
    <3>4. s \in Int /\ 1 * z[k] + b * One[k] = s /\ z[k] \in Int
      BY <2>6, <3>2, <3>3
    <3>. HIDE DEF s
    <3>5. Mod(Mod(s)) = Mod(s)
      BY <3>4, ModMod
    <3>. QED
      BY <3>1, <3>2, <3>4, <3>5 DEF s
  <2>. HIDE DEF y, e, U, z, b
  <2>8. Mod(Weighted(y(j + 1), T)) = Mod(1 * Weighted(z, T) + b * Weighted(One, T))
    <3>1. \A k \in Players : z[k] \in Int /\ One[k] \in Int /\ y(j + 1)[k] \in Int
                             /\ Mod(y(j + 1)[k]) = Mod(1 * z[k] + b * One[k])
      BY <2>6, <2>7
    <3>. QED
      BY <2>6, <3>1, WeightedLinear
  <2>9. Mod(Weighted(z, T)) = Mod(m * (Weighted(y(j), T) - Weighted(y(j), U)))
    BY <2>2, <2>6, <2>7, WeightedTimes DEF U
  <2>10. Mod(Weighted(One, T)) = Mod(1)
    BY <2>3, WeightsSum
  <2>. DEFINE u == Weighted(y(j), T)  v == Weighted(y(j), U)  w == Weighted(One, T)  x == Weighted(z, T)
  <2>11. u \in Int /\ v \in Int /\ w \in Int /\ x \in Int
    BY <2>3, <2>6, <2>7, WeightedInt
  <2>12. Mod(m * (u - v)) = Mod(0)
    <3>1. Mod(u) = Mod(v)
      BY <2>5
    <3>. HIDE DEF u, v
    <3>2. Mod(u - v) = Mod(0)
      <4>1. Mod(u + (-v)) = Mod(v + (-v))
        <5>1. -v \in Int
          BY <2>11
        <5>. QED
          BY <2>11, <3>1, <5>1, ModLike
      <4>2. u + (-v) = u - v /\ v + (-v) = 0
        BY <2>11
      <4>. QED
        BY <4>1, <4>2
    <3>. DEFINE d == u - v
    <3>3. d \in Int /\ Mod(d) = Mod(0) /\ 0 \in Int
      BY <2>11, <3>2
    <3>. HIDE DEF d
    <3>4. Mod(m * d) = Mod(m * 0)
      BY <2>3, <3>3, ModLike
    <3>5. m * 0 = 0
      BY <2>3
    <3>. QED
      BY <3>4, <3>5 DEF d
  <2>13. Mod(1 * x + b * w) = Mod(b)
    <3>1. Mod(x) = Mod(0) /\ Mod(w) = Mod(1) /\ 0 \in Int /\ 1 \in Int
      BY <2>9, <2>10, <2>12
    <3>. HIDE DEF x, w
    <3>. DEFINE q == b * w
    <3>2. Mod(b * w) = Mod(b * 1)
      <4>1. b \in Int /\ w \in Int /\ 1 \in Int /\ Mod(w) = Mod(1)
        BY <2>6, <2>11, <3>1
      <4>. HIDE DEF q
      <4>. QED
        BY <4>1, ModLike
    <3>0. b * 1 = b
      BY <2>6
    <3>3. q \in Int /\ 1 * x + q = x + q /\ 0 + q = q
      BY <2>6, <2>11
    <3>. HIDE DEF q
    <3>4. Mod(x + q) = Mod(0 + q)
      BY <2>11, <3>1, <3>3, ModLike
    <3>. QED
      BY <3>2, <3>3, <3>0, <3>4 DEF q
  <2>. QED
    BY <2>8, <2>13 DEF b
<1>3. n \in N
  <2>. HIDE DEF N
  <2>. QED
    BY <1>1, <1>2, NatSetInduction
<1>. QED
  BY <1>3

\* The shares that a player was dealt add up to the joint polynomial's value.
LEMMA DealtSum ==
  ASSUME NEW cs \in [Players -> Polynomials], NEW x \in Players
  PROVE  SumOf([p \in Players |-> EvaluatePoly(cs[p], x, THRESHOLD - 1)]) = Horner(cs, x)[THRESHOLD]
<1>. DEFINE L(p) == Loop(cs[p], x)
            R(k) == [p \in Players |-> L(p)[k].result]
            X(k) == L(1)[k].xPow
            A(k) == [p \in Players |-> cs[p][k]]
            h == Horner(cs, x)
            Sums(k) == SumFunctionOnSet(R(k), Players)
            N == {n \in Nat : n <= THRESHOLD =>
                     /\ \A p \in Players : L(p)[n].result \in Int /\ L(p)[n].xPow = X(n)
                     /\ X(n) \in Int
                     /\ Mod(Sums(n) + X(n) * h[THRESHOLD - n]) = h[THRESHOLD]}
<1>0. 1 \in Players /\ x \in Int
  BY SharingAssumption, PlayersAre DEF Players
<1>1. \A p \in Players : \A k \in 0..THRESHOLD : L(p)[k] = PolyRound(cs[p], x, L(p), k)
  <2>. SUFFICES ASSUME NEW p \in Players, NEW k \in 0..THRESHOLD PROVE L(p)[k] = PolyRound(cs[p], x, L(p), k)
    OBVIOUS
  <2>1. L(p) = [j \in 0..THRESHOLD |-> PolyRound(cs[p], x, L(p), j)]
    BY JointLoopIs
  <2>. HIDE DEF L
  <2>. QED
    BY <2>1
<1>2. \A k \in 0..THRESHOLD : h[k] \in Residues /\ h[k] \in Int
  BY HornerStep, ModSmall
<1>3. 0 \in N
  <2>1. \A p \in Players : L(p)[0] = [result |-> 0, xPow |-> 1]
    <3>1. 0 \in 0..THRESHOLD
      BY ThresholdIs
    <3>. HIDE DEF L
    <3>. QED
      BY <1>1, <3>1 DEF PolyRound
  <2>. HIDE DEF L, h
  <2>2. (\A p \in Players : L(p)[0].result \in Int /\ L(p)[0].xPow = X(0)) /\ X(0) = 1
    <3>1. \A p \in Players : L(p)[0].result = 0 /\ L(p)[0].xPow = 1
      BY <2>1
    <3>2. X(0) = 1
      BY <1>0, <3>1
    <3>. QED
      BY <3>1, <3>2
  <2>3. Sums(0) = 0
    <3>1. \A p \in Players : R(0)[p] = 0
      BY <2>1
    <3>2. \A p \in Players : R(0)[p] \in Int /\ Mod(R(0)[p]) = Mod(0 * R(0)[p] + 0 * R(0)[p])
      BY <3>1
    <3>. DEFINE P == {T \in SUBSET Players : SumFunctionOnSet(R(0), T) = 0}
    <3>3. ASSUME NEW T \in SUBSET Players, \A y \in T : T \ {y} \in P PROVE T \in P
      <4>. HIDE DEF R
      <4>1. CASE T = {}
        BY <4>1, SumEmpty
      <4>2. CASE T # {}
        <5>1. PICK y : y \in T
          BY <4>2
        <5>2. IsFiniteSet(T) /\ \A p \in T : R(0)[p] \in Int
          BY <3>2, PlayersAre, FS_Subset
        <5>3. SumFunctionOnSet(R(0), T) = R(0)[y] + SumFunctionOnSet(R(0), T \ {y})
          BY <5>1, <5>2, SumPart
        <5>. QED
          BY <3>1, <3>3, <5>1, <5>3
      <4>. QED
        BY <4>1, <4>2
    <3>. HIDE DEF P
    <3>4. \A T \in SUBSET Players : T \in P
      BY <3>3, PlayersAre, SubsetInduction
    <3>. QED
      BY <3>4 DEF P
  <2>4. Sums(0) + X(0) * h[THRESHOLD - 0] = h[THRESHOLD] /\ h[THRESHOLD] \in Residues
    <3>. HIDE DEF Sums, X
    <3>. QED
      BY <1>2, <2>2, <2>3, ThresholdIs
  <2>. HIDE DEF X, Sums
  <2>5. Mod(Sums(0) + X(0) * h[THRESHOLD - 0]) = h[THRESHOLD]
    BY <2>4, ModSmall
  <2>. QED
    BY <2>2, <2>5
<1>4. ASSUME NEW n \in Nat, n \in N PROVE n + 1 \in N
  <2>. SUFFICES ASSUME n + 1 <= THRESHOLD
                PROVE  /\ \A p \in Players : L(p)[n + 1].result \in Int /\ L(p)[n + 1].xPow = X(n + 1)
                       /\ X(n + 1) \in Int
                       /\ Mod(Sums(n + 1) + X(n + 1) * h[THRESHOLD - (n + 1)]) = h[THRESHOLD]
    OBVIOUS
  <2>. DEFINE t == THRESHOLD - (n + 1)
  <2>0. /\ n \in 0..THRESHOLD /\ n + 1 \in 0..THRESHOLD /\ (n + 1) - 1 = n /\ n + 1 # 0 /\ n \in 0..(THRESHOLD - 1)
        /\ THRESHOLD - n \in 1..THRESHOLD /\ (THRESHOLD - n) - 1 = t /\ t \in 0..THRESHOLD
        /\ THRESHOLD - (THRESHOLD - n) = n
    BY ThresholdIs
  <2>1. /\ \A p \in Players : L(p)[n].result \in Int /\ L(p)[n].xPow = X(n)
        /\ X(n) \in Int
        /\ Mod(Sums(n) + X(n) * h[THRESHOLD - n]) = h[THRESHOLD]
    BY <1>4, <2>0
  <2>2. \A p \in Players : cs[p][n] \in Int
    <3>1. \A p \in Players : cs[p][n] \in Residues
      BY <2>0 DEF Polynomials
    <3>. QED
      BY <3>1, ModSmall
  <2>. HIDE DEF L
  <2>3. ASSUME NEW p \in Players
        PROVE  /\ L(p)[n + 1].result = Mod(L(p)[n].result + Mod(cs[p][n] * X(n)))
               /\ L(p)[n + 1].xPow = Mod(X(n) * x)
    <3>1. L(p)[n + 1] = PolyRound(cs[p], x, L(p), n + 1)
      BY <1>1, <2>0
    <3>2. L(p)[n].xPow = X(n)
      BY <2>1
    <3>. HIDE DEF X
    <3>. QED
      BY <2>0, <3>1, <3>2 DEF PolyRound
  <2>4. X(n + 1) = Mod(X(n) * x)
    BY <1>0, <2>3
  <2>5. ASSUME NEW p \in Players
        PROVE  /\ R(n)[p] \in Int /\ A(n)[p] \in Int /\ R(n + 1)[p] \in Int
               /\ Mod(R(n + 1)[p]) = Mod(1 * R(n)[p] + X(n) * A(n)[p])
    <3>. DEFINE r == L(p)[n].result  q == cs[p][n] * X(n)
    <3>1. r \in Int /\ cs[p][n] \in Int /\ X(n) \in Int
      BY <2>1, <2>2
    <3>2. R(n)[p] = r /\ A(n)[p] = cs[p][n] /\ R(n + 1)[p] = Mod(r + Mod(q))
      BY <2>3
    <3>. HIDE DEF X, r, R, A
    <3>3. q \in Int /\ 1 * R(n)[p] + X(n) * A(n)[p] = r + q
      BY <3>1, <3>2
    <3>. HIDE DEF q
    <3>4. Mod(r + Mod(q)) = Mod(r + q) /\ r + q \in Int
      BY <3>1, <3>3, ModTerm
    <3>5. Mod(r + q) \in Int /\ Mod(Mod(r + q)) = Mod(r + q)
      BY <3>4, ModMod
    <3>. QED
      BY <3>1, <3>2, <3>3, <3>4, <3>5
  <2>6. X(n + 1) \in Int
    <3>1. X(n) \in Int
      BY <2>1
    <3>. HIDE DEF X
    <3>2. X(n) * x \in Int
      BY <1>0, <3>1
    <3>. QED
      BY <2>4, <3>2, ModMod
  <2>7. Mod(Sums(n + 1)) = Mod(1 * Sums(n) + X(n) * SumFunctionOnSet(A(n), Players))
    <3>1. \A p \in Players : R(n)[p] \in Int /\ A(n)[p] \in Int /\ R(n + 1)[p] \in Int
                             /\ Mod(R(n + 1)[p]) = Mod(1 * R(n)[p] + X(n) * A(n)[p])
      BY <2>5
    <3>2. X(n) \in Int /\ 1 \in Int /\ IsFiniteSet(Players)
      BY <2>1, PlayersAre
    <3>. HIDE DEF X, R, A
    <3>3. Mod(SumFunctionOnSet(R(n + 1), Players))
              = Mod(1 * SumFunctionOnSet(R(n), Players) + X(n) * SumFunctionOnSet(A(n), Players))
      BY <3>1, <3>2, SumLinear
    <3>. QED
      BY <3>3
  <2>. DEFINE a == Joined(cs, n)  s == Sums(n)  ss == Sums(n + 1)  xn == X(n)  v == h[t]  u == h[THRESHOLD - n]
  <2>8. SumFunctionOnSet(A(n), Players) = a
    BY DEF Joined
  <2>9. a \in Int /\ s \in Int /\ ss \in Int /\ xn \in Int /\ v \in Int /\ u \in Int
    <3>1. a \in Int /\ xn \in Int /\ v \in Int /\ u \in Int
      BY <1>2, <2>0, <2>1, JoinedInt
    <3>2. s \in Int /\ ss \in Int
      BY <2>5, PlayersAre, SumInt
    <3>. QED
      BY <3>1, <3>2
  <2>10. u = Mod(v * x + a)
    BY <2>0, HornerStep
  <2>11. Mod(ss) = Mod(1 * s + xn * a) /\ X(n + 1) = Mod(xn * x) /\ Mod(s + xn * u) = h[THRESHOLD]
    BY <2>1, <2>4, <2>7, <2>8
  <2>12. Mod(ss + X(n + 1) * v) = h[THRESHOLD]
    <3>. HIDE DEF X, Sums, a, s, ss, xn, v, u, h
    <3>. DEFINE y1 == xn * x  j == v * x + a  k == 1 * s + xn * a  m == xn * j  o == y1 * v
    <3>1. y1 \in Int /\ j \in Int /\ k \in Int /\ m \in Int /\ o \in Int /\ k + o = s + m
      <4>1. y1 \in Int /\ j \in Int /\ k \in Int
        BY <1>0, <2>9
      <4>2. (xn * x) * v + xn * a = xn * (v * x + a)
        BY <1>0, <2>9
      <4>3. m \in Int /\ o \in Int
        <5>. HIDE DEF y1, j
        <5>. QED
          BY <2>9, <4>1
      <4>. QED
        BY <2>9, <4>1, <4>2, <4>3
    <3>. HIDE DEF y1, j, k, m, o
    <3>2. Mod(Mod(y1) * v) = Mod(o)
      BY <2>9, <3>1, ModTerm DEF o
    <3>3. Mod(xn * Mod(j)) = Mod(m)
      BY <2>9, <3>1, ModTerm DEF m
    <3>. DEFINE mv == Mod(y1) * v  mj == xn * Mod(j)
    <3>4. mv \in Int /\ mj \in Int
      <4>1. Mod(y1) \in Int /\ Mod(j) \in Int
        BY <3>1, ModMod
      <4>. QED
        BY <2>9, <4>1
    <3>5. X(n + 1) * v = mv /\ xn * u = mj
      BY <2>10, <2>11 DEF y1, j
    <3>. HIDE DEF mv, mj
    <3>6. Mod(ss + mv) = Mod(ss + o)
      BY <2>9, <3>1, <3>2, <3>4, ModLike DEF mv
    <3>7. Mod(ss + o) = Mod(k + o)
      <4>1. ss \in Int /\ k \in Int /\ o \in Int /\ Mod(ss) = Mod(k)
        BY <2>9, <2>11, <3>1 DEF k
      <4>. QED
        BY <4>1, ModLike
    <3>8. Mod(s + m) = Mod(s + mj)
      <4>1. s \in Int /\ m \in Int /\ mj \in Int /\ Mod(m) = Mod(mj)
        BY <2>9, <3>1, <3>3, <3>4 DEF mj
      <4>. QED
        BY <4>1, ModLike
    <3>. QED
      BY <2>11, <3>1, <3>5, <3>6, <3>7, <3>8
  <2>13. \A p \in Players : L(p)[n + 1].result \in Int /\ L(p)[n + 1].xPow = X(n + 1)
    BY <2>3, <2>4, <2>5
  <2>. QED
    BY <2>6, <2>12, <2>13
<1>5. THRESHOLD \in N
  <2>. HIDE DEF N
  <2>. QED
    BY <1>3, <1>4, NatSetInduction, ThresholdIs
<1>6. Mod(Sums(THRESHOLD)) = h[THRESHOLD]
  <2>1. /\ \A p \in Players : R(THRESHOLD)[p] \in Int
        /\ X(THRESHOLD) \in Int /\ Mod(Sums(THRESHOLD) + X(THRESHOLD) * h[THRESHOLD - THRESHOLD]) = h[THRESHOLD]
    BY <1>5
  <2>2. h[THRESHOLD - THRESHOLD] = 0
    <3>1. THRESHOLD - THRESHOLD = 0
      BY ThresholdIs
    <3>. QED
      BY <3>1, HornerStep
  <2>. HIDE DEF R
  <2>3. Sums(THRESHOLD) \in Int
    BY <2>1, PlayersAre, SumInt
  <2>. HIDE DEF Sums, X, h
  <2>4. Sums(THRESHOLD) + X(THRESHOLD) * h[THRESHOLD - THRESHOLD] = Sums(THRESHOLD)
    BY <2>1, <2>2, <2>3
  <2>. QED
    BY <2>1, <2>4
<1>7. \A p \in Players : EvaluatePoly(cs[p], x, THRESHOLD - 1) = L(p)[THRESHOLD].result
  BY ThresholdIs DEF EvaluatePoly, Loop, PolyRound
<1>. DEFINE E == [p \in Players |-> EvaluatePoly(cs[p], x, THRESHOLD - 1)]
<1>8. E = R(THRESHOLD)
  BY <1>7
<1>9. SumOf(E) = Mod(SumFunctionOnSet(E, Players))
  BY DEF SumOf, SumFunction, SumFunctionOnSet, FoldFunction
<1>. QED
  BY <1>6, <1>8, <1>9

LEMMA JointIs ==
  ASSUME NEW x \in Players
  PROVE  Joint(x) = Horner(coeffs, x)[THRESHOLD]
BY DEF Joint, Horner, HornerRound, Joined, SumFunction, SumFunctionOnSet, FoldFunction

\* Any THRESHOLD signers' summands add up to the sum of all the secrets.
LEMMA SummandsSum ==
  ASSUME NEW cs \in [Players -> Polynomials], NEW S \in SUBSET Players, Cardinality(S) = THRESHOLD
  PROVE  SumOf([k \in S |-> Mod(Horner(cs, k)[THRESHOLD] * Weight(S, k))]) = Mod(Joined(cs, 0))
<1>. DEFINE y == [k \in Players |-> Horner(cs, k)[THRESHOLD]]
            F == [k \in S |-> y[k] * Weight(S, k)]
            G == [k \in S |-> Mod(Horner(cs, k)[THRESHOLD] * Weight(S, k))]
<1>1. Mod(Weighted(y, S)) = Mod(Joined(cs, 0))
  <2>1. Cardinality(S) >= THRESHOLD /\ THRESHOLD <= THRESHOLD /\ THRESHOLD - THRESHOLD = 0
    BY ThresholdIs
  <2>2. Mod(Weighted([k \in Players |-> Horner(cs, k)[THRESHOLD]], S)) = Mod(Joined(cs, THRESHOLD - THRESHOLD))
    BY <2>1, ThresholdIs, HornerAtZero
  <2>. QED
    BY <2>1, <2>2
<1>2. ASSUME NEW k \in S
      PROVE  F[k] \in Int /\ G[k] \in Int /\ Mod(G[k]) = Mod(1 * F[k] + 0 * F[k])
  <2>. DEFINE a == Horner(cs, k)[THRESHOLD]  w == Weight(S, k)  p == a * w
  <2>1. a \in Int /\ w \in Int
    BY HornerStep, ModSmall, ThresholdIs, WeightInt
  <2>2. F[k] = p /\ G[k] = Mod(p)
    OBVIOUS
  <2>. HIDE DEF a, w, F, G
  <2>3. p \in Int
    BY <2>1
  <2>. HIDE DEF p
  <2>4. 1 * F[k] + 0 * F[k] = p
    BY <2>2, <2>3
  <2>. QED
    BY <2>2, <2>3, <2>4, ModMod
<1>. HIDE DEF F, G
<1>3. IsFiniteSet(S)
  BY PlayersAre, FS_Subset
<1>4. Mod(SumFunctionOnSet(G, S)) = Mod(1 * SumFunctionOnSet(F, S) + 0 * SumFunctionOnSet(F, S))
  <2>1. 1 \in Int /\ 0 \in Int
    OBVIOUS
  <2>. QED
    BY <1>2, <1>3, <2>1, SumLinear
<1>5. SumFunctionOnSet(F, S) \in Int
  BY <1>2, <1>3, SumInt
<1>6. 1 * SumFunctionOnSet(F, S) + 0 * SumFunctionOnSet(F, S) = SumFunctionOnSet(F, S)
  BY <1>5
<1>7. SumOf(G) = Mod(SumFunctionOnSet(G, S))
  BY DEF SumOf, SumFunction, SumFunctionOnSet, FoldFunction, G
<1>8. SumFunctionOnSet(F, S) = Weighted(y, S)
  BY DEF Weighted, F
<1>. QED
  BY <1>1, <1>4, <1>6, <1>7, <1>8 DEF G

LEMMA SumOfJoined ==
  ASSUME NEW cs
  PROVE  SumOf([p \in Players |-> cs[p][0]]) = Mod(Joined(cs, 0))
BY DEF SumOf, SumFunction, SumFunctionOnSet, FoldFunction, Joined

------------------------------------------------------------------------------
(* The inductive invariant.                                                  *)

Dealt(p) == [q \in Players |-> EvaluatePoly(coeffs[p], q, THRESHOLD - 1)]

\* The share that a player ends up with, and its summand once it presigned.
JointShare(p) == Horner(coeffs, p)[THRESHOLD]
Summand(p) == Mod(JointShare(p) * Weight(threshold, p))

\* Those whose turn it was have computed, the others have not: what each player
\* holds is a function of the polynomials, of the signers, and of whose turn it is.
SharingTurns ==
    /\ coeffs \in [Players -> Polynomials]
    /\ shares \in [Players -> [Players -> Residues]] /\ share \in [Players -> Residues]
    /\ threshold \in SUBSET Players
    /\ stage \in {"generate", "aggregate", "select", "presign", "recover", "done"}
    /\ stage \in {"generate", "aggregate"} => who \in Players
    /\ stage = "generate" => \A p \in Players : p < who => shares[p] = Dealt(p)
    /\ stage = "aggregate" =>
           /\ \A p \in Players : shares[p] = Dealt(p)
           /\ \A p \in Players : p < who => share[p] = JointShare(p)
    /\ stage = "select" => \A p \in Players : share[p] = JointShare(p)
    /\ stage \in {"presign", "recover"} => Cardinality(threshold) = THRESHOLD
    /\ stage = "presign" =>
           /\ who \in threshold
           /\ \A p \in threshold : share[p] = IF p < who THEN Summand(p) ELSE JointShare(p)
    /\ stage = "recover" => \A p \in threshold : share[p] = Summand(p)
    /\ stage = "done" => seed = SumOf([p \in Players |-> coeffs[p][0]])

LEMMA EvaluateResidue ==
  ASSUME NEW a \in Polynomials, NEW x \in Players
  PROVE  EvaluatePoly(a, x, THRESHOLD - 1) \in Residues
<1>. DEFINE L == Loop(a, x)
            N == {n \in Nat : n <= THRESHOLD => L[n].result \in Residues /\ L[n].xPow \in Int}
<1>1. \A k \in 0..THRESHOLD : L[k] = PolyRound(a, x, L, k)
  <2>1. L = [j \in 0..THRESHOLD |-> PolyRound(a, x, L, j)]
    BY JointLoopIs
  <2>. HIDE DEF L
  <2>. QED
    BY <2>1
<1>2. EvaluatePoly(a, x, THRESHOLD - 1) = L[THRESHOLD].result
  BY ThresholdIs DEF EvaluatePoly, Loop, PolyRound
<1>. HIDE DEF L
<1>3. 0 \in N
  <2>1. 0 \in 0..THRESHOLD /\ 0 \in Residues
    BY ThresholdIs, PrimeIs
  <2>2. L[0] = [result |-> 0, xPow |-> 1]
    BY <1>1, <2>1 DEF PolyRound
  <2>. QED
    BY <2>1, <2>2
<1>4. ASSUME NEW n \in Nat, n \in N PROVE n + 1 \in N
  <2>. SUFFICES ASSUME n + 1 <= THRESHOLD PROVE L[n + 1].result \in Residues /\ L[n + 1].xPow \in Int
    OBVIOUS
  <2>. DEFINE r == L[n].result  w == L[n].xPow  b == a[n]
  <2>1. n + 1 \in 0..THRESHOLD /\ n + 1 # 0 /\ (n + 1) - 1 = n /\ n \in 0..(THRESHOLD - 1)
    BY ThresholdIs
  <2>2. r \in Int /\ w \in Int /\ b \in Int /\ x \in Int
    <3>1. r \in Residues /\ w \in Int /\ b \in Residues
      BY <1>4, <2>1, ThresholdIs DEF Polynomials
    <3>. QED
      BY <3>1, ModSmall, PlayersAre
  <2>3. L[n + 1].result = Mod(r + Mod(b * w)) /\ L[n + 1].xPow = Mod(w * x)
    <3>1. L[n + 1] = PolyRound(a, x, L, n + 1)
      BY <1>1, <2>1
    <3>. QED
      BY <2>1, <3>1 DEF PolyRound
  <2>. HIDE DEF r, w, b
  <2>4. b * w \in Int /\ w * x \in Int
    BY <2>2
  <2>5. Mod(b * w) \in Int /\ Mod(w * x) \in Int
    BY <2>4, ModMod
  <2>6. r + Mod(b * w) \in Int
    BY <2>2, <2>5
  <2>. QED
    BY <2>3, <2>5, <2>6, ModIs
<1>5. THRESHOLD \in N
  <2>. HIDE DEF N
  <2>. QED
    BY <1>3, <1>4, NatSetInduction, ThresholdIs
<1>. QED
  BY <1>2, <1>5

LEMMA DealtIs ==
  ASSUME coeffs \in [Players -> Polynomials], NEW p \in Players
  PROVE  Dealt(p) \in [Players -> Residues]
BY EvaluateResidue DEF Dealt

LEMMA JointShareIs ==
  ASSUME coeffs \in [Players -> Polynomials], NEW p \in Players
  PROVE  JointShare(p) \in Residues /\ JointShare(p) = SumOf([q \in Players |-> Dealt(q)[p]])
<1>1. [q \in Players |-> Dealt(q)[p]] = [q \in Players |-> EvaluatePoly(coeffs[q], p, THRESHOLD - 1)]
  BY DEF Dealt
<1>. QED
  BY <1>1, HornerStep, DealtSum, ThresholdIs DEF JointShare

LEMMA SummandIs ==
  ASSUME coeffs \in [Players -> Polynomials], threshold \in SUBSET Players, NEW p \in threshold
  PROVE  Summand(p) \in Residues /\ Summand(p) = ThresholdShard(JointShare(p), p)
<1>. DEFINE y == JointShare(p)  w == Weight(threshold, p)
<1>1. y \in Int /\ w \in Int
  BY JointShareIs, ModSmall, WeightInt
<1>2. Summand(p) = Mod(y * w) /\ ThresholdShard(y, p) = Mod(y * w)
  BY DEF Summand, ThresholdShard, Weight, Factor
<1>. HIDE DEF y, w
<1>3. y * w \in Int
  BY <1>1
<1>. QED
  BY <1>2, <1>3, ModIs DEF y

\* The polynomials, once drawn, and so the shares of the joint one stay.
LEMMA SharingFrame ==
  ASSUME UNCHANGED coeffs
  PROVE  \A p \in Players : (Dealt(p)' = Dealt(p)) /\ (JointShare(p)' = JointShare(p))
                            /\ (threshold' = threshold => Summand(p)' = Summand(p))
BY DEF Dealt, JointShare, Summand

\* Whoever is next comes after all who had their turn.
LEMMA TurnIs ==
  ASSUME NEW S \in SUBSET Players, NEW next, Turn(S, next), who \in S
  PROVE  \/ /\ stage' = stage /\ who' \in S
            /\ \A p \in S : p < who' <=> p <= who
         \/ /\ stage' = next /\ who' = 1
            /\ \A p \in S : p <= who
<1>. DEFINE later == {p \in S : p > who}
<1>1. S \subseteq Nat /\ who \in Nat
  BY SharingAssumption DEF Players
<1>2. CASE later # {}
  <2>1. Min(later) \in later /\ \A y \in later : Min(later) <= y
    BY <1>1, <1>2, Smallest
  <2>2. who' = Min(later) /\ stage' = stage
    BY <1>2 DEF Turn
  <2>. DEFINE m == Min(later)
  <2>3. who' = m /\ m \in S /\ m > who /\ \A y \in S : y > who => m <= y
    BY <2>1, <2>2
  <2>. HIDE DEF m, later
  <2>. QED
    BY <1>1, <2>2, <2>3
<1>3. CASE later = {}
  BY <1>1, <1>3 DEF Turn
<1>. QED
  BY <1>2, <1>3

LEMMA SharingTurnsInit == SharingInit => SharingTurns
<1>. SUFFICES ASSUME SharingInit PROVE SharingTurns
  OBVIOUS
<1>1. Drawn \subseteq Residues /\ 0 \in Residues /\ 1 \in Players /\ \A p \in Players : ~(p < 1)
  BY SharingAssumption, PrimeIs DEF Players
<1>2. coeffs \in [Players -> Polynomials]
  BY <1>1 DEF SharingInit, Polynomials
<1>. QED
  BY <1>1, <1>2 DEF SharingInit, SharingTurns

LEMMA SharingTurnsNext == SharingTurns /\ [SharingNext]_sharingVars => SharingTurns'
<1>. SUFFICES ASSUME SharingTurns, [SharingNext]_sharingVars PROVE SharingTurns'
  OBVIOUS
<1>0. coeffs \in [Players -> Polynomials] /\ threshold \in SUBSET Players /\ Players \subseteq Nat
  BY SharingAssumption DEF SharingTurns, Players
<1>1. CASE GenerateShares
  <2>1. stage = "generate" /\ who \in Players /\ \A p \in Players : p < who => shares[p] = Dealt(p)
    BY <1>1 DEF GenerateShares, SharingTurns
  <2>2. shares' = [shares EXCEPT ![who] = Dealt(who)] /\ UNCHANGED <<coeffs, share, threshold, seed>>
    BY <1>1 DEF GenerateShares, Dealt
  <2>3. shares' \in [Players -> [Players -> Residues]]
    BY <1>0, <2>1, <2>2, DealtIs DEF SharingTurns
  <2>4. \A p \in Players : p <= who => shares'[p] = Dealt(p)
    BY <1>0, <2>1, <2>2 DEF SharingTurns
  <2>5. \A p \in Players : Dealt(p)' = Dealt(p) /\ JointShare(p)' = JointShare(p)
    BY <2>2, SharingFrame
  <2>6. \/ /\ stage' = stage /\ who' \in Players
           /\ \A p \in Players : p < who' <=> p <= who
        \/ /\ stage' = "aggregate" /\ who' = 1
           /\ \A p \in Players : p <= who
    BY <1>1, <2>1, TurnIs DEF GenerateShares
  <2>7. 1 \in Players /\ \A p \in Players : ~(p < 1)
    BY SharingAssumption DEF Players
  <2>. QED
    BY <2>1, <2>2, <2>3, <2>4, <2>5, <2>6, <2>7 DEF SharingTurns
<1>2. CASE AggregateShares
  <2>1. /\ stage = "aggregate" /\ who \in Players /\ \A p \in Players : shares[p] = Dealt(p)
        /\ \A p \in Players : p < who => share[p] = JointShare(p)
    BY <1>2 DEF AggregateShares, SharingTurns
  <2>2. share' = [share EXCEPT ![who] = JointShare(who)] /\ UNCHANGED <<coeffs, shares, threshold, seed>>
    <3>1. [p \in Players |-> shares[p][who]] = [q \in Players |-> Dealt(q)[who]]
      BY <2>1
    <3>2. JointShare(who) = SumOf([q \in Players |-> Dealt(q)[who]])
      BY <1>0, <2>1, JointShareIs
    <3>. QED
      BY <1>2, <3>1, <3>2 DEF AggregateShares
  <2>3. share' \in [Players -> Residues] /\ \A p \in Players : p <= who => share'[p] = JointShare(p)
    <3>1. JointShare(who) \in Residues /\ share \in [Players -> Residues]
      BY <1>0, <2>1, JointShareIs DEF SharingTurns
    <3>2. \A p \in Players : p <= who <=> p < who \/ p = who
      BY <1>0, <2>1
    <3>. QED
      BY <2>1, <2>2, <3>1, <3>2
  <2>4. \A p \in Players : Dealt(p)' = Dealt(p) /\ JointShare(p)' = JointShare(p)
    BY <2>2, SharingFrame
  <2>5. \/ /\ stage' = stage /\ who' \in Players
           /\ \A p \in Players : p < who' <=> p <= who
        \/ /\ stage' = "select" /\ who' = 1
           /\ \A p \in Players : p <= who
    BY <1>2, <2>1, TurnIs DEF AggregateShares
  <2>. QED
    BY <2>1, <2>2, <2>3, <2>4, <2>5 DEF SharingTurns
<1>3. CASE Select
  <2>1. PICK chosen \in kSubset(THRESHOLD, Players) : threshold' = chosen /\ who' = Min(chosen)
    BY <1>3 DEF Select
  <2>2. chosen \in SUBSET Players /\ Cardinality(chosen) = THRESHOLD
    BY DEF kSubset
  <2>3. Min(chosen) \in chosen /\ \A y \in chosen : Min(chosen) <= y
    <3>1. chosen # {} /\ chosen \subseteq Nat
      BY <1>0, <2>2, ThresholdIs, FS_EmptySet
    <3>. QED
      BY <3>1, Smallest
  <2>4. /\ stage = "select" /\ stage' = "presign" /\ UNCHANGED <<coeffs, shares, share, seed>>
        /\ \A p \in Players : share[p] = JointShare(p)
    BY <1>3 DEF Select, SharingTurns
  <2>5. \A p \in Players : JointShare(p)' = JointShare(p)
    BY <2>4, SharingFrame
  <2>6. who' \in threshold' /\ \A p \in threshold' : p \in Players /\ ~(p < who')
    <3>. DEFINE m == Min(chosen)
    <3>1. who' = m /\ m \in chosen /\ threshold' = chosen /\ \A y \in chosen : m <= y
      BY <2>1, <2>3
    <3>2. \A y \in chosen : y \in Players /\ y \in Nat
      BY <1>0, <2>2
    <3>. HIDE DEF m
    <3>. QED
      BY <3>1, <3>2
  <2>. QED
    BY <2>1, <2>2, <2>4, <2>5, <2>6 DEF SharingTurns
<1>4. CASE Presign
  <2>1. /\ stage = "presign" /\ Cardinality(threshold) = THRESHOLD /\ who \in threshold
        /\ \A p \in threshold : share[p] = IF p < who THEN Summand(p) ELSE JointShare(p)
    BY <1>4 DEF Presign, SharingTurns
  <2>2. share' = [share EXCEPT ![who] = Summand(who)] /\ UNCHANGED <<coeffs, shares, threshold, seed>>
    <3>1. share[who] = JointShare(who)
      BY <1>0, <2>1
    <3>. QED
      BY <1>0, <1>4, <2>1, <3>1, SummandIs DEF Presign
  <2>3. share' \in [Players -> Residues]
    BY <1>0, <2>1, <2>2, SummandIs DEF SharingTurns
  <2>4. \A p \in threshold : share'[p] = IF p <= who THEN Summand(p) ELSE JointShare(p)
    <3>. SUFFICES ASSUME NEW p \in threshold PROVE share'[p] = IF p <= who THEN Summand(p) ELSE JointShare(p)
      OBVIOUS
    <3>1. share'[p] = IF p = who THEN Summand(p) ELSE share[p]
      BY <1>0, <2>2 DEF SharingTurns
    <3>2. p \in Nat /\ who \in Nat
      BY <1>0, <2>1
    <3>. QED
      BY <2>1, <3>1, <3>2
  <2>5. \A p \in Players : JointShare(p)' = JointShare(p) /\ Summand(p)' = Summand(p)
    BY <2>2, SharingFrame
  <2>6. \/ /\ stage' = stage /\ who' \in threshold
           /\ \A p \in threshold : p < who' <=> p <= who
        \/ /\ stage' = "recover" /\ who' = 1
           /\ \A p \in threshold : p <= who
    BY <1>0, <1>4, <2>1, TurnIs DEF Presign
  <2>. QED
    BY <1>0, <2>1, <2>2, <2>3, <2>4, <2>5, <2>6 DEF SharingTurns
<1>5. CASE Recover
  <2>1. /\ stage = "recover" /\ stage' = "done" /\ Cardinality(threshold) = THRESHOLD
        /\ \A p \in threshold : share[p] = Summand(p)
        /\ seed' = SumOf([p \in threshold |-> share[p]])
        /\ UNCHANGED <<who, coeffs, shares, share, threshold>>
    BY <1>5 DEF Recover, SharingTurns
  <2>2. [p \in threshold |-> share[p]]
            = [k \in threshold |-> Mod(Horner(coeffs, k)[THRESHOLD] * Weight(threshold, k))]
    BY <2>1 DEF Summand, JointShare
  <2>3. seed' = SumOf([p \in Players |-> coeffs[p][0]])
    BY <1>0, <2>1, <2>2, SummandsSum, SumOfJoined
  <2>. QED
    BY <2>1, <2>3 DEF SharingTurns
<1>6. CASE SharingDone \/ UNCHANGED sharingVars
  <2>1. UNCHANGED sharingVars
    BY <1>6 DEF SharingDone
  <2>2. \A p \in Players : Dealt(p)' = Dealt(p) /\ JointShare(p)' = JointShare(p) /\ Summand(p)' = Summand(p)
    BY <2>1, SharingFrame DEF sharingVars
  <2>. QED
    BY <1>0, <2>1, <2>2 DEF SharingTurns, sharingVars
<1>. QED
  BY <1>1, <1>2, <1>3, <1>4, <1>5, <1>6 DEF SharingNext

\* Every player's data are the function of the drawn polynomials, of the signers
\* and of the turn that SharingTurns says, for every prime above the number of
\* players and every threshold.
THEOREM SharingTurnsHold == SharingSpec => []SharingTurns
BY SharingTurnsInit, SharingTurnsNext, PTL DEF SharingSpec

\* aggregate_shares gives every player its point of one polynomial, the sum of
\* the players' polynomials.
THEOREM SharesOnOnePolynomialHolds == SharingSpec => []SharesOnOnePolynomial
<1>1. SharingTurns => SharesOnOnePolynomial
  BY JointIs DEF SharingTurns, SharesOnOnePolynomial, JointShare
<1>. QED
  BY <1>1, SharingTurnsHold, PTL

\* recover_secret returns the sum of all the players' secrets, whichever THRESHOLD
\* players are drawn as signers.
THEOREM SameSecretHolds == SharingSpec => []SameSecret
<1>1. SharingTurns => SameSecret
  BY DEF SharingTurns, SameSecret
<1>. QED
  BY <1>1, SharingTurnsHold, PTL
------------------------------------------------------------------------------
(* Loops. A recursive function of the model is a loop of the code: one value  *)
(* before the first round and one after each. What they are is told by kind;  *)
(* p is what stays the same in all the rounds.                                *)

\* treehashx1 adds a leaf: p has its parameters, s the stack and the path.
NoLeaves(p) ==
    [stack |-> [h \in 0..p.height |-> <<>>], auth |-> [h \in 0..(p.height - 1) |-> <<>>]]

AddLeaf(p, s, idx) ==
    LET top == Top(idx, p.height)
        current[h \in 0..p.height] ==
            IF h = 0 THEN p.leaves[idx + p.offset]
            ELSE thash(<<s.stack[h - 1], current[h - 1]>>, NodeAddr(p.addr, h, idx, p.offset))
    IN  [stack |-> [s.stack EXCEPT ![top] = current[top]],
         auth  |-> [h \in DOMAIN s.auth |->
                       IF h <= top /\ OnPath(idx, p.leaf_idx, h) THEN current[h] ELSE s.auth[h]]]

First(kind, p) ==
    CASE kind = "shift" -> p.x
      [] kind = "twoTo" -> 1
      [] kind = "level" -> [j \in Nat |-> p.leaves[j + p.offset]]
      [] kind = "current" -> p.leaf
      [] kind = "leaves" -> NoLeaves(p)
      [] kind = "path" -> p.leaf
      [] kind = "csum" -> 0
      [] kind = "chain" -> prf_addr(p.seed, set_type(p.addr, "WOTSPRF"))
      [] kind = "steps" -> p.in
      [] kind = "index" -> 0
      [] kind = "at" -> p
      [] kind = "part" -> p

Round(kind, p, k, last) ==
    CASE kind = "shift" -> last \div 2
      [] kind = "twoTo" -> 2 * last
      [] kind = "level" -> [j \in Nat |-> thash(<<last[2 * j], last[2 * j + 1]>>,
                                                 set_tree_index(set_tree_height(p.addr, k), j + Shift(p.offset, k)))]
      [] kind = "current" -> thash(<<p.stack[k - 1], last>>, NodeAddr(p.addr, k, p.idx, p.offset))
      [] kind = "leaves" -> AddLeaf(p, last, k - 1)
      [] kind = "path" -> thash(Siblings(last, p.auth[k - 1], Bit(p.leaf_idx, k - 1) = 1),
                                NodeAddr(p.addr, k, p.leaf_idx, p.offset))
      [] kind = "csum" -> last + SPX_WOTS_W - 1 - p[k - 1]
      [] kind = "chain" -> thash(<<last>>, set_hash_addr(set_type(p.addr, "WOTS"), k - 1))
      [] kind = "steps" -> IF p.start + k > SPX_WOTS_W THEN last
                           ELSE thash(<<last>>, set_hash_addr(p.addr, p.start + k - 1))
      [] kind = "index" -> last + p.bits[p.tree * SPX_FORS_HEIGHT + (k - 1)] * TwoTo(k - 1)
      [] kind = "at" -> Ascend(SetLayer(last, k - 1))
      [] kind = "part" -> UNION {{value[3][j] : j \in DOMAIN value[3]} : value \in last}

IsLoop(kind, p, n, f) == f = [k \in 0..n |-> IF k = 0 THEN First(kind, p) ELSE Round(kind, p, k, f[k - 1])]

After(kind, p, n) == (CHOOSE f : IsLoop(kind, p, n, f))[n]

LEMMA LoopExists ==
  ASSUME NEW kind, NEW p, NEW n \in Nat
  PROVE  \E f : IsLoop(kind, p, n, f)
<1>. DEFINE N == {m \in Nat : \E f : IsLoop(kind, p, m, f)}
<1>1. 0 \in N
  <2>. DEFINE f == [k \in 0..0 |-> First(kind, p)]
  <2>1. IsLoop(kind, p, 0, f)
    BY DEF IsLoop
  <2>. QED
    BY <2>1
<1>2. ASSUME NEW m \in Nat, m \in N PROVE m + 1 \in N
  <2>1. PICK g : IsLoop(kind, p, m, g)
    BY <1>2
  <2>. DEFINE f == [k \in 0..(m + 1) |-> IF k = 0 THEN First(kind, p) ELSE Round(kind, p, k, g[k - 1])]
  <2>2. ASSUME NEW k \in 0..(m + 1), k # 0 PROVE f[k - 1] = g[k - 1]
    <3>1. k - 1 \in 0..m /\ k - 1 \in 0..(m + 1)
      BY <2>2
    <3>. QED
      BY <2>1, <3>1 DEF IsLoop
  <2>3. f = [k \in 0..(m + 1) |-> IF k = 0 THEN First(kind, p) ELSE Round(kind, p, k, f[k - 1])]
    <3>1. \A k \in 0..(m + 1) : f[k] = IF k = 0 THEN First(kind, p) ELSE Round(kind, p, k, f[k - 1])
      BY <2>2
    <3>. QED
      BY <3>1
  <2>. HIDE DEF f
  <2>4. IsLoop(kind, p, m + 1, f)
    BY <2>3 DEF IsLoop
  <2>. QED
    BY <2>4
<1>. HIDE DEF N
<1>3. n \in N
  BY <1>1, <1>2, NatSetInduction
<1>. QED
  BY <1>3 DEF N

\* The rounds of a loop are the same, however many follow.
LEMMA LoopIs ==
  ASSUME NEW kind, NEW p, NEW n \in Nat, NEW f, IsLoop(kind, p, n, f), NEW m \in 0..n
  PROVE  f[m] = After(kind, p, m)
<1>0. m \in Nat
  OBVIOUS
<1>1. PICK g : IsLoop(kind, p, m, g) /\ After(kind, p, m) = g[m]
  <2>1. \E g : IsLoop(kind, p, m, g)
    BY <1>0, LoopExists
  <2>. QED
    BY <2>1, Zenon DEF After
<1>. DEFINE N == {k \in Nat : k <= m => f[k] = g[k]}
<1>2. 0 \in N
  BY <1>1 DEF IsLoop
<1>3. ASSUME NEW k \in Nat, k \in N PROVE k + 1 \in N
  <2>. SUFFICES ASSUME k + 1 <= m PROVE f[k + 1] = g[k + 1]
    OBVIOUS
  <2>1. f[k] = g[k] /\ k + 1 \in 0..m /\ k + 1 \in 0..n /\ k + 1 # 0 /\ (k + 1) - 1 = k
    BY <1>3
  <2>2. f[k + 1] = Round(kind, p, k + 1, f[k])
    BY <2>1 DEF IsLoop
  <2>3. g[k + 1] = Round(kind, p, k + 1, g[k])
    BY <1>1, <2>1 DEF IsLoop
  <2>. QED
    BY <2>1, <2>2, <2>3
<1>. HIDE DEF N
<1>4. m \in N
  BY <1>2, <1>3, NatSetInduction
<1>. QED
  BY <1>1, <1>4 DEF N

LEMMA LoopRecurs ==
  ASSUME NEW kind, NEW p
  PROVE  /\ After(kind, p, 0) = First(kind, p)
         /\ \A n \in Nat : After(kind, p, n + 1) = Round(kind, p, n + 1, After(kind, p, n))
<1>1. After(kind, p, 0) = First(kind, p)
  <2>1. PICK f : IsLoop(kind, p, 0, f)
    BY LoopExists
  <2>2. f[0] = After(kind, p, 0)
    BY <2>1, LoopIs
  <2>. QED
    BY <2>1, <2>2 DEF IsLoop
<1>2. ASSUME NEW n \in Nat PROVE After(kind, p, n + 1) = Round(kind, p, n + 1, After(kind, p, n))
  <2>1. PICK f : IsLoop(kind, p, n + 1, f)
    BY LoopExists
  <2>2. n \in 0..(n + 1) /\ n + 1 \in 0..(n + 1) /\ n + 1 # 0 /\ (n + 1) - 1 = n
    OBVIOUS
  <2>3. f[n] = After(kind, p, n) /\ f[n + 1] = After(kind, p, n + 1)
    BY <2>1, <2>2, LoopIs
  <2>4. f[n + 1] = Round(kind, p, n + 1, f[n])
    BY <2>1, <2>2 DEF IsLoop
  <2>. QED
    BY <2>3, <2>4
<1>. QED
  BY <1>1, <1>2

------------------------------------------------------------------------------
(* Bits.                                                                     *)

LEMMA ShiftIsLoop ==
  ASSUME NEW x, NEW h
  PROVE  Shift(x, h) = After("shift", [x |-> x], h)
<1>. DEFINE Is(half) == half = [k \in 0..h |-> IF k = 0 THEN x ELSE half[k - 1] \div 2]
<1>1. Shift(x, h) = (CHOOSE half : Is(half))[h]
  BY DEF Shift
<1>2. \A half : Is(half) <=> IsLoop("shift", [x |-> x], h, half)
  BY DEF IsLoop, First, Round
<1>. HIDE DEF Is
<1>. QED
  BY <1>1, <1>2 DEF After

LEMMA TwoToIsLoop ==
  ASSUME NEW n
  PROVE  TwoTo(n) = After("twoTo", 0, n)
<1>. DEFINE Is(power) == power = [k \in 0..n |-> IF k = 0 THEN 1 ELSE 2 * power[k - 1]]
<1>1. TwoTo(n) = (CHOOSE power : Is(power))[n]
  BY DEF TwoTo
<1>2. \A power : Is(power) <=> IsLoop("twoTo", 0, n, power)
  BY DEF IsLoop, First, Round
<1>. HIDE DEF Is
<1>. QED
  BY <1>1, <1>2 DEF After

LEMMA ShiftIs ==
  ASSUME NEW x
  PROVE  Shift(x, 0) = x /\ \A h \in Nat : Shift(x, h + 1) = Shift(x, h) \div 2
<1>1. First("shift", [x |-> x]) = x /\ \A k, last : Round("shift", [x |-> x], k, last) = last \div 2
  BY DEF First, Round
<1>. QED
  BY <1>1, ShiftIsLoop, LoopRecurs

LEMMA TwoToIs == TwoTo(0) = 1 /\ \A n \in Nat : TwoTo(n + 1) = 2 * TwoTo(n)
<1>1. First("twoTo", 0) = 1 /\ \A k, last : Round("twoTo", 0, k, last) = 2 * last
  BY DEF First, Round
<1>. QED
  BY <1>1, TwoToIsLoop, LoopRecurs

LEMMA ShiftNat ==
  ASSUME NEW x \in Nat, NEW h \in Nat
  PROVE  Shift(x, h) \in Nat
<1>. DEFINE N == {k \in Nat : Shift(x, k) \in Nat}
<1>1. 0 \in N
  BY ShiftIs
<1>2. ASSUME NEW k \in Nat, k \in N PROVE k + 1 \in N
  <2>1. Shift(x, k) \in Nat /\ Shift(x, k + 1) = Shift(x, k) \div 2
    BY <1>2, ShiftIs
  <2>. QED
    BY <2>1
<1>. HIDE DEF N
<1>3. h \in N
  BY <1>1, <1>2, NatSetInduction
<1>. QED
  BY <1>3 DEF N

LEMMA TwoToPositive ==
  ASSUME NEW n \in Nat
  PROVE  TwoTo(n) \in Nat /\ TwoTo(n) > 0
<1>. DEFINE N == {k \in Nat : TwoTo(k) \in Nat /\ TwoTo(k) > 0}
<1>1. 0 \in N
  BY TwoToIs
<1>2. ASSUME NEW k \in Nat, k \in N PROVE k + 1 \in N
  BY <1>2, TwoToIs
<1>. HIDE DEF N
<1>3. n \in N
  BY <1>1, <1>2, NatSetInduction
<1>. QED
  BY <1>3 DEF N

LEMMA ShiftShift ==
  ASSUME NEW x \in Nat, NEW a \in Nat, NEW b \in Nat
  PROVE  Shift(Shift(x, a), b) = Shift(x, a + b)
<1>. DEFINE N == {k \in Nat : Shift(Shift(x, a), k) = Shift(x, a + k)}
<1>1. 0 \in N
  <2>1. a + 0 = a
    OBVIOUS
  <2>. QED
    BY <2>1, ShiftIs
<1>2. ASSUME NEW k \in Nat, k \in N PROVE k + 1 \in N
  <2>1. a + (k + 1) = (a + k) + 1 /\ a + k \in Nat
    OBVIOUS
  <2>2. Shift(Shift(x, a), k + 1) = Shift(Shift(x, a), k) \div 2
    BY ShiftIs
  <2>3. Shift(x, (a + k) + 1) = Shift(x, a + k) \div 2
    BY <2>1, ShiftIs
  <2>. QED
    BY <1>2, <2>1, <2>2, <2>3
<1>. HIDE DEF N
<1>3. b \in N
  BY <1>1, <1>2, NatSetInduction
<1>. QED
  BY <1>3 DEF N

LEMMA BitIs ==
  ASSUME NEW x \in Nat, NEW h \in Nat
  PROVE  /\ Bit(x, h) \in {0, 1} /\ Shift(x, h) = 2 * Shift(x, h + 1) + Bit(x, h)
         /\ Shift(x, h) \in Nat /\ Shift(x, h + 1) \in Nat
<1>. DEFINE z == Shift(x, h)
<1>1. z \in Nat /\ Shift(x, h + 1) \in Nat /\ Shift(x, h + 1) = z \div 2 /\ Bit(x, h) = z % 2
  BY ShiftNat, ShiftIs DEF Bit
<1>. HIDE DEF z
<1>2. z % 2 \in {0, 1} /\ z = 2 * (z \div 2) + (z % 2)
  BY <1>1
<1>. QED
  BY <1>1, <1>2 DEF z

\* A number of so many bits.
LEMMA ShiftBelow ==
  ASSUME NEW n \in Nat, NEW x \in Nat, x < TwoTo(n), NEW h \in 0..n
  PROVE  Shift(x, h) < TwoTo(n - h)
<1>. DEFINE N == {k \in Nat : k <= n => Shift(x, k) < TwoTo(n - k)}
<1>1. 0 \in N
  <2>1. n - 0 = n
    OBVIOUS
  <2>. QED
    BY <2>1, ShiftIs
<1>2. ASSUME NEW k \in Nat, k \in N PROVE k + 1 \in N
  <2>. SUFFICES ASSUME k + 1 <= n PROVE Shift(x, k + 1) < TwoTo(n - (k + 1))
    OBVIOUS
  <2>. DEFINE m == n - (k + 1)
  <2>1. m \in Nat /\ n - k = m + 1
    OBVIOUS
  <2>2. Shift(x, k) < TwoTo(m + 1)
    BY <1>2, <2>1
  <2>3. TwoTo(m + 1) = 2 * TwoTo(m) /\ TwoTo(m) \in Nat
    BY <2>1, TwoToIs, TwoToPositive
  <2>4. Shift(x, k) \in Nat /\ Shift(x, k + 1) = Shift(x, k) \div 2
    BY ShiftNat, ShiftIs
  <2>. HIDE DEF m
  <2>5. Shift(x, k + 1) < TwoTo(m)
    BY <2>2, <2>3, <2>4
  <2>. QED
    BY <2>5 DEF m
<1>. HIDE DEF N
<1>3. h \in N
  BY <1>1, <1>2, NatSetInduction
<1>. QED
  BY <1>3 DEF N

LEMMA ShiftTwoTo ==
  ASSUME NEW n \in Nat, NEW h \in 0..n
  PROVE  Shift(TwoTo(n), h) = TwoTo(n - h) /\ Shift(TwoTo(n) - 1, h) = TwoTo(n - h) - 1
<1>. DEFINE N == {k \in Nat : k <= n =>
                     Shift(TwoTo(n), k) = TwoTo(n - k) /\ Shift(TwoTo(n) - 1, k) = TwoTo(n - k) - 1}
<1>1. 0 \in N
  <2>1. n - 0 = n
    OBVIOUS
  <2>. QED
    BY <2>1, ShiftIs
<1>2. ASSUME NEW k \in Nat, k \in N PROVE k + 1 \in N
  <2>. SUFFICES ASSUME k + 1 <= n
                PROVE  /\ Shift(TwoTo(n), k + 1) = TwoTo(n - (k + 1))
                       /\ Shift(TwoTo(n) - 1, k + 1) = TwoTo(n - (k + 1)) - 1
    OBVIOUS
  <2>. DEFINE m == n - (k + 1)
  <2>1. m \in Nat /\ n - k = m + 1
    OBVIOUS
  <2>2. Shift(TwoTo(n), k) = TwoTo(m + 1) /\ Shift(TwoTo(n) - 1, k) = TwoTo(m + 1) - 1
    BY <1>2, <2>1
  <2>3. TwoTo(m + 1) = 2 * TwoTo(m) /\ TwoTo(m) \in Nat
    BY <2>1, TwoToIs, TwoToPositive
  <2>4. /\ Shift(TwoTo(n), k + 1) = Shift(TwoTo(n), k) \div 2
        /\ Shift(TwoTo(n) - 1, k + 1) = Shift(TwoTo(n) - 1, k) \div 2
    BY ShiftIs
  <2>. HIDE DEF m
  <2>5. (2 * TwoTo(m)) \div 2 = TwoTo(m) /\ (2 * TwoTo(m) - 1) \div 2 = TwoTo(m) - 1
    BY <2>3
  <2>6. Shift(TwoTo(n), k + 1) = TwoTo(m) /\ Shift(TwoTo(n) - 1, k + 1) = TwoTo(m) - 1
    BY <2>2, <2>3, <2>4, <2>5
  <2>. QED
    BY <2>6 DEF m
<1>. HIDE DEF N
<1>3. h \in N
  BY <1>1, <1>2, NatSetInduction
<1>. QED
  BY <1>3 DEF N

LEMMA AllOnes ==
  ASSUME NEW n \in Nat, NEW h \in 0..(n - 1)
  PROVE  Bit(TwoTo(n) - 1, h) = 1
<1>. DEFINE m == n - (h + 1)  x == TwoTo(n) - 1
<1>1. m \in Nat /\ h \in 0..n /\ h + 1 \in 0..n /\ n - h = m + 1 /\ h \in Nat
  OBVIOUS
<1>2. Shift(x, h) = TwoTo(m + 1) - 1
  BY <1>1, ShiftTwoTo
<1>3. TwoTo(m + 1) = 2 * TwoTo(m) /\ TwoTo(m) \in Nat
  BY <1>1, TwoToIs, TwoToPositive
<1>. HIDE DEF m, x
<1>4. Bit(x, h) = 1
  BY <1>2, <1>3 DEF Bit
<1>. QED
  BY <1>4 DEF x

\* Adding one: the carry passes a bit just if all the bits below are ones.
LEMMA Carry ==
  ASSUME NEW x \in Nat, NEW h \in Nat
  PROVE  IF \A g \in 0..(h - 1) : Bit(x, g) = 1 THEN Shift(x + 1, h) = Shift(x, h) + 1
         ELSE Shift(x + 1, h) = Shift(x, h)
<1>. DEFINE Ones(k) == \A g \in 0..(k - 1) : Bit(x, g) = 1
            N == {k \in Nat : IF Ones(k) THEN Shift(x + 1, k) = Shift(x, k) + 1 ELSE Shift(x + 1, k) = Shift(x, k)}
<1>1. 0 \in N
  BY ShiftIs
<1>2. ASSUME NEW k \in Nat, k \in N PROVE k + 1 \in N
  <2>1. Ones(k + 1) <=> Ones(k) /\ Bit(x, k) = 1
    OBVIOUS
  <2>2. /\ Shift(x, k) = 2 * Shift(x, k + 1) + Bit(x, k) /\ Bit(x, k) \in {0, 1}
        /\ Shift(x, k) \in Nat /\ Shift(x, k + 1) \in Nat
    BY BitIs
  <2>3. Shift(x + 1, k + 1) = Shift(x + 1, k) \div 2
    BY ShiftIs
  <2>4. IF Ones(k) THEN Shift(x + 1, k) = Shift(x, k) + 1 ELSE Shift(x + 1, k) = Shift(x, k)
    BY <1>2
  <2>. HIDE DEF Ones
  <2>5. IF Ones(k + 1) THEN Shift(x + 1, k + 1) = Shift(x, k + 1) + 1 ELSE Shift(x + 1, k + 1) = Shift(x, k + 1)
    BY <2>1, <2>2, <2>3, <2>4
  <2>. QED
    BY <2>5
<1>3. h \in N
  <2>. HIDE DEF N
  <2>. QED
    BY <1>1, <1>2, NatSetInduction
<1>. QED
  BY <1>3

------------------------------------------------------------------------------
(* Trees.                                                                    *)

LEMMA TopIs ==
  ASSUME NEW n \in Nat, NEW idx \in 0..(TwoTo(n) - 1)
  PROVE  /\ Top(idx, n) \in 0..n
         /\ \A h \in 0..(Top(idx, n) - 1) : Bit(idx, h) = 1
         /\ Top(idx, n) < n => Bit(idx, Top(idx, n)) = 0
<1>. DEFINE S == {h \in 0..n : h = n \/ (Bit(idx, h) = 0 /\ idx < TwoTo(n) - 1)}
            top == Min(S)
<1>0. idx \in Nat /\ TwoTo(n) \in Nat
  BY TwoToPositive
<1>1. top \in S /\ \A h \in S : top <= h
  <2>1. n \in S /\ S \subseteq Nat
    OBVIOUS
  <2>. HIDE DEF S
  <2>. QED
    BY <2>1, Smallest
<1>2. Top(idx, n) = top
  BY DEF Top
<1>3. \A h \in 0..(n - 1) : Bit(idx, h) \in {0, 1} /\ (idx = TwoTo(n) - 1 => Bit(idx, h) = 1)
  <2>. SUFFICES ASSUME NEW h \in 0..(n - 1)
                PROVE  Bit(idx, h) \in {0, 1} /\ (idx = TwoTo(n) - 1 => Bit(idx, h) = 1)
    OBVIOUS
  <2>1. h \in Nat
    OBVIOUS
  <2>2. Bit(TwoTo(n) - 1, h) = 1
    BY AllOnes
  <2>. QED
    BY <1>0, <2>1, <2>2, BitIs
<1>4. ASSUME NEW h \in 0..(top - 1) PROVE Bit(idx, h) = 1
  <2>1. top \in 0..n
    BY <1>1
  <2>2. h \notin S /\ h \in 0..(n - 1) /\ h \in 0..n /\ h # n
    <3>. HIDE DEF top
    <3>1. h < top /\ h \in Int /\ top \in Int
      BY <2>1
    <3>. QED
      BY <1>1, <2>1, <3>1
  <2>3. ~(Bit(idx, h) = 0 /\ idx < TwoTo(n) - 1)
    BY <2>2
  <2>. QED
    BY <1>0, <1>3, <2>2, <2>3
<1>. HIDE DEF top
<1>. QED
  BY <1>1, <1>2, <1>4

\* The node at a height and index of the tree that p tells of.
Node(p, h, j) == After("level", p, h)[j]

Tree(leaves, offset, addr) == [leaves |-> leaves, offset |-> offset, addr |-> addr]

LEMMA NodeIs ==
  ASSUME NEW leaves, NEW offset, NEW addr
  PROVE  LET p == Tree(leaves, offset, addr) IN
         /\ \A j \in Nat : Node(p, 0, j) = leaves[j + offset]
         /\ \A h \in Nat : \A j \in Nat :
                Node(p, h + 1, j) = thash(<<Node(p, h, 2 * j), Node(p, h, 2 * j + 1)>>,
                                          set_tree_index(set_tree_height(addr, h + 1), j + Shift(offset, h + 1)))
<1>. DEFINE p == Tree(leaves, offset, addr)
<1>1. p.leaves = leaves /\ p.offset = offset /\ p.addr = addr
  BY DEF Tree
<1>. HIDE DEF p
<1>2. After("level", p, 0) = [j \in Nat |-> leaves[j + offset]]
  BY <1>1, LoopRecurs DEF First
<1>3. ASSUME NEW h \in Nat
      PROVE  After("level", p, h + 1) =
                 [j \in Nat |-> thash(<<After("level", p, h)[2 * j], After("level", p, h)[2 * j + 1]>>,
                                      set_tree_index(set_tree_height(addr, h + 1), j + Shift(offset, h + 1)))]
  <2>1. After("level", p, h + 1) = Round("level", p, h + 1, After("level", p, h))
    BY LoopRecurs
  <2>. QED
    BY <1>1, <2>1 DEF Round
<1>. QED
  BY <1>2, <1>3 DEF Node, p

LEMMA TreeNodeIs ==
  ASSUME NEW height, NEW j, NEW offset, NEW leaves, NEW addr
  PROVE  TreeNode(height, j, offset, leaves, addr) = Node(Tree(leaves, offset, addr), height, j)
<1>. DEFINE p == Tree(leaves, offset, addr)
            Is(level) == level =
                [h \in 0..height |->
                    [n \in Nat |->
                        IF h = 0 THEN leaves[n + offset]
                        ELSE thash(<<level[h - 1][2 * n], level[h - 1][2 * n + 1]>>,
                                   set_tree_index(set_tree_height(addr, h), n + Shift(offset, h)))]]
<1>1. TreeNode(height, j, offset, leaves, addr) = (CHOOSE level : Is(level))[height][j]
  BY DEF TreeNode
<1>2. ASSUME NEW level PROVE Is(level) <=> IsLoop("level", p, height, level)
  BY DEF IsLoop, First, Round, Tree
<1>. HIDE DEF Is
<1>. QED
  BY <1>1, <1>2 DEF After, Node

\* What a stack with one node per height holds after n leaves.
Stacked(p, height, stack, n) ==
    \A h \in 0..(height - 1) : Bit(n, h) = 1 => stack[h] = Node(p, h, Shift(n, h) - 1)

\* The number of the node beside the path of leaf_idx.
Beside(leaf_idx, h) == IF Bit(leaf_idx, h) = 1 THEN Shift(leaf_idx, h) - 1 ELSE Shift(leaf_idx, h) + 1

\* One more leaf: all the nodes that end with it are computed.
LEMMA CurrentIs ==
  ASSUME NEW leaves, NEW offset, NEW addr, NEW height \in Nat, NEW n \in 0..(TwoTo(height) - 1),
         NEW stack, Stacked(Tree(leaves, offset, addr), height, stack, n),
         NEW current,
         \A h \in 0..height : current[h] =
             IF h = 0 THEN leaves[n + offset]
             ELSE thash(<<stack[h - 1], current[h - 1]>>, NodeAddr(addr, h, n, offset)),
         NEW g \in 0..Top(n, height)
  PROVE  current[g] = Node(Tree(leaves, offset, addr), g, Shift(n, g))
<1>. DEFINE p == Tree(leaves, offset, addr)
            top == Top(n, height)
            N == {h \in Nat : h <= top => current[h] = Node(p, h, Shift(n, h))}
<1>0. n \in Nat /\ top \in 0..height /\ \A h \in 0..(top - 1) : Bit(n, h) = 1
  BY TopIs, TwoToPositive
<1>1. 0 \in N
  <2>0. 0 \in 0..height
    OBVIOUS
  <2>1. current[0] = leaves[n + offset]
    BY <2>0
  <2>2. Node(p, 0, n) = leaves[n + offset] /\ Shift(n, 0) = n
    BY <1>0, NodeIs, ShiftIs
  <2>. HIDE DEF p
  <2>. QED
    BY <2>1, <2>2
<1>2. ASSUME NEW h \in Nat, h \in N PROVE h + 1 \in N
  <2>. SUFFICES ASSUME h + 1 <= top PROVE current[h + 1] = Node(p, h + 1, Shift(n, h + 1))
    OBVIOUS
  <2>. HIDE DEF top, p
  <2>1. h \in 0..(top - 1) /\ h \in 0..(height - 1) /\ h + 1 \in 0..height /\ h + 1 # 0 /\ (h + 1) - 1 = h
    BY <1>0
  <2>. DEFINE j == Shift(n, h + 1)
  <2>2. Shift(n, h) = 2 * j + 1 /\ Shift(n, h) - 1 = 2 * j /\ j \in Nat /\ Bit(n, h) = 1
    <3>1. Bit(n, h) = 1
      BY <1>0, <2>1
    <3>2. Shift(n, h) = 2 * Shift(n, h + 1) + Bit(n, h) /\ Shift(n, h + 1) \in Nat
      BY <1>0, BitIs
    <3>. QED
      BY <3>1, <3>2
  <2>3. stack[h] = Node(p, h, 2 * j) /\ current[h] = Node(p, h, 2 * j + 1)
    <3>1. stack[h] = Node(p, h, Shift(n, h) - 1)
      BY <2>1, <2>2 DEF Stacked, p
    <3>2. current[h] = Node(p, h, Shift(n, h))
      BY <1>0, <1>2, <2>1
    <3>. QED
      BY <2>2, <3>1, <3>2
  <2>4. current[h + 1] = thash(<<stack[h], current[h]>>, NodeAddr(addr, h + 1, n, offset))
    BY <2>1
  <2>5. NodeAddr(addr, h + 1, n, offset) = set_tree_index(set_tree_height(addr, h + 1), j + Shift(offset, h + 1))
    BY DEF NodeAddr
  <2>. HIDE DEF j
  <2>6. Node(p, h + 1, j) = thash(<<Node(p, h, 2 * j), Node(p, h, 2 * j + 1)>>,
                                  set_tree_index(set_tree_height(addr, h + 1), j + Shift(offset, h + 1)))
    BY <2>2, NodeIs DEF p
  <2>7. current[h + 1] = Node(p, h + 1, j)
    BY <2>3, <2>4, <2>5, <2>6
  <2>. QED
    BY <2>7 DEF j
<1>. HIDE DEF N
<1>3. g \in Nat /\ g <= top
  BY <1>0
<1>4. g \in N
  BY <1>1, <1>2, <1>3, NatSetInduction
<1>. QED
  BY <1>3, <1>4 DEF N

\* The loop of treehashx1 after n leaves.
Hashed(q, s, n) ==
    LET p == Tree(q.leaves, q.offset, q.addr) IN
    /\ \E f : s.stack = [h \in 0..q.height |-> f[h]]
    /\ Stacked(p, q.height, s.stack, n)
    /\ n = TwoTo(q.height) => s.stack[q.height] = Node(p, q.height, 0)
    /\ DOMAIN s.auth = 0..(q.height - 1)
    /\ \A h \in 0..(q.height - 1) :
           Shift(n, h) > Beside(q.leaf_idx, h) => s.auth[h] = Node(p, h, Beside(q.leaf_idx, h))

\* Beside is the one node with this parent that is not on the path.
LEMMA OnPathIs ==
  ASSUME NEW n \in Nat, NEW leaf_idx \in Nat, NEW h \in Nat
  PROVE  OnPath(n, leaf_idx, h) <=> Shift(n, h) = Beside(leaf_idx, h)
<1>. DEFINE a == Shift(n, h)  b == Shift(leaf_idx, h)  c1 == Shift(n, h + 1)  d == Shift(leaf_idx, h + 1)
<1>1. a = 2 * c1 + Bit(n, h) /\ Bit(n, h) \in {0, 1} /\ a \in Nat /\ c1 \in Nat
  BY BitIs
<1>2. b = 2 * d + Bit(leaf_idx, h) /\ Bit(leaf_idx, h) \in {0, 1} /\ b \in Nat /\ d \in Nat
  BY BitIs
<1>3. OnPath(n, leaf_idx, h) <=> c1 = d /\ Bit(n, h) # Bit(leaf_idx, h)
  BY DEF OnPath
<1>4. Beside(leaf_idx, h) = IF Bit(leaf_idx, h) = 1 THEN b - 1 ELSE b + 1
  BY DEF Beside
<1>. HIDE DEF a, b, c1, d
<1>5. OnPath(n, leaf_idx, h) <=> a = Beside(leaf_idx, h)
  BY <1>1, <1>2, <1>3, <1>4
<1>. QED
  BY <1>5 DEF a

LEMMA HashedStep ==
  ASSUME NEW leaves, NEW offset, NEW addr, NEW height \in Nat, NEW leaf_idx \in Nat,
         NEW q, q = [leaf_idx |-> leaf_idx, offset |-> offset, height |-> height, leaves |-> leaves, addr |-> addr],
         NEW s, NEW n \in Nat, n < TwoTo(height), Hashed(q, s, n)
  PROVE  Hashed(q, AddLeaf(q, s, n), n + 1)
<1>. DEFINE p == Tree(leaves, offset, addr)
            r == AddLeaf(q, s, n)
            top == Top(n, height)
            Is(current) == current =
                [h \in 0..height |->
                    IF h = 0 THEN leaves[n + offset]
                    ELSE thash(<<s.stack[h - 1], current[h - 1]>>, NodeAddr(addr, h, n, offset))]
            cur == CHOOSE current : Is(current)
<1>0. TwoTo(height) \in Nat /\ n \in 0..(TwoTo(height) - 1)
  BY TwoToPositive
<1>1. Is(cur)
  <2>. DEFINE d == [leaf |-> leaves[n + offset], stack |-> s.stack, addr |-> addr, idx |-> n, offset |-> offset]
  <2>1. \A current : Is(current) <=> IsLoop("current", d, height, current)
    BY DEF IsLoop, First, Round
  <2>. HIDE DEF Is, d
  <2>2. \E current : Is(current)
    BY <2>1, LoopExists
  <2>. QED
    BY <2>2, Zenon
<1>2. /\ r.stack = [s.stack EXCEPT ![top] = cur[top]]
      /\ r.auth = [h \in DOMAIN s.auth |->
                      IF h <= top /\ OnPath(n, leaf_idx, h) THEN cur[h] ELSE s.auth[h]]
  BY DEF AddLeaf
<1>3. /\ \E f : s.stack = [h \in 0..height |-> f[h]]
      /\ Stacked(p, height, s.stack, n)
      /\ DOMAIN s.auth = 0..(height - 1)
      /\ \A h \in 0..(height - 1) :
             Shift(n, h) > Beside(leaf_idx, h) => s.auth[h] = Node(p, h, Beside(leaf_idx, h))
  BY DEF Hashed
<1>4. \A h \in 0..top : cur[h] = Node(p, h, Shift(n, h))
  <2>. HIDE DEF cur
  <2>1. \A h \in 0..height : cur[h] =
            IF h = 0 THEN leaves[n + offset]
            ELSE thash(<<s.stack[h - 1], cur[h - 1]>>, NodeAddr(addr, h, n, offset))
    BY <1>1
  <2>. HIDE DEF Is
  <2>. SUFFICES ASSUME NEW g \in 0..top PROVE cur[g] = Node(p, g, Shift(n, g))
    OBVIOUS
  <2>2. Stacked(Tree(leaves, offset, addr), height, s.stack, n)
    BY <1>3
  <2>3. g \in 0..Top(n, height)
    OBVIOUS
  <2>. HIDE DEF top, p
  <2>4. cur[g] = Node(Tree(leaves, offset, addr), g, Shift(n, g))
    BY <1>0, <2>1, <2>2, <2>3, CurrentIs
  <2>. QED
    BY <2>4 DEF p
<1>5. top \in 0..height /\ (\A h \in 0..(top - 1) : Bit(n, h) = 1) /\ (top < height => Bit(n, top) = 0)
  BY <1>0, TopIs
<1>. HIDE DEF p, r, top, cur, Is
\* The carry stops at top.
<1>6. ASSUME NEW h \in 0..height
      PROVE  /\ Shift(n, h) \in Nat /\ Shift(n + 1, h) \in Nat
             /\ h <= top => Shift(n + 1, h) = Shift(n, h) + 1
             /\ h > top => Shift(n + 1, h) = Shift(n, h)
  <2>1. h \in Nat /\ n + 1 \in Nat /\ top \in Nat
    BY <1>5
  <2>2. h <= top => \A g \in 0..(h - 1) : Bit(n, g) = 1
    BY <1>5, <2>1
  <2>3. h > top => top \in 0..(h - 1) /\ Bit(n, top) # 1
    BY <1>5, <2>1
  <2>4. h > top => ~(\A g \in 0..(h - 1) : Bit(n, g) = 1)
    BY <2>3
  <2>. QED
    BY <2>1, <2>2, <2>4, Carry, ShiftNat
<1>7. ASSUME NEW h \in 0..(height - 1)
      PROVE  /\ h < top => Bit(n + 1, h) = 0
             /\ h = top => Bit(n + 1, h) = 1 /\ Shift(n + 1, h) - 1 = Shift(n, h)
             /\ h > top => Bit(n + 1, h) = Bit(n, h)
  <2>1. h \in 0..height /\ h \in Nat /\ top \in Nat
    BY <1>5
  <2>2. Shift(n, h) = 2 * Shift(n, h + 1) + Bit(n, h) /\ Shift(n, h + 1) \in Nat
    BY <2>1, BitIs
  <2>3. Bit(n + 1, h) = Shift(n + 1, h) % 2
    BY DEF Bit
  <2>4. (h < top => Bit(n, h) = 1) /\ (h = top => Bit(n, h) = 0) /\ Bit(n, h) = Shift(n, h) % 2
    BY <1>5, <2>1 DEF Bit
  <2>. QED
    BY <1>6, <2>1, <2>2, <2>3, <2>4
<1>8. (\E f : r.stack = [h \in 0..height |-> f[h]])
      /\ \A h \in 0..height : r.stack[h] = IF h = top THEN cur[top] ELSE s.stack[h]
  <2>1. PICK f : s.stack = [h \in 0..height |-> f[h]]
    BY <1>3
  <2>2. r.stack = [h \in 0..height |-> IF h = top THEN cur[top] ELSE f[h]]
    BY <1>2, <1>5, <2>1
  <2>. DEFINE g == [h \in 0..height |-> IF h = top THEN cur[top] ELSE f[h]]
  <2>3. r.stack = [h \in 0..height |-> g[h]]
    BY <2>2
  <2>4. \A h \in 0..height : r.stack[h] = IF h = top THEN cur[top] ELSE s.stack[h]
    BY <2>1, <2>2
  <2>. HIDE DEF g
  <2>. QED
    BY <2>3, <2>4
<1>9. Stacked(p, height, r.stack, n + 1)
  <2>. SUFFICES ASSUME NEW h \in 0..(height - 1), Bit(n + 1, h) = 1
                PROVE  r.stack[h] = Node(p, h, Shift(n + 1, h) - 1)
    BY DEF Stacked
  <2>1. h \in 0..height /\ top \in Nat
    BY <1>5
  <2>2. CASE h < top
    BY <1>7, <2>2
  <2>3. CASE h = top
    <3>1. r.stack[h] = Node(p, h, Shift(n, h))
      BY <1>4, <1>5, <1>8, <2>1, <2>3
    <3>. QED
      BY <1>7, <2>3, <3>1
  <2>4. CASE h > top
    <3>1. Bit(n, h) = 1 /\ Shift(n + 1, h) = Shift(n, h)
      BY <1>6, <1>7, <2>1, <2>4
    <3>2. r.stack[h] = s.stack[h]
      BY <1>8, <2>1, <2>4
    <3>3. s.stack[h] = Node(p, h, Shift(n, h) - 1)
      BY <1>3, <3>1 DEF Stacked
    <3>. QED
      BY <3>1, <3>2, <3>3
  <2>. QED
    BY <2>1, <2>2, <2>3, <2>4
<1>10. n + 1 = TwoTo(height) => r.stack[height] = Node(p, height, 0)
  <2>. SUFFICES ASSUME n + 1 = TwoTo(height) PROVE r.stack[height] = Node(p, height, 0)
    OBVIOUS
  <2>1. n = TwoTo(height) - 1
    BY <1>0
  <2>2. top = height
    <3>1. ~(top < height)
      <4>. SUFFICES ASSUME top < height PROVE FALSE
        OBVIOUS
      <4>1. top \in 0..(height - 1)
        BY <1>5
      <4>2. Bit(TwoTo(height) - 1, top) = 1
        BY <4>1, AllOnes
      <4>. QED
        BY <1>5, <2>1, <4>2
    <3>. QED
      BY <1>5, <3>1
  <2>3. Shift(n, height) = 0
    <3>1. height \in 0..height /\ height - height = 0
      OBVIOUS
    <3>2. Shift(TwoTo(height) - 1, height) = TwoTo(height - height) - 1
      BY <3>1, ShiftTwoTo
    <3>. QED
      BY <2>1, <3>1, <3>2, TwoToIs
  <2>4. height \in 0..top /\ height \in 0..height
    BY <2>2
  <2>. QED
    BY <1>4, <1>8, <2>2, <2>3, <2>4
<1>11. DOMAIN r.auth = 0..(height - 1)
  BY <1>2, <1>3
<1>12. ASSUME NEW h \in 0..(height - 1), Shift(n + 1, h) > Beside(leaf_idx, h)
       PROVE  r.auth[h] = Node(p, h, Beside(leaf_idx, h))
  <2>1. h \in 0..height /\ h \in Nat /\ top \in Nat
    BY <1>5
  <2>2. r.auth[h] = IF h <= top /\ OnPath(n, leaf_idx, h) THEN cur[h] ELSE s.auth[h]
    BY <1>2, <1>3
  <2>3. OnPath(n, leaf_idx, h) <=> Shift(n, h) = Beside(leaf_idx, h)
    BY <2>1, OnPathIs
  <2>4. CASE h <= top /\ OnPath(n, leaf_idx, h)
    <3>1. cur[h] = Node(p, h, Shift(n, h))
      BY <1>4, <2>1, <2>4
    <3>. QED
      BY <2>2, <2>3, <2>4, <3>1
  <2>5. CASE ~(h <= top /\ OnPath(n, leaf_idx, h))
    <3>1. Beside(leaf_idx, h) \in Int
      <4>1. Shift(leaf_idx, h) \in Nat
        BY <2>1, ShiftNat
      <4>. QED
        BY <4>1 DEF Beside
    <3>2. Shift(n, h) > Beside(leaf_idx, h)
      BY <1>6, <1>12, <2>1, <2>3, <2>5, <3>1
    <3>. QED
      BY <1>3, <2>2, <2>5, <3>2
  <2>. QED
    BY <2>4, <2>5
<1>. QED
  BY <1>8, <1>9, <1>10, <1>11, <1>12 DEF Hashed, p, r

LEMMA ShiftOut ==
  ASSUME NEW n \in Nat, NEW x \in Nat, x < TwoTo(n)
  PROVE  Shift(x, n) = 0
<1>1. n \in 0..n /\ n - n = 0 /\ Shift(x, n) \in Nat
  BY ShiftNat
<1>2. Shift(x, n) < TwoTo(n - n)
  BY <1>1, ShiftBelow
<1>. QED
  BY <1>1, <1>2, TwoToIs

LEMMA BesideIs ==
  ASSUME NEW x \in Nat, NEW h \in Nat
  PROVE  /\ Beside(x, h) \in Nat /\ Shift(Beside(x, h), 1) = Shift(x, h + 1)
         /\ IF Bit(x, h) = 1 THEN Shift(x, h) = 2 * Shift(x, h + 1) + 1 /\ Beside(x, h) = 2 * Shift(x, h + 1)
            ELSE Shift(x, h) = 2 * Shift(x, h + 1) /\ Beside(x, h) = 2 * Shift(x, h + 1) + 1
<1>1. /\ Bit(x, h) \in {0, 1} /\ Shift(x, h) = 2 * Shift(x, h + 1) + Bit(x, h)
      /\ Shift(x, h) \in Nat /\ Shift(x, h + 1) \in Nat
  BY BitIs
<1>2. IF Bit(x, h) = 1 THEN Shift(x, h) = 2 * Shift(x, h + 1) + 1 /\ Beside(x, h) = 2 * Shift(x, h + 1)
      ELSE Shift(x, h) = 2 * Shift(x, h + 1) /\ Beside(x, h) = 2 * Shift(x, h + 1) + 1
  BY <1>1 DEF Beside
<1>. DEFINE b == Beside(x, h)
<1>3. b \in Nat
  BY <1>1, <1>2
<1>4. Shift(b, 1) = b \div 2
  <2>1. Shift(b, 0 + 1) = Shift(b, 0) \div 2 /\ Shift(b, 0) = b /\ 0 + 1 = 1
    BY ShiftIs
  <2>. QED
    BY <2>1
<1>5. b \div 2 = Shift(x, h + 1)
  <2>1. b = 2 * Shift(x, h + 1) \/ b = 2 * Shift(x, h + 1) + 1
    BY <1>2
  <2>. HIDE DEF b
  <2>. QED
    BY <1>1, <2>1
<1>. QED
  BY <1>2, <1>3, <1>4, <1>5

\* treehashx1 returns the root and the nodes beside the path, whatever leaf it is of.
LEMMA TreehashIs ==
  ASSUME NEW leaves, NEW offset, NEW addr, NEW height \in Nat, NEW leaf_idx \in Nat
  PROVE  LET p == Tree(leaves, offset, addr)
             hashed == treehashx1(leaf_idx, offset, height, leaves, addr)
         IN  /\ hashed.root = Node(p, height, 0)
             /\ hashed.addr = NodeAddr(addr, height, 0, offset)
             /\ DOMAIN hashed.auth = 0..(height - 1)
             /\ leaf_idx < TwoTo(height) =>
                    \A h \in 0..(height - 1) : hashed.auth[h] = Node(p, h, Beside(leaf_idx, h))
<1>. DEFINE p == Tree(leaves, offset, addr)
            hashed == treehashx1(leaf_idx, offset, height, leaves, addr)
            q == [leaf_idx |-> leaf_idx, offset |-> offset, height |-> height, leaves |-> leaves, addr |-> addr]
            end == After("leaves", q, TwoTo(height))
            Is(after) == after = [n \in 0..TwoTo(height) |->
                                     IF n = 0 THEN NoLeaves(q) ELSE AddLeaf(q, after[n - 1], n - 1)]
            N == {n \in Nat : n <= TwoTo(height) => Hashed(q, After("leaves", q, n), n)}
<1>0. TwoTo(height) \in Nat /\ TwoTo(height) > 0
  BY TwoToPositive
<1>1. /\ hashed.root = end.stack[height] /\ hashed.auth = end.auth
      /\ hashed.addr = NodeAddr(addr, height, 0, offset)
  <2>1. \A after : Is(after) <=> IsLoop("leaves", q, TwoTo(height), after)
    BY DEF IsLoop, First, Round
  <2>2. end = (CHOOSE after : Is(after))[TwoTo(height)]
    <3>. HIDE DEF Is, q
    <3>. QED
      BY <2>1 DEF After
  <2>3. hashed = LET last == (CHOOSE after : Is(after))[TwoTo(height)] IN
                 [root |-> last.stack[height], auth |-> last.auth, addr |-> NodeAddr(addr, height, 0, offset)]
    BY DEF treehashx1, AddLeaf, NoLeaves
  <2>. HIDE DEF hashed, end, Is
  <2>. QED
    BY <2>2, <2>3
<1>2. 0 \in N
  <2>1. After("leaves", q, 0) = NoLeaves(q)
    BY LoopRecurs DEF First
  <2>2. ASSUME NEW h \in 0..(height - 1)
        PROVE  Bit(0, h) = 0 /\ ~(Shift(0, h) > Beside(leaf_idx, h))
    <3>1. h \in Nat /\ TwoTo(h) > 0
      BY TwoToPositive
    <3>2. Shift(0, h) = 0
      BY <3>1, ShiftOut
    <3>. QED
      BY <3>1, <3>2, BesideIs DEF Bit
  <2>3. /\ \E f : NoLeaves(q).stack = [h \in 0..height |-> f[h]]
        /\ DOMAIN NoLeaves(q).auth = 0..(height - 1)
    <3>. DEFINE f == [h \in 0..height |-> <<>>]
    <3>1. NoLeaves(q).stack = [h \in 0..height |-> f[h]]
      BY DEF NoLeaves
    <3>2. DOMAIN NoLeaves(q).auth = 0..(height - 1)
      BY DEF NoLeaves
    <3>. HIDE DEF f
    <3>. QED
      BY <3>1, <3>2
  <2>4. Hashed(q, NoLeaves(q), 0)
    <3>1. q.height = height /\ q.leaf_idx = leaf_idx
      OBVIOUS
    <3>2. \A h \in 0..(height - 1) : Bit(0, h) # 1 /\ ~(Shift(0, h) > Beside(leaf_idx, h))
      BY <2>2
    <3>3. 0 # TwoTo(height)
      BY <1>0
    <3>. HIDE DEF q
    <3>. QED
      BY <2>3, <3>1, <3>2, <3>3 DEF Hashed, Stacked
  <2>. QED
    BY <2>1, <2>4
<1>3. ASSUME NEW n \in Nat, n \in N PROVE n + 1 \in N
  <2>. SUFFICES ASSUME n + 1 <= TwoTo(height) PROVE Hashed(q, After("leaves", q, n + 1), n + 1)
    OBVIOUS
  <2>1. n < TwoTo(height) /\ Hashed(q, After("leaves", q, n), n)
    BY <1>0, <1>3
  <2>2. After("leaves", q, n + 1) = AddLeaf(q, After("leaves", q, n), n)
    <3>. HIDE DEF q
    <3>1. After("leaves", q, n + 1) = Round("leaves", q, n + 1, After("leaves", q, n))
      BY LoopRecurs
    <3>2. (n + 1) - 1 = n
      OBVIOUS
    <3>. QED
      BY <3>1, <3>2 DEF Round
  <2>3. Hashed(q, AddLeaf(q, After("leaves", q, n), n), n + 1)
    <3>1. q = [leaf_idx |-> leaf_idx, offset |-> offset, height |-> height, leaves |-> leaves, addr |-> addr]
      OBVIOUS
    <3>. HIDE DEF q
    <3>. QED
      BY <2>1, <3>1, HashedStep
  <2>. QED
    BY <2>2, <2>3
<1>4. Hashed(q, end, TwoTo(height))
  <2>1. TwoTo(height) \in N
    <3>. HIDE DEF N
    <3>. QED
      BY <1>0, <1>2, <1>3, NatSetInduction
  <2>. QED
    BY <1>0, <2>1
<1>5. /\ end.stack[height] = Node(p, height, 0) /\ DOMAIN end.auth = 0..(height - 1)
      /\ \A h \in 0..(height - 1) :
             Shift(TwoTo(height), h) > Beside(leaf_idx, h) => end.auth[h] = Node(p, h, Beside(leaf_idx, h))
  <2>. HIDE DEF end
  <2>. QED
    BY <1>4 DEF Hashed
<1>6. ASSUME leaf_idx < TwoTo(height), NEW h \in 0..(height - 1)
      PROVE  Shift(TwoTo(height), h) > Beside(leaf_idx, h)
  <2>. DEFINE m == height - (h + 1)
  <2>1. h \in 0..height /\ h \in Nat /\ m \in Nat /\ height - h = m + 1
    OBVIOUS
  <2>2. Shift(TwoTo(height), h) = TwoTo(m + 1) /\ Shift(leaf_idx, h) < TwoTo(m + 1)
    <3>1. Shift(TwoTo(height), h) = TwoTo(height - h)
      BY <2>1, ShiftTwoTo
    <3>2. Shift(leaf_idx, h) < TwoTo(height - h)
      BY <1>6, <2>1, ShiftBelow
    <3>. QED
      BY <2>1, <3>1, <3>2
  <2>3. TwoTo(m + 1) = 2 * TwoTo(m) /\ TwoTo(m) \in Nat
    BY <2>1, TwoToIs, TwoToPositive
  <2>. HIDE DEF m
  <2>. DEFINE a == Shift(leaf_idx, h + 1)
  <2>4. a \in Nat
    BY <2>1, ShiftNat
  <2>5. IF Bit(leaf_idx, h) = 1 THEN Shift(leaf_idx, h) = 2 * a + 1 /\ Beside(leaf_idx, h) = 2 * a
        ELSE Shift(leaf_idx, h) = 2 * a /\ Beside(leaf_idx, h) = 2 * a + 1
    BY <2>1, BesideIs
  <2>. HIDE DEF a
  <2>. QED
    BY <2>2, <2>3, <2>4, <2>5
<1>. HIDE DEF end, hashed, p
<1>. QED
  BY <1>1, <1>5, <1>6 DEF hashed, p

\* Addresses of the nodes of one tree: all but height and index agree.
SameTree(addr, other) ==
    \A h, m : set_tree_index(set_tree_height(addr, h), m) = set_tree_index(set_tree_height(other, h), m)

\* compute_root finds the root from a leaf and the nodes beside its path.
LEMMA ComputeRootIs ==
  ASSUME NEW leaves, NEW offset, NEW base, NEW height \in Nat, NEW leaf_idx \in Nat, leaf_idx < TwoTo(height),
         NEW leaf, leaf = leaves[leaf_idx + offset], NEW addr, SameTree(addr, base),
         NEW auth, \A h \in 0..(height - 1) : auth[h] = Node(Tree(leaves, offset, base), h, Beside(leaf_idx, h))
  PROVE  LET computed == compute_root(leaf, leaf_idx, offset, auth, height, addr)
         IN  /\ computed.root = Node(Tree(leaves, offset, base), height, 0)
             /\ computed.addr = NodeAddr(addr, height, leaf_idx, offset)
<1>. DEFINE p == Tree(leaves, offset, base)
            q == [leaf |-> leaf, auth |-> auth, leaf_idx |-> leaf_idx, addr |-> addr, offset |-> offset]
            computed == compute_root(leaf, leaf_idx, offset, auth, height, addr)
            Is(node) == node = [h \in 0..height |->
                IF h = 0 THEN leaf
                ELSE thash(Siblings(node[h - 1], auth[h - 1], Bit(leaf_idx, h - 1) = 1),
                           NodeAddr(addr, h, leaf_idx, offset))]
            N == {h \in Nat : h <= height => After("path", q, h) = Node(p, h, Shift(leaf_idx, h))}
<1>1. computed.root = After("path", q, height) /\ computed.addr = NodeAddr(addr, height, leaf_idx, offset)
  <2>1. \A node : Is(node) <=> IsLoop("path", q, height, node)
    BY DEF IsLoop, First, Round
  <2>2. computed = [root |-> (CHOOSE node : Is(node))[height], addr |-> NodeAddr(addr, height, leaf_idx, offset)]
    BY DEF compute_root
  <2>. HIDE DEF Is, q, computed
  <2>. QED
    BY <2>1, <2>2 DEF After
<1>2. 0 \in N
  <2>1. After("path", q, 0) = leaf /\ Shift(leaf_idx, 0) = leaf_idx
    BY LoopRecurs, ShiftIs DEF First
  <2>2. Node(p, 0, leaf_idx) = leaves[leaf_idx + offset]
    BY NodeIs
  <2>. QED
    BY <2>1, <2>2
<1>3. ASSUME NEW h \in Nat, h \in N PROVE h + 1 \in N
  <2>. SUFFICES ASSUME h + 1 <= height PROVE After("path", q, h + 1) = Node(p, h + 1, Shift(leaf_idx, h + 1))
    OBVIOUS
  <2>. DEFINE a == Shift(leaf_idx, h + 1)  last == After("path", q, h)
  <2>1. h \in 0..(height - 1) /\ (h + 1) - 1 = h
    OBVIOUS
  <2>2. last = Node(p, h, Shift(leaf_idx, h)) /\ auth[h] = Node(p, h, Beside(leaf_idx, h))
    BY <1>3, <2>1
  <2>3. a \in Nat /\ IF Bit(leaf_idx, h) = 1 THEN Shift(leaf_idx, h) = 2 * a + 1 /\ Beside(leaf_idx, h) = 2 * a
                     ELSE Shift(leaf_idx, h) = 2 * a /\ Beside(leaf_idx, h) = 2 * a + 1
    <3>1. a \in Nat
      <4>1. h + 1 \in Nat
        OBVIOUS
      <4>. QED
        BY <4>1, ShiftNat
    <3>2. IF Bit(leaf_idx, h) = 1
          THEN Shift(leaf_idx, h) = 2 * Shift(leaf_idx, h + 1) + 1 /\ Beside(leaf_idx, h) = 2 * Shift(leaf_idx, h + 1)
          ELSE Shift(leaf_idx, h) = 2 * Shift(leaf_idx, h + 1) /\ Beside(leaf_idx, h) = 2 * Shift(leaf_idx, h + 1) + 1
      BY BesideIs
    <3>. QED
      BY <3>1, <3>2
  <2>4. After("path", q, h + 1) = thash(Siblings(last, auth[h], Bit(leaf_idx, h) = 1),
                                        NodeAddr(addr, h + 1, leaf_idx, offset))
    <3>1. After("path", q, h + 1) = Round("path", q, h + 1, last)
      BY LoopRecurs
    <3>2. q.auth = auth /\ q.leaf_idx = leaf_idx /\ q.addr = addr /\ q.offset = offset
      OBVIOUS
    <3>. HIDE DEF q, last
    <3>. QED
      BY <2>1, <3>1, <3>2 DEF Round
  <2>5. NodeAddr(addr, h + 1, leaf_idx, offset) = set_tree_index(set_tree_height(base, h + 1), a + Shift(offset, h + 1))
    BY DEF NodeAddr, SameTree
  <2>. HIDE DEF a, last, q
  <2>6. Siblings(last, auth[h], Bit(leaf_idx, h) = 1) = <<Node(p, h, 2 * a), Node(p, h, 2 * a + 1)>>
    BY <2>2, <2>3 DEF Siblings
  <2>7. Node(p, h + 1, a) = thash(<<Node(p, h, 2 * a), Node(p, h, 2 * a + 1)>>,
                                  set_tree_index(set_tree_height(base, h + 1), a + Shift(offset, h + 1)))
    BY <2>3, NodeIs
  <2>8. After("path", q, h + 1) = Node(p, h + 1, a)
    BY <2>4, <2>5, <2>6, <2>7
  <2>. QED
    BY <2>8 DEF a
<1>4. height \in N
  <2>. HIDE DEF N
  <2>. QED
    BY <1>2, <1>3, NatSetInduction
<1>5. Shift(leaf_idx, height) = 0
  BY ShiftOut
<1>. QED
  BY <1>1, <1>4, <1>5

------------------------------------------------------------------------------
(* Addresses.                                                                *)

Rec(layer, tree, type, keypair, b17, b18to20, b21) ==
    [layer |-> layer, tree |-> tree, type |-> type, keypair |-> keypair,
     b17 |-> b17, b18to20 |-> b18to20, b21 |-> b21]

LEMMA SettersAre ==
  ASSUME NEW l, NEW t, NEW ty, NEW k, NEW x, NEW y, NEW z, NEW v
  PROVE  /\ set_layer_addr(Rec(l, t, ty, k, x, y, z), v) = Rec(v % Byte, t, ty, k, x, y, z)
         /\ set_tree_addr(Rec(l, t, ty, k, x, y, z), v) = Rec(l, v, ty, k, x, y, z)
         /\ set_type(Rec(l, t, ty, k, x, y, z), v) = Rec(l, t, v, k, x, y, z)
         /\ set_keypair_addr(Rec(l, t, ty, k, x, y, z), v) = Rec(l, t, ty, v, x, y, z)
         /\ set_chain_addr(Rec(l, t, ty, k, x, y, z), v) = Rec(l, t, ty, k, v % Byte, y, z)
         /\ set_hash_addr(Rec(l, t, ty, k, x, y, z), v) = Rec(l, t, ty, k, x, y, v % Byte)
         /\ set_tree_height(Rec(l, t, ty, k, x, y, z), v) = Rec(l, t, ty, k, v % Byte, y, z)
         /\ set_tree_index(Rec(l, t, ty, k, x, y, z), v) = Rec(l, t, ty, k, x, v \div Byte, v % Byte)
<1>1. set_layer_addr(Rec(l, t, ty, k, x, y, z), v) = Rec(v % Byte, t, ty, k, x, y, z)
  BY DEF Rec, set_layer_addr
<1>2. set_tree_addr(Rec(l, t, ty, k, x, y, z), v) = Rec(l, v, ty, k, x, y, z)
  BY DEF Rec, set_tree_addr
<1>3. set_type(Rec(l, t, ty, k, x, y, z), v) = Rec(l, t, v, k, x, y, z)
  BY DEF Rec, set_type
<1>4. set_keypair_addr(Rec(l, t, ty, k, x, y, z), v) = Rec(l, t, ty, v, x, y, z)
  BY DEF Rec, set_keypair_addr
<1>5. set_chain_addr(Rec(l, t, ty, k, x, y, z), v) = Rec(l, t, ty, k, v % Byte, y, z)
  BY DEF Rec, set_chain_addr
<1>6. set_hash_addr(Rec(l, t, ty, k, x, y, z), v) = Rec(l, t, ty, k, x, y, v % Byte)
  BY DEF Rec, set_hash_addr
<1>7. set_tree_height(Rec(l, t, ty, k, x, y, z), v) = Rec(l, t, ty, k, v % Byte, y, z)
  BY DEF Rec, set_tree_height
<1>8. set_tree_index(Rec(l, t, ty, k, x, y, z), v) = Rec(l, t, ty, k, x, v \div Byte, v % Byte)
  <2>. DEFINE f == Rec(l, t, ty, k, x, y, z)
              F == {"layer", "tree", "type", "keypair", "b17", "b18to20", "b21"}
  <2>1. f = [g \in F |-> f[g]]
    BY DEF Rec
  <2>2. Rec(l, t, ty, k, x, v \div Byte, v % Byte) = [g \in F |-> IF g = "b21" THEN v % Byte ELSE IF g = "b18to20" THEN v \div Byte ELSE f[g]]
    BY DEF Rec
  <2>3. set_tree_index(f, v) = [f EXCEPT !.b18to20 = v \div Byte, !.b21 = v % Byte]
    BY DEF set_tree_index, Rec
  <2>. QED
    BY <2>1, <2>2, <2>3
<1>. QED
  BY <1>1, <1>2, <1>3, <1>4, <1>5, <1>6, <1>7, <1>8

LEMMA CopiesAre ==
  ASSUME NEW l, NEW t, NEW ty, NEW k, NEW x, NEW y, NEW z,
         NEW l2, NEW t2, NEW ty2, NEW k2, NEW x2, NEW y2, NEW z2
  PROVE  /\ copy_subtree_addr(Rec(l, t, ty, k, x, y, z), Rec(l2, t2, ty2, k2, x2, y2, z2))
                = Rec(l2, t2, ty, k, x, y, z)
         /\ copy_keypair_addr(Rec(l, t, ty, k, x, y, z), Rec(l2, t2, ty2, k2, x2, y2, z2))
                = Rec(l2, t2, ty, k2, x, y, z)
<1>1. copy_subtree_addr(Rec(l, t, ty, k, x, y, z), Rec(l2, t2, ty2, k2, x2, y2, z2)) = Rec(l2, t2, ty, k, x, y, z)
  <2>. DEFINE f == Rec(l, t, ty, k, x, y, z)
              F == {"layer", "tree", "type", "keypair", "b17", "b18to20", "b21"}
  <2>1. f = [g \in F |-> f[g]]
    BY DEF Rec
  <2>2. Rec(l2, t2, ty, k, x, y, z) = [g \in F |-> IF g = "tree" THEN t2 ELSE IF g = "layer" THEN l2 ELSE f[g]]
    BY DEF Rec
  <2>3. copy_subtree_addr(f, Rec(l2, t2, ty2, k2, x2, y2, z2)) = [f EXCEPT !.layer = l2, !.tree = t2]
    BY DEF copy_subtree_addr, Rec
  <2>. QED
    BY <2>1, <2>2, <2>3
<1>2. copy_keypair_addr(Rec(l, t, ty, k, x, y, z), Rec(l2, t2, ty2, k2, x2, y2, z2)) = Rec(l2, t2, ty, k2, x, y, z)
  <2>. DEFINE f == Rec(l, t, ty, k, x, y, z)
              F == {"layer", "tree", "type", "keypair", "b17", "b18to20", "b21"}
  <2>1. f = [g \in F |-> f[g]]
    BY DEF Rec
  <2>2. Rec(l2, t2, ty, k2, x, y, z) = [g \in F |-> IF g = "keypair" THEN k2 ELSE IF g = "tree" THEN t2 ELSE IF g = "layer" THEN l2 ELSE f[g]]
    BY DEF Rec
  <2>3. copy_keypair_addr(f, Rec(l2, t2, ty2, k2, x2, y2, z2)) = [f EXCEPT !.layer = l2, !.tree = t2, !.keypair = k2]
    BY DEF copy_keypair_addr, Rec
  <2>. QED
    BY <2>1, <2>2, <2>3
<1>. QED
  BY <1>1, <1>2

LEMMA ZeroAddrIs == ZeroAddr = Rec(0, 0, "WOTS", 0, 0, 0, 0)
BY DEF ZeroAddr, Rec

LEMMA RecFields ==
  ASSUME NEW l, NEW t, NEW ty, NEW k, NEW x, NEW y, NEW z
  PROVE  LET a == Rec(l, t, ty, k, x, y, z) IN
         a.layer = l /\ a.tree = t /\ a.type = ty /\ a.keypair = k
BY DEF Rec

LEMMA SameTreeIs ==
  ASSUME NEW l, NEW t, NEW ty, NEW k, NEW x, NEW y, NEW z, NEW x2, NEW y2, NEW z2
  PROVE  SameTree(Rec(l, t, ty, k, x, y, z), Rec(l, t, ty, k, x2, y2, z2))
BY SettersAre DEF SameTree

LEMMA NodeSame ==
  ASSUME NEW leaves, NEW offset, NEW addr, NEW other, SameTree(addr, other), NEW h \in Nat, NEW j \in Nat
  PROVE  Node(Tree(leaves, offset, addr), h, j) = Node(Tree(leaves, offset, other), h, j)
<1>. DEFINE p == Tree(leaves, offset, addr)  q == Tree(leaves, offset, other)
            N == {n \in Nat : \A m \in Nat : Node(p, n, m) = Node(q, n, m)}
<1>1. 0 \in N
  <2>1. \A m \in Nat : Node(p, 0, m) = leaves[m + offset]
    BY NodeIs
  <2>2. \A m \in Nat : Node(q, 0, m) = leaves[m + offset]
    BY NodeIs
  <2>. QED
    BY <2>1, <2>2
<1>2. ASSUME NEW n \in Nat, n \in N PROVE n + 1 \in N
  <2>. SUFFICES ASSUME NEW m \in Nat PROVE Node(p, n + 1, m) = Node(q, n + 1, m)
    OBVIOUS
  <2>1. Node(p, n + 1, m) = thash(<<Node(p, n, 2 * m), Node(p, n, 2 * m + 1)>>,
                                  set_tree_index(set_tree_height(addr, n + 1), m + Shift(offset, n + 1)))
    BY NodeIs
  <2>2. Node(q, n + 1, m) = thash(<<Node(q, n, 2 * m), Node(q, n, 2 * m + 1)>>,
                                  set_tree_index(set_tree_height(other, n + 1), m + Shift(offset, n + 1)))
    BY NodeIs
  <2>3. 2 * m \in Nat /\ 2 * m + 1 \in Nat
    OBVIOUS
  <2>4. Node(p, n, 2 * m) = Node(q, n, 2 * m) /\ Node(p, n, 2 * m + 1) = Node(q, n, 2 * m + 1)
    BY <1>2, <2>3
  <2>. QED
    BY <2>1, <2>2, <2>4 DEF SameTree
<1>. HIDE DEF N
<1>3. h \in N
  BY <1>1, <1>2, NatSetInduction
<1>. QED
  BY <1>3 DEF N

------------------------------------------------------------------------------
(* One-time signatures.                                                      *)

LEMMA WotsAre ==
  /\ SPX_WOTS_W \in Nat /\ SPX_WOTS_W > 0 /\ SPX_WOTS_LEN1 \in Nat /\ SPX_WOTS_LEN2 \in Nat
  /\ SPX_WOTS_LEN = SPX_WOTS_LEN1 + SPX_WOTS_LEN2 /\ SPX_WOTS_LEN1 * SPX_WOTS_LOGW <= 8 * SPX_N
  /\ SPX_TREE_HEIGHT \in Nat /\ SPX_TREE_HEIGHT > 0 /\ SPX_N \in Nat /\ SPX_WOTS_LOGW \in {1, 2, 4, 8}
<1>1. /\ SPX_N \in Nat /\ SPX_WOTS_LOGW \in {1, 2, 4, 8} /\ SPX_WOTS_LEN2 \in Nat
      /\ SPX_TREE_HEIGHT \in Nat /\ SPX_TREE_HEIGHT > 0
  BY WotsAssumption
<1>2. SPX_WOTS_W \in Nat /\ SPX_WOTS_W > 0
  BY <1>1, TwoToPositive DEF SPX_WOTS_W
<1>3. SPX_WOTS_LEN1 \in Nat /\ SPX_WOTS_LEN1 * SPX_WOTS_LOGW <= 8 * SPX_N
  BY <1>1 DEF SPX_WOTS_LEN1
<1>. QED
  BY <1>1, <1>2, <1>3 DEF SPX_WOTS_LEN

\* Digit k: which bits of which byte it is made of.
LEMMA DigitPlace ==
  ASSUME NEW k \in Nat, NEW n \in Nat, (k + 1) * SPX_WOTS_LOGW <= 8 * n
  PROVE  /\ ((k * SPX_WOTS_LOGW) \div 8) + 1 \in 1..n
         /\ 8 - SPX_WOTS_LOGW - ((k * SPX_WOTS_LOGW) % 8) \in 0..7
<1>1. CASE SPX_WOTS_LOGW = 1
  BY <1>1
<1>2. CASE SPX_WOTS_LOGW = 2
  BY <1>2
<1>3. CASE SPX_WOTS_LOGW = 4
  BY <1>3
<1>4. CASE SPX_WOTS_LOGW = 8
  BY <1>4
<1>. QED
  BY <1>1, <1>2, <1>3, <1>4, WotsAre

LEMMA BaseWIs ==
  ASSUME NEW out_len \in Nat, NEW n \in Nat, out_len * SPX_WOTS_LOGW <= 8 * n,
         NEW in, \A k \in 1..n : in[k] \in Nat, NEW k \in 0..(out_len - 1)
  PROVE  base_w(out_len, in)[k] \in 0..(SPX_WOTS_W - 1)
<1>1. k \in Nat /\ (k + 1) * SPX_WOTS_LOGW <= 8 * n
  <2>1. k \in Nat /\ k + 1 <= out_len
    OBVIOUS
  <2>2. CASE SPX_WOTS_LOGW = 1
    BY <2>1, <2>2
  <2>3. CASE SPX_WOTS_LOGW = 2
    BY <2>1, <2>3
  <2>4. CASE SPX_WOTS_LOGW = 4
    BY <2>1, <2>4
  <2>5. CASE SPX_WOTS_LOGW = 8
    BY <2>1, <2>5
  <2>. QED
    BY <2>2, <2>3, <2>4, <2>5, WotsAre
<1>. DEFINE bit == k * SPX_WOTS_LOGW
            byte == in[(bit \div 8) + 1]
            right == 8 - SPX_WOTS_LOGW - (bit % 8)
<1>2. (bit \div 8) + 1 \in 1..n /\ right \in 0..7
  BY <1>1, DigitPlace
<1>3. base_w(out_len, in)[k] = Shift(byte, right) % SPX_WOTS_W
  BY DEF base_w
<1>4. byte \in Nat /\ right \in Nat
  BY <1>2
<1>. HIDE DEF byte, right
<1>5. Shift(byte, right) \in Nat
  BY <1>4, ShiftNat
<1>. QED
  BY <1>3, <1>5, WotsAre

LEMMA LeftNat ==
  ASSUME NEW digits, \A k \in 0..(SPX_WOTS_LEN1 - 1) : digits[k] \in 0..(SPX_WOTS_W - 1)
  PROVE  Left(digits) \in Nat
<1>. DEFINE Is(csum) == csum = [k \in 0..SPX_WOTS_LEN1 |->
                                  IF k = 0 THEN 0 ELSE csum[k - 1] + SPX_WOTS_W - 1 - digits[k - 1]]
            N == {k \in Nat : k <= SPX_WOTS_LEN1 => After("csum", digits, k) \in Nat}
<1>1. Left(digits) = (CHOOSE csum : Is(csum))[SPX_WOTS_LEN1]
  BY DEF Left
<1>2. First("csum", digits) = 0 /\ \A k, last : Round("csum", digits, k, last) = last + SPX_WOTS_W - 1 - digits[k - 1]
  BY DEF First, Round
<1>3. \A csum : Is(csum) <=> IsLoop("csum", digits, SPX_WOTS_LEN1, csum)
  BY <1>2 DEF IsLoop
<1>. HIDE DEF Is
<1>4. Left(digits) = After("csum", digits, SPX_WOTS_LEN1)
  BY <1>1, <1>3 DEF After
<1>5. 0 \in N
  BY <1>2, LoopRecurs
<1>6. ASSUME NEW k \in Nat, k \in N PROVE k + 1 \in N
  <2>. SUFFICES ASSUME k + 1 <= SPX_WOTS_LEN1 PROVE After("csum", digits, k + 1) \in Nat
    OBVIOUS
  <2>1. k \in 0..(SPX_WOTS_LEN1 - 1) /\ After("csum", digits, k) \in Nat /\ (k + 1) - 1 = k
    BY <1>6, WotsAre
  <2>2. After("csum", digits, k + 1) = After("csum", digits, k) + SPX_WOTS_W - 1 - digits[k]
    BY <1>2, <2>1, LoopRecurs
  <2>3. digits[k] \in 0..(SPX_WOTS_W - 1)
    BY <2>1
  <2>. QED
    BY <2>1, <2>2, <2>3, WotsAre
<1>. HIDE DEF N
<1>7. SPX_WOTS_LEN1 \in N
  BY <1>5, <1>6, NatSetInduction, WotsAre
<1>. QED
  BY <1>4, <1>7, WotsAre DEF N

LEMMA LengthsAre ==
  ASSUME NEW msg \in Bytes, NEW k \in Chains
  PROVE  chain_lengths(msg)[k] \in 0..(SPX_WOTS_W - 1)
<1>. DEFINE digits == base_w(SPX_WOTS_LEN1, msg)
            empty == (8 - ((SPX_WOTS_LEN2 * SPX_WOTS_LOGW) % 8)) % 8
            n == (SPX_WOTS_LEN2 * SPX_WOTS_LOGW + 7) \div 8
            number == Left(digits) * TwoTo(empty)
            in == ull_to_bytes(n, number)
<1>1. \A j \in 0..(SPX_WOTS_LEN1 - 1) : digits[j] \in 0..(SPX_WOTS_W - 1)
  <2>1. \A j \in 1..SPX_N : msg[j] \in 0..255
    BY msg \in Bytes DEF Bytes
  <2>2. \A j \in 1..SPX_N : msg[j] \in Nat
    BY <2>1
  <2>. QED
    BY <2>2, BaseWIs, WotsAre
<1>2. chain_lengths(msg)[k] = IF k < SPX_WOTS_LEN1 THEN digits[k] ELSE wots_checksum(digits)[k - SPX_WOTS_LEN1]
  BY DEF chain_lengths
<1>3. wots_checksum(digits) = base_w(SPX_WOTS_LEN2, in)
  BY DEF wots_checksum
<1>. HIDE DEF digits
<1>4. Left(digits) \in Nat
  BY <1>1, LeftNat
<1>5. SPX_WOTS_LEN2 * SPX_WOTS_LOGW \in Nat
  BY WotsAre
<1>6. empty \in Nat /\ n \in Nat /\ SPX_WOTS_LEN2 * SPX_WOTS_LOGW <= 8 * n
  <2>. DEFINE b == SPX_WOTS_LEN2 * SPX_WOTS_LOGW
  <2>1. b \in Nat
    BY <1>5
  <2>. HIDE DEF b
  <2>2. (8 - (b % 8)) % 8 \in Nat /\ (b + 7) \div 8 \in Nat /\ b <= 8 * ((b + 7) \div 8)
    BY <2>1
  <2>. QED
    BY <2>2 DEF b
<1>. HIDE DEF empty, n
<1>7. number \in Nat
  <2>1. TwoTo(empty) \in Nat
    BY <1>6, TwoToPositive
  <2>. QED
    BY <1>4, <2>1
<1>. HIDE DEF number
<1>8. ASSUME NEW j \in 1..n PROVE in[j] \in Nat
  <2>1. in[j] = Shift(number, 8 * (n - j)) % 256
    BY DEF ull_to_bytes
  <2>2. 8 * (n - j) \in Nat
    BY <1>6
  <2>3. Shift(number, 8 * (n - j)) \in Nat
    BY <1>7, <2>2, ShiftNat
  <2>. QED
    BY <2>1, <2>3
<1>. HIDE DEF in
<1>9. CASE k < SPX_WOTS_LEN1
  <2>1. k \in 0..(SPX_WOTS_LEN1 - 1)
    BY <1>9, WotsAre DEF Chains
  <2>. QED
    BY <1>1, <1>2, <1>9, <2>1
<1>10. CASE ~(k < SPX_WOTS_LEN1)
  <2>1. k - SPX_WOTS_LEN1 \in 0..(SPX_WOTS_LEN2 - 1) /\ SPX_WOTS_LEN2 \in Nat
    BY <1>10, WotsAre DEF Chains
  <2>2. base_w(SPX_WOTS_LEN2, in)[k - SPX_WOTS_LEN1] \in 0..(SPX_WOTS_W - 1)
    BY <1>6, <1>8, <2>1, BaseWIs
  <2>. QED
    BY <1>2, <1>3, <1>10, <2>2
<1>. QED
  BY <1>9, <1>10

\* The chain of a key pair: its address but for the position, and its values.
ChainOf(sd, l, t, kp, k) == [seed |-> sd, addr |-> Rec(l, t, "WOTS", kp, k % Byte, 0, 0)]
SubtreeAddr(l, t) == Rec(l, t, "WOTS", 0, 0, 0, 0)

LEMMA ChainRecurs ==
  ASSUME NEW sd, NEW l, NEW t, NEW kp, NEW k, NEW j \in Nat
  PROVE  After("chain", ChainOf(sd, l, t, kp, k), j + 1)
            = thash(<<After("chain", ChainOf(sd, l, t, kp, k), j)>>, Rec(l, t, "WOTS", kp, k % Byte, 0, j % Byte))
<1>. DEFINE p == ChainOf(sd, l, t, kp, k)
<1>1. p.addr = Rec(l, t, "WOTS", kp, k % Byte, 0, 0)
  BY DEF ChainOf
<1>2. \A last : Round("chain", p, j + 1, last) = thash(<<last>>, set_hash_addr(set_type(p.addr, "WOTS"), (j + 1) - 1))
  BY DEF Round
<1>3. (j + 1) - 1 = j
  OBVIOUS
<1>4. set_hash_addr(set_type(p.addr, "WOTS"), j) = Rec(l, t, "WOTS", kp, k % Byte, 0, j % Byte)
  BY <1>1, SettersAre
<1>. HIDE DEF p
<1>5. After("chain", p, j + 1) = Round("chain", p, j + 1, After("chain", p, j))
  BY LoopRecurs
<1>. QED
  BY <1>2, <1>3, <1>4, <1>5 DEF p

LEMMA ChainIs ==
  ASSUME NEW sd, NEW l, NEW t, NEW kp, NEW k, NEW j \in 0..(SPX_WOTS_W - 1)
  PROVE  Chain(sd, SubtreeAddr(l, t), kp, k)[j] = After("chain", ChainOf(sd, l, t, kp, k), j)
<1>. DEFINE addr == set_hash_addr(set_chain_addr(set_keypair_addr(SubtreeAddr(l, t), kp), k), 0)
            p == ChainOf(sd, l, t, kp, k)
            n == SPX_WOTS_W - 1
            Is(value) == value = [m \in 0..n |->
                IF m = 0 THEN prf_addr(sd, set_type(addr, "WOTSPRF"))
                ELSE thash(<<value[m - 1]>>, set_hash_addr(set_type(addr, "WOTS"), m - 1))]
<1>1. Chain(sd, SubtreeAddr(l, t), kp, k) = CHOOSE value : Is(value)
  BY DEF Chain
<1>2. addr = p.addr /\ p.seed = sd
  <2>1. 0 % Byte = 0
    BY ByteAssumption
  <2>. QED
    BY <2>1, SettersAre DEF SubtreeAddr, ChainOf
<1>. HIDE DEF addr, p
<1>3. /\ First("chain", p) = prf_addr(p.seed, set_type(p.addr, "WOTSPRF"))
      /\ \A m, last : Round("chain", p, m, last) = thash(<<last>>, set_hash_addr(set_type(p.addr, "WOTS"), m - 1))
  BY DEF First, Round
<1>4. \A value : Is(value) <=> IsLoop("chain", p, n, value)
  BY <1>2, <1>3 DEF IsLoop
<1>5. n \in Nat
  BY WotsAre
<1>. HIDE DEF Is
<1>6. \E value : Is(value)
  BY <1>4, <1>5, LoopExists
<1>7. Is(Chain(sd, SubtreeAddr(l, t), kp, k))
  BY <1>1, <1>6
<1>8. IsLoop("chain", p, n, Chain(sd, SubtreeAddr(l, t), kp, k))
  BY <1>4, <1>7
<1>9. j \in 0..n
  OBVIOUS
<1>. HIDE DEF n
<1>10. Chain(sd, SubtreeAddr(l, t), kp, k)[j] = After("chain", p, j)
  BY <1>5, <1>8, <1>9, LoopIs
<1>. QED
  BY <1>10 DEF p

\* The verifier ends a chain that the signer has begun.
LEMMA GenChainIs ==
  ASSUME NEW sd, NEW l, NEW t, NEW kp, NEW k, NEW z, NEW j \in 0..(SPX_WOTS_W - 1)
  PROVE  gen_chain(Chain(sd, SubtreeAddr(l, t), kp, k)[j], j, SPX_WOTS_W - 1 - j,
                   Rec(l, t, "WOTS", kp, k % Byte, 0, z))
            = Chain(sd, SubtreeAddr(l, t), kp, k)[SPX_WOTS_W - 1]
<1>. DEFINE q == ChainOf(sd, l, t, kp, k)
            start == After("chain", q, j)
            addr == Rec(l, t, "WOTS", kp, k % Byte, 0, z)
            p == [in |-> start, start |-> j, addr |-> addr]
            n == SPX_WOTS_W - 1 - j
            Is(out) == out = [m \in 0..n |->
                IF m = 0 THEN start
                ELSE IF j + m > SPX_WOTS_W THEN out[m - 1]
                ELSE thash(<<out[m - 1]>>, set_hash_addr(addr, j + m - 1))]
            N == {m \in Nat : m <= n => After("steps", p, m) = After("chain", q, j + m)}
<1>1. /\ j \in Nat /\ SPX_WOTS_W \in Nat /\ n \in Nat /\ j + n = SPX_WOTS_W - 1 /\ j + n \in 0..(SPX_WOTS_W - 1)
      /\ j \in 0..(SPX_WOTS_W - 1)
  BY WotsAre
<1>2. Chain(sd, SubtreeAddr(l, t), kp, k)[j] = start
  BY ChainIs
<1>3. Chain(sd, SubtreeAddr(l, t), kp, k)[SPX_WOTS_W - 1] = After("chain", q, j + n)
  BY <1>1, ChainIs
<1>4. gen_chain(start, j, n, addr) = (CHOOSE out : Is(out))[n]
  BY DEF gen_chain
<1>5. p.in = start /\ p.start = j /\ p.addr = addr
  OBVIOUS
<1>6. \A m : set_hash_addr(addr, m) = Rec(l, t, "WOTS", kp, k % Byte, 0, m % Byte)
  BY SettersAre
<1>. HIDE DEF start, addr, p, q, n
<1>7. /\ First("steps", p) = start
      /\ \A m, last : Round("steps", p, m, last) =
             IF j + m > SPX_WOTS_W THEN last ELSE thash(<<last>>, set_hash_addr(addr, j + m - 1))
  BY <1>5 DEF First, Round
<1>8. \A out : Is(out) <=> IsLoop("steps", p, n, out)
  BY <1>7 DEF IsLoop
<1>. HIDE DEF Is
<1>9. gen_chain(start, j, n, addr) = After("steps", p, n)
  BY <1>4, <1>8 DEF After
<1>10. 0 \in N
  <2>1. After("steps", p, 0) = start /\ j + 0 = j
    BY <1>1, <1>7, LoopRecurs
  <2>. QED
    BY <2>1 DEF start
<1>11. ASSUME NEW m \in Nat, m \in N PROVE m + 1 \in N
  <2>. SUFFICES ASSUME m + 1 <= n PROVE After("steps", p, m + 1) = After("chain", q, j + (m + 1))
    OBVIOUS
  <2>1. /\ m <= n /\ ~(j + (m + 1) > SPX_WOTS_W) /\ j + (m + 1) - 1 = j + m /\ j + m \in Nat
        /\ j + (m + 1) = (j + m) + 1
    BY <1>1
  <2>2. After("steps", p, m) = After("chain", q, j + m)
    BY <1>11, <2>1
  <2>3. After("steps", p, m + 1) = Round("steps", p, m + 1, After("steps", p, m))
    BY LoopRecurs
  <2>4. Round("steps", p, m + 1, After("steps", p, m)) = thash(<<After("steps", p, m)>>, set_hash_addr(addr, j + m))
    BY <1>7, <2>1
  <2>5. After("chain", q, (j + m) + 1) = thash(<<After("chain", q, j + m)>>, Rec(l, t, "WOTS", kp, k % Byte, 0, (j + m) % Byte))
    BY <2>1, ChainRecurs DEF q
  <2>. QED
    BY <1>6, <2>1, <2>2, <2>3, <2>4, <2>5
<1>. HIDE DEF N
<1>12. n \in N
  BY <1>1, <1>10, <1>11, NatSetInduction
<1>13. After("steps", p, n) = After("chain", q, j + n)
  BY <1>1, <1>12 DEF N
<1>. QED
  BY <1>2, <1>3, <1>9, <1>13 DEF n, addr

------------------------------------------------------------------------------
(* The trees of the hypertree.                                               *)

LayerLeaf(sd, l, t, kp) ==
    thash([k \in Chains |-> Chain(sd, SubtreeAddr(l, t), kp, k)[SPX_WOTS_W - 1]],
          Rec(l, t, "WOTSPK", kp, 0, 0, 0))

LayerLeaves(sd, l, t) == [kp \in 0..(TwoTo(SPX_TREE_HEIGHT) - 1) |-> LayerLeaf(sd, l, t, kp)]

LayerTree(sd, l, t) == Tree(LayerLeaves(sd, l, t), 0, Rec(l, t, "HASHTREE", 0, 0, 0, 0))

LayerRoot(sd, l, t) == Node(LayerTree(sd, l, t), SPX_TREE_HEIGHT, 0)

\* What a signature of the layer shows: values of the chains, and a path.
Shows(signed, sd, l, t, kp, msg) ==
    /\ \A k \in Chains : signed.wots[k] = Chain(sd, SubtreeAddr(l, t), kp, k)[chain_lengths(msg)[k]]
    /\ \A h \in 0..(SPX_TREE_HEIGHT - 1) : signed.auth[h] = Node(LayerTree(sd, l, t), h, Beside(kp, h))

LEMMA NodeAddrIs ==
  ASSUME NEW l, NEW t, NEW ty, NEW k, NEW x, NEW y, NEW z, NEW h, NEW j, NEW offset
  PROVE  \E x2, y2, z2 : NodeAddr(Rec(l, t, ty, k, x, y, z), h, j, offset) = Rec(l, t, ty, k, x2, y2, z2)
BY SettersAre DEF NodeAddr

\* What merkle_sign returns for key pair idx of a tree.
PairSigned(signed, sd, l, t, idx, msg) ==
    /\ signed.root = LayerRoot(sd, l, t)
    /\ \E x3, y3, z3 : signed.tree_addr = Rec(l, t, "HASHTREE", 0, x3, y3, z3)
    /\ idx < TwoTo(SPX_TREE_HEIGHT) => Shows([wots |-> signed.sig, auth |-> signed.auth], sd, l, t, idx, msg)

LEMMA MerkleSignIs ==
  ASSUME NEW sd, NEW msg, NEW l, NEW t, NEW ty, NEW ty2, NEW k, NEW x, NEW y, NEW z,
         NEW x2, NEW y2, NEW z2, NEW idx \in Nat
  PROVE  PairSigned(merkle_sign(sd, msg, Rec(l, t, ty, k, x, y, z), Rec(l, t, ty2, 0, x2, y2, z2), idx),
                    sd, l, t, idx, msg)
<1>. DEFINE wots == Rec(l, t, ty, k, x, y, z)
            tree == Rec(l, t, ty2, 0, x2, y2, z2)
            signed == merkle_sign(sd, msg, wots, tree, idx)
            base == Rec(l, t, "HASHTREE", 0, 0, 0, 0)
            addr == Rec(l, t, "HASHTREE", 0, x2, y2, z2)
            pk_addr == Rec(l, t, "WOTSPK", 0, 0, 0, 0)
            leaves == [j \in 0..(TwoTo(SPX_TREE_HEIGHT) - 1) |->
                          thash([m \in Chains |-> Chain(sd, SubtreeAddr(l, t), j, m)[SPX_WOTS_W - 1]],
                                set_keypair_addr(pk_addr, j))]
            hashed == treehashx1(idx, 0, SPX_TREE_HEIGHT, leaves, addr)
            p == Tree(leaves, 0, addr)
            q == Tree(leaves, 0, base)
<1>1. /\ copy_subtree_addr(ZeroAddr, wots) = SubtreeAddr(l, t)
      /\ set_type(copy_subtree_addr(ZeroAddr, wots), "WOTSPK") = pk_addr
      /\ set_type(tree, "HASHTREE") = addr
  BY ZeroAddrIs, CopiesAre, SettersAre DEF SubtreeAddr
<1>2. /\ signed.sig = [m \in Chains |-> Chain(sd, SubtreeAddr(l, t), idx, m)[chain_lengths(msg)[m]]]
      /\ signed.auth = hashed.auth /\ signed.root = hashed.root /\ signed.tree_addr = hashed.addr
  <2>. HIDE DEF wots, tree, addr, pk_addr
  <2>. QED
    BY <1>1 DEF merkle_sign
<1>3. leaves = LayerLeaves(sd, l, t)
  <2>1. \A j : set_keypair_addr(pk_addr, j) = Rec(l, t, "WOTSPK", j, 0, 0, 0)
    BY SettersAre
  <2>. HIDE DEF pk_addr
  <2>. QED
    BY <2>1 DEF LayerLeaves, LayerLeaf
<1>. HIDE DEF leaves, signed, hashed, wots, tree
<1>4. q = LayerTree(sd, l, t)
  BY <1>3 DEF LayerTree
<1>5. /\ hashed.root = Node(p, SPX_TREE_HEIGHT, 0)
      /\ hashed.addr = NodeAddr(addr, SPX_TREE_HEIGHT, 0, 0)
      /\ idx < TwoTo(SPX_TREE_HEIGHT) =>
             \A h \in 0..(SPX_TREE_HEIGHT - 1) : hashed.auth[h] = Node(p, h, Beside(idx, h))
  BY TreehashIs, WotsAre DEF hashed
<1>6. \A h \in Nat, j \in Nat : Node(p, h, j) = Node(q, h, j)
  BY SameTreeIs, NodeSame
<1>7. \E x3, y3, z3 : hashed.addr = Rec(l, t, "HASHTREE", 0, x3, y3, z3)
  BY <1>5, NodeAddrIs
<1>. HIDE DEF p, q, addr, base
<1>8. \A h \in 0..(SPX_TREE_HEIGHT - 1) : h \in Nat /\ Beside(idx, h) \in Nat
  <2>. SUFFICES ASSUME NEW h \in 0..(SPX_TREE_HEIGHT - 1) PROVE h \in Nat /\ Beside(idx, h) \in Nat
    OBVIOUS
  <2>1. h \in Nat
    OBVIOUS
  <2>. QED
    BY <2>1, BesideIs
<1>9. hashed.root = LayerRoot(sd, l, t)
  BY <1>4, <1>5, <1>6, WotsAre DEF LayerRoot
<1>10. ASSUME idx < TwoTo(SPX_TREE_HEIGHT)
       PROVE  Shows([wots |-> signed.sig, auth |-> signed.auth], sd, l, t, idx, msg)
  <2>1. \A m \in Chains : signed.sig[m] = Chain(sd, SubtreeAddr(l, t), idx, m)[chain_lengths(msg)[m]]
    BY <1>2
  <2>2. \A h \in 0..(SPX_TREE_HEIGHT - 1) : signed.auth[h] = Node(LayerTree(sd, l, t), h, Beside(idx, h))
    BY <1>2, <1>4, <1>5, <1>6, <1>8, <1>10
  <2>. QED
    BY <2>1, <2>2 DEF Shows
<1>11. PairSigned(signed, sd, l, t, idx, msg)
  BY <1>2, <1>7, <1>9, <1>10 DEF PairSigned
<1>. QED
  BY <1>11 DEF signed, wots, tree

\* What a verifier computes from a layer's signature, and leaves in its addresses.
LayerVerified(signed, msg, wots_addr, leaf_idx, tree_addr) ==
    LET key == wots_pk_from_sig(signed.wots, msg, wots_addr)
        leaf == thash(key.pk, copy_keypair_addr(set_type(ZeroAddr, "WOTSPK"), key.addr))
        computed == compute_root(leaf, leaf_idx, 0, signed.auth, SPX_TREE_HEIGHT, tree_addr)
    IN  [root |-> computed.root, wots |-> key.addr, tree |-> computed.addr]

\* That this is right for a key pair kp of tree t.
RootComputed(verified, sd, l, t, kp) ==
    /\ verified.root = LayerRoot(sd, l, t)
    /\ \E x, z : verified.wots = Rec(l, t, "WOTS", kp, x, 0, z)
    /\ \E x, y, z : verified.tree = Rec(l, t, "HASHTREE", 0, x, y, z)

LEMMA VerifyLayerIs ==
  ASSUME NEW sd, NEW l, NEW t, NEW kp \in Nat, kp < TwoTo(SPX_TREE_HEIGHT), NEW msg \in Bytes,
         NEW signed, Shows(signed, sd, l, t, kp, msg), NEW x, NEW z, NEW x2, NEW y2, NEW z2
  PROVE  RootComputed(LayerVerified(signed, msg, Rec(l, t, "WOTS", kp, x, 0, z), kp,
                                    Rec(l, t, "HASHTREE", 0, x2, y2, z2)),
                      sd, l, t, kp)
<1>. DEFINE addr == Rec(l, t, "WOTS", kp, x, 0, z)
            base == Rec(l, t, "HASHTREE", 0, 0, 0, 0)
            tree == Rec(l, t, "HASHTREE", 0, x2, y2, z2)
            lengths == chain_lengths(msg)
            key == wots_pk_from_sig(signed.wots, msg, addr)
            leaf == thash(key.pk, copy_keypair_addr(set_type(ZeroAddr, "WOTSPK"), key.addr))
            computed == compute_root(leaf, kp, 0, signed.auth, SPX_TREE_HEIGHT, tree)
            left == set_chain_addr(addr, SPX_WOTS_LEN - 1)
<1>1. \A k : set_chain_addr(addr, k) = Rec(l, t, "WOTS", kp, k % Byte, 0, z)
  BY SettersAre
<1>2. ASSUME NEW k \in Chains
      PROVE  gen_chain(signed.wots[k], lengths[k], SPX_WOTS_W - 1 - lengths[k], set_chain_addr(addr, k))
                = Chain(sd, SubtreeAddr(l, t), kp, k)[SPX_WOTS_W - 1]
  <2>1. signed.wots[k] = Chain(sd, SubtreeAddr(l, t), kp, k)[lengths[k]]
    BY DEF Shows
  <2>2. lengths[k] \in 0..(SPX_WOTS_W - 1)
    BY LengthsAre
  <2>. HIDE DEF lengths
  <2>3. gen_chain(Chain(sd, SubtreeAddr(l, t), kp, k)[lengths[k]], lengths[k], SPX_WOTS_W - 1 - lengths[k],
                  Rec(l, t, "WOTS", kp, k % Byte, 0, z))
           = Chain(sd, SubtreeAddr(l, t), kp, k)[SPX_WOTS_W - 1]
    BY <2>2, GenChainIs
  <2>. QED
    BY <1>1, <2>1, <2>3
<1>3. /\ key.pk = [k \in Chains |-> gen_chain(signed.wots[k], lengths[k], SPX_WOTS_W - 1 - lengths[k], set_chain_addr(addr, k))]
      /\ key.addr = left \/ key.addr = set_hash_addr(left, SPX_WOTS_W - 2)
  <2>. HIDE DEF addr
  <2>. QED
    BY DEF wots_pk_from_sig
<1>. HIDE DEF key
<1>4. key.pk = [k \in Chains |-> Chain(sd, SubtreeAddr(l, t), kp, k)[SPX_WOTS_W - 1]]
  <2>. HIDE DEF addr, lengths
  <2>. QED
    BY <1>2, <1>3
<1>5. PICK x3, z3 : key.addr = Rec(l, t, "WOTS", kp, x3, 0, z3)
  <2>1. left = Rec(l, t, "WOTS", kp, (SPX_WOTS_LEN - 1) % Byte, 0, z)
    BY <1>1
  <2>. HIDE DEF left
  <2>2. set_hash_addr(left, SPX_WOTS_W - 2) = Rec(l, t, "WOTS", kp, (SPX_WOTS_LEN - 1) % Byte, 0, (SPX_WOTS_W - 2) % Byte)
    BY <2>1, SettersAre
  <2>. QED
    BY <1>3, <2>1, <2>2
<1>6. copy_keypair_addr(set_type(ZeroAddr, "WOTSPK"), key.addr) = Rec(l, t, "WOTSPK", kp, 0, 0, 0)
  <2>1. set_type(ZeroAddr, "WOTSPK") = Rec(0, 0, "WOTSPK", 0, 0, 0, 0)
    BY ZeroAddrIs, SettersAre
  <2>. QED
    BY <1>5, <2>1, CopiesAre
<1>7. leaf = LayerLeaf(sd, l, t, kp)
  BY <1>4, <1>6 DEF LayerLeaf
<1>8. leaf = LayerLeaves(sd, l, t)[kp + 0]
  <2>1. kp + 0 = kp /\ kp \in 0..(TwoTo(SPX_TREE_HEIGHT) - 1)
    BY TwoToPositive, WotsAre
  <2>. HIDE DEF leaf
  <2>. QED
    BY <1>7, <2>1 DEF LayerLeaves
<1>9. SameTree(tree, base)
  BY SameTreeIs
<1>10. \A h \in 0..(SPX_TREE_HEIGHT - 1) : signed.auth[h] = Node(Tree(LayerLeaves(sd, l, t), 0, base), h, Beside(kp, h))
  BY DEF Shows, LayerTree
<1>. HIDE DEF leaf, base
<1>11. /\ computed.root = Node(Tree(LayerLeaves(sd, l, t), 0, base), SPX_TREE_HEIGHT, 0)
       /\ computed.addr = NodeAddr(tree, SPX_TREE_HEIGHT, kp, 0)
  <2>. DEFINE leaves == LayerLeaves(sd, l, t)  auth == signed.auth  zero == 0  n == SPX_TREE_HEIGHT
  <2>1. leaf = leaves[kp + zero] /\ \A h \in 0..(n - 1) : auth[h] = Node(Tree(leaves, zero, base), h, Beside(kp, h))
    BY <1>8, <1>10
  <2>2. n \in Nat /\ kp < TwoTo(n)
    BY WotsAre
  <2>. HIDE DEF leaves, auth, tree, zero, n
  <2>3. compute_root(leaf, kp, zero, auth, n, tree).root = Node(Tree(leaves, zero, base), n, 0)
    BY ONLY <1>9, <2>1, <2>2, kp \in Nat, ComputeRootIs
  <2>4. compute_root(leaf, kp, zero, auth, n, tree).addr = NodeAddr(tree, n, kp, zero)
    BY DEF compute_root
  <2>. QED
    BY <2>3, <2>4 DEF leaves, auth, zero, n
<1>12. \E x4, y4, z4 : computed.addr = Rec(l, t, "HASHTREE", 0, x4, y4, z4)
  BY <1>11, NodeAddrIs
<1>13. computed.root = LayerRoot(sd, l, t)
  BY <1>11 DEF LayerRoot, LayerTree, base
<1>. DEFINE verified == LayerVerified(signed, msg, addr, kp, tree)
<1>14. verified.root = computed.root /\ verified.wots = key.addr /\ verified.tree = computed.addr
  <2>. HIDE DEF addr, tree
  <2>. QED
    BY DEF LayerVerified, key, leaf
<1>. HIDE DEF verified, computed
<1>15. RootComputed(verified, sd, l, t, kp)
  BY <1>5, <1>12, <1>13, <1>14 DEF RootComputed
<1>. QED
  BY <1>15 DEF verified, addr, tree

------------------------------------------------------------------------------
(* Positions in the hypertree.                                               *)

Pos(tr, lf, w, a) == [tree |-> tr, leaf |-> lf, wots |-> w, treeAddr |-> a]

\* The tree and the key pair of layer n for a digest.
TreeAt(d, n) == Shift(d.tree, n * SPX_TREE_HEIGHT)
LeafAt(d, n) == IF n = 0 THEN d.leaf ELSE TreeAt(d, n - 1) % TwoTo(SPX_TREE_HEIGHT)

WotsAddress(w) == \E l, t, k, x, z : w = Rec(l, t, "WOTS", k, x, 0, z)
TreeAddress(a) == \E l, t, x, y, z : a = Rec(l, t, "HASHTREE", 0, x, y, z)

\* A participant is about to set its addresses for layer n.
AtLayer(d, p, n) ==
    \E w, a : WotsAddress(w) /\ TreeAddress(a) /\ p = Pos(TreeAt(d, n), LeafAt(d, n), w, a)

\* The updates of a position, each under a name of its own.
TreeReplaced(p, u) == [p EXCEPT !.treeAddr = u]
TreeWotsReplaced(p, u, v) == [p EXCEPT !.treeAddr = u, !.wots = v]
WotsTreeReplaced(p, v, u) == [p EXCEPT !.wots = v, !.treeAddr = u]
IndicesReplaced(p, v, u) == [p EXCEPT !.leaf = v, !.tree = u]

LEMMA PosUpdates ==
  ASSUME NEW tr, NEW lf, NEW w, NEW a, NEW u, NEW v
  PROVE  /\ TreeReplaced(Pos(tr, lf, w, a), u) = Pos(tr, lf, w, u)
         /\ TreeWotsReplaced(Pos(tr, lf, w, a), u, v) = Pos(tr, lf, v, u)
         /\ WotsTreeReplaced(Pos(tr, lf, w, a), v, u) = Pos(tr, lf, v, u)
         /\ IndicesReplaced(Pos(tr, lf, w, a), v, u) = Pos(u, v, w, a)
<1>. DEFINE f == Pos(tr, lf, w, a)
            F == {"tree", "leaf", "wots", "treeAddr"}
<1>1. f = [g \in F |-> f[g]]
  BY DEF Pos
<1>2. [f EXCEPT !.treeAddr = u] = Pos(tr, lf, w, u)
  BY DEF Pos
<1>3. Pos(tr, lf, v, u) = [g \in F |-> IF g = "wots" THEN v ELSE IF g = "treeAddr" THEN u ELSE f[g]]
  BY DEF Pos
<1>4. Pos(u, v, w, a) = [g \in F |-> IF g = "leaf" THEN v ELSE IF g = "tree" THEN u ELSE f[g]]
  BY DEF Pos
<1>5. [f EXCEPT !.treeAddr = u, !.wots = v] = Pos(tr, lf, v, u)
  BY <1>1, <1>3
<1>6. [f EXCEPT !.wots = v, !.treeAddr = u] = Pos(tr, lf, v, u)
  BY <1>1, <1>3
<1>7. [f EXCEPT !.leaf = v, !.tree = u] = Pos(u, v, w, a)
  BY <1>1, <1>4
<1>. QED
  BY <1>2, <1>5, <1>6, <1>7 DEF TreeReplaced, TreeWotsReplaced, WotsTreeReplaced, IndicesReplaced

LEMMA PosFields ==
  ASSUME NEW tr, NEW lf, NEW w, NEW a
  PROVE  /\ Pos(tr, lf, w, a).tree = tr /\ Pos(tr, lf, w, a).leaf = lf
         /\ Pos(tr, lf, w, a).wots = w /\ Pos(tr, lf, w, a).treeAddr = a
BY DEF Pos

LEMMA SetLayerPos ==
  ASSUME NEW tr, NEW lf, NEW l, NEW t, NEW k, NEW x, NEW z, NEW l2, NEW t2, NEW x2, NEW y2, NEW z2, NEW layer
  PROVE  SetLayer(Pos(tr, lf, Rec(l, t, "WOTS", k, x, 0, z), Rec(l2, t2, "HASHTREE", 0, x2, y2, z2)), layer)
            = Pos(tr, lf, Rec(layer % Byte, tr, "WOTS", lf, x, 0, z), Rec(layer % Byte, tr, "HASHTREE", 0, x2, y2, z2))
<1>. DEFINE w == Rec(l, t, "WOTS", k, x, 0, z)
            a == Rec(l2, t2, "HASHTREE", 0, x2, y2, z2)
            w2 == Rec(layer % Byte, tr, "WOTS", lf, x, 0, z)
            a2 == Rec(layer % Byte, tr, "HASHTREE", 0, x2, y2, z2)
            p == Pos(tr, lf, w, a)
<1>1. set_tree_addr(set_layer_addr(a, layer), tr) = a2
  BY SettersAre
<1>2. copy_subtree_addr(w, a2) = Rec(layer % Byte, tr, "WOTS", k, x, 0, z)
  BY CopiesAre
<1>3. set_keypair_addr(Rec(layer % Byte, tr, "WOTS", k, x, 0, z), lf) = w2
  BY SettersAre
<1>4. p.treeAddr = a /\ p.tree = tr /\ p.wots = w /\ p.leaf = lf
  BY PosFields
<1>. HIDE DEF w, a, w2, a2
<1>5. SetLayer(p, layer) = TreeWotsReplaced(p, a2, w2)
  <2>. HIDE DEF p
  <2>. QED
    BY <1>1, <1>2, <1>3, <1>4 DEF SetLayer, TreeWotsReplaced
<1>6. TreeWotsReplaced(p, a2, w2) = Pos(tr, lf, w2, a2)
  BY PosUpdates
<1>. QED
  BY <1>5, <1>6 DEF w, a, w2, a2

LEMMA AscendPos ==
  ASSUME NEW tr, NEW lf, NEW w, NEW a
  PROVE  Ascend(Pos(tr, lf, w, a)) = Pos(Shift(tr, SPX_TREE_HEIGHT), tr % TwoTo(SPX_TREE_HEIGHT), w, a)
<1>. DEFINE p == Pos(tr, lf, w, a)
<1>. DEFINE v == tr % TwoTo(SPX_TREE_HEIGHT)  u == Shift(tr, SPX_TREE_HEIGHT)
<1>1. p.tree = tr
  BY PosFields
<1>2. Ascend(p) = IndicesReplaced(p, v, u)
  <2>. HIDE DEF p
  <2>. QED
    BY <1>1 DEF Ascend, IndicesReplaced
<1>. HIDE DEF u, v
<1>3. IndicesReplaced(p, v, u) = Pos(u, v, w, a)
  BY PosUpdates
<1>. QED
  BY <1>2, <1>3 DEF u, v

LEMMA LayerSet ==
  ASSUME NEW d, NEW p, NEW n \in Nat, AtLayer(d, p, n), NEW layer
  PROVE  \E x, z, x2, y2, z2 :
            SetLayer(p, layer) = Pos(TreeAt(d, n), LeafAt(d, n),
                                     Rec(layer % Byte, TreeAt(d, n), "WOTS", LeafAt(d, n), x, 0, z),
                                     Rec(layer % Byte, TreeAt(d, n), "HASHTREE", 0, x2, y2, z2))
<1>1. PICK w, a : WotsAddress(w) /\ TreeAddress(a) /\ p = Pos(TreeAt(d, n), LeafAt(d, n), w, a)
  BY DEF AtLayer
<1>2. PICK l, t, k, x, z : w = Rec(l, t, "WOTS", k, x, 0, z)
  BY <1>1 DEF WotsAddress
<1>3. PICK l2, t2, x2, y2, z2 : a = Rec(l2, t2, "HASHTREE", 0, x2, y2, z2)
  BY <1>1 DEF TreeAddress
<1>4. SetLayer(p, layer) = Pos(TreeAt(d, n), LeafAt(d, n),
                               Rec(layer % Byte, TreeAt(d, n), "WOTS", LeafAt(d, n), x, 0, z),
                               Rec(layer % Byte, TreeAt(d, n), "HASHTREE", 0, x2, y2, z2))
  BY <1>1, <1>2, <1>3, SetLayerPos
<1>. QED
  BY <1>4

LEMMA NextTree ==
  ASSUME NEW d, d.tree \in Nat, NEW n \in Nat
  PROVE  /\ TreeAt(d, n) \in Nat
         /\ TreeAt(d, n + 1) = Shift(TreeAt(d, n), SPX_TREE_HEIGHT)
         /\ LeafAt(d, n + 1) = TreeAt(d, n) % TwoTo(SPX_TREE_HEIGHT)
<1>. DEFINE H == SPX_TREE_HEIGHT  m == n * H
<1>1. m \in Nat /\ H \in Nat /\ (n + 1) * H = m + H
  BY WotsAre
<1>2. TreeAt(d, n) = Shift(d.tree, m) /\ TreeAt(d, n + 1) = Shift(d.tree, m + H)
  BY <1>1 DEF TreeAt
<1>. HIDE DEF m, H
<1>3. Shift(d.tree, m) \in Nat /\ Shift(d.tree, m + H) = Shift(Shift(d.tree, m), H)
  BY <1>1, ShiftNat, ShiftShift
<1>4. n + 1 # 0 /\ (n + 1) - 1 = n
  OBVIOUS
<1>5. LeafAt(d, n + 1) = TreeAt(d, n) % TwoTo(SPX_TREE_HEIGHT)
  BY <1>4 DEF LeafAt
<1>. QED
  BY <1>2, <1>3, <1>5 DEF H

LEMMA AscendAt ==
  ASSUME NEW d, d.tree \in Nat, NEW n \in Nat, NEW w, NEW a, WotsAddress(w), TreeAddress(a)
  PROVE  AtLayer(d, Ascend(Pos(TreeAt(d, n), LeafAt(d, n), w, a)), n + 1)
<1>1. Ascend(Pos(TreeAt(d, n), LeafAt(d, n), w, a)) = Pos(TreeAt(d, n + 1), LeafAt(d, n + 1), w, a)
  BY AscendPos, NextTree
<1>. QED
  BY <1>1 DEF AtLayer

LEMMA StartAt ==
  ASSUME NEW d
  PROVE  d.tree \in Nat => AtLayer(d, At(d), 0)
<1>. SUFFICES ASSUME d.tree \in Nat PROVE AtLayer(d, At(d), 0)
  OBVIOUS
<1>. DEFINE w == Rec(0, d.tree, "WOTS", d.leaf, 0, 0, 0)
            a == Rec(0, 0, "HASHTREE", 0, 0, 0, 0)
<1>1. set_keypair_addr(set_tree_addr(ZeroAddr, d.tree), d.leaf) = w /\ set_type(ZeroAddr, "HASHTREE") = a
  BY ZeroAddrIs, SettersAre
<1>2. WotsAddress(w) /\ TreeAddress(a)
  BY DEF WotsAddress, TreeAddress
<1>. HIDE DEF w, a
<1>3. At(d) = Pos(d.tree, d.leaf, w, a)
  BY <1>1 DEF At, Pos
<1>4. TreeAt(d, 0) = d.tree /\ LeafAt(d, 0) = d.leaf
  <2>1. 0 * SPX_TREE_HEIGHT = 0
    BY WotsAre
  <2>. QED
    BY <2>1, ShiftIs DEF TreeAt, LeafAt
<1>. QED
  BY <1>2, <1>3, <1>4 DEF AtLayer

LEMMA GenAddrIs ==
  ASSUME NEW d, d.tree \in Nat, NEW p, AtLayer(d, p, 0), NEW idx \in Nat
  PROVE  AtLayer(d, tss_gen_addr(idx, p), idx)
<1>. DEFINE Is(at) == at = [k \in 0..idx |-> IF k = 0 THEN p ELSE Ascend(SetLayer(at[k - 1], k - 1))]
            N == {n \in Nat : AtLayer(d, After("at", p, n), n)}
<1>1. tss_gen_addr(idx, p) = (CHOOSE at : Is(at))[idx]
  BY DEF tss_gen_addr
<1>2. First("at", p) = p /\ \A k, last : Round("at", p, k, last) = Ascend(SetLayer(last, k - 1))
  BY DEF First, Round
<1>3. \A at : Is(at) <=> IsLoop("at", p, idx, at)
  BY <1>2 DEF IsLoop
<1>. HIDE DEF Is
<1>4. tss_gen_addr(idx, p) = After("at", p, idx)
  BY <1>1, <1>3 DEF After
<1>5. 0 \in N
  BY <1>2, LoopRecurs
<1>6. ASSUME NEW n \in Nat, n \in N PROVE n + 1 \in N
  <2>. DEFINE last == After("at", p, n)
  <2>1. AtLayer(d, last, n)
    BY <1>6
  <2>2. After("at", p, n + 1) = Ascend(SetLayer(last, (n + 1) - 1))
    BY <1>2, LoopRecurs
  <2>. HIDE DEF last
  <2>. DEFINE m == (n + 1) - 1
  <2>. HIDE DEF m
  <2>3. PICK x, z, x2, y2, z2 :
           SetLayer(last, m) = Pos(TreeAt(d, n), LeafAt(d, n),
                                   Rec(m % Byte, TreeAt(d, n), "WOTS", LeafAt(d, n), x, 0, z),
                                   Rec(m % Byte, TreeAt(d, n), "HASHTREE", 0, x2, y2, z2))
    BY <2>1, LayerSet
  <2>4. /\ WotsAddress(Rec(m % Byte, TreeAt(d, n), "WOTS", LeafAt(d, n), x, 0, z))
        /\ TreeAddress(Rec(m % Byte, TreeAt(d, n), "HASHTREE", 0, x2, y2, z2))
    BY DEF WotsAddress, TreeAddress
  <2>5. AtLayer(d, Ascend(SetLayer(last, m)), n + 1)
    BY <2>3, <2>4, AscendAt
  <2>. QED
    BY <2>2, <2>5 DEF m
<1>. HIDE DEF N
<1>7. idx \in N
  BY <1>5, <1>6, NatSetInduction
<1>. QED
  BY <1>4, <1>7 DEF N

LEMMA InputIs ==
  ASSUME NEW d \in Inputs
  PROVE  /\ d.tree \in Nat /\ d.leaf \in Nat /\ d.leaf < TwoTo(SPX_TREE_HEIGHT)
         /\ d.tree < TwoTo(SPX_TREE_HEIGHT * (SPX_D - 1))
         /\ d.t \in Nat /\ d.t <= SPX_D - 1 /\ \A k \in 1..SPX_D : d.bytes[k] \in Bytes
         /\ SPX_D \in Nat /\ SPX_D >= 2 /\ SPX_D <= Byte /\ Byte \in Nat
<1>1. /\ SPX_D \in Nat /\ SPX_D >= 2 /\ SPX_D <= Byte /\ Byte \in Nat
      /\ d.tree \in 0..(TwoTo(SPX_TREE_HEIGHT * (SPX_D - 1)) - 1)
      /\ d.leaf \in 0..(TwoTo(SPX_TREE_HEIGHT) - 1)
      /\ d.t \in 0..(SPX_D - 1) /\ d.bytes \in [1..SPX_D -> Bytes]
  BY HypertreeAssumption, ByteAssumption
<1>2. SPX_TREE_HEIGHT * (SPX_D - 1) \in Nat /\ SPX_TREE_HEIGHT \in Nat
  BY <1>1, WotsAre
<1>3. TwoTo(SPX_TREE_HEIGHT * (SPX_D - 1)) \in Nat /\ TwoTo(SPX_TREE_HEIGHT) \in Nat
  BY <1>2, TwoToPositive
<1>. QED
  BY <1>1, <1>3

LEMMA LeafBelow ==
  ASSUME NEW d \in Inputs, NEW n \in Nat
  PROVE  LeafAt(d, n) \in Nat /\ LeafAt(d, n) < TwoTo(SPX_TREE_HEIGHT)
<1>1. CASE n = 0
  BY <1>1, InputIs DEF LeafAt
<1>2. CASE n # 0
  <2>1. n - 1 \in Nat /\ d.tree \in Nat
    BY <1>2, InputIs
  <2>2. TreeAt(d, n - 1) \in Nat
    BY <2>1, NextTree
  <2>3. TwoTo(SPX_TREE_HEIGHT) \in Nat /\ TwoTo(SPX_TREE_HEIGHT) > 0
    BY TwoToPositive, WotsAre
  <2>4. LeafAt(d, n) = TreeAt(d, n - 1) % TwoTo(SPX_TREE_HEIGHT)
    BY <1>2 DEF LeafAt
  <2>. QED
    BY <2>2, <2>3, <2>4
<1>. QED
  BY <1>1, <1>2

LEMMA TopTree ==
  ASSUME NEW d \in Inputs
  PROVE  TreeAt(d, SPX_D - 1) = 0
<1>. DEFINE n == SPX_TREE_HEIGHT * (SPX_D - 1)  m == (SPX_D - 1) * SPX_TREE_HEIGHT
<1>1. n \in Nat /\ n = m
  BY WotsAre, InputIs
<1>2. d.tree \in Nat /\ d.tree < TwoTo(n)
  BY InputIs
<1>3. TreeAt(d, SPX_D - 1) = Shift(d.tree, m)
  BY DEF TreeAt
<1>. HIDE DEF n, m
<1>4. Shift(d.tree, n) = 0
  BY <1>1, <1>2, ShiftOut
<1>. QED
  BY <1>1, <1>3, <1>4

------------------------------------------------------------------------------
(* The FORS trees.                                                           *)

LEMMA ForsAre ==
  /\ SPX_FORS_TREES \in Nat /\ SPX_FORS_HEIGHT \in Nat /\ SPX_FORS_HEIGHT > 0
  /\ \A d \in Inputs : \A b \in 0..(SPX_FORS_TREES * SPX_FORS_HEIGHT - 1) : d.bits[b] \in {0, 1}
<1>1. SPX_FORS_TREES \in Nat /\ SPX_FORS_HEIGHT \in Nat /\ SPX_FORS_HEIGHT > 0
  BY ForsAssumption
<1>2. ASSUME NEW d \in Inputs, NEW b \in 0..(SPX_FORS_TREES * SPX_FORS_HEIGHT - 1) PROVE d.bits[b] \in {0, 1}
  <2>1. d.bits \in [0..(SPX_FORS_TREES * SPX_FORS_HEIGHT - 1) -> {0, 1}]
    BY ForsAssumption
  <2>. QED
    BY <2>1
<1>. QED
  BY <1>1, <1>2

LEMMA TimesMonotone ==
  ASSUME NEW a \in Nat, NEW b \in Nat, a <= b, NEW n \in Nat
  PROVE  a * n <= b * n
OBVIOUS

LEMMA IndexIs ==
  ASSUME input \in Inputs, NEW tree \in Trees
  PROVE  Index(tree) \in Nat /\ Index(tree) < TwoTo(SPX_FORS_HEIGHT)
<1>. DEFINE n == SPX_FORS_HEIGHT
            p == [bits |-> input.bits, tree |-> tree]
            Is(indices) == indices =
                [j \in 0..n |-> IF j = 0 THEN 0
                                ELSE indices[j - 1] + input.bits[tree * SPX_FORS_HEIGHT + (j - 1)] * TwoTo(j - 1)]
            N == {j \in Nat : j <= n => After("index", p, j) \in Nat /\ After("index", p, j) < TwoTo(j)}
<1>1. Index(tree) = (CHOOSE indices : Is(indices))[n]
  BY DEF Index
<1>2. /\ First("index", p) = 0
      /\ \A j, last : Round("index", p, j, last)
             = last + input.bits[tree * SPX_FORS_HEIGHT + (j - 1)] * TwoTo(j - 1)
  BY DEF First, Round
<1>3. \A indices : Is(indices) <=> IsLoop("index", p, n, indices)
  BY <1>2 DEF IsLoop
<1>. HIDE DEF Is
<1>4. Index(tree) = After("index", p, n)
  BY <1>1, <1>3 DEF After
<1>5. 0 \in N
  BY <1>2, LoopRecurs, TwoToIs
<1>6. ASSUME NEW j \in Nat, j \in N PROVE j + 1 \in N
  <2>. SUFFICES ASSUME j + 1 <= n PROVE After("index", p, j + 1) \in Nat /\ After("index", p, j + 1) < TwoTo(j + 1)
    OBVIOUS
  <2>. DEFINE last == After("index", p, j)  b == input.bits[tree * SPX_FORS_HEIGHT + j]
  <2>1. last \in Nat /\ last < TwoTo(j) /\ (j + 1) - 1 = j
    BY <1>6, ForsAre
  <2>2. After("index", p, j + 1) = last + b * TwoTo(j)
    BY <1>2, <2>1, LoopRecurs
  <2>3. b \in {0, 1}
    <3>1. tree \in Nat /\ tree + 1 <= SPX_FORS_TREES /\ SPX_FORS_TREES \in Nat /\ SPX_FORS_HEIGHT \in Nat
      BY ForsAre DEF Trees
    <3>2. (tree + 1) * SPX_FORS_HEIGHT <= SPX_FORS_TREES * SPX_FORS_HEIGHT
      BY <3>1, TimesMonotone
    <3>3. (tree + 1) * SPX_FORS_HEIGHT = tree * SPX_FORS_HEIGHT + SPX_FORS_HEIGHT /\ tree * SPX_FORS_HEIGHT \in Nat
          /\ SPX_FORS_TREES * SPX_FORS_HEIGHT \in Nat
      BY <3>1
    <3>4. tree * SPX_FORS_HEIGHT + j \in 0..(SPX_FORS_TREES * SPX_FORS_HEIGHT - 1)
      BY <3>1, <3>2, <3>3
    <3>. QED
      BY <3>4, ForsAre
  <2>4. TwoTo(j) \in Nat /\ TwoTo(j + 1) = 2 * TwoTo(j)
    BY TwoToPositive, TwoToIs
  <2>. HIDE DEF last, b
  <2>5. b * TwoTo(j) = 0 \/ b * TwoTo(j) = TwoTo(j)
    BY <2>3, <2>4
  <2>. QED
    BY <2>1, <2>2, <2>4, <2>5
<1>. HIDE DEF N
<1>7. n \in N
  BY <1>5, <1>6, NatSetInduction, ForsAre
<1>. QED
  BY <1>4, <1>7, ForsAre DEF N

\* The place of a tree's selected leaf among the leaves of all the trees.
Selected(tree) == Index(tree) + Offset(tree)

LEMMA SelectedIs ==
  ASSUME input \in Inputs, NEW tree \in Trees
  PROVE  Selected(tree) \in 0..(SPX_FORS_TREES * TwoTo(SPX_FORS_HEIGHT) - 1)
<1>. DEFINE w == TwoTo(SPX_FORS_HEIGHT)
<1>1. tree \in Nat /\ tree + 1 <= SPX_FORS_TREES /\ SPX_FORS_TREES \in Nat /\ w \in Nat
  BY ForsAre, TwoToPositive DEF Trees
<1>2. Index(tree) \in Nat /\ Index(tree) < w
  BY IndexIs
<1>. HIDE DEF w
<1>3. (tree + 1) * w <= SPX_FORS_TREES * w
  BY <1>1, TimesMonotone
<1>4. (tree + 1) * w = tree * w + w /\ tree * w \in Nat /\ SPX_FORS_TREES * w \in Nat
  BY <1>1
<1>5. Selected(tree) = Index(tree) + tree * w
  BY DEF Selected, Offset, w
<1>. QED
  BY <1>2, <1>3, <1>4, <1>5, <1>1 DEF w

ForsRec(ty, x, y, z) == Rec(0, input.tree, ty, input.leaf, x, y, z)
SecretAt(m) == prf_addr(ForsSeed, ForsRec("FORSPRF", 0, m \div Byte, m % Byte))
ForsTree(tree) == Tree(Leaves, Offset(tree), ForsRec("FORSTREE", 0, 0, 0))
ForsRoot(tree) == Node(ForsTree(tree), SPX_FORS_HEIGHT, 0)

\* What a signature shows of a tree: the selected secret and its path.
Opens(shown, tree) ==
    /\ shown.sk = SecretAt(Selected(tree))
    /\ \A h \in 0..(SPX_FORS_HEIGHT - 1) : shown.auth[h] = Node(ForsTree(tree), h, Beside(Index(tree), h))

LEMMA ForsAddrIs ==
  /\ ForsAddr = ForsRec("WOTS", 0, 0, 0)
  /\ copy_keypair_addr(ZeroAddr, ForsAddr) = ForsRec("WOTS", 0, 0, 0)
  /\ set_type(copy_keypair_addr(ZeroAddr, ForsAddr), "FORSTREE") = ForsRec("FORSTREE", 0, 0, 0)
<1>1. ForsAddr = ForsRec("WOTS", 0, 0, 0)
  BY ZeroAddrIs, SettersAre DEF ForsAddr, ForsRec
<1>2. copy_keypair_addr(ZeroAddr, ForsAddr) = ForsRec("WOTS", 0, 0, 0)
  BY <1>1, ZeroAddrIs, CopiesAre DEF ForsRec
<1>3. set_type(ForsRec("WOTS", 0, 0, 0), "FORSTREE") = ForsRec("FORSTREE", 0, 0, 0)
  BY SettersAre DEF ForsRec
<1>. QED
  BY <1>1, <1>2, <1>3

LEMMA ForsLeafIs ==
  ASSUME NEW m \in 0..(SPX_FORS_TREES * TwoTo(SPX_FORS_HEIGHT) - 1)
  PROVE  Leaves[m] = thash(<<SecretAt(m)>>, ForsRec("FORSTREE", 0, m \div Byte, m % Byte))
<1>. DEFINE addr == set_tree_index(copy_keypair_addr(ZeroAddr, ForsAddr), m)
<1>1. Leaves[m] = thash(<<prf_addr(ForsSeed, set_type(addr, "FORSPRF"))>>, set_type(addr, "FORSTREE"))
  BY DEF Leaves
<1>2. addr = ForsRec("WOTS", 0, m \div Byte, m % Byte)
  BY ForsAddrIs, SettersAre DEF ForsRec
<1>. HIDE DEF addr
<1>3. /\ set_type(addr, "FORSPRF") = ForsRec("FORSPRF", 0, m \div Byte, m % Byte)
      /\ set_type(addr, "FORSTREE") = ForsRec("FORSTREE", 0, m \div Byte, m % Byte)
  BY <1>2, SettersAre DEF ForsRec
<1>. QED
  BY <1>1, <1>3 DEF SecretAt

LEMMA ZeroByte == 0 % Byte = 0
BY ByteAssumption

LEMMA LeafAddrIs ==
  ASSUME NEW ty, NEW x, NEW y, NEW z, NEW tree
  PROVE  LeafAddr(ForsRec(ty, x, y, z), tree) = ForsRec(ty, 0, Selected(tree) \div Byte, Selected(tree) % Byte)
BY ZeroByte, SettersAre DEF LeafAddr, ForsRec, Selected

\* One tree is signed.
LEMMA SignTreeIs ==
  ASSUME input \in Inputs, NEW tree \in Trees, NEW ty, NEW x, NEW y, NEW z
  PROVE  LET addr == LeafAddr(ForsRec(ty, x, y, z), tree)
             hashed == treehashx1(Index(tree), Offset(tree), SPX_FORS_HEIGHT, Leaves, set_type(addr, "FORSTREE"))
         IN  /\ Opens([sk |-> prf_addr(ForsSeed, set_type(addr, "FORSPRF")), auth |-> hashed.auth], tree)
             /\ hashed.root = ForsRoot(tree)
             /\ \E x2, y2, z2 : hashed.addr = ForsRec("FORSTREE", x2, y2, z2)
<1>. DEFINE m == Selected(tree)
            addr == LeafAddr(ForsRec(ty, x, y, z), tree)
            base == ForsRec("FORSTREE", 0, 0, 0)
            here == ForsRec("FORSTREE", 0, m \div Byte, m % Byte)
            n == SPX_FORS_HEIGHT
            hashed == treehashx1(Index(tree), Offset(tree), n, Leaves, here)
            p == Tree(Leaves, Offset(tree), here)
            sk == prf_addr(ForsSeed, set_type(addr, "FORSPRF"))
<1>1. addr = ForsRec(ty, 0, m \div Byte, m % Byte)
  BY LeafAddrIs
<1>2. set_type(addr, "FORSTREE") = here /\ sk = SecretAt(m)
  <2>1. /\ set_type(addr, "FORSTREE") = here
        /\ set_type(addr, "FORSPRF") = ForsRec("FORSPRF", 0, m \div Byte, m % Byte)
    BY <1>1, SettersAre DEF ForsRec
  <2>. QED
    BY <2>1 DEF SecretAt
<1>3. Index(tree) \in Nat /\ Index(tree) < TwoTo(n) /\ n \in Nat
  BY IndexIs, ForsAre
<1>4. SameTree(here, base)
  BY SameTreeIs DEF ForsRec
<1>. HIDE DEF here, base, n, addr, sk
<1>5. hashed.root = Node(p, n, 0) /\ hashed.addr = NodeAddr(here, n, 0, Offset(tree))
  BY <1>3, TreehashIs
<1>6. \A h \in 0..(n - 1) : hashed.auth[h] = Node(p, h, Beside(Index(tree), h))
  BY <1>3, TreehashIs
<1>7. ForsTree(tree) = Tree(Leaves, Offset(tree), base)
  BY DEF ForsTree, base
<1>8. \A h \in Nat, j \in Nat : Node(p, h, j) = Node(ForsTree(tree), h, j)
  BY <1>4, <1>7, NodeSame
<1>9. \A h \in 0..(n - 1) : h \in Nat /\ Beside(Index(tree), h) \in Nat
  <2>. SUFFICES ASSUME NEW h \in 0..(n - 1) PROVE h \in Nat /\ Beside(Index(tree), h) \in Nat
    OBVIOUS
  <2>1. h \in Nat
    OBVIOUS
  <2>. QED
    BY <1>3, <2>1, BesideIs
<1>. HIDE DEF p, hashed
<1>10. hashed.root = ForsRoot(tree)
  BY <1>3, <1>5, <1>8 DEF ForsRoot, n
<1>11. \A h \in 0..(n - 1) : hashed.auth[h] = Node(ForsTree(tree), h, Beside(Index(tree), h))
  BY <1>6, <1>8, <1>9
<1>12. Opens([sk |-> sk, auth |-> hashed.auth], tree)
  BY <1>2, <1>11 DEF Opens, n
<1>13. \E x2, y2, z2 : hashed.addr = ForsRec("FORSTREE", x2, y2, z2)
  BY <1>5, NodeAddrIs DEF here, ForsRec
<1>. QED
  BY <1>2, <1>10, <1>12, <1>13 DEF hashed, n, addr, sk

\* One tree is verified.
LEMMA VerifyTreeIs ==
  ASSUME input \in Inputs, NEW tree \in Trees, NEW shown, Opens(shown, tree), NEW x, NEW y, NEW z
  PROVE  LET addr == LeafAddr(ForsRec("FORSTREE", x, y, z), tree)
             computed == compute_root(thash(<<shown.sk>>, addr), Index(tree), Offset(tree), shown.auth,
                                      SPX_FORS_HEIGHT, addr)
         IN  /\ computed.root = ForsRoot(tree)
             /\ \E x2, y2, z2 : computed.addr = ForsRec("FORSTREE", x2, y2, z2)
<1>. DEFINE m == Selected(tree)
            addr == LeafAddr(ForsRec("FORSTREE", x, y, z), tree)
            base == ForsRec("FORSTREE", 0, 0, 0)
            leaf == thash(<<shown.sk>>, addr)
            n == SPX_FORS_HEIGHT
            offset == Offset(tree)
            idx == Index(tree)
            auth == shown.auth
            leaves == Leaves
            computed == compute_root(leaf, idx, offset, auth, n, addr)
<1>1. addr = ForsRec("FORSTREE", 0, m \div Byte, m % Byte)
  BY LeafAddrIs
<1>2. SameTree(addr, base)
  BY <1>1, SameTreeIs DEF ForsRec
<1>3. leaf = leaves[idx + offset]
  BY <1>1, SelectedIs, ForsLeafIs DEF Opens, Selected
<1>4. idx \in Nat /\ idx < TwoTo(n) /\ n \in Nat
  BY IndexIs, ForsAre
<1>5. \A h \in 0..(n - 1) : auth[h] = Node(Tree(leaves, offset, base), h, Beside(idx, h))
  BY DEF Opens, ForsTree
<1>6. ForsRoot(tree) = Node(Tree(leaves, offset, base), n, 0)
  BY DEF ForsRoot, ForsTree
<1>7. computed.addr = NodeAddr(addr, n, idx, offset)
  <2>. HIDE DEF leaf, addr, idx, offset, auth, n
  <2>. QED
    BY DEF compute_root
<1>8. \E x2, y2, z2 : computed.addr = ForsRec("FORSTREE", x2, y2, z2)
  BY <1>1, <1>7, NodeAddrIs DEF ForsRec
<1>9. computed.root = ForsRoot(tree)
  <2>. HIDE DEF leaf, addr, base, idx, offset, auth, n, leaves
  <2>1. computed.root = Node(Tree(leaves, offset, base), n, 0)
    BY ONLY <1>2, <1>3, <1>4, <1>5, ComputeRootIs
  <2>. QED
    BY <1>6, <2>1
<1>. QED
  BY <1>8, <1>9

------------------------------------------------------------------------------
(* Sequences that grow by one element.                                       *)

IsSeq(s, n) == s = [k \in 1..n |-> s[k]]

LEMMA Appended ==
  ASSUME NEW n \in Nat, NEW s, IsSeq(s, n), NEW e
  PROVE  /\ Len(s) = n /\ DOMAIN s = 1..n /\ IsSeq(Append(s, e), n + 1) /\ Append(s, e)[n + 1] = e
         /\ \A k \in 1..n : Append(s, e)[k] = s[k]
<1>. DEFINE S == {s[k] : k \in 1..n} \cup {e}
<1>1. s \in Seq(S)
  <2>1. s \in [1..n -> S]
    BY DEF IsSeq
  <2>. QED
    BY <2>1
<1>2. DOMAIN s = 1..n
  BY DEF IsSeq
<1>3. Len(s) = n
  BY <1>1, <1>2
<1>. HIDE DEF S
<1>4. e \in S
  BY DEF S
<1>5. Append(s, e) \in Seq(S) /\ Len(Append(s, e)) = n + 1 /\ Append(s, e)[n + 1] = e
  BY <1>1, <1>3, <1>4
<1>6. \A k \in 1..n : Append(s, e)[k] = s[k]
  BY <1>1, <1>3, <1>4
<1>7. IsSeq(Append(s, e), n + 1)
  BY <1>5 DEF IsSeq
<1>. QED
  BY <1>2, <1>3, <1>5, <1>6, <1>7

LEMMA EmptyIsSeq ==
  ASSUME NEW s, s = <<>>
  PROVE  IsSeq(s, 0)
<1>1. s \in Seq({}) /\ Len(s) = 0
  OBVIOUS
<1>2. DOMAIN s = 1..0
  BY <1>1
<1>3. s = [k \in DOMAIN s |-> s[k]]
  BY <1>1
<1>. QED
  BY <1>2, <1>3 DEF IsSeq

------------------------------------------------------------------------------
(* What FORS has done so far.                                                *)

ForsAt(ty) == \E x, y, z : treeAddr = ForsRec(ty, x, y, z)

\* The roots of the first i trees are computed.
Climbed == i \in 0..SPX_FORS_TREES /\ IsSeq(treeRoots, i) /\ \A k \in 1..i : treeRoots[k] = ForsRoot(k - 1)

ForsPk == thash([k \in 1..SPX_FORS_TREES |-> ForsRoot(k - 1)], PkAddr)

Phases == {"hash", "fors", "start", "sign", "ttp", "forsPk", "verify", "done"}

ForsInv ==
    /\ input \in Inputs /\ phase \in Phases
    /\ phase = "hash" => i = 0
    /\ phase \in {"hash", "fors"} =>
           /\ Climbed /\ IsSeq(opened, i) /\ \A k \in 1..i : Opens(opened[k], k - 1)
           /\ \E ty : ForsAt(ty)
    /\ phase \notin {"hash", "fors"} =>
           pk = ForsPk /\ \A k \in 1..SPX_FORS_TREES : Opens(opened[k], k - 1)
    /\ phase \in {"start", "sign", "ttp"} => i = 0
    /\ phase \in {"start", "sign", "ttp", "forsPk"} => Climbed /\ ForsAt("FORSTREE")
    /\ phase \in {"verify", "done"} => pkFromSig = ForsPk

\* All this is about the input, which stays.
LEMMA ForsFrame ==
  ASSUME input' = input
  PROVE  /\ \A tree : ForsRoot(tree)' = ForsRoot(tree)
         /\ \A shown, tree : Opens(shown, tree)' = Opens(shown, tree)
         /\ \A ty, x, y, z : ForsRec(ty, x, y, z)' = ForsRec(ty, x, y, z)
         /\ ForsPk' = ForsPk
<1>1. ForsAddr' = ForsAddr
  BY DEF ForsAddr
<1>2. Leaves' = Leaves
  BY <1>1 DEF Leaves
<1>3. \A tree : Index(tree)' = Index(tree)
  BY DEF Index
<1>4. \A ty, x, y, z : ForsRec(ty, x, y, z)' = ForsRec(ty, x, y, z)
  BY DEF ForsRec
<1>5. \A tree : ForsTree(tree)' = ForsTree(tree)
  BY <1>2, <1>4 DEF ForsTree
<1>6. \A tree : ForsRoot(tree)' = ForsRoot(tree)
  BY <1>5 DEF ForsRoot
<1>7. \A m : SecretAt(m)' = SecretAt(m)
  BY <1>4 DEF SecretAt
<1>8. \A tree : Selected(tree)' = Selected(tree)
  BY <1>3 DEF Selected
<1>9. \A shown, tree : Opens(shown, tree)' = Opens(shown, tree)
  BY <1>3, <1>5, <1>7, <1>8 DEF Opens
<1>10. ForsPk' = ForsPk
  BY <1>1, <1>6 DEF ForsPk, PkAddr
<1>. QED
  BY <1>4, <1>6, <1>9, <1>10

LEMMA ClimbedZero ==
  ASSUME i = 0, treeRoots = <<>>
  PROVE  Climbed
<1>1. IsSeq(treeRoots, 0)
  BY EmptyIsSeq
<1>2. 0 \in 0..SPX_FORS_TREES
  BY ForsAre
<1>. QED
  BY <1>1, <1>2 DEF Climbed

LEMMA ClimbedAll ==
  ASSUME Climbed, i = SPX_FORS_TREES
  PROVE  thash(treeRoots, PkAddr) = ForsPk
<1>1. treeRoots = [k \in 1..SPX_FORS_TREES |-> treeRoots[k]]
  BY DEF Climbed, IsSeq
<1>2. \A k \in 1..SPX_FORS_TREES : treeRoots[k] = ForsRoot(k - 1)
  BY DEF Climbed
<1>3. treeRoots = [k \in 1..SPX_FORS_TREES |-> ForsRoot(k - 1)]
  BY <1>1, <1>2
<1>. QED
  BY <1>3 DEF ForsPk

LEMMA ClimbedNext ==
  ASSUME Climbed, input' = input, i < SPX_FORS_TREES, i' = i + 1, treeRoots' = Append(treeRoots, ForsRoot(i))
  PROVE  Climbed' /\ i \in Trees /\ i \in Nat
<1>1. i \in Nat /\ i + 1 \in 0..SPX_FORS_TREES /\ (i + 1) - 1 = i /\ i \in Trees
  BY ForsAre DEF Climbed, Trees
<1>. DEFINE e == ForsRoot(i)  n == i  s == treeRoots
<1>. HIDE DEF e, n, s
<1>2. IsSeq(Append(s, e), n + 1) /\ Append(s, e)[n + 1] = e /\ \A k \in 1..n : Append(s, e)[k] = s[k]
  <2>1. n \in Nat /\ IsSeq(s, n)
    BY <1>1 DEF Climbed, n, s
  <2>. QED
    BY <2>1, Appended
<1>3. IsSeq(treeRoots', i')
  BY <1>2 DEF e, n, s
<1>4. ASSUME NEW k \in 1..(i + 1) PROVE treeRoots'[k] = ForsRoot(k - 1)
  <2>1. CASE k = i + 1
    <3>1. treeRoots'[k] = e /\ k - 1 = i
      BY <1>1, <1>2, <2>1 DEF n, s, e
    <3>. QED
      BY <3>1 DEF e
  <2>2. CASE k \in 1..i
    <3>1. treeRoots'[k] = treeRoots[k]
      BY <1>2, <2>2 DEF n, s, e
    <3>. QED
      BY <2>2, <3>1 DEF Climbed
  <2>3. k = i + 1 \/ k \in 1..i
    <3>1. i \in Nat
      BY <1>1
    <3>. QED
      BY <3>1
  <2>. QED
    BY <2>1, <2>2, <2>3
<1>5. \A k \in 1..(i + 1) : treeRoots'[k] = ForsRoot(k - 1)'
  BY <1>4, ForsFrame
<1>. QED
  BY <1>1, <1>3, <1>5 DEF Climbed

LEMMA ForsInvInit == Init => ForsInv
<1>. SUFFICES ASSUME Init PROVE ForsInv
  OBVIOUS
<1>1. /\ input \in Inputs /\ phase = "hash" /\ i = 0 /\ opened = <<>> /\ treeRoots = <<>>
      /\ treeAddr = copy_keypair_addr(ZeroAddr, ForsAddr)
  BY DEF Init, ForsInit
<1>2. Climbed
  BY <1>1, ClimbedZero
<1>3. ForsAt("WOTS")
  BY <1>1, ForsAddrIs DEF ForsAt
<1>4. IsSeq(opened, i) /\ \A k \in 1..i : Opens(opened[k], k - 1)
  BY <1>1, EmptyIsSeq
<1>. QED
  BY <1>1, <1>2, <1>3, <1>4 DEF ForsInv, Phases

LEMMA SignTreeKeeps ==
  ASSUME ForsInv, SignTree
  PROVE  ForsInv'
<1>1. phase = "fors" /\ i < SPX_FORS_TREES /\ i' = i + 1 /\ input' = input /\ phase' = phase
  BY DEF SignTree
<1>2. Climbed /\ IsSeq(opened, i) /\ (\A k \in 1..i : Opens(opened[k], k - 1)) /\ input \in Inputs
  BY <1>1 DEF ForsInv
<1>3. PICK ty, x, y, z : treeAddr = ForsRec(ty, x, y, z)
  BY <1>1 DEF ForsInv, ForsAt
<1>4. i \in Trees /\ i \in Nat
  BY <1>1, <1>2, ForsAre DEF Climbed, Trees
<1>. DEFINE addr == LeafAddr(treeAddr, i)
            hashed == treehashx1(Index(i), Offset(i), SPX_FORS_HEIGHT, Leaves, set_type(addr, "FORSTREE"))
            shown == [sk |-> prf_addr(ForsSeed, set_type(addr, "FORSPRF")), auth |-> hashed.auth]
<1>5. Opens(shown, i) /\ hashed.root = ForsRoot(i) /\ \E x2, y2, z2 : hashed.addr = ForsRec("FORSTREE", x2, y2, z2)
  BY <1>2, <1>3, <1>4, SignTreeIs
<1>6. opened' = Append(opened, shown) /\ treeRoots' = Append(treeRoots, hashed.root) /\ treeAddr' = hashed.addr
  BY DEF SignTree
<1>. HIDE DEF shown, hashed, addr
<1>7. Climbed'
  BY <1>1, <1>2, <1>5, <1>6, ClimbedNext
<1>8. ForsAt("FORSTREE")'
  BY <1>1, <1>5, <1>6, ForsFrame DEF ForsAt
<1>9. IsSeq(opened', i') /\ opened'[i + 1] = shown /\ \A k \in 1..i : opened'[k] = opened[k]
  <2>. DEFINE n == i  s == opened
  <2>. HIDE DEF n, s
  <2>1. n \in Nat /\ IsSeq(s, n)
    BY <1>2, <1>4 DEF n, s
  <2>2. IsSeq(Append(s, shown), n + 1) /\ Append(s, shown)[n + 1] = shown /\ \A k \in 1..n : Append(s, shown)[k] = s[k]
    BY <2>1, Appended
  <2>. QED
    BY <1>1, <1>6, <2>2 DEF n, s
<1>10. ASSUME NEW k \in 1..(i + 1) PROVE Opens(opened'[k], k - 1)
  <2>1. CASE k = i + 1
    <3>1. k - 1 = i /\ opened'[k] = shown
      BY <1>4, <1>9, <2>1
    <3>. QED
      BY <1>5, <3>1
  <2>2. CASE k \in 1..i
    BY <1>2, <1>9, <2>2
  <2>. QED
    BY <1>4, <2>1, <2>2
<1>11. \A k \in 1..(i + 1) : Opens(opened[k], k - 1)'
  BY <1>1, <1>10, ForsFrame
<1>. QED
  BY <1>1, <1>2, <1>7, <1>8, <1>9, <1>11 DEF ForsInv, Phases

LEMMA SignEndKeeps ==
  ASSUME ForsInv, SignEnd
  PROVE  ForsInv' /\ pk' = ForsPk
<1>1. /\ phase = "fors" /\ i = SPX_FORS_TREES /\ i' = 0 /\ treeRoots' = <<>> /\ input' = input /\ phase' = "start"
      /\ opened' = opened /\ pk' = thash(treeRoots, PkAddr)
      /\ treeAddr' = set_type(copy_keypair_addr(ZeroAddr, ForsAddr), "FORSTREE")
  BY DEF SignEnd
<1>2. Climbed /\ (\A k \in 1..i : Opens(opened[k], k - 1)) /\ input \in Inputs
  BY <1>1 DEF ForsInv
<1>3. pk' = ForsPk
  BY <1>1, <1>2, ClimbedAll
<1>4. Climbed'
  <2>1. 0 \in 0..SPX_FORS_TREES /\ IsSeq(treeRoots', 0)
    BY <1>1, ForsAre, EmptyIsSeq
  <2>. QED
    BY <1>1, <2>1 DEF Climbed
<1>5. ForsAt("FORSTREE")'
  BY <1>1, ForsAddrIs, ForsFrame DEF ForsAt
<1>6. \A k \in 1..SPX_FORS_TREES : Opens(opened[k], k - 1)'
  BY <1>1, <1>2, ForsFrame
<1>7. ForsPk' = ForsPk
  BY <1>1, ForsFrame
<1>. QED
  BY <1>1, <1>2, <1>3, <1>4, <1>5, <1>6, <1>7 DEF ForsInv, Phases

LEMMA VerifyTreeKeeps ==
  ASSUME ForsInv, VerifyTree
  PROVE  ForsInv'
<1>1. /\ phase = "forsPk" /\ i < SPX_FORS_TREES /\ i' = i + 1 /\ input' = input /\ phase' = phase
      /\ opened' = opened /\ pk' = pk
  BY DEF VerifyTree
<1>2. /\ Climbed /\ input \in Inputs /\ pk = ForsPk
      /\ \A k \in 1..SPX_FORS_TREES : Opens(opened[k], k - 1)
  BY <1>1 DEF ForsInv
<1>3. PICK x, y, z : treeAddr = ForsRec("FORSTREE", x, y, z)
  BY <1>1 DEF ForsInv, ForsAt
<1>4. i \in Trees /\ i \in Nat /\ i + 1 \in 1..SPX_FORS_TREES /\ (i + 1) - 1 = i
  BY <1>1, <1>2, ForsAre DEF Climbed, Trees
<1>. DEFINE addr == LeafAddr(treeAddr, i)
            shown == opened[i + 1]
            computed == compute_root(thash(<<shown.sk>>, addr), Index(i), Offset(i), shown.auth,
                                     SPX_FORS_HEIGHT, addr)
<1>5. Opens(shown, i)
  BY <1>2, <1>4
<1>6. treeRoots' = Append(treeRoots, computed.root) /\ treeAddr' = computed.addr
  BY DEF VerifyTree
<1>. HIDE DEF shown
<1>7. computed.root = ForsRoot(i) /\ \E x2, y2, z2 : computed.addr = ForsRec("FORSTREE", x2, y2, z2)
  BY <1>2, <1>3, <1>4, <1>5, VerifyTreeIs
<1>. HIDE DEF computed
<1>8. Climbed'
  BY <1>1, <1>2, <1>6, <1>7, ClimbedNext
<1>9. ForsAt("FORSTREE")'
  BY <1>1, <1>6, <1>7, ForsFrame DEF ForsAt
<1>10. \A k \in 1..SPX_FORS_TREES : Opens(opened[k], k - 1)'
  BY <1>1, <1>2, ForsFrame
<1>11. pk' = ForsPk'
  BY <1>1, <1>2, ForsFrame
<1>. QED
  BY <1>1, <1>2, <1>8, <1>9, <1>10, <1>11 DEF ForsInv, Phases

LEMMA VerifyEndKeeps ==
  ASSUME ForsInv, VerifyEnd
  PROVE  ForsInv' /\ pkFromSig' = pk
<1>1. /\ phase = "forsPk" /\ i = SPX_FORS_TREES /\ input' = input /\ phase' = "verify"
      /\ opened' = opened /\ pk' = pk /\ pkFromSig' = thash(treeRoots, PkAddr)
  BY DEF VerifyEnd
<1>2. /\ Climbed /\ input \in Inputs /\ pk = ForsPk
      /\ \A k \in 1..SPX_FORS_TREES : Opens(opened[k], k - 1)
  BY <1>1 DEF ForsInv
<1>3. pkFromSig' = ForsPk
  BY <1>1, <1>2, ClimbedAll
<1>4. \A k \in 1..SPX_FORS_TREES : Opens(opened[k], k - 1)'
  BY <1>1, <1>2, ForsFrame
<1>5. ForsPk' = ForsPk
  BY <1>1, ForsFrame
<1>. QED
  BY <1>1, <1>2, <1>3, <1>4, <1>5 DEF ForsInv, Phases

\* Whatever the hypertree does between the two, it leaves this alone.
LEMMA ForsUntouched ==
  ASSUME ForsInv, UNCHANGED <<input, forsVars>>, phase' \in Phases,
         phase' = phase \/ (phase = "hash" /\ phase' = "fors")
         \/ (phase \in {"start", "sign", "ttp"} /\ phase' \in {"start", "sign", "ttp", "forsPk"})
         \/ (phase = "verify" /\ phase' = "done")
  PROVE  ForsInv'
<1>1. /\ input' = input /\ i' = i /\ treeAddr' = treeAddr /\ opened' = opened /\ treeRoots' = treeRoots
      /\ pk' = pk /\ pkFromSig' = pkFromSig
  BY DEF forsVars
<1>2. Climbed' = Climbed
  BY <1>1, ForsFrame DEF Climbed
<1>3. \A ty : ForsAt(ty)' = ForsAt(ty)
  BY <1>1, ForsFrame DEF ForsAt
<1>4. \A k : Opens(opened[k], k - 1)' = Opens(opened[k], k - 1)
  BY <1>1, ForsFrame
<1>5. ForsPk' = ForsPk
  BY <1>1, ForsFrame
<1>. QED
  BY <1>1, <1>2, <1>3, <1>4, <1>5 DEF ForsInv, Phases

LEMMA OpensSelected == ForsInv => OpensSelectedLeaf
<1>. SUFFICES ASSUME ForsInv, NEW t \in Trees, phase = "fors", t < Len(opened)
              PROVE  LET N(h, j) == TreeNode(h, j, Offset(t), Leaves,
                                             set_type(copy_keypair_addr(ZeroAddr, ForsAddr), "FORSTREE"))
                         shown == opened[t + 1]
                     IN  /\ N(0, Index(t))[3] = <<shown.sk>>
                         /\ \A h \in Heights : \E j \in {Shift(Index(t), h) + 1, Shift(Index(t), h) - 1} :
                                Shift(j, 1) = Shift(Index(t), h + 1) /\ shown.auth[h] = N(h, j)
  BY DEF OpensSelectedLeaf
<1>. DEFINE N(h, j) == TreeNode(h, j, Offset(t), Leaves, set_type(copy_keypair_addr(ZeroAddr, ForsAddr), "FORSTREE"))
            shown == opened[t + 1]
            idx == Index(t)
<1>1. \A h, j : N(h, j) = Node(ForsTree(t), h, j)
  BY ForsAddrIs, TreeNodeIs DEF ForsTree
<1>2. Opens(shown, t) /\ input \in Inputs
  <2>1. i \in Nat /\ IsSeq(opened, i) /\ input \in Inputs /\ \A k \in 1..i : Opens(opened[k], k - 1)
    BY ForsAre DEF ForsInv, Climbed
  <2>2. Len(opened) = i
    <3>. DEFINE n == i  s == opened
    <3>. HIDE DEF n, s
    <3>1. n \in Nat /\ IsSeq(s, n)
      BY <2>1 DEF n, s
    <3>2. Len(s) = n
      BY <3>1, Appended
    <3>. QED
      BY <3>2 DEF n, s
  <2>3. t \in Nat /\ t + 1 \in 1..i /\ (t + 1) - 1 = t
    BY <2>1, <2>2 DEF Trees
  <2>. QED
    BY <2>1, <2>3
<1>3. idx \in Nat
  BY <1>2, IndexIs
<1>. HIDE DEF shown, N, idx
<1>4. N(0, idx)[3] = <<shown.sk>>
  <2>1. Node(ForsTree(t), 0, idx) = Leaves[Selected(t)]
    BY <1>3, NodeIs DEF ForsTree, Selected, idx
  <2>2. Leaves[Selected(t)] = thash(<<SecretAt(Selected(t))>>,
                                    ForsRec("FORSTREE", 0, Selected(t) \div Byte, Selected(t) % Byte))
    BY <1>2, SelectedIs, ForsLeafIs
  <2>3. \A in, addr : thash(in, addr)[3] = in
    BY DEF thash
  <2>4. shown.sk = SecretAt(Selected(t))
    BY <1>2 DEF Opens
  <2>. QED
    BY <1>1, <2>1, <2>2, <2>3, <2>4
<1>5. ASSUME NEW h \in Heights
      PROVE  \E j \in {Shift(idx, h) + 1, Shift(idx, h) - 1} :
                 Shift(j, 1) = Shift(idx, h + 1) /\ shown.auth[h] = N(h, j)
  <2>1. h \in Nat /\ h \in 0..(SPX_FORS_HEIGHT - 1)
    BY ForsAre DEF Heights
  <2>2. Beside(idx, h) \in {Shift(idx, h) + 1, Shift(idx, h) - 1}
    BY DEF Beside
  <2>3. Shift(Beside(idx, h), 1) = Shift(idx, h + 1)
    BY <1>3, <2>1, BesideIs
  <2>4. shown.auth[h] = N(h, Beside(idx, h))
    BY <1>1, <1>2, <2>1 DEF Opens, idx
  <2>. QED
    BY <2>2, <2>3, <2>4
<1>. QED
  BY <1>4, <1>5 DEF N, shown, idx

------------------------------------------------------------------------------
(* What the hypertree's signers have done so far.                            *)

SignedAt(l) ==
    /\ sig[l] = [wots |-> sig[l].wots, auth |-> sig[l].auth]
    /\ \E sd : /\ Alone => sd = JointSeed
               /\ Shows(sig[l], sd, l, TreeAt(input, l), LeafAt(input, l), roots[l + 1].bytes)
               /\ roots[l + 2].value = LayerRoot(sd, l, TreeAt(input, l))

\* The first n layers are signed, each over the root of the one below.
Reached(n) ==
    /\ IsSeq(roots, n + 1) /\ roots[1].value = pk
    /\ \A k \in 1..(n + 1) : k <= SPX_D => roots[k].bytes = input.bytes[k]
    /\ sig = [l \in Layers |-> sig[l]]
    /\ \A l \in 0..(n - 1) : SignedAt(l)

TopSigned ==
    Shows(sig[SPX_D - 1], JointSeed, SPX_D - 1, TreeAt(input, SPX_D - 1), LeafAt(input, SPX_D - 1), roots[SPX_D].bytes)

LEMMA LayerByte ==
  ASSUME NEW l \in 0..(SPX_D - 1)
  PROVE  l % Byte = l
BY HypertreeAssumption, ByteAssumption

LEMMA SignAtKeeps ==
  ASSUME input \in Inputs, input' = input, pk' = pk, NEW n \in 0..(SPX_D - 1), NEW sd, Alone => sd = JointSeed,
         Reached(n), AtLayer(input, pos, n), SignAt(sd, n, n)
  PROVE  Reached(n + 1)' /\ AtLayer(input, pos', n + 1) /\ c' = c + 1
<1>. DEFINE tr == TreeAt(input, n)  lf == LeafAt(input, n)
            at == SetLayer(pos, n)
            msg == roots[Len(roots)].bytes
            signed == merkle_sign(sd, msg, at.wots, at.treeAddr, at.leaf)
            shown == [wots |-> signed.sig, auth |-> signed.auth]
<1>1. /\ pos' = Ascend([at EXCEPT !.treeAddr = signed.tree_addr])
      /\ sig' = [sig EXCEPT ![n] = shown]
      /\ roots' = Append(roots, Signed(signed.root, Len(roots) + 1))
      /\ c' = c + 1
  BY DEF SignAt
<1>2. /\ n \in Nat /\ n % Byte = n /\ lf \in Nat /\ lf < TwoTo(SPX_TREE_HEIGHT) /\ input.tree \in Nat
      /\ n \in Layers /\ SPX_D \in Nat
  BY InputIs, LayerByte, LeafBelow DEF Layers
<1>3. PICK x, z, x2, y2, z2 :
         at = Pos(tr, lf, Rec(n, tr, "WOTS", lf, x, 0, z), Rec(n, tr, "HASHTREE", 0, x2, y2, z2))
  <2>1. \E x, z, x2, y2, z2 : at = Pos(tr, lf, Rec(n % Byte, tr, "WOTS", lf, x, 0, z),
                                       Rec(n % Byte, tr, "HASHTREE", 0, x2, y2, z2))
    BY <1>2, LayerSet
  <2>. QED
    BY <1>2, <2>1
<1>. DEFINE w == Rec(n, tr, "WOTS", lf, x, 0, z)
            a == Rec(n, tr, "HASHTREE", 0, x2, y2, z2)
<1>. HIDE DEF at, tr, lf
<1>4. at.wots = w /\ at.treeAddr = a /\ at.leaf = lf
  BY <1>3, PosFields
<1>5. /\ signed.root = LayerRoot(sd, n, tr)
      /\ \E x3, y3, z3 : signed.tree_addr = Rec(n, tr, "HASHTREE", 0, x3, y3, z3)
      /\ Shows(shown, sd, n, tr, lf, msg)
  <2>1. signed = merkle_sign(sd, msg, w, a, lf)
    BY <1>4
  <2>2. lf \in Nat
    BY <1>2
  <2>. HIDE DEF msg, signed
  <2>3. PairSigned(merkle_sign(sd, msg, w, a, lf), sd, n, tr, lf, msg)
    BY <2>2, MerkleSignIs
  <2>. HIDE DEF w, a
  <2>. QED
    BY <1>2, <2>1, <2>3 DEF PairSigned
<1>. HIDE DEF signed
<1>6. PICK a2 : TreeAddress(a2) /\ a2 = signed.tree_addr
  BY <1>5 DEF TreeAddress
<1>7. AtLayer(input, pos', n + 1)
  <2>1. [at EXCEPT !.treeAddr = a2] = Pos(tr, lf, w, a2)
    <3>. HIDE DEF w, a
    <3>1. at = Pos(tr, lf, w, a)
      BY <1>3 DEF w, a
    <3>2. TreeReplaced(Pos(tr, lf, w, a), a2) = Pos(tr, lf, w, a2)
      BY PosUpdates
    <3>. QED
      BY <3>1, <3>2 DEF TreeReplaced
  <2>2. WotsAddress(w)
    BY DEF WotsAddress
  <2>. HIDE DEF w
  <2>3. AtLayer(input, Ascend(Pos(tr, lf, w, a2)), n + 1)
    BY <1>2, <1>6, <2>2, AscendAt DEF tr, lf
  <2>4. pos' = Ascend(Pos(tr, lf, w, a2))
    BY <1>1, <1>6, <2>1
  <2>. QED
    BY <2>3, <2>4
<1>8. Len(roots) = n + 1 /\ msg = roots[n + 1].bytes /\ (n + 1) + 1 = n + 2
  <2>. DEFINE m == n + 1  s == roots
  <2>. HIDE DEF m, s
  <2>1. m \in Nat /\ IsSeq(s, m)
    BY <1>2 DEF Reached, m, s
  <2>2. Len(s) = m
    BY <2>1, Appended
  <2>. QED
    BY <1>2, <2>2 DEF m, s
<1>. DEFINE e == Signed(signed.root, n + 2)
<1>9. e.value = LayerRoot(sd, n, tr) /\ (n + 2 <= SPX_D => e.bytes = input.bytes[n + 2])
  BY <1>5 DEF Signed
<1>10. /\ IsSeq(roots', n + 2) /\ roots'[n + 2] = e
       /\ \A k \in 1..(n + 1) : roots'[k] = roots[k]
  <2>. DEFINE m == n + 1  s == roots
  <2>1. m \in Nat /\ IsSeq(s, m) /\ roots' = Append(s, e) /\ m + 1 = n + 2
    BY <1>1, <1>2, <1>8 DEF Reached
  <2>. HIDE DEF m, s, e
  <2>2. IsSeq(Append(s, e), m + 1) /\ Append(s, e)[m + 1] = e /\ \A k \in 1..m : Append(s, e)[k] = s[k]
    BY <2>1, Appended
  <2>. QED
    BY <2>1, <2>2 DEF m, s
<1>. HIDE DEF e
<1>11. sig = [l \in Layers |-> sig[l]]
  BY DEF Reached
<1>12. /\ sig' = [l \in Layers |-> sig'[l]] /\ sig'[n] = shown
       /\ \A l \in Layers : l # n => sig'[l] = sig[l]
  <2>. HIDE DEF shown
  <2>1. DOMAIN sig = Layers
    BY <1>11
  <2>. QED
    BY <1>1, <1>2, <2>1
<1>13. ASSUME NEW k \in 1..(n + 2), k <= SPX_D PROVE roots'[k].bytes = input.bytes[k]
  <2>1. k = n + 2 \/ k \in 1..(n + 1)
    BY <1>2
  <2>2. CASE k = n + 2
    BY <1>9, <1>10, <1>13, <2>2
  <2>3. CASE k \in 1..(n + 1)
    BY <1>10, <1>13, <2>3 DEF Reached
  <2>. QED
    BY <2>1, <2>2, <2>3
<1>14. Alone' = Alone
  BY DEF Alone
<1>15. SignedAt(n)'
  <2>1. sig'[n] = [wots |-> sig'[n].wots, auth |-> sig'[n].auth]
    BY <1>12
  <2>2. Shows(sig'[n], sd, n, tr, lf, roots'[n + 1].bytes)
    <3>1. roots'[n + 1] = roots[n + 1]
      BY <1>2, <1>10
    <3>. HIDE DEF shown, msg
    <3>. QED
      BY <1>5, <1>8, <1>12, <3>1
  <2>3. roots'[n + 2].value = LayerRoot(sd, n, tr)
    BY <1>9, <1>10
  <2>. QED
    BY <1>14, <2>1, <2>2, <2>3 DEF SignedAt, tr, lf
<1>16. ASSUME NEW l \in 0..(n - 1) PROVE SignedAt(l)'
  <2>1. l + 1 \in 1..(n + 1) /\ l + 2 \in 1..(n + 1) /\ l \in Layers /\ l # n
    BY <1>2 DEF Layers
  <2>2. sig'[l] = sig[l] /\ roots'[l + 1] = roots[l + 1] /\ roots'[l + 2] = roots[l + 2]
    BY <1>10, <1>12, <2>1
  <2>3. SignedAt(l)
    BY DEF Reached
  <2>. QED
    BY <1>14, <2>2, <2>3 DEF SignedAt
<1>17. ASSUME NEW l \in 0..((n + 1) - 1) PROVE SignedAt(l)'
  <2>1. l = n \/ l \in 0..(n - 1)
    BY <1>2
  <2>. QED
    BY <1>15, <1>16, <2>1
<1>18. roots'[1].value = pk'
  <2>1. 1 \in 1..(n + 1)
    BY <1>2
  <2>. QED
    BY <1>10, <2>1 DEF Reached
<1>19. IsSeq(roots, n + 1 + 1)' /\ \A k \in 1..(n + 1 + 1) : k <= SPX_D => roots'[k].bytes = input'.bytes[k]
  <2>1. n + 1 + 1 = n + 2
    BY <1>2
  <2>. QED
    BY <1>10, <1>13, <2>1
<1>. QED
  BY <1>1, <1>7, <1>12, <1>17, <1>18, <1>19 DEF Reached

------------------------------------------------------------------------------
(* No two of the values that are signed are equal.                           *)

LEMMA RootTag ==
  ASSUME NEW sd, NEW l, NEW t
  PROVE  LayerRoot(sd, l, t)[2].layer = l /\ LayerRoot(sd, l, t)[2].type = "HASHTREE"
<1>. DEFINE base == Rec(l, t, "HASHTREE", 0, 0, 0, 0)
            leaves == LayerLeaves(sd, l, t)
            h == SPX_TREE_HEIGHT - 1
            at == set_tree_index(set_tree_height(base, h + 1), 0 + Shift(0, h + 1))
<1>1. h \in Nat /\ h + 1 = SPX_TREE_HEIGHT /\ 0 \in Nat
  BY WotsAssumption
<1>2. Node(Tree(leaves, 0, base), h + 1, 0)[2] = at
  <2>. DEFINE zero == 0  p == Tree(leaves, zero, base)
  <2>1. zero \in Nat /\ h \in Nat
    BY <1>1
  <2>. HIDE DEF leaves, base, h, zero
  <2>2. \A m \in Nat : \A j \in Nat :
           Node(p, m + 1, j) = thash(<<Node(p, m, 2 * j), Node(p, m, 2 * j + 1)>>,
                                     set_tree_index(set_tree_height(base, m + 1), j + Shift(zero, m + 1)))
    BY NodeIs
  <2>3. \A in, addr : thash(in, addr)[2] = addr
    BY DEF thash
  <2>. HIDE DEF p
  <2>4. Node(p, h + 1, zero)[2] = set_tree_index(set_tree_height(base, h + 1), zero + Shift(zero, h + 1))
    BY <2>1, <2>2, <2>3
  <2>. QED
    BY <2>4 DEF zero, p
<1>3. \E x, y, z : at = Rec(l, t, "HASHTREE", 0, x, y, z)
  BY SettersAre
<1>. HIDE DEF at
<1>5. LayerRoot(sd, l, t)[2] = at
  BY <1>1, <1>2 DEF LayerRoot, LayerTree
<1>. QED
  BY <1>3, <1>5, RecFields

LEMMA ForsTag == ForsPk[2].type = "FORSPK"
<1>1. PkAddr = ForsRec("FORSPK", 0, 0, 0)
  BY ForsAddrIs, SettersAre DEF PkAddr, ForsRec
<1>2. ForsPk[2] = PkAddr
  BY DEF ForsPk, thash
<1>. QED
  BY <1>1, <1>2, RecFields DEF ForsRec

LEMMA ValuesDiffer ==
  ASSUME pk = ForsPk, NEW n \in Nat, Reached(n), NEW k \in 1..(n + 1), NEW m \in 1..(n + 1),
         roots[k].value = roots[m].value
  PROVE  k = m
<1>1. ASSUME NEW j \in 1..(n + 1), j # 1
      PROVE  roots[j].value[2].layer = j - 2 /\ roots[j].value[2].type = "HASHTREE"
  <2>. DEFINE l == j - 2
  <2>1. l \in 0..(n - 1) /\ l + 2 = j
    BY <1>1
  <2>. HIDE DEF l
  <2>2. PICK sd : roots[l + 2].value = LayerRoot(sd, l, TreeAt(input, l))
    BY <2>1 DEF Reached, SignedAt
  <2>3. roots[j].value[2].layer = l /\ roots[j].value[2].type = "HASHTREE"
    BY <2>1, <2>2, RootTag
  <2>. QED
    BY <2>3 DEF l
<1>2. roots[1].value[2].type = "FORSPK"
  BY ForsTag DEF Reached
<1>3. CASE k = 1
  <2>. SUFFICES ASSUME m # 1 PROVE FALSE
    BY <1>3
  <2>1. roots[m].value[2].type = "HASHTREE"
    BY <1>1
  <2>2. roots[m].value[2].type = "FORSPK"
    BY <1>2, <1>3
  <2>. QED
    BY <2>1, <2>2
<1>4. CASE k # 1 /\ m = 1
  <2>1. roots[k].value[2].type = "HASHTREE"
    BY <1>1, <1>4
  <2>2. roots[k].value[2].type = "FORSPK"
    BY <1>2, <1>4
  <2>. QED
    BY <2>1, <2>2
<1>5. CASE k # 1 /\ m # 1
  <2>1. roots[k].value[2].layer = k - 2 /\ roots[m].value[2].layer = m - 2
    BY <1>1, <1>5
  <2>2. k - 2 = m - 2
    BY <2>1
  <2>. QED
    BY <2>2
<1>. QED
  BY <1>3, <1>4, <1>5

LEMMA BytesAre ==
  ASSUME pk = ForsPk, NEW n \in Nat, Reached(n), NEW k \in 1..(n + 1)
  PROVE  BytesOf(roots[k].value) = roots[k].bytes
<1>1. DOMAIN roots = 1..(n + 1)
  BY DEF Reached, IsSeq
<1>. DEFINE v == roots[k].value  j == CHOOSE m \in DOMAIN roots : roots[m].value = v
<1>2. j \in DOMAIN roots /\ roots[j].value = v
  BY <1>1
<1>3. BytesOf(v) = roots[j].bytes
  <2>1. \E m \in DOMAIN roots : roots[m].value = v
    BY <1>1
  <2>. HIDE DEF v
  <2>. QED
    BY <2>1 DEF BytesOf
<1>. HIDE DEF j
<1>4. j = k
  BY <1>1, <1>2, ValuesDiffer
<1>. QED
  BY <1>3, <1>4

------------------------------------------------------------------------------
(* The top, and the verifier.                                                *)

LEMMA PublicRootIs == input \in Inputs => PublicRoot = LayerRoot(JointSeed, SPX_D - 1, TreeAt(input, SPX_D - 1))
<1>. SUFFICES ASSUME input \in Inputs PROVE PublicRoot = LayerRoot(JointSeed, SPX_D - 1, TreeAt(input, SPX_D - 1))
  OBVIOUS
<1>. DEFINE d == SPX_D - 1
            a == set_layer_addr(ZeroAddr, d)
            r == Rec(d, 0, "WOTS", 0, 0, 0, 0)
            msg == [k \in 1..SPX_N |-> 0]
            idx == TwoTo(16) - 1
<1>1. d \in 0..(SPX_D - 1)
  BY InputIs
<1>2. a = r
  <2>. HIDE DEF d
  <2>1. d % Byte = d
    BY <1>1, LayerByte
  <2>. QED
    BY <2>1, ZeroAddrIs, SettersAre
<1>3. idx \in Nat
  <2>1. TwoTo(16) \in Nat /\ TwoTo(16) > 0
    BY TwoToPositive
  <2>. QED
    BY <2>1
<1>4. PublicRoot = merkle_sign(JointSeed, msg, a, a, idx).root
  BY DEF PublicRoot
<1>5. TreeAt(input, d) = 0
  BY TopTree
<1>. HIDE DEF a, msg, idx, d
<1>6. PairSigned(merkle_sign(JointSeed, msg, r, r, idx), JointSeed, d, 0, idx, msg)
  BY <1>3, MerkleSignIs
<1>. HIDE DEF r
<1>7. PublicRoot = LayerRoot(JointSeed, d, 0)
  BY <1>2, <1>4, <1>6 DEF PairSigned
<1>. QED
  BY <1>5, <1>7 DEF d

LEMMA ShownAt ==
  ASSUME input \in Inputs, NEW n, TopSigned, Reached(n), (n = SPX_D /\ Alone) \/ n = SPX_D - 1, NEW l \in 0..(SPX_D - 1)
  PROVE  \E sd : /\ Shows(sig[l], sd, l, TreeAt(input, l), LeafAt(input, l), roots[l + 1].bytes)
                 /\ l < SPX_D - 1 => roots[l + 2].value = LayerRoot(sd, l, TreeAt(input, l))
                 /\ l = SPX_D - 1 => PublicRoot = LayerRoot(sd, l, TreeAt(input, l))
<1>1. SPX_D \in Nat /\ l \in Nat /\ (SPX_D - 1) + 1 = SPX_D
  BY InputIs
<1>2. CASE l = SPX_D - 1
  <2>1. Shows(sig[l], JointSeed, l, TreeAt(input, l), LeafAt(input, l), roots[l + 1].bytes)
    BY <1>1, <1>2 DEF TopSigned
  <2>2. PublicRoot = LayerRoot(JointSeed, l, TreeAt(input, l))
    BY <1>2, PublicRootIs
  <2>. QED
    BY <1>2, <2>1, <2>2
<1>3. CASE l # SPX_D - 1
  <2>1. l \in 0..(n - 1)
    BY <1>1, <1>3
  <2>. QED
    BY <1>3, <2>1 DEF Reached, SignedAt
<1>. QED
  BY <1>2, <1>3

LEMMA VerifyLayerKeeps ==
  ASSUME input \in Inputs, pk = ForsPk, NEW n \in Nat, TopSigned, Reached(n), (n = SPX_D /\ Alone) \/ n = SPX_D - 1,
         c \in 0..SPX_D, AtLayer(input, pos, c), c < SPX_D => root = roots[c + 1].value,
         VerifyLayer
  PROVE  /\ AtLayer(input, pos', c + 1)
         /\ c + 1 < SPX_D => root' = roots[c + 2].value
         /\ c + 1 = SPX_D => root' = PublicRoot
<1>. DEFINE tr == TreeAt(input, c)  lf == LeafAt(input, c)
            at == SetLayer(pos, c)
            v == LayerVerified(sig[c], BytesOf(root), at.wots, at.leaf, at.treeAddr)
<1>1. root' = v.root /\ pos' = Ascend(WotsTreeReplaced(at, v.wots, v.tree)) /\ c < SPX_D
  <2>. HIDE DEF at
  <2>. QED
    BY DEF VerifyLayer, LayerVerified, WotsTreeReplaced, at
<1>2. /\ c \in 0..(SPX_D - 1) /\ c \in Nat /\ SPX_D \in Nat /\ c % Byte = c /\ lf \in Nat /\ lf < TwoTo(SPX_TREE_HEIGHT)
      /\ input.tree \in Nat /\ c + 1 \in 1..(n + 1) /\ c + 1 \in 1..SPX_D /\ c + 1 <= SPX_D
  BY <1>1, InputIs, LayerByte, LeafBelow
<1>3. BytesOf(root) = roots[c + 1].bytes /\ roots[c + 1].bytes \in Bytes
  <2>. DEFINE k == c + 1
  <2>1. k \in 1..(n + 1) /\ root = roots[k].value /\ k \in 1..SPX_D /\ k <= SPX_D
    BY <1>1, <1>2
  <2>. HIDE DEF k
  <2>2. BytesOf(root) = roots[k].bytes
    BY <2>1, BytesAre
  <2>3. roots[k].bytes = input.bytes[k]
    BY <2>1 DEF Reached
  <2>4. input.bytes[k] \in Bytes
    BY <2>1, InputIs
  <2>. QED
    BY <2>2, <2>3, <2>4 DEF k
<1>4. PICK x, z, x2, y2, z2 :
         at = Pos(tr, lf, Rec(c, tr, "WOTS", lf, x, 0, z), Rec(c, tr, "HASHTREE", 0, x2, y2, z2))
  <2>1. \E x, z, x2, y2, z2 : at = Pos(tr, lf, Rec(c % Byte, tr, "WOTS", lf, x, 0, z),
                                       Rec(c % Byte, tr, "HASHTREE", 0, x2, y2, z2))
    BY <1>2, LayerSet
  <2>. QED
    BY <1>2, <2>1
<1>5. PICK sd : /\ Shows(sig[c], sd, c, tr, lf, roots[c + 1].bytes)
                /\ c < SPX_D - 1 => roots[c + 2].value = LayerRoot(sd, c, tr)
                /\ c = SPX_D - 1 => PublicRoot = LayerRoot(sd, c, tr)
  BY <1>2, ShownAt
<1>. DEFINE w == Rec(c, tr, "WOTS", lf, x, 0, z)
            a == Rec(c, tr, "HASHTREE", 0, x2, y2, z2)
<1>. HIDE DEF at, tr, lf
<1>6. at.wots = w /\ at.treeAddr = a /\ at.leaf = lf
  BY <1>4, PosFields
<1>7. RootComputed(v, sd, c, tr, lf)
  <2>. DEFINE msg == BytesOf(root)  signed == sig[c]
  <2>1. v = LayerVerified(signed, msg, w, lf, a)
    BY <1>6
  <2>2. lf \in Nat /\ lf < TwoTo(SPX_TREE_HEIGHT) /\ msg \in Bytes /\ Shows(signed, sd, c, tr, lf, msg)
    BY <1>2, <1>3, <1>5
  <2>. HIDE DEF msg, signed, v
  <2>3. RootComputed(LayerVerified(signed, msg, w, lf, a), sd, c, tr, lf)
    BY <2>2, VerifyLayerIs
  <2>. QED
    BY <2>1, <2>3
<1>. HIDE DEF v
<1>8. AtLayer(input, pos', c + 1)
  <2>1. PICK w2, a2 : w2 = v.wots /\ a2 = v.tree /\ WotsAddress(w2) /\ TreeAddress(a2)
    BY <1>7 DEF RootComputed, WotsAddress, TreeAddress
  <2>2. WotsTreeReplaced(at, w2, a2) = Pos(tr, lf, w2, a2)
    <3>1. at = Pos(tr, lf, w, a)
      BY <1>4
    <3>. HIDE DEF w, a
    <3>. QED
      BY <3>1, PosUpdates
  <2>3. AtLayer(input, Ascend(Pos(tr, lf, w2, a2)), c + 1)
    BY <1>2, <2>1, AscendAt DEF tr, lf
  <2>. QED
    BY <1>1, <2>1, <2>2, <2>3
<1>9. root' = LayerRoot(sd, c, tr)
  BY <1>1, <1>7 DEF RootComputed
<1>10. c + 1 < SPX_D => c < SPX_D - 1
  BY <1>2
<1>11. c + 1 = SPX_D => c = SPX_D - 1
  BY <1>2
<1>. QED
  BY <1>5, <1>8, <1>9, <1>10, <1>11

\* tss_gen_ttp_addr and tss_sign_WOTS_ttp sign the top over the root below.
LEMMA SignTopKeeps ==
  ASSUME input \in Inputs, input' = input, pk' = pk, Reached(SPX_D - 1), ~Alone, SignTop
  PROVE  Reached(SPX_D - 1)' /\ TopSigned'
<1>. DEFINE n == SPX_D - 1  tr == TreeAt(input, n)  lf == LeafAt(input, n)
            at == tss_gen_ttp_addr(At(input))
            msg == roots[Len(roots)].bytes
            signed == merkle_sign(JointSeed, msg, at.wots, at.treeAddr, at.leaf)
            shown == [wots |-> signed.sig, auth |-> signed.auth]
<1>1. sig' = [sig EXCEPT ![n] = shown] /\ roots' = roots
  BY DEF SignTop
<1>2. /\ n \in Nat /\ n \in Layers /\ SPX_D \in Nat /\ n \in 0..(SPX_D - 1) /\ n + 1 = SPX_D
      /\ lf \in Nat /\ lf < TwoTo(SPX_TREE_HEIGHT) /\ input.tree \in Nat
  <2>1. n \in Nat /\ n \in Layers /\ SPX_D \in Nat /\ n \in 0..(SPX_D - 1) /\ n + 1 = SPX_D /\ input.tree \in Nat
    BY InputIs DEF Layers
  <2>. HIDE DEF n
  <2>. QED
    BY <2>1, LeafBelow
<1>3. n % Byte = n
  <2>. HIDE DEF n
  <2>. QED
    BY <1>2, LayerByte
<1>4. PICK x, z, x2, y2, z2 :
         at = Pos(tr, lf, Rec(n, tr, "WOTS", lf, x, 0, z), Rec(n, tr, "HASHTREE", 0, x2, y2, z2))
  <2>. DEFINE start == At(input)  below == tss_gen_addr(n, start)
  <2>1. AtLayer(input, start, 0)
    BY <1>2, StartAt
  <2>2. at = SetLayer(below, n)
    BY DEF tss_gen_ttp_addr
  <2>. HIDE DEF n, start
  <2>3. AtLayer(input, below, n)
    BY <1>2, <2>1, GenAddrIs
  <2>. HIDE DEF below, at
  <2>4. \E x, z, x2, y2, z2 : SetLayer(below, n) = Pos(tr, lf, Rec(n % Byte, tr, "WOTS", lf, x, 0, z),
                                                    Rec(n % Byte, tr, "HASHTREE", 0, x2, y2, z2))
    BY <1>2, <2>3, LayerSet
  <2>. QED
    BY <1>3, <2>2, <2>4
<1>. DEFINE w == Rec(n, tr, "WOTS", lf, x, 0, z)
            a == Rec(n, tr, "HASHTREE", 0, x2, y2, z2)
<1>. HIDE DEF at, tr, lf
<1>5. at.wots = w /\ at.treeAddr = a /\ at.leaf = lf
  <2>. HIDE DEF n
  <2>. QED
    BY <1>4, PosFields
<1>6. Shows(shown, JointSeed, n, tr, lf, msg)
  <2>1. signed = merkle_sign(JointSeed, msg, w, a, lf)
    BY <1>5
  <2>2. lf \in Nat
    BY <1>2
  <2>. HIDE DEF msg, signed, n
  <2>3. PairSigned(merkle_sign(JointSeed, msg, w, a, lf), JointSeed, n, tr, lf, msg)
    BY <2>2, MerkleSignIs
  <2>. HIDE DEF w, a
  <2>. QED
    BY <1>2, <2>1, <2>3 DEF PairSigned
<1>. HIDE DEF signed
<1>7. msg = roots[SPX_D].bytes
  <2>. DEFINE m == SPX_D  s == roots
  <2>1. m \in Nat /\ IsSeq(s, m)
    BY <1>2 DEF Reached
  <2>. HIDE DEF m, s
  <2>2. Len(s) = m
    BY <2>1, Appended
  <2>. QED
    BY <2>2 DEF m, s
<1>8. /\ sig' = [l \in Layers |-> sig'[l]] /\ sig'[n] = shown
      /\ \A l \in Layers : l # n => sig'[l] = sig[l]
  <2>. HIDE DEF shown, n
  <2>1. sig = [l \in Layers |-> sig[l]]
    BY DEF Reached, n
  <2>2. DOMAIN sig = Layers
    BY <2>1
  <2>. QED
    BY <1>1, <1>2, <2>1, <2>2
<1>9. TopSigned'
  <2>. HIDE DEF shown, msg
  <2>1. Shows(sig'[n], JointSeed, n, tr, lf, roots'[SPX_D].bytes)
    BY <1>1, <1>6, <1>7, <1>8
  <2>. QED
    BY <2>1 DEF TopSigned, tr, lf
<1>10. Alone' = Alone
  BY DEF Alone
<1>11. ASSUME NEW l \in 0..(n - 1) PROVE SignedAt(l)'
  <2>1. l \in Layers /\ l # n
    BY <1>2 DEF Layers
  <2>. HIDE DEF n
  <2>2. sig'[l] = sig[l]
    BY <1>8, <2>1
  <2>3. SignedAt(l)
    BY DEF Reached, n
  <2>. QED
    BY <1>1, <1>10, <2>2, <2>3 DEF SignedAt
<1>. QED
  BY <1>1, <1>8, <1>9, <1>11 DEF Reached

------------------------------------------------------------------------------
(* The signers' shares of the layers.                                        *)

LEMMA LevelsAre ==
  ASSUME input \in Inputs, ~Alone, NEW j \in 0..(input.t - 1)
  PROVE  /\ j * SPX_WOTS_AVG \in Nat /\ Levels(j) \in Nat
         /\ j < input.t - 1 => j * SPX_WOTS_AVG + Levels(j) = (j + 1) * SPX_WOTS_AVG
         /\ j = input.t - 1 => j * SPX_WOTS_AVG + Levels(j) = SPX_D - 1
         /\ j * SPX_WOTS_AVG + Levels(j) <= SPX_D - 1
<1>. DEFINE m == SPX_D - 1  t == input.t  a == SPX_WOTS_AVG  b == m % t
<1>1. m \in Nat /\ t \in Nat /\ t > 0 /\ j \in Nat
  BY InputIs DEF Alone
<1>2. a = m \div t
  BY DEF SPX_WOTS_AVG
<1>3. Levels(j) = IF j = t - 1 THEN a + b ELSE a
  BY DEF Levels
<1>4. a \in Nat /\ b \in Nat /\ m = t * a + b
  <2>. HIDE DEF m, t
  <2>. QED
    BY <1>1, <1>2
<1>. HIDE DEF m, t, a, b
<1>5. j * a \in Nat /\ j * a + a = (j + 1) * a /\ (t - 1) * a + a = t * a
  BY <1>1, <1>4
<1>6. j + 1 <= t /\ (j + 1) * a <= t * a
  <2>1. j + 1 <= t /\ j + 1 \in Nat
    BY <1>1 DEF t
  <2>2. (j + 1) * a <= t * a
    BY <1>1, <1>4, <2>1, TimesMonotone
  <2>. QED
    BY <2>1, <2>2
<1>7. (j + 1) * a \in Nat /\ t * a \in Nat
  BY <1>1, <1>4
<1>8. CASE j = t - 1
  <2>1. j * a + a = t * a
    BY <1>5, <1>8
  <2>2. Levels(j) = a + b
    BY <1>3, <1>8
  <2>3. j * a + Levels(j) = m
    BY <1>4, <1>5, <1>7, <2>1, <2>2
  <2>. QED
    BY <1>1, <1>4, <1>5, <1>8, <2>2, <2>3 DEF m, t, a
<1>9. CASE j # t - 1
  <2>1. Levels(j) = a
    BY <1>3, <1>9
  <2>2. j * a + Levels(j) = (j + 1) * a
    BY <1>5, <2>1
  <2>3. (j + 1) * a <= m
    BY <1>4, <1>6, <1>7
  <2>. QED
    BY <1>1, <1>4, <1>5, <1>9, <2>1, <2>2, <2>3 DEF m, t, a
<1>. QED
  BY <1>8, <1>9

------------------------------------------------------------------------------
(* The invariant of the hypertree's part.                                    *)

StartInv ==
    /\ Alone => c \in 0..SPX_D /\ Reached(c) /\ AtLayer(input, pos, c)
    /\ ~Alone => index \in 0..(input.t - 1) /\ Reached(index * SPX_WOTS_AVG)

SignInv ==
    /\ ~Alone /\ index \in 0..(input.t - 1) /\ c \in 0..Levels(index)
    /\ Reached(Place) /\ AtLayer(input, pos, Place)

AllSigned == TopSigned /\ \E n \in Nat : Reached(n) /\ ((n = SPX_D /\ Alone) \/ n = SPX_D - 1)

VerifyInv ==
    /\ c \in 0..SPX_D /\ AtLayer(input, pos, c)
    /\ c < SPX_D => root = roots[c + 1].value
    /\ c = SPX_D => root = PublicRoot

HyperInv ==
    /\ phase \in {"hash", "fors"} =>
           index = 0 /\ c = 0 /\ pos = At(input) /\ sig = [l \in Layers |-> sig[l]]
    /\ phase = "start" => StartInv
    /\ phase = "sign" => SignInv
    /\ phase = "ttp" => ~Alone /\ Reached(SPX_D - 1)
    /\ phase \in {"forsPk", "verify", "done"} => AllSigned
    /\ phase = "forsPk" => c = 0 /\ pos = At(input)
    /\ phase = "verify" => VerifyInv
    /\ phase = "done" => root = PublicRoot

SigInv == ForsInv /\ HyperInv

LEMMA HyperFrame ==
  ASSUME input' = input, roots' = roots, sig' = sig, pk' = pk
  PROVE  /\ Alone' = Alone /\ TopSigned' = TopSigned /\ \A n : Reached(n)' = Reached(n)
         /\ AllSigned' = AllSigned
<1>1. Alone' = Alone
  BY DEF Alone
<1>2. \A l : SignedAt(l)' = SignedAt(l)
  BY <1>1 DEF SignedAt
<1>3. \A n : Reached(n)' = Reached(n)
  BY <1>2 DEF Reached
<1>4. TopSigned' = TopSigned
  BY DEF TopSigned
<1>. QED
  BY <1>1, <1>3, <1>4 DEF AllSigned

LEMMA HyperInvInit == Init => HyperInv
BY DEF Init, HypertreeInit, HyperInv

\* The FORS key is the only value to be signed.
LEMMA NoneReached ==
  ASSUME input' \in Inputs, sig' = [l \in Layers |-> sig'[l]], roots' = <<Signed(pk', 1)>>, input' = input
  PROVE  Reached(0)'
<1>. DEFINE e == Signed(pk', 1)
<1>1. e.value = pk' /\ e.bytes = input'.bytes[1]
  BY InputIs DEF Signed
<1>. HIDE DEF e
<1>2. roots' = <<e>>
  BY DEF e
<1>3. roots' = [k \in 1..1 |-> roots'[k]] /\ roots'[1] = e
  BY <1>2
<1>4. \A k \in 1..1 : k = 1
  OBVIOUS
<1>5. 0 + 1 = 1 /\ \A l \in 0..(0 - 1) : FALSE
  OBVIOUS
<1>. QED
  BY <1>1, <1>3, <1>4, <1>5 DEF Reached, IsSeq

LEMMA SignForsKeeps ==
  ASSUME SigInv, SignFors
  PROVE  SigInv'
<1>1. CASE SignTree /\ UNCHANGED hypertreeVars
  <2>1. ForsInv'
    BY <1>1, SignTreeKeeps DEF SigInv
  <2>2. phase = "fors" /\ phase' = phase /\ input' = input
    BY <1>1 DEF SignTree
  <2>3. HyperInv'
    BY <1>1, <2>2 DEF SigInv, HyperInv, hypertreeVars
  <2>. QED
    BY <2>1, <2>3 DEF SigInv
<1>2. CASE SignEnd /\ roots' = <<Signed(pk', 1)>> /\ UNCHANGED <<index, c, pos, sig, root>>
  <2>1. ForsInv'
    BY <1>2, SignEndKeeps DEF SigInv
  <2>2. phase = "fors" /\ phase' = "start" /\ input' = input
    BY <1>2 DEF SignEnd
  <2>3. /\ index' = 0 /\ c' = 0 /\ pos' = At(input) /\ sig' = [l \in Layers |-> sig'[l]] /\ input' \in Inputs
    BY <1>2, <2>1, <2>2 DEF SigInv, HyperInv, ForsInv
  <2>4. Reached(0)'
    BY <1>2, <2>2, <2>3, NoneReached
  <2>5. AtLayer(input, pos', 0)
    BY <2>2, <2>3, InputIs, StartAt
  <2>6. SPX_D \in Nat /\ input.t \in Nat /\ (~Alone => input.t > 0)
    BY <2>2, <2>3, InputIs DEF Alone
  <2>7. ASSUME ~Alone PROVE index' \in 0..(input.t - 1) /\ Reached(index * SPX_WOTS_AVG)'
    <3>. DEFINE j == index'
    <3>1. j = 0 /\ 0 \in 0..(input.t - 1)
      BY <2>3, <2>6, <2>7
    <3>2. SPX_WOTS_AVG' = SPX_WOTS_AVG
      BY <2>2 DEF SPX_WOTS_AVG
    <3>3. 0 * SPX_WOTS_AVG = 0
      <4>1. SPX_WOTS_AVG \in Int
        BY <2>6, <2>7, InputIs, <2>2, <2>3 DEF SPX_WOTS_AVG
      <4>. QED
        BY <4>1
    <3>. QED
      BY <2>4, <3>1, <3>2, <3>3
  <2>8. Alone' = Alone
    BY <2>2 DEF Alone
  <2>9. StartInv'
    BY <2>2, <2>3, <2>4, <2>5, <2>6, <2>7, <2>8 DEF StartInv
  <2>10. HyperInv'
    BY <2>2, <2>9 DEF HyperInv
  <2>. QED
    BY <2>1, <2>10 DEF SigInv
<1>. QED
  BY <1>1, <1>2 DEF SignFors

LEMMA FindAddressKeeps ==
  ASSUME SigInv, FindAddress, UNCHANGED forsVars
  PROVE  HyperInv'
<1>1. /\ phase = "start" /\ ~Alone /\ pos' = tss_gen_addr(index * SPX_WOTS_AVG, At(input))
      /\ phase' = "sign" /\ c' = 0 /\ input' = input /\ index' = index /\ roots' = roots /\ sig' = sig /\ pk' = pk
  BY DEF FindAddress, forsVars
<1>2. /\ input \in Inputs /\ index \in 0..(input.t - 1) /\ Reached(index * SPX_WOTS_AVG) /\ input.tree \in Nat
  BY <1>1, InputIs DEF SigInv, ForsInv, HyperInv, StartInv
<1>3. index * SPX_WOTS_AVG \in Nat /\ Levels(index) \in Nat
  BY <1>1, <1>2, LevelsAre
<1>4. PICK n \in Nat : n = index * SPX_WOTS_AVG
  BY <1>3
<1>5. Place' = n /\ Levels(index)' = Levels(index)
  <2>1. Place' = n + 0
    BY <1>1, <1>4 DEF Place, SPX_WOTS_AVG
  <2>. QED
    BY <1>1, <2>1 DEF Levels, SPX_WOTS_AVG
<1>6. AtLayer(input, pos', n)
  <2>. DEFINE start == At(input)
  <2>1. AtLayer(input, start, 0)
    BY <1>2, StartAt
  <2>. HIDE DEF start
  <2>2. AtLayer(input, tss_gen_addr(n, start), n)
    BY <1>2, <2>1, GenAddrIs
  <2>. QED
    BY <1>1, <1>4, <2>2 DEF start
<1>7. Reached(n)' /\ Alone' = Alone
  BY <1>1, <1>2, <1>4, HyperFrame
<1>8. Reached(Place)' /\ AtLayer(input, pos, Place)'
  BY <1>1, <1>5, <1>6, <1>7
<1>9. SignInv'
  BY <1>1, <1>2, <1>3, <1>5, <1>7, <1>8 DEF SignInv
<1>. QED
  BY <1>1, <1>9 DEF HyperInv

LEMMA SignLayerKeeps ==
  ASSUME SigInv, SignLayer, UNCHANGED forsVars
  PROVE  HyperInv'
<1>1. /\ phase = "sign" /\ phase' = phase /\ input' = input /\ index' = index /\ c < Levels(index) /\ pk' = pk
      /\ SignAt(index, c + index * SPX_WOTS_AVG, Place)
  BY DEF SignLayer, forsVars
<1>2. /\ input \in Inputs /\ ~Alone /\ index \in 0..(input.t - 1) /\ c \in 0..Levels(index)
      /\ Reached(Place) /\ AtLayer(input, pos, Place)
  BY <1>1 DEF SigInv, ForsInv, HyperInv, SignInv
<1>3. /\ index * SPX_WOTS_AVG \in Nat /\ Levels(index) \in Nat
      /\ index * SPX_WOTS_AVG + Levels(index) <= SPX_D - 1 /\ SPX_D \in Nat
  BY <1>2, LevelsAre, InputIs
<1>4. PICK n \in 0..(SPX_D - 1) : n = Place /\ c + index * SPX_WOTS_AVG = n /\ c \in Nat /\ c + 1 \in 0..Levels(index)
  <2>. DEFINE m == index * SPX_WOTS_AVG  k == Levels(index)
  <2>1. Place = m + c
    BY DEF Place
  <2>2. m \in Nat /\ k \in Nat /\ m + k <= SPX_D - 1 /\ c \in 0..k /\ c < k /\ SPX_D \in Nat
    BY <1>1, <1>2, <1>3
  <2>. HIDE DEF m, k
  <2>3. c + m = m + c /\ m + c \in 0..(SPX_D - 1) /\ c \in Nat /\ c + 1 \in 0..k
    BY <2>2
  <2>. QED
    BY <2>1, <2>3 DEF m, k
<1>5. SignAt(index, n, n) /\ Reached(n) /\ AtLayer(input, pos, n)
  BY <1>1, <1>2, <1>4
<1>6. Reached(n + 1)' /\ AtLayer(input, pos', n + 1) /\ c' = c + 1
  <2>. DEFINE sd == index
  <2>1. SignAt(sd, n, n)
    BY <1>5
  <2>. HIDE DEF sd
  <2>. QED
    BY <1>1, <1>2, <1>5, <2>1, SignAtKeeps
<1>7. Place' = n + 1 /\ Levels(index)' = Levels(index) /\ Alone' = Alone
  <2>1. Place' = index * SPX_WOTS_AVG + (c + 1) /\ Place = index * SPX_WOTS_AVG + c
    BY <1>1, <1>6 DEF Place, SPX_WOTS_AVG
  <2>2. Place' = n + 1
    BY <1>3, <1>4, <2>1
  <2>. QED
    BY <1>1, <2>2 DEF Levels, SPX_WOTS_AVG, Alone
<1>8. Reached(Place)' /\ AtLayer(input, pos, Place)'
  BY <1>1, <1>6, <1>7
<1>9. SignInv'
  BY <1>1, <1>2, <1>4, <1>6, <1>7, <1>8 DEF SignInv
<1>. QED
  BY <1>1, <1>9 DEF HyperInv

LEMMA PassRootKeeps ==
  ASSUME SigInv, PassRoot, UNCHANGED forsVars
  PROVE  HyperInv'
<1>1. /\ phase = "sign" /\ c = Levels(index) /\ input' = input /\ roots' = roots /\ sig' = sig /\ pk' = pk
      /\ IF index < input.t - 1 THEN phase' = "start" /\ index' = index + 1 ELSE phase' = "ttp" /\ index' = index
  BY DEF PassRoot, forsVars
<1>2. /\ input \in Inputs /\ ~Alone /\ index \in 0..(input.t - 1) /\ Reached(Place) /\ input.t \in Nat
  BY <1>1, InputIs DEF SigInv, ForsInv, HyperInv, SignInv
<1>3. Place = index * SPX_WOTS_AVG + Levels(index)
  BY <1>1 DEF Place
<1>4. Alone' = Alone /\ SPX_WOTS_AVG' = SPX_WOTS_AVG
  BY <1>1 DEF Alone, SPX_WOTS_AVG
<1>5. CASE index < input.t - 1
  <2>1. Place = (index + 1) * SPX_WOTS_AVG
    BY <1>2, <1>3, <1>5, LevelsAre
  <2>2. PICK n : n = Place
    OBVIOUS
  <2>3. Reached(n)'
    BY <1>1, <1>2, <2>2, HyperFrame
  <2>4. index' = index + 1 /\ index' \in 0..(input.t - 1) /\ phase' = "start"
    BY <1>1, <1>2, <1>5
  <2>5. (index * SPX_WOTS_AVG)' = n
    BY <1>4, <2>1, <2>2, <2>4
  <2>6. Reached(index * SPX_WOTS_AVG)'
    BY <2>3, <2>5
  <2>7. StartInv'
    BY <1>1, <1>2, <1>4, <2>4, <2>6 DEF StartInv
  <2>. QED
    BY <2>4, <2>7 DEF HyperInv
<1>6. CASE ~(index < input.t - 1)
  <2>1. index = input.t - 1
    BY <1>2, <1>6
  <2>2. Place = SPX_D - 1
    BY <1>2, <1>3, <2>1, LevelsAre
  <2>3. Reached(SPX_D - 1)'
    BY <1>1, <1>2, <2>2, HyperFrame
  <2>. QED
    BY <1>1, <1>2, <1>4, <1>6, <2>3 DEF HyperInv
<1>. QED
  BY <1>5, <1>6

LEMMA SignTopIsKept ==
  ASSUME SigInv, SignTop, UNCHANGED forsVars
  PROVE  HyperInv'
<1>1. /\ phase = "ttp" /\ phase' = "forsPk" /\ c' = 0 /\ pos' = At(input) /\ input' = input /\ pk' = pk
  BY DEF SignTop, forsVars
<1>2. input \in Inputs /\ ~Alone /\ Reached(SPX_D - 1) /\ SPX_D - 1 \in Nat
  BY <1>1, InputIs DEF SigInv, ForsInv, HyperInv
<1>3. Reached(SPX_D - 1)' /\ TopSigned'
  BY <1>1, <1>2, SignTopKeeps
<1>4. AllSigned'
  <2>1. PICK n \in Nat : n = SPX_D - 1
    BY <1>2
  <2>2. Reached(n)'
    BY <1>3, <2>1
  <2>. QED
    BY <1>3, <2>1, <2>2 DEF AllSigned
<1>. QED
  BY <1>1, <1>4 DEF HyperInv

LEMMA SignLayerAloneKeeps ==
  ASSUME SigInv, SignLayerAlone, UNCHANGED forsVars
  PROVE  HyperInv'
<1>1. /\ phase = "start" /\ phase' = phase /\ Alone /\ input' = input /\ c < SPX_D /\ pk' = pk
      /\ SignAt(JointSeed, c, c)
  BY DEF SignLayerAlone, forsVars
<1>2. input \in Inputs /\ c \in 0..SPX_D /\ Reached(c) /\ AtLayer(input, pos, c) /\ SPX_D \in Nat
  BY <1>1, InputIs DEF SigInv, ForsInv, HyperInv, StartInv
<1>3. PICK n \in 0..(SPX_D - 1) : n = c /\ n + 1 \in 0..SPX_D
  BY <1>1, <1>2
<1>4. SignAt(JointSeed, n, n) /\ Reached(n) /\ AtLayer(input, pos, n)
  BY <1>1, <1>2, <1>3
<1>5. Reached(n + 1)' /\ AtLayer(input, pos', n + 1) /\ c' = c + 1
  <2>. DEFINE sd == JointSeed
  <2>1. SignAt(sd, n, n) /\ (Alone => sd = JointSeed)
    BY <1>4
  <2>. HIDE DEF sd
  <2>. QED
    BY <1>1, <1>2, <1>4, <2>1, SignAtKeeps
<1>6. Alone' = Alone
  BY <1>1 DEF Alone
<1>7. c' = n + 1
  BY <1>3, <1>5
<1>8. Reached(c)' /\ AtLayer(input, pos, c)'
  BY <1>1, <1>5, <1>7
<1>9. StartInv'
  BY <1>1, <1>3, <1>6, <1>7, <1>8 DEF StartInv
<1>. QED
  BY <1>1, <1>9 DEF HyperInv

LEMMA EndAloneKeeps ==
  ASSUME SigInv, EndAlone, UNCHANGED forsVars
  PROVE  HyperInv'
<1>1. /\ phase = "start" /\ phase' = "forsPk" /\ Alone /\ c = SPX_D /\ c' = 0 /\ pos' = At(input)
      /\ input' = input /\ roots' = roots /\ sig' = sig /\ pk' = pk
  BY DEF EndAlone, forsVars
<1>2. input \in Inputs /\ Reached(SPX_D) /\ SPX_D \in Nat
  BY <1>1, InputIs DEF SigInv, ForsInv, HyperInv, StartInv
<1>3. TopSigned
  <2>1. SignedAt(SPX_D - 1)
    <3>1. SPX_D - 1 \in 0..(SPX_D - 1)
      BY <1>2, InputIs
    <3>. QED
      BY <1>2, <3>1 DEF Reached
  <2>2. (SPX_D - 1) + 1 = SPX_D
    BY <1>2
  <2>. QED
    BY <1>1, <2>1, <2>2 DEF SignedAt, TopSigned
<1>4. AllSigned
  BY <1>1, <1>2, <1>3 DEF AllSigned
<1>5. AllSigned'
  BY <1>1, <1>4, HyperFrame
<1>. QED
  BY <1>1, <1>5 DEF HyperInv

LEMMA VerifyForsKeeps ==
  ASSUME SigInv, VerifyFors
  PROVE  SigInv'
<1>1. CASE VerifyTree /\ UNCHANGED hypertreeVars
  <2>1. ForsInv'
    BY <1>1, VerifyTreeKeeps DEF SigInv
  <2>2. /\ phase = "forsPk" /\ phase' = phase /\ input' = input /\ pk' = pk
        /\ c' = c /\ pos' = pos /\ roots' = roots /\ sig' = sig
    BY <1>1 DEF VerifyTree, hypertreeVars
  <2>3. AllSigned'
    BY <2>2, HyperFrame DEF SigInv, HyperInv
  <2>4. HyperInv'
    BY <2>2, <2>3 DEF SigInv, HyperInv
  <2>. QED
    BY <2>1, <2>4 DEF SigInv
<1>2. CASE VerifyEnd /\ root' = pkFromSig' /\ UNCHANGED <<index, c, pos, roots, sig>>
  <2>1. ForsInv' /\ pkFromSig' = pk
    BY <1>2, VerifyEndKeeps DEF SigInv
  <2>2. /\ phase = "forsPk" /\ phase' = "verify" /\ input' = input /\ pk' = pk
        /\ c' = c /\ pos' = pos /\ roots' = roots /\ sig' = sig /\ root' = pk
    BY <1>2, <2>1 DEF VerifyEnd
  <2>3. AllSigned /\ c = 0 /\ pos = At(input) /\ input \in Inputs
    BY <2>2 DEF SigInv, HyperInv, ForsInv
  <2>4. AllSigned'
    BY <2>2, <2>3, HyperFrame
  <2>5. AtLayer(input, pos', 0)
    BY <2>2, <2>3, InputIs, StartAt
  <2>6. roots[1].value = pk
    BY <2>3 DEF AllSigned, Reached
  <2>7. SPX_D \in Nat /\ SPX_D >= 2
    BY <2>3, InputIs
  <2>8. VerifyInv'
    BY <2>2, <2>3, <2>5, <2>6, <2>7 DEF VerifyInv
  <2>9. HyperInv'
    BY <2>2, <2>4, <2>8 DEF HyperInv
  <2>. QED
    BY <2>1, <2>9 DEF SigInv
<1>. QED
  BY <1>1, <1>2 DEF VerifyFors

LEMMA VerifyLayerIsKept ==
  ASSUME SigInv, VerifyLayer, UNCHANGED forsVars
  PROVE  HyperInv'
<1>1. /\ phase = "verify" /\ phase' = phase /\ c < SPX_D /\ c' = c + 1 /\ input' = input /\ pk' = pk
      /\ roots' = roots /\ sig' = sig
  BY DEF VerifyLayer, forsVars
<1>2. /\ input \in Inputs /\ pk = ForsPk /\ AllSigned /\ VerifyInv /\ SPX_D \in Nat
  BY <1>1, InputIs DEF SigInv, ForsInv, HyperInv
<1>3. PICK n \in Nat : Reached(n) /\ ((n = SPX_D /\ Alone) \/ n = SPX_D - 1)
  BY <1>2 DEF AllSigned
<1>4. TopSigned /\ c \in 0..SPX_D /\ AtLayer(input, pos, c) /\ (c < SPX_D => root = roots[c + 1].value)
  BY <1>2 DEF AllSigned, VerifyInv
<1>5. /\ AtLayer(input, pos', c + 1)
      /\ c + 1 < SPX_D => root' = roots[c + 2].value
      /\ c + 1 = SPX_D => root' = PublicRoot
  BY <1>2, <1>3, <1>4, VerifyLayerKeeps
<1>6. PublicRoot' = PublicRoot
  BY DEF PublicRoot
<1>7. c + 1 \in 0..SPX_D /\ (c + 1) + 1 = c + 2
  BY <1>1, <1>2, <1>4
<1>8. VerifyInv'
  BY <1>1, <1>5, <1>6, <1>7 DEF VerifyInv
<1>9. AllSigned'
  BY <1>1, <1>2, HyperFrame
<1>. QED
  BY <1>1, <1>8, <1>9 DEF HyperInv

LEMMA CompareKeeps ==
  ASSUME SigInv, Compare, UNCHANGED forsVars
  PROVE  HyperInv'
<1>1. /\ phase = "verify" /\ phase' = "done" /\ c = SPX_D /\ root' = root /\ input' = input /\ pk' = pk
      /\ roots' = roots /\ sig' = sig
  BY DEF Compare, forsVars
<1>2. AllSigned /\ root = PublicRoot
  BY <1>1 DEF SigInv, HyperInv, VerifyInv
<1>3. PublicRoot' = PublicRoot
  BY DEF PublicRoot
<1>4. AllSigned'
  BY <1>1, <1>2, HyperFrame
<1>. QED
  BY <1>1, <1>2, <1>3, <1>4 DEF HyperInv

LEMMA StutterKeeps ==
  ASSUME SigInv, UNCHANGED <<input, forsVars, hypertreeVars>>,
         phase' = phase \/ (phase = "hash" /\ phase' = "fors")
  PROVE  HyperInv'
<1>1. /\ input' = input /\ pk' = pk /\ index' = index /\ c' = c /\ pos' = pos /\ roots' = roots
      /\ sig' = sig /\ root' = root
  BY DEF forsVars, hypertreeVars
<1>2. Alone' = Alone /\ TopSigned' = TopSigned /\ (\A n : Reached(n)' = Reached(n)) /\ AllSigned' = AllSigned
  BY <1>1, HyperFrame
<1>3. CASE phase = "hash" /\ phase' = "fors"
  BY <1>1, <1>3 DEF SigInv, HyperInv
<1>4. CASE phase' = phase
  <2>1. SPX_WOTS_AVG' = SPX_WOTS_AVG /\ Place' = Place /\ Levels(index)' = Levels(index) /\ PublicRoot' = PublicRoot
    BY <1>1 DEF SPX_WOTS_AVG, Place, Levels, PublicRoot
  <2>2. StartInv' = StartInv
    <3>1. Reached(c)' = Reached(c)
      BY <1>1 DEF Reached, SignedAt, Alone
    <3>2. Reached(index * SPX_WOTS_AVG)' = Reached(index * SPX_WOTS_AVG)
      BY <1>1, <2>1 DEF Reached, SignedAt, Alone
    <3>. QED
      BY <1>1, <1>2, <3>1, <3>2 DEF StartInv
  <2>3. SignInv' = SignInv
    <3>1. Reached(Place)' = Reached(Place)
      BY <1>1, <2>1 DEF Reached, SignedAt, Alone
    <3>. QED
      BY <1>1, <1>2, <2>1, <3>1 DEF SignInv
  <2>4. VerifyInv' = VerifyInv
    BY <1>1, <2>1 DEF VerifyInv
  <2>5. Reached(SPX_D - 1)' = Reached(SPX_D - 1)
    BY <1>1 DEF Reached, SignedAt, Alone
  <2>. QED
    BY <1>1, <1>2, <1>4, <2>1, <2>2, <2>3, <2>4, <2>5 DEF SigInv, HyperInv
<1>. QED
  BY <1>3, <1>4

------------------------------------------------------------------------------
LEMMA SigInvNext == SigInv /\ [Next]_vars => SigInv'
<1>. SUFFICES ASSUME SigInv, [Next]_vars PROVE SigInv'
  OBVIOUS
<1>1. CASE Hash
  <2>1. /\ phase = "hash" /\ phase' = "fors" /\ UNCHANGED <<input, forsVars>> /\ UNCHANGED hypertreeVars
    BY <1>1 DEF Hash, HashMessage
  <2>2. ForsInv'
    BY <2>1, ForsUntouched DEF SigInv, Phases
  <2>3. HyperInv'
    BY <2>1, StutterKeeps
  <2>. QED
    BY <2>2, <2>3 DEF SigInv
<1>2. CASE SignFors
  BY <1>2, SignForsKeeps
<1>3. CASE SignHypertree
  <2>1. UNCHANGED forsVars
    BY <1>3 DEF SignHypertree
  <2>2. ASSUME phase \in {"start", "sign", "ttp"}, phase' \in {"start", "sign", "ttp", "forsPk"}, input' = input
        PROVE  ForsInv'
    BY <2>1, <2>2, ForsUntouched DEF SigInv, Phases
  <2>3. CASE FindAddress
    BY <2>1, <2>2, <2>3, FindAddressKeeps DEF SigInv, FindAddress
  <2>4. CASE SignLayer
    <3>1. HyperInv'
      BY <2>1, <2>4, SignLayerKeeps
    <3>. QED
      BY <2>2, <2>4, <3>1 DEF SigInv, SignLayer
  <2>5. CASE PassRoot
    BY <2>1, <2>2, <2>5, PassRootKeeps DEF SigInv, PassRoot
  <2>6. CASE SignTop
    <3>1. HyperInv'
      BY <2>1, <2>6, SignTopIsKept
    <3>. QED
      BY <2>2, <2>6, <3>1 DEF SigInv, SignTop
  <2>7. CASE SignLayerAlone
    <3>1. HyperInv'
      BY <2>1, <2>7, SignLayerAloneKeeps
    <3>. QED
      BY <2>2, <2>7, <3>1 DEF SigInv, SignLayerAlone
  <2>8. CASE EndAlone
    BY <2>1, <2>2, <2>8, EndAloneKeeps DEF SigInv, EndAlone
  <2>. QED
    BY <1>3, <2>3, <2>4, <2>5, <2>6, <2>7, <2>8 DEF SignHypertree
<1>4. CASE VerifyFors
  BY <1>4, VerifyForsKeeps
<1>5. CASE VerifyHypertree
  <2>1. UNCHANGED forsVars
    BY <1>5 DEF VerifyHypertree
  <2>2. ASSUME phase = "verify", phase' \in {"verify", "done"}, input' = input
        PROVE  ForsInv'
    BY <2>1, <2>2, ForsUntouched DEF SigInv, Phases
  <2>3. CASE VerifyLayer
    <3>1. HyperInv'
      BY <2>1, <2>3, VerifyLayerIsKept
    <3>. QED
      BY <2>2, <2>3, <3>1 DEF SigInv, VerifyLayer
  <2>4. CASE Compare
    BY <2>1, <2>2, <2>4, CompareKeeps DEF SigInv, Compare
  <2>. QED
    BY <1>5, <2>3, <2>4 DEF VerifyHypertree
<1>6. CASE UNCHANGED vars
  <2>1. /\ phase' = phase /\ UNCHANGED <<input, forsVars>> /\ UNCHANGED hypertreeVars
    BY <1>6 DEF vars
  <2>2. phase' \in Phases
    BY <2>1 DEF SigInv, ForsInv
  <2>3. ForsInv'
    BY <2>1, <2>2, ForsUntouched DEF SigInv
  <2>4. HyperInv'
    BY <2>1, StutterKeeps
  <2>. QED
    BY <2>3, <2>4 DEF SigInv
<1>. QED
  BY <1>1, <1>2, <1>3, <1>4, <1>5, <1>6 DEF Next, Done

\* At every moment the values signed so far are the FORS key and the roots of the
\* layers signed, each a signature of the one below, whoever signs, and a verifier
\* has computed the same ones (fors.c, wots.c, merkle.c, TSS_sign.c, ref sign.c).
THEOREM SigInvHolds == Spec => []SigInv
<1>1. Init => SigInv
  BY ForsInvInit, HyperInvInit DEF SigInv
<1>. QED
  BY <1>1, SigInvNext, PTL DEF Spec

\* All the layers below the top are signed when the TTP's turn comes, for every
\* number of layers and signers (sign_round.c:12-16, 80-81).
THEOREM AllLayersSignedHolds == Spec => []AllLayersSigned
<1>1. SigInv => AllLayersSigned
  <2>. SUFFICES ASSUME SigInv, phase = "ttp"
                PROVE  (\A l \in 0..(SPX_D - 2) : sig[l] # NoSignature) /\ Len(roots) = SPX_D
    BY DEF AllLayersSigned
  <2>1. Reached(SPX_D - 1) /\ SPX_D \in Nat /\ SPX_D >= 2
    BY InputIs DEF SigInv, ForsInv, HyperInv
  <2>2. ASSUME NEW l \in 0..(SPX_D - 2) PROVE sig[l] # NoSignature
    <3>1. l \in 0..((SPX_D - 1) - 1)
      BY <2>1
    <3>2. sig[l] = [wots |-> sig[l].wots, auth |-> sig[l].auth]
      BY <2>1, <3>1 DEF Reached, SignedAt
    <3>3. "wots" \in DOMAIN sig[l]
      BY <3>2
    <3>4. NoSignature \in Seq({}) /\ DOMAIN NoSignature = {}
      BY DEF NoSignature
    <3>. QED
      BY <3>3, <3>4
  <2>3. Len(roots) = SPX_D
    <3>. DEFINE m == SPX_D  s == roots
    <3>1. m \in Nat /\ IsSeq(s, m)
      BY <2>1 DEF Reached
    <3>. HIDE DEF m, s
    <3>2. Len(s) = m
      BY <3>1, Appended
    <3>. QED
      BY <3>2 DEF m, s
  <2>. QED
    BY <2>2, <2>3
<1>. QED
  BY <1>1, SigInvHolds, PTL

\* A signature that t signers and the TTP have made, or one who has the whole key,
\* verifies, for every parameter set, number of signers and digest
\* (TSS_sign.c:89-224 against 230-312, ref sign.c:95-159).
THEOREM SignatureVerifiesHolds == Spec => []SignatureVerifies
<1>1. SigInv => SignatureVerifies
  BY DEF SigInv, HyperInv, SignatureVerifies, Accepted
<1>. QED
  BY <1>1, SigInvHolds, PTL

\* Each FORS signature opens the leaf that the digest selects, and the nodes beside
\* its path, in every tree (utilsx1.c:62-70, fors.c:92-121).
THEOREM OpensSelectedLeafHolds == Spec => []OpensSelectedLeaf
<1>1. SigInv => OpensSelectedLeaf
  BY OpensSelected DEF SigInv
<1>. QED
  BY <1>1, SigInvHolds, PTL

------------------------------------------------------------------------------
(* The checksum.                                                             *)

LEMMA ShiftTimes ==
  ASSUME NEW x \in Nat, NEW n \in Nat
  PROVE  Shift(x * TwoTo(n), n) = x
<1>. DEFINE N == {k \in Nat : Shift(x * TwoTo(k), k) = x}
<1>1. 0 \in N
  <2>1. x * 1 = x
    OBVIOUS
  <2>. QED
    BY <2>1, ShiftIs, TwoToIs
<1>2. ASSUME NEW k \in Nat, k \in N PROVE k + 1 \in N
  <2>. DEFINE power == TwoTo(k)  y == x * power
  <2>1. power \in Nat /\ TwoTo(k + 1) = 2 * power
    BY TwoToPositive, TwoToIs
  <2>2. Shift(y, k) = x
    BY <1>2
  <2>. HIDE DEF power
  <2>3. y \in Nat /\ x * (2 * power) = 2 * y
    BY <2>1
  <2>. HIDE DEF y
  <2>4. Shift(2 * y, 1) = y
    <3>1. Shift(2 * y, 0 + 1) = Shift(2 * y, 0) \div 2 /\ Shift(2 * y, 0) = 2 * y
      BY ShiftIs
    <3>2. (2 * y) \div 2 = y /\ 0 + 1 = 1
      BY <2>3
    <3>. QED
      BY <3>1, <3>2
  <2>5. Shift(Shift(2 * y, 1), k) = Shift(2 * y, 1 + k) /\ 1 + k = k + 1
    <3>1. 2 * y \in Nat
      BY <2>3
    <3>. QED
      BY <3>1, ShiftShift
  <2>. QED
    BY <2>1, <2>2, <2>3, <2>4, <2>5
<1>. HIDE DEF N
<1>3. n \in N
  BY <1>1, <1>2, NatSetInduction
<1>. QED
  BY <1>3 DEF N

\* The shifts within a byte.
LEMMA ByteShifts ==
  ASSUME NEW x \in Nat
  PROVE  /\ Shift(x, 0) = x /\ Shift(x, 1) = x \div 2 /\ Shift(x, 2) = x \div 4 /\ Shift(x, 3) = x \div 8
         /\ Shift(x, 4) = x \div 16 /\ Shift(x, 5) = x \div 32 /\ Shift(x, 6) = x \div 64
         /\ Shift(x, 7) = x \div 128 /\ Shift(x, 8) = x \div 256
<1>1. Shift(x, 0) = x /\ \A h \in Nat : Shift(x, h + 1) = Shift(x, h) \div 2
  BY ShiftIs
<1>2. Shift(x, 1) = x \div 2
  <2>1. Shift(x, 0 + 1) = Shift(x, 0) \div 2 /\ 0 + 1 = 1
    BY <1>1
  <2>. QED
    BY <1>1, <2>1
<1>3. Shift(x, 2) = x \div 4
  <2>1. Shift(x, 1 + 1) = Shift(x, 1) \div 2 /\ 1 + 1 = 2 /\ (x \div 2) \div 2 = x \div 4
    BY <1>1
  <2>. QED
    BY <1>2, <2>1
<1>4. Shift(x, 3) = x \div 8
  <2>1. Shift(x, 2 + 1) = Shift(x, 2) \div 2 /\ 2 + 1 = 3 /\ (x \div 4) \div 2 = x \div 8
    BY <1>1
  <2>. QED
    BY <1>3, <2>1
<1>5. Shift(x, 4) = x \div 16
  <2>1. Shift(x, 3 + 1) = Shift(x, 3) \div 2 /\ 3 + 1 = 4 /\ (x \div 8) \div 2 = x \div 16
    BY <1>1
  <2>. QED
    BY <1>4, <2>1
<1>6. Shift(x, 5) = x \div 32
  <2>1. Shift(x, 4 + 1) = Shift(x, 4) \div 2 /\ 4 + 1 = 5 /\ (x \div 16) \div 2 = x \div 32
    BY <1>1
  <2>. QED
    BY <1>5, <2>1
<1>7. Shift(x, 6) = x \div 64
  <2>1. Shift(x, 5 + 1) = Shift(x, 5) \div 2 /\ 5 + 1 = 6 /\ (x \div 32) \div 2 = x \div 64
    BY <1>1
  <2>. QED
    BY <1>6, <2>1
<1>8. Shift(x, 7) = x \div 128
  <2>1. Shift(x, 6 + 1) = Shift(x, 6) \div 2 /\ 6 + 1 = 7 /\ (x \div 64) \div 2 = x \div 128
    BY <1>1
  <2>. QED
    BY <1>7, <2>1
<1>9. Shift(x, 8) = x \div 256
  <2>1. Shift(x, 7 + 1) = Shift(x, 7) \div 2 /\ 7 + 1 = 8 /\ (x \div 128) \div 2 = x \div 256
    BY <1>1
  <2>. QED
    BY <1>8, <2>1
<1>. QED
  BY <1>1, <1>2, <1>3, <1>4, <1>5, <1>6, <1>7, <1>8, <1>9

LEMMA PowersAre == TwoTo(1) = 2 /\ TwoTo(2) = 4 /\ TwoTo(4) = 16 /\ TwoTo(8) = 256
<1>1. TwoTo(0) = 1 /\ \A n \in Nat : TwoTo(n + 1) = 2 * TwoTo(n)
  BY TwoToIs
<1>2. TwoTo(0 + 1) = 2 * TwoTo(0) /\ TwoTo(1 + 1) = 2 * TwoTo(1) /\ TwoTo(2 + 1) = 2 * TwoTo(2)
  BY <1>1
<1>3. TwoTo(3 + 1) = 2 * TwoTo(3) /\ TwoTo(4 + 1) = 2 * TwoTo(4) /\ TwoTo(5 + 1) = 2 * TwoTo(5)
  BY <1>1
<1>4. TwoTo(6 + 1) = 2 * TwoTo(6) /\ TwoTo(7 + 1) = 2 * TwoTo(7)
  BY <1>1
<1>5. TwoTo(1) = 2 /\ TwoTo(2) = 4 /\ TwoTo(3) = 8
  BY <1>1, <1>2
<1>6. TwoTo(4) = 16 /\ TwoTo(5) = 32 /\ TwoTo(6) = 64
  BY <1>3, <1>5
<1>7. TwoTo(7) = 128 /\ TwoTo(8) = 256
  BY <1>4, <1>6
<1>. QED
  BY <1>5, <1>6, <1>7

LEMMA WidthIs ==
  \/ SPX_WOTS_LOGW = 1 /\ SPX_WOTS_W = 2
  \/ SPX_WOTS_LOGW = 2 /\ SPX_WOTS_W = 4
  \/ SPX_WOTS_LOGW = 4 /\ SPX_WOTS_W = 16
  \/ SPX_WOTS_LOGW = 8 /\ SPX_WOTS_W = 256
BY PowersAre, WotsAre DEF SPX_WOTS_W

\* A number is its lowest digit and what is above.
LEMMA LowestDigit ==
  ASSUME NEW x \in Nat
  PROVE  /\ x = SPX_WOTS_W * Shift(x, SPX_WOTS_LOGW) + (x % SPX_WOTS_W)
         /\ Shift(x, SPX_WOTS_LOGW) \in Nat /\ x % SPX_WOTS_W \in 0..(SPX_WOTS_W - 1)
<1>1. CASE SPX_WOTS_LOGW = 1 /\ SPX_WOTS_W = 2
  BY <1>1, ByteShifts
<1>2. CASE SPX_WOTS_LOGW = 2 /\ SPX_WOTS_W = 4
  BY <1>2, ByteShifts
<1>3. CASE SPX_WOTS_LOGW = 4 /\ SPX_WOTS_W = 16
  BY <1>3, ByteShifts
<1>4. CASE SPX_WOTS_LOGW = 8 /\ SPX_WOTS_W = 256
  BY <1>4, ByteShifts
<1>. QED
  BY <1>1, <1>2, <1>3, <1>4, WidthIs

\* Digit k of a number, the lowest first.
Digit(x, k) == Shift(x, k * SPX_WOTS_LOGW) % SPX_WOTS_W

\* A number none of whose first m digits is the smaller one, nor what is above
\* them, is not the smaller one.
LEMMA DigitsOrder ==
  ASSUME NEW x \in Nat, NEW y \in Nat, NEW m \in Nat,
         Shift(x, m * SPX_WOTS_LOGW) >= Shift(y, m * SPX_WOTS_LOGW),
         \A k \in 0..(m - 1) : Digit(x, k) >= Digit(y, k)
  PROVE  x >= y
<1>. DEFINE L == SPX_WOTS_LOGW
            N == {k \in Nat : /\ Shift(x, k * L) >= Shift(y, k * L)
                              /\ \A j \in 0..(k - 1) : Digit(x, j) >= Digit(y, j)
                              => x >= y}
<1>0. L \in Nat
  BY WotsAre
<1>1. 0 \in N
  <2>1. 0 * L = 0
    BY <1>0
  <2>. QED
    BY <2>1, ShiftIs
<1>2. ASSUME NEW k \in Nat, k \in N PROVE k + 1 \in N
  <2>. SUFFICES ASSUME Shift(x, (k + 1) * L) >= Shift(y, (k + 1) * L),
                       \A j \in 0..((k + 1) - 1) : Digit(x, j) >= Digit(y, j)
                PROVE  x >= y
    OBVIOUS
  <2>. DEFINE u == Shift(x, k * L)  v == Shift(y, k * L)
  <2>1. k * L \in Nat /\ k * L + L = (k + 1) * L
    BY <1>0
  <2>2. u \in Nat /\ v \in Nat
    BY <2>1, ShiftNat
  <2>3. Shift(u, L) = Shift(x, (k + 1) * L) /\ Shift(v, L) = Shift(y, (k + 1) * L)
    <3>. DEFINE a == k * L  b == (k + 1) * L
    <3>1. a \in Nat /\ L \in Nat /\ a + L = b
      BY <1>0, <2>1
    <3>. HIDE DEF L, a, b
    <3>2. Shift(Shift(x, a), L) = Shift(x, b) /\ Shift(Shift(y, a), L) = Shift(y, b)
      BY <3>1, ShiftShift
    <3>. QED
      BY <3>2 DEF a, b
  <2>4. Digit(x, k) = u % SPX_WOTS_W /\ Digit(y, k) = v % SPX_WOTS_W
    BY DEF Digit
  <2>5. Digit(x, k) >= Digit(y, k) /\ \A j \in 0..(k - 1) : Digit(x, j) >= Digit(y, j)
    OBVIOUS
  <2>6. Shift(u, L) >= Shift(v, L)
    BY <2>3
  <2>. HIDE DEF u, v
  <2>7. /\ u = SPX_WOTS_W * Shift(u, L) + (u % SPX_WOTS_W) /\ Shift(u, L) \in Nat
        /\ v = SPX_WOTS_W * Shift(v, L) + (v % SPX_WOTS_W) /\ Shift(v, L) \in Nat
        /\ u % SPX_WOTS_W \in Int /\ v % SPX_WOTS_W \in Int
    <3>. DEFINE r == u % SPX_WOTS_W  s == v % SPX_WOTS_W
    <3>1. /\ u = SPX_WOTS_W * Shift(u, L) + r /\ Shift(u, L) \in Nat /\ r \in 0..(SPX_WOTS_W - 1)
          /\ v = SPX_WOTS_W * Shift(v, L) + s /\ Shift(v, L) \in Nat /\ s \in 0..(SPX_WOTS_W - 1)
      BY <2>2, LowestDigit
    <3>. HIDE DEF r, s
    <3>2. r \in Int /\ s \in Int
      BY <3>1
    <3>. QED
      BY <3>1, <3>2 DEF r, s
  <2>8. SPX_WOTS_W * Shift(u, L) >= SPX_WOTS_W * Shift(v, L)
    <3>. DEFINE a == Shift(u, L)  b == Shift(v, L)  w == SPX_WOTS_W
    <3>1. a \in Nat /\ b \in Nat /\ b <= a /\ w \in Nat
      BY <2>6, <2>7, WotsAre
    <3>. HIDE DEF a, b, w
    <3>2. b * w <= a * w
      BY <3>1, TimesMonotone
    <3>3. w * a >= w * b
      BY <3>1, <3>2
    <3>. QED
      BY <3>3 DEF a, b, w
  <2>9. u >= v
    <3>. DEFINE a == SPX_WOTS_W * Shift(u, L)  b == SPX_WOTS_W * Shift(v, L)
    <3>1. a \in Int /\ b \in Int
      BY <2>7, WotsAre
    <3>2. a >= b /\ u = a + (u % SPX_WOTS_W) /\ v = b + (v % SPX_WOTS_W)
      BY <2>7, <2>8
    <3>3. u % SPX_WOTS_W >= v % SPX_WOTS_W
      BY <2>4, <2>5
    <3>. DEFINE r == u % SPX_WOTS_W  s == v % SPX_WOTS_W
    <3>4. r \in Int /\ s \in Int /\ r >= s /\ u = a + r /\ v = b + s
      BY <2>7, <3>2, <3>3
    <3>. HIDE DEF a, b, r, s
    <3>. QED
      BY <3>1, <3>2, <3>4
  <2>10. Shift(x, k * L) >= Shift(y, k * L)
    BY <2>9 DEF u, v
  <2>. QED
    BY <1>2, <2>5, <2>10
<1>. HIDE DEF N
<1>3. m \in N
  BY <1>1, <1>2, NatSetInduction
<1>. QED
  BY <1>3 DEF N

\* A digit of a byte that is the lowest one of a number.
LEMMA DigitOfByte ==
  ASSUME NEW x \in Nat, NEW s \in 0..(8 - SPX_WOTS_LOGW)
  PROVE  Shift(x % 256, s) % SPX_WOTS_W = Shift(x, s) % SPX_WOTS_W
<1>. DEFINE y == x % 256
<1>1. y \in Nat
  OBVIOUS
<1>2. /\ Shift(x, 0) = x /\ Shift(x, 1) = x \div 2 /\ Shift(x, 2) = x \div 4 /\ Shift(x, 3) = x \div 8
      /\ Shift(x, 4) = x \div 16 /\ Shift(x, 5) = x \div 32 /\ Shift(x, 6) = x \div 64 /\ Shift(x, 7) = x \div 128
  BY ByteShifts
<1>3. /\ Shift(y, 0) = y /\ Shift(y, 1) = y \div 2 /\ Shift(y, 2) = y \div 4 /\ Shift(y, 3) = y \div 8
      /\ Shift(y, 4) = y \div 16 /\ Shift(y, 5) = y \div 32 /\ Shift(y, 6) = y \div 64 /\ Shift(y, 7) = y \div 128
  <2>. HIDE DEF y
  <2>. QED
    BY <1>1, ByteShifts
<1>4. /\ y % 2 = x % 2 /\ (y \div 2) % 2 = (x \div 2) % 2 /\ (y \div 4) % 2 = (x \div 4) % 2
      /\ (y \div 8) % 2 = (x \div 8) % 2 /\ (y \div 16) % 2 = (x \div 16) % 2 /\ (y \div 32) % 2 = (x \div 32) % 2
      /\ (y \div 64) % 2 = (x \div 64) % 2 /\ (y \div 128) % 2 = (x \div 128) % 2
  <2>1. y % 2 = x % 2 /\ (y \div 2) % 2 = (x \div 2) % 2 /\ (y \div 4) % 2 = (x \div 4) % 2
    OBVIOUS
  <2>2. (y \div 8) % 2 = (x \div 8) % 2 /\ (y \div 16) % 2 = (x \div 16) % 2
    OBVIOUS
  <2>3. (y \div 32) % 2 = (x \div 32) % 2 /\ (y \div 64) % 2 = (x \div 64) % 2
    OBVIOUS
  <2>4. (y \div 128) % 2 = (x \div 128) % 2
    OBVIOUS
  <2>. QED
    BY <2>1, <2>2, <2>3, <2>4
<1>5. /\ y % 4 = x % 4 /\ (y \div 2) % 4 = (x \div 2) % 4 /\ (y \div 4) % 4 = (x \div 4) % 4
      /\ (y \div 8) % 4 = (x \div 8) % 4 /\ (y \div 16) % 4 = (x \div 16) % 4 /\ (y \div 32) % 4 = (x \div 32) % 4
      /\ (y \div 64) % 4 = (x \div 64) % 4
  OBVIOUS
<1>6. /\ y % 16 = x % 16 /\ (y \div 2) % 16 = (x \div 2) % 16 /\ (y \div 4) % 16 = (x \div 4) % 16
      /\ (y \div 8) % 16 = (x \div 8) % 16 /\ (y \div 16) % 16 = (x \div 16) % 16
  OBVIOUS
<1>7. y % 256 = x % 256
  OBVIOUS
<1>. HIDE DEF y
<1>8. CASE SPX_WOTS_LOGW = 1 /\ SPX_WOTS_W = 2
  <2>1. s \in {0, 1, 2, 3, 4, 5, 6, 7}
    BY <1>8
  <2>2. Shift(y, s) % 2 = Shift(x, s) % 2
    BY <1>2, <1>3, <1>4, <2>1
  <2>. QED
    BY <1>8, <2>2 DEF y
<1>9. CASE SPX_WOTS_LOGW = 2 /\ SPX_WOTS_W = 4
  <2>1. s \in {0, 1, 2, 3, 4, 5, 6}
    BY <1>9
  <2>2. Shift(y, s) % 4 = Shift(x, s) % 4
    BY <1>2, <1>3, <1>5, <2>1
  <2>. QED
    BY <1>9, <2>2 DEF y
<1>10. CASE SPX_WOTS_LOGW = 4 /\ SPX_WOTS_W = 16
  <2>1. s \in {0, 1, 2, 3, 4}
    BY <1>10
  <2>2. Shift(y, s) % 16 = Shift(x, s) % 16
    BY <1>2, <1>3, <1>6, <2>1
  <2>. QED
    BY <1>10, <2>2 DEF y
<1>11. CASE SPX_WOTS_LOGW = 8 /\ SPX_WOTS_W = 256
  <2>1. s = 0
    BY <1>11
  <2>2. Shift(y, s) % 256 = Shift(x, s) % 256
    BY <1>2, <1>3, <1>7, <2>1
  <2>. QED
    BY <1>11, <2>2 DEF y
<1>. QED
  BY <1>8, <1>9, <1>10, <1>11, WidthIs

LEMMA PlaceIs ==
  ASSUME NEW k \in Nat
  PROVE  LET bit == k * SPX_WOTS_LOGW
         IN  /\ bit \in Nat /\ bit = 8 * (bit \div 8) + (bit % 8) /\ bit \div 8 \in Nat
             /\ 8 - SPX_WOTS_LOGW - (bit % 8) \in 0..(8 - SPX_WOTS_LOGW)
<1>1. CASE SPX_WOTS_LOGW = 1
  BY <1>1
<1>2. CASE SPX_WOTS_LOGW = 2
  BY <1>2
<1>3. CASE SPX_WOTS_LOGW = 4
  BY <1>3
<1>4. CASE SPX_WOTS_LOGW = 8
  BY <1>4
<1>. QED
  BY <1>1, <1>2, <1>3, <1>4, WotsAre

\* The checksum has the digits of what is left, the highest first, and no others:
\* the bits that are missing to whole bytes do not move them.
LEMMA ChecksumDigits ==
  ASSUME NEW digits, Left(digits) \in Nat, NEW k \in 0..(SPX_WOTS_LEN2 - 1)
  PROVE  wots_checksum(digits)[k] = Digit(Left(digits), SPX_WOTS_LEN2 - 1 - k)
<1>. DEFINE L == SPX_WOTS_LOGW
            b == SPX_WOTS_LEN2 * L
            empty == (8 - (b % 8)) % 8
            n == (b + 7) \div 8
            left == Left(digits)
            number == left * TwoTo(empty)
            in == ull_to_bytes(n, number)
            bit == k * L
            j == (bit \div 8) + 1
            s == 8 - L - (bit % 8)
            m == (SPX_WOTS_LEN2 - 1 - k) * L
<1>1. wots_checksum(digits)[k] = Shift(in[j], s) % SPX_WOTS_W
  BY DEF wots_checksum, base_w
<1>2. b \in Nat /\ L \in Nat /\ k \in Nat /\ left \in Nat
  BY WotsAre
<1>3. empty \in Nat /\ n \in Nat /\ 8 * n = b + empty
  <2>. HIDE DEF b
  <2>. QED
    BY <1>2
<1>4. bit \in Nat /\ bit = 8 * (j - 1) + (bit % 8) /\ j \in Nat /\ j > 0 /\ s \in 0..(8 - L)
  BY <1>2, PlaceIs
<1>5. m \in Nat /\ b = bit + L + m
  <2>. DEFINE x == SPX_WOTS_LEN2 - 1 - k
  <2>1. x \in Nat /\ SPX_WOTS_LEN2 = k + 1 + x
    BY WotsAre
  <2>. HIDE DEF x
  <2>2. x * L \in Nat /\ (k + 1 + x) * L = k * L + L + x * L
    BY <1>2, <2>1
  <2>. QED
    BY <2>1, <2>2 DEF x
<1>6. Digit(left, SPX_WOTS_LEN2 - 1 - k) = Shift(left, m) % SPX_WOTS_W
  BY DEF Digit
<1>7. number \in Nat /\ Shift(number, empty) = left
  <2>. HIDE DEF empty, left
  <2>1. TwoTo(empty) \in Nat
    BY <1>3, TwoToPositive
  <2>2. Shift(left * TwoTo(empty), empty) = left
    BY <1>2, <1>3, ShiftTimes
  <2>. QED
    BY <1>2, <2>1, <2>2
<1>. HIDE DEF b, empty, n, left, number
<1>8. j \in 1..n /\ 8 * (n - j) \in Nat /\ 8 * (n - j) + s = empty + m
  <2>1. bit + L + m + empty = 8 * n /\ bit % 8 \in 0..7 /\ bit % 8 = bit - 8 * (j - 1)
    <3>1. bit % 8 \in 0..7
      <4>1. bit \in Nat
        BY <1>4
      <4>. HIDE DEF bit
      <4>. QED
        BY <4>1
    <3>2. bit + L + m + empty = 8 * n
      <4>. HIDE DEF bit, m
      <4>. QED
        BY <1>2, <1>3, <1>4, <1>5
    <3>3. bit % 8 = bit - 8 * (j - 1)
      <4>. DEFINE r == bit % 8
      <4>1. bit = 8 * (j - 1) + r /\ r \in Int
        BY <1>4, <3>1
      <4>. HIDE DEF r, bit, j
      <4>2. r = bit - 8 * (j - 1)
        BY <1>4, <4>1
      <4>. QED
        BY <4>2 DEF r
    <3>. QED
      BY <3>1, <3>2, <3>3
  <2>2. s = 8 - L - (bit - 8 * (j - 1)) /\ L > 0
    BY <2>1, WotsAre
  <2>. HIDE DEF bit, j, s, m
  <2>3. 8 * (j - 1) + L <= 8 * n
    BY <1>2, <1>3, <1>4, <1>5, <2>1, <2>2
  <2>4. j - 1 < n
    BY <1>2, <1>3, <1>4, <2>2, <2>3
  <2>. QED
    BY <1>2, <1>3, <1>4, <1>5, <2>1, <2>2, <2>4
<1>9. in[j] = Shift(number, 8 * (n - j)) % 256
  BY <1>8 DEF ull_to_bytes
<1>10. Shift(in[j], s) % SPX_WOTS_W = Shift(left, m) % SPX_WOTS_W
  <2>. DEFINE far == 8 * (n - j)  x == Shift(number, far)
  <2>. HIDE DEF in, j, s, m
  <2>1. far \in Nat /\ s \in Nat /\ s \in 0..(8 - L) /\ m \in Nat
    BY <1>2, <1>4, <1>5, <1>8
  <2>2. far + s = empty + m
    BY <1>8
  <2>. HIDE DEF far
  <2>3. x \in Nat
    BY <1>7, <2>1, ShiftNat
  <2>4. Shift(x, s) = Shift(number, far + s)
    BY <1>7, <2>1, ShiftShift
  <2>5. Shift(left, m) = Shift(number, empty + m)
    <3>1. Shift(Shift(number, empty), m) = Shift(number, empty + m)
      BY <1>3, <1>7, <2>1, ShiftShift
    <3>. QED
      BY <1>7, <3>1
  <2>6. in[j] = x % 256
    BY <1>9 DEF far
  <2>. HIDE DEF x
  <2>7. Shift(x % 256, s) % SPX_WOTS_W = Shift(x, s) % SPX_WOTS_W
    BY <2>1, <2>3, DigitOfByte
  <2>. QED
    BY <2>2, <2>4, <2>5, <2>6, <2>7
<1>. QED
  BY <1>1, <1>6, <1>10 DEF left

MessageDigits(msg) == base_w(SPX_WOTS_LEN1, msg)

LEMMA MessageDigitsAre ==
  ASSUME NEW msg \in Bytes, NEW k \in 0..(SPX_WOTS_LEN1 - 1)
  PROVE  MessageDigits(msg)[k] \in 0..(SPX_WOTS_W - 1)
<1>1. \A j \in 1..SPX_N : msg[j] \in 0..255
  BY msg \in Bytes DEF Bytes
<1>2. \A j \in 1..SPX_N : msg[j] \in Nat
  BY <1>1
<1>. QED
  BY <1>2, BaseWIs, WotsAre DEF MessageDigits

\* Which digits of the message a byte is made of.
LEMMA ByteDigits ==
  ASSUME NEW msg \in Bytes, NEW j \in 1..SPX_N, NEW k \in Nat, (k + 1) * SPX_WOTS_LOGW <= 8
  PROVE  \E d \in 0..(SPX_WOTS_LEN1 - 1) :
             /\ d * SPX_WOTS_LOGW = 8 * j - (k + 1) * SPX_WOTS_LOGW
             /\ MessageDigits(msg)[d] = Digit(msg[j], k)
<1>1. j \in Nat /\ j > 0 /\ j <= SPX_N /\ SPX_N \in Nat
  BY WotsAre
<1>2. PICK d \in 0..(SPX_WOTS_LEN1 - 1) :
          /\ d * SPX_WOTS_LOGW = 8 * j - (k + 1) * SPX_WOTS_LOGW
          /\ ((d * SPX_WOTS_LOGW) \div 8) + 1 = j
          /\ 8 - SPX_WOTS_LOGW - ((d * SPX_WOTS_LOGW) % 8) = k * SPX_WOTS_LOGW
  <2>1. CASE SPX_WOTS_LOGW = 1
    <3>1. SPX_WOTS_LEN1 = 8 * SPX_N
      BY <1>1, <2>1 DEF SPX_WOTS_LEN1
    <3>. DEFINE d == 8 * j - (k + 1)
    <3>2. k \in 0..7 /\ d \in 0..(SPX_WOTS_LEN1 - 1) /\ d \div 8 + 1 = j /\ 7 - (d % 8) = k
      BY <1>1, <2>1, <3>1
    <3>. QED
      BY <2>1, <3>2
  <2>2. CASE SPX_WOTS_LOGW = 2
    <3>1. SPX_WOTS_LEN1 = 4 * SPX_N
      BY <1>1, <2>2 DEF SPX_WOTS_LEN1
    <3>. DEFINE d == 4 * j - (k + 1)
    <3>2. /\ k \in 0..3 /\ d \in 0..(SPX_WOTS_LEN1 - 1) /\ d * 2 = 8 * j - (k + 1) * 2
          /\ (d * 2) \div 8 + 1 = j /\ 6 - ((d * 2) % 8) = k * 2
      BY <1>1, <2>2, <3>1
    <3>. QED
      BY <2>2, <3>2
  <2>3. CASE SPX_WOTS_LOGW = 4
    <3>1. SPX_WOTS_LEN1 = 2 * SPX_N
      BY <1>1, <2>3 DEF SPX_WOTS_LEN1
    <3>. DEFINE d == 2 * j - (k + 1)
    <3>2. /\ k \in 0..1 /\ d \in 0..(SPX_WOTS_LEN1 - 1) /\ d * 4 = 8 * j - (k + 1) * 4
          /\ (d * 4) \div 8 + 1 = j /\ 4 - ((d * 4) % 8) = k * 4
      BY <1>1, <2>3, <3>1
    <3>. QED
      BY <2>3, <3>2
  <2>4. CASE SPX_WOTS_LOGW = 8
    <3>1. SPX_WOTS_LEN1 = SPX_N
      BY <1>1, <2>4 DEF SPX_WOTS_LEN1
    <3>. DEFINE d == j - (k + 1)
    <3>2. /\ k = 0 /\ d \in 0..(SPX_WOTS_LEN1 - 1) /\ d * 8 = 8 * j - (k + 1) * 8
          /\ (d * 8) \div 8 + 1 = j /\ 0 - ((d * 8) % 8) = k * 8
      BY <1>1, <2>4, <3>1
    <3>. QED
      BY <2>4, <3>2
  <2>. QED
    BY <2>1, <2>2, <2>3, <2>4, WotsAre
<1>3. MessageDigits(msg)[d] = Digit(msg[j], k)
  BY <1>2 DEF MessageDigits, base_w, Digit
<1>. QED
  BY <1>2, <1>3

LEMMA BytesDecided ==
  ASSUME NEW msg \in Bytes, NEW other \in Bytes,
         \A d \in 0..(SPX_WOTS_LEN1 - 1) : MessageDigits(msg)[d] = MessageDigits(other)[d]
  PROVE  msg = other
<1>1. ASSUME NEW j \in 1..SPX_N PROVE msg[j] = other[j]
  <2>. DEFINE x == msg[j]  y == other[j]
  <2>1. x \in 0..255 /\ y \in 0..255
    BY DEF Bytes
  <2>2. PICK m \in Nat : m * SPX_WOTS_LOGW = 8
    <3>1. 8 * 1 = 8 /\ 4 * 2 = 8 /\ 2 * 4 = 8 /\ 1 * 8 = 8
      OBVIOUS
    <3>. QED
      BY <3>1, WotsAre
  <2>3. ASSUME NEW k \in 0..(m - 1) PROVE Digit(x, k) = Digit(y, k)
    <3>1. k \in Nat /\ (k + 1) * SPX_WOTS_LOGW <= 8
      <4>1. k + 1 \in Nat /\ k + 1 <= m
        OBVIOUS
      <4>2. (k + 1) * SPX_WOTS_LOGW <= m * SPX_WOTS_LOGW
        BY <4>1, TimesMonotone, WotsAre
      <4>. QED
        BY <2>2, <4>2
    <3>2. PICK d \in 0..(SPX_WOTS_LEN1 - 1) :
              d * SPX_WOTS_LOGW = 8 * j - (k + 1) * SPX_WOTS_LOGW /\ MessageDigits(msg)[d] = Digit(x, k)
      BY <3>1, ByteDigits
    <3>3. PICK e \in 0..(SPX_WOTS_LEN1 - 1) :
              e * SPX_WOTS_LOGW = 8 * j - (k + 1) * SPX_WOTS_LOGW /\ MessageDigits(other)[e] = Digit(y, k)
      BY <3>1, ByteDigits
    <3>4. d = e
      <4>1. d * SPX_WOTS_LOGW = e * SPX_WOTS_LOGW /\ d \in Int /\ e \in Int
        BY <3>2, <3>3
      <4>. QED
        BY <4>1, WotsAre
    <3>. QED
      BY <3>2, <3>3, <3>4
  <2>4. Shift(x, m * SPX_WOTS_LOGW) = 0 /\ Shift(y, m * SPX_WOTS_LOGW) = 0
    BY <2>1, <2>2, ShiftOut, PowersAre
  <2>5. \A k \in 0..(m - 1) : Digit(x, k) \in Int
    <3>1. x \in Nat /\ SPX_WOTS_LOGW \in Nat
      BY <2>1, WotsAre
    <3>. HIDE DEF x
    <3>2. ASSUME NEW k \in 0..(m - 1) PROVE Digit(x, k) \in Int
      <4>1. k * SPX_WOTS_LOGW \in Nat
        BY <3>1
      <4>2. Shift(x, k * SPX_WOTS_LOGW) \in Nat
        BY <3>1, <4>1, ShiftNat
      <4>. QED
        BY <4>2, LowestDigit DEF Digit
    <3>. QED
      BY <3>2
  <2>6. x \in Nat /\ y \in Nat
    BY <2>1
  <2>. HIDE DEF x, y
  <2>7. \A k \in 0..(m - 1) : Digit(x, k) >= Digit(y, k) /\ Digit(y, k) >= Digit(x, k)
    BY <2>3, <2>5
  <2>8. x >= y
    BY <2>4, <2>6, <2>7, DigitsOrder
  <2>9. y >= x
    BY <2>4, <2>6, <2>7, DigitsOrder
  <2>10. x = y
    BY <2>6, <2>8, <2>9
  <2>. QED
    BY <2>10 DEF x, y
<1>2. msg = [j \in 1..SPX_N |-> msg[j]] /\ other = [j \in 1..SPX_N |-> other[j]]
  BY DEF Bytes
<1>3. [j \in 1..SPX_N |-> msg[j]] = [j \in 1..SPX_N |-> other[j]]
  BY <1>1
<1>. QED
  BY <1>2, <1>3, Zenon

LEMMA LeftIs ==
  ASSUME NEW digits
  PROVE  /\ Left(digits) = After("csum", digits, SPX_WOTS_LEN1) /\ After("csum", digits, 0) = 0
         /\ \A k \in Nat : After("csum", digits, k + 1) = After("csum", digits, k) + SPX_WOTS_W - 1 - digits[k]
<1>. DEFINE Is(csum) == csum = [k \in 0..SPX_WOTS_LEN1 |->
                                  IF k = 0 THEN 0 ELSE csum[k - 1] + SPX_WOTS_W - 1 - digits[k - 1]]
<1>1. Left(digits) = (CHOOSE csum : Is(csum))[SPX_WOTS_LEN1]
  BY DEF Left
<1>2. First("csum", digits) = 0 /\ \A k, last : Round("csum", digits, k, last) = last + SPX_WOTS_W - 1 - digits[k - 1]
  BY DEF First, Round
<1>3. \A csum : Is(csum) <=> IsLoop("csum", digits, SPX_WOTS_LEN1, csum)
  BY <1>2 DEF IsLoop
<1>. HIDE DEF Is
<1>4. Left(digits) = After("csum", digits, SPX_WOTS_LEN1)
  BY <1>1, <1>3 DEF After
<1>5. ASSUME NEW k \in Nat
      PROVE  After("csum", digits, k + 1) = After("csum", digits, k) + SPX_WOTS_W - 1 - digits[k]
  <2>1. (k + 1) - 1 = k
    OBVIOUS
  <2>. QED
    BY <1>2, <2>1, LoopRecurs
<1>. QED
  BY <1>2, <1>4, <1>5, LoopRecurs

\* What is left fits in the digits of the checksum.
LEMMA LeftBelow ==
  ASSUME NEW digits, \A k \in 0..(SPX_WOTS_LEN1 - 1) : digits[k] \in 0..(SPX_WOTS_W - 1)
  PROVE  Left(digits) \in Nat /\ Shift(Left(digits), SPX_WOTS_LEN2 * SPX_WOTS_LOGW) = 0
<1>. DEFINE w == SPX_WOTS_W - 1
            N == {k \in Nat : k <= SPX_WOTS_LEN1 =>
                      After("csum", digits, k) \in Nat /\ After("csum", digits, k) <= k * w}
<1>0. w \in Nat /\ SPX_WOTS_LEN1 \in Nat /\ SPX_WOTS_W = w + 1
  BY WotsAre
<1>1. 0 \in N
  <2>1. 0 * w = 0
    BY <1>0
  <2>. QED
    BY <2>1, LeftIs
<1>2. ASSUME NEW k \in Nat, k \in N PROVE k + 1 \in N
  <2>. SUFFICES ASSUME k + 1 <= SPX_WOTS_LEN1
                PROVE  After("csum", digits, k + 1) \in Nat /\ After("csum", digits, k + 1) <= (k + 1) * w
    OBVIOUS
  <2>. DEFINE x == After("csum", digits, k)  r == digits[k]
  <2>1. x \in Nat /\ x <= k * w
    BY <1>0, <1>2
  <2>2. r \in 0..w
    <3>1. k \in 0..(SPX_WOTS_LEN1 - 1)
      BY <1>0
    <3>. QED
      BY <3>1
  <2>3. After("csum", digits, k + 1) = x + SPX_WOTS_W - 1 - r
    BY LeftIs
  <2>. HIDE DEF w, x, r
  <2>4. (k + 1) * w = k * w + w /\ k * w \in Nat
    BY <1>0
  <2>. DEFINE p == k * w
  <2>5. x + SPX_WOTS_W - 1 - r \in Nat /\ x + SPX_WOTS_W - 1 - r <= p + w
    <3>. HIDE DEF p
    <3>1. x <= p /\ p \in Nat
      BY <2>1, <2>4 DEF p
    <3>. QED
      BY <1>0, <2>1, <2>2, <3>1
  <2>. QED
    BY <2>3, <2>4, <2>5
<1>. HIDE DEF N
<1>3. SPX_WOTS_LEN1 \in N
  BY <1>0, <1>1, <1>2, NatSetInduction
<1>. DEFINE left == Left(digits)
<1>4. left \in Nat /\ left <= SPX_WOTS_LEN1 * w
  <2>1. left = After("csum", digits, SPX_WOTS_LEN1)
    BY LeftIs
  <2>. QED
    BY <1>0, <1>3, <2>1 DEF N
<1>5. SPX_WOTS_LEN1 * w < TwoTo(SPX_WOTS_LOGW * SPX_WOTS_LEN2)
  BY WotsAssumption
<1>6. SPX_WOTS_LOGW * SPX_WOTS_LEN2 = SPX_WOTS_LEN2 * SPX_WOTS_LOGW /\ SPX_WOTS_LEN2 * SPX_WOTS_LOGW \in Nat
  BY WotsAre
<1>. DEFINE n == SPX_WOTS_LEN2 * SPX_WOTS_LOGW  most == SPX_WOTS_LEN1 * w
<1>7. n \in Nat /\ most \in Nat /\ left <= most /\ most < TwoTo(n)
  BY <1>0, <1>4, <1>5, <1>6
<1>. HIDE DEF left, n, most
<1>8. TwoTo(n) \in Nat
  BY <1>7, TwoToPositive
<1>9. left < TwoTo(n)
  BY <1>4, <1>7, <1>8
<1>10. Shift(left, n) = 0
  BY <1>4, <1>7, <1>9, ShiftOut
<1>. QED
  BY <1>4, <1>10 DEF left, n

\* Digits none of which is smaller leave less, unless they are the same.
LEMMA LeftOrder ==
  ASSUME NEW a, NEW b,
         \A k \in 0..(SPX_WOTS_LEN1 - 1) :
             a[k] \in 0..(SPX_WOTS_W - 1) /\ b[k] \in 0..(SPX_WOTS_W - 1) /\ a[k] >= b[k]
  PROVE  /\ Left(a) <= Left(b)
         /\ Left(a) = Left(b) => \A k \in 0..(SPX_WOTS_LEN1 - 1) : a[k] = b[k]
<1>. DEFINE A(k) == After("csum", a, k)
            B(k) == After("csum", b, k)
            N == {k \in Nat : k <= SPX_WOTS_LEN1 =>
                      /\ A(k) \in Int /\ B(k) \in Int /\ A(k) <= B(k)
                      /\ A(k) = B(k) => \A j \in 0..(k - 1) : a[j] = b[j]}
<1>0. SPX_WOTS_W \in Nat /\ SPX_WOTS_LEN1 \in Nat
  BY WotsAre
<1>1. 0 \in N
  <2>1. A(0) = 0 /\ B(0) = 0
    BY LeftIs
  <2>. QED
    BY <2>1
<1>2. ASSUME NEW k \in Nat, k \in N PROVE k + 1 \in N
  <2>. SUFFICES ASSUME k + 1 <= SPX_WOTS_LEN1
                PROVE  /\ A(k + 1) \in Int /\ B(k + 1) \in Int /\ A(k + 1) <= B(k + 1)
                       /\ A(k + 1) = B(k + 1) => \A j \in 0..((k + 1) - 1) : a[j] = b[j]
    OBVIOUS
  <2>1. /\ A(k) \in Int /\ B(k) \in Int /\ A(k) <= B(k)
        /\ A(k) = B(k) => \A j \in 0..(k - 1) : a[j] = b[j]
    BY <1>0, <1>2
  <2>2. A(k + 1) = A(k) + SPX_WOTS_W - 1 - a[k] /\ B(k + 1) = B(k) + SPX_WOTS_W - 1 - b[k]
    BY LeftIs
  <2>. HIDE DEF A, B
  <2>. DEFINE r == a[k]  s == b[k]
  <2>3. r \in Int /\ s \in Int /\ r >= s
    <3>1. k \in 0..(SPX_WOTS_LEN1 - 1)
      BY <1>0
    <3>2. r \in 0..(SPX_WOTS_W - 1) /\ s \in 0..(SPX_WOTS_W - 1) /\ r >= s
      BY <3>1
    <3>. QED
      BY <3>2
  <2>4. A(k + 1) = A(k) + SPX_WOTS_W - 1 - r /\ B(k + 1) = B(k) + SPX_WOTS_W - 1 - s
    BY <2>2
  <2>. HIDE DEF r, s
  <2>5. A(k + 1) \in Int /\ B(k + 1) \in Int /\ A(k + 1) <= B(k + 1)
    BY <1>0, <2>1, <2>3, <2>4
  <2>6. A(k + 1) = B(k + 1) => A(k) = B(k) /\ r = s
    BY <1>0, <2>1, <2>3, <2>4
  <2>7. ASSUME A(k + 1) = B(k + 1), NEW j \in 0..((k + 1) - 1) PROVE a[j] = b[j]
    <3>1. j \in 0..(k - 1) \/ j = k
      OBVIOUS
    <3>2. A(k) = B(k) /\ a[k] = b[k]
      BY <2>6, <2>7 DEF r, s
    <3>. QED
      BY <2>1, <3>1, <3>2
  <2>. QED
    BY <2>5, <2>7
<1>. HIDE DEF N
<1>3. SPX_WOTS_LEN1 \in N
  BY <1>0, <1>1, <1>2, NatSetInduction
<1>4. Left(a) = A(SPX_WOTS_LEN1) /\ Left(b) = B(SPX_WOTS_LEN1)
  BY LeftIs
<1>. HIDE DEF A, B
<1>. QED
  BY <1>0, <1>3, <1>4 DEF N

\* The length of a chain: a digit of the message, or one of what its digits leave.
LEMMA LengthIs ==
  ASSUME NEW msg \in Bytes
  PROVE  /\ \A k \in 0..(SPX_WOTS_LEN1 - 1) : k \in Chains /\ chain_lengths(msg)[k] = MessageDigits(msg)[k]
         /\ \A k \in 0..(SPX_WOTS_LEN2 - 1) :
                \E j \in Chains : chain_lengths(msg)[j] = Digit(Left(MessageDigits(msg)), k)
                                  /\ j = SPX_WOTS_LEN1 + (SPX_WOTS_LEN2 - 1 - k)
<1>. DEFINE digits == MessageDigits(msg)
<1>1. \A k \in Chains : chain_lengths(msg)[k] =
          IF k < SPX_WOTS_LEN1 THEN digits[k] ELSE wots_checksum(digits)[k - SPX_WOTS_LEN1]
  BY DEF chain_lengths, MessageDigits
<1>2. Left(digits) \in Nat
  BY MessageDigitsAre, LeftBelow
<1>. HIDE DEF digits
<1>3. ASSUME NEW k \in 0..(SPX_WOTS_LEN1 - 1) PROVE k \in Chains /\ chain_lengths(msg)[k] = digits[k]
  <2>1. k \in Chains /\ k < SPX_WOTS_LEN1
    BY WotsAre DEF Chains
  <2>. QED
    BY <1>1, <2>1
<1>4. ASSUME NEW k \in 0..(SPX_WOTS_LEN2 - 1)
      PROVE  \E j \in Chains : chain_lengths(msg)[j] = Digit(Left(digits), k)
                               /\ j = SPX_WOTS_LEN1 + (SPX_WOTS_LEN2 - 1 - k)
  <2>. DEFINE m == SPX_WOTS_LEN2 - 1 - k  j == SPX_WOTS_LEN1 + m
  <2>1. /\ m \in 0..(SPX_WOTS_LEN2 - 1) /\ SPX_WOTS_LEN2 - 1 - m = k
        /\ j \in Chains /\ ~(j < SPX_WOTS_LEN1) /\ j - SPX_WOTS_LEN1 = m
    BY WotsAre DEF Chains
  <2>2. chain_lengths(msg)[j] = wots_checksum(digits)[m]
    BY <1>1, <2>1
  <2>. HIDE DEF m
  <2>3. wots_checksum(digits)[m] = Digit(Left(digits), SPX_WOTS_LEN2 - 1 - m)
    BY <1>2, <2>1, ChecksumDigits
  <2>. QED
    BY <2>1, <2>2, <2>3 DEF m
<1>. QED
  BY <1>3, <1>4 DEF digits

\* An other message has an earlier value of some chain.
LEMMA EarlierValue ==
  ASSUME NEW msg \in Bytes, NEW other \in Bytes, other # msg
  PROVE  \E j \in Chains : chain_lengths(other)[j] < chain_lengths(msg)[j]
<1>. SUFFICES ASSUME \A j \in Chains : ~(chain_lengths(other)[j] < chain_lengths(msg)[j])
              PROVE  other = msg
  OBVIOUS
<1>1. ASSUME NEW j \in Chains PROVE chain_lengths(other)[j] >= chain_lengths(msg)[j]
  <2>1. chain_lengths(other)[j] \in 0..(SPX_WOTS_W - 1) /\ chain_lengths(msg)[j] \in 0..(SPX_WOTS_W - 1)
    BY LengthsAre
  <2>2. ~(chain_lengths(other)[j] < chain_lengths(msg)[j])
    OBVIOUS
  <2>. DEFINE a == chain_lengths(other)[j]  b == chain_lengths(msg)[j]
  <2>3. a \in Int /\ b \in Int /\ ~(a < b)
    BY <2>1, <2>2, WotsAre
  <2>. HIDE DEF a, b
  <2>4. a >= b
    BY <2>3
  <2>. QED
    BY <2>4 DEF a, b
<1>. DEFINE a == MessageDigits(other)  b == MessageDigits(msg)
<1>2. \A k \in 0..(SPX_WOTS_LEN1 - 1) :
          a[k] \in 0..(SPX_WOTS_W - 1) /\ b[k] \in 0..(SPX_WOTS_W - 1) /\ a[k] >= b[k]
  BY <1>1, LengthIs, MessageDigitsAre
<1>3. ASSUME NEW k \in 0..(SPX_WOTS_LEN2 - 1) PROVE Digit(Left(a), k) >= Digit(Left(b), k)
  <2>1. PICK i1 \in Chains : chain_lengths(other)[i1] = Digit(Left(a), k)
                             /\ i1 = SPX_WOTS_LEN1 + (SPX_WOTS_LEN2 - 1 - k)
    BY LengthIs
  <2>2. PICK i2 \in Chains : chain_lengths(msg)[i2] = Digit(Left(b), k)
                             /\ i2 = SPX_WOTS_LEN1 + (SPX_WOTS_LEN2 - 1 - k)
    BY LengthIs
  <2>3. i1 = i2
    BY <2>1, <2>2
  <2>. QED
    BY <1>1, <2>1, <2>2, <2>3
<1>. HIDE DEF a, b
<1>. DEFINE x == Left(a)  y == Left(b)
<1>4. x <= y /\ (x = y => \A k \in 0..(SPX_WOTS_LEN1 - 1) : a[k] = b[k])
  BY <1>2, LeftOrder
<1>5. /\ x \in Nat /\ Shift(x, SPX_WOTS_LEN2 * SPX_WOTS_LOGW) = 0
      /\ y \in Nat /\ Shift(y, SPX_WOTS_LEN2 * SPX_WOTS_LOGW) = 0
  BY <1>2, LeftBelow
<1>6. \A k \in 0..(SPX_WOTS_LEN2 - 1) : Digit(x, k) >= Digit(y, k)
  BY <1>3
<1>. HIDE DEF x, y
<1>7. x >= y
  BY <1>5, <1>6, DigitsOrder, WotsAre
<1>8. x = y
  BY <1>4, <1>5, <1>7
<1>9. \A k \in 0..(SPX_WOTS_LEN1 - 1) : b[k] = a[k]
  BY <1>4, <1>8
<1>10. msg = other
  BY <1>9, BytesDecided DEF a, b
<1>. QED
  BY <1>10

\* No signature of a message is made of values that another one shows, for every
\* width of the digits, length of the message and signature that can come about
\* (wots.c:67-92).
THEOREM SignsNothingElseHolds == Spec => []SignsNothingElse
<1>1. SigInv => SignsNothingElse
  <2>. SUFFICES ASSUME SigInv, phase = "done", NEW k \in 1..SPX_D, NEW other \in Bytes \ {roots[k].bytes}
                PROVE  \E j \in Chains : chain_lengths(other)[j] < chain_lengths(roots[k].bytes)[j]
    BY DEF SignsNothingElse
  <2>1. input \in Inputs /\ AllSigned
    BY DEF SigInv, ForsInv, HyperInv
  <2>2. PICK n \in Nat : Reached(n) /\ ((n = SPX_D /\ Alone) \/ n = SPX_D - 1)
    BY <2>1 DEF AllSigned
  <2>3. SPX_D \in Nat /\ input.bytes[k] \in Bytes
    BY <2>1, InputIs
  <2>4. k \in 1..(n + 1) /\ k <= SPX_D
    BY <2>2, <2>3
  <2>5. roots[k].bytes = input.bytes[k]
    BY <2>2, <2>4 DEF Reached
  <2>. DEFINE msg == roots[k].bytes
  <2>6. msg \in Bytes /\ other \in Bytes /\ other # msg
    BY <2>3, <2>5
  <2>. HIDE DEF msg
  <2>7. \E j \in Chains : chain_lengths(other)[j] < chain_lengths(msg)[j]
    BY <2>6, EarlierValue
  <2>. QED
    BY <2>7 DEF msg
<1>. QED
  BY <1>1, SigInvHolds, PTL

------------------------------------------------------------------------------
(* The addresses of all that a FORS key is computed from.                    *)

Part(values, n) == After("part", values, n)

\* What a value is computed from, what several ones are.
Below(value) == {value[3][k] : k \in DOMAIN value[3]}
AllBelow(values) == UNION {Below(value) : value \in values}

LEMMA ThashIs ==
  ASSUME NEW in, NEW addr
  PROVE  thash(in, addr)[2] = addr /\ thash(in, addr)[3] = in
BY DEF thash

LEMMA PartsAre ==
  ASSUME NEW values
  PROVE  /\ Addresses(values) = {value[2] : value \in UNION {Part(values, n) : n \in 0..(SPX_FORS_HEIGHT + 1)}}
         /\ Part(values, 0) = values
         /\ \A n \in Nat : Part(values, n + 1) = AllBelow(Part(values, n))
<1>. DEFINE last == SPX_FORS_HEIGHT + 1
            Is(f) == f = [n \in 0..last |->
                             IF n = 0 THEN values
                             ELSE UNION {{value[3][k] : k \in DOMAIN value[3]} : value \in f[n - 1]}]
            part == CHOOSE f : Is(f)
<1>1. Addresses(values) = {value[2] : value \in UNION {part[n] : n \in 0..last}}
  BY DEF Addresses
<1>2. /\ First("part", values) = values
      /\ \A k, x : Round("part", values, k, x) = UNION {{value[3][j] : j \in DOMAIN value[3]} : value \in x}
      /\ \A k, x : Round("part", values, k, x) = AllBelow(x)
  BY DEF First, Round, AllBelow, Below
<1>3. \A f : Is(f) <=> IsLoop("part", values, last, f)
  BY <1>2 DEF IsLoop
<1>4. last \in Nat
  BY ForsAre
<1>. HIDE DEF Is, last
<1>5. IsLoop("part", values, last, part)
  BY <1>3, <1>4, LoopExists
<1>. HIDE DEF part
<1>6. \A n \in 0..last : part[n] = Part(values, n)
  BY <1>4, <1>5, LoopIs DEF Part
<1>7. {part[n] : n \in 0..last} = {Part(values, n) : n \in 0..last}
  BY <1>6
<1>8. /\ Part(values, 0) = values
      /\ \A n \in Nat : Part(values, n + 1) = AllBelow(Part(values, n))
  BY <1>2, LoopRecurs DEF Part
<1>. QED
  BY <1>1, <1>7, <1>8 DEF last

\* The nodes at a height of the first l trees, and their secrets.
NodesAt(l, h) == {Node(ForsTree(t), h, j) : t \in 0..(l - 1), j \in 0..(TwoTo(SPX_FORS_HEIGHT - h) - 1)}
Secrets(m) == {SecretAt(g) : g \in 0..(m - 1)}

\* Blocks of n one after the other.
LEMMA Blocks ==
  ASSUME NEW l \in Nat, NEW n \in Nat, n > 0
  PROVE  /\ \A t \in 0..(l - 1), j \in 0..(n - 1) : j + t * n \in 0..(l * n - 1)
         /\ \A g \in 0..(l * n - 1) : \E t \in 0..(l - 1), j \in 0..(n - 1) : g = j + t * n
<1>1. ASSUME NEW t \in 0..(l - 1), NEW j \in 0..(n - 1) PROVE j + t * n \in 0..(l * n - 1)
  <2>1. t + 1 <= l /\ t \in Nat /\ t + 1 \in Nat
    OBVIOUS
  <2>2. (t + 1) * n <= l * n
    BY <2>1, TimesMonotone
  <2>3. (t + 1) * n = t * n + n /\ t * n \in Nat /\ l * n \in Nat
    BY <2>1
  <2>. DEFINE x == t * n  y == l * n
  <2>4. x \in Nat /\ y \in Nat /\ x + n <= y
    BY <2>2, <2>3
  <2>. HIDE DEF x, y
  <2>5. j + x \in 0..(y - 1)
    BY <2>4
  <2>. QED
    BY <2>5 DEF x, y
<1>2. \A g \in 0..(l * n - 1) : \E t \in 0..(l - 1), j \in 0..(n - 1) : g = j + t * n
  <2>. DEFINE N == {k \in Nat : \A g \in 0..(k * n - 1) : \E t \in 0..(k - 1), j \in 0..(n - 1) : g = j + t * n}
  <2>1. 0 \in N
    <3>1. 0 * n = 0
      OBVIOUS
    <3>. QED
      BY <3>1
  <2>2. ASSUME NEW k \in Nat, k \in N PROVE k + 1 \in N
    <3>. SUFFICES ASSUME NEW g \in 0..((k + 1) * n - 1)
                  PROVE  \E t \in 0..((k + 1) - 1), j \in 0..(n - 1) : g = j + t * n
      OBVIOUS
    <3>1. (k + 1) * n = k * n + n /\ k * n \in Nat
      OBVIOUS
    <3>2. CASE g < k * n
      <4>1. g \in 0..(k * n - 1)
        BY <3>1, <3>2
      <4>2. PICK t \in 0..(k - 1), j \in 0..(n - 1) : g = j + t * n
        BY <2>2, <4>1
      <4>. QED
        BY <4>2
    <3>3. CASE ~(g < k * n)
      <4>. DEFINE x == k * n
      <4>1. x \in Nat /\ g \in Nat /\ g < x + n /\ ~(g < x)
        BY <3>1, <3>3
      <4>. HIDE DEF x
      <4>2. g - x \in 0..(n - 1) /\ g = (g - x) + x
        BY <4>1
      <4>3. k \in 0..((k + 1) - 1)
        OBVIOUS
      <4>. QED
        BY <4>2, <4>3 DEF x
    <3>. QED
      BY <3>2, <3>3
  <2>. HIDE DEF N
  <2>3. l \in N
    BY <2>1, <2>2, NatSetInduction
  <2>. QED
    BY <2>3 DEF N
<1>. QED
  BY <1>1, <1>2

LEMMA TwoToSum ==
  ASSUME NEW a \in Nat, NEW b \in Nat
  PROVE  TwoTo(a + b) = TwoTo(a) * TwoTo(b)
<1>. DEFINE N == {k \in Nat : TwoTo(a + k) = TwoTo(a) * TwoTo(k)}
<1>1. 0 \in N
  <2>1. a + 0 = a /\ TwoTo(a) \in Nat
    BY TwoToPositive
  <2>2. TwoTo(a) * 1 = TwoTo(a)
    BY <2>1
  <2>. QED
    BY <2>1, <2>2, TwoToIs
<1>2. ASSUME NEW k \in Nat, k \in N PROVE k + 1 \in N
  <2>. DEFINE x == TwoTo(a)  y == TwoTo(k)
  <2>1. x \in Nat /\ y \in Nat
    BY TwoToPositive
  <2>2. TwoTo((a + k) + 1) = 2 * TwoTo(a + k) /\ TwoTo(k + 1) = 2 * y /\ a + (k + 1) = (a + k) + 1
    BY TwoToIs
  <2>3. TwoTo(a + k) = x * y
    BY <1>2
  <2>. HIDE DEF x, y
  <2>4. 2 * (x * y) = x * (2 * y)
    BY <2>1
  <2>5. TwoTo(a + (k + 1)) = x * (2 * y)
    BY <2>2, <2>3, <2>4
  <2>. QED
    BY <2>2, <2>5 DEF x
<1>. HIDE DEF N
<1>3. b \in N
  BY <1>1, <1>2, NatSetInduction
<1>. QED
  BY <1>3 DEF N

\* Where a tree's nodes at a height start.
LEMMA OffsetAt ==
  ASSUME NEW t \in Nat, NEW h \in 0..SPX_FORS_HEIGHT
  PROVE  Shift(Offset(t), h) = t * TwoTo(SPX_FORS_HEIGHT - h)
<1>. DEFINE n == SPX_FORS_HEIGHT - h  x == TwoTo(n)  y == TwoTo(h)
<1>1. n \in Nat /\ h \in Nat /\ n + h = SPX_FORS_HEIGHT
  BY ForsAre
<1>2. x \in Nat /\ y \in Nat
  BY <1>1, TwoToPositive
<1>3. TwoTo(SPX_FORS_HEIGHT) = x * y
  <2>. HIDE DEF n
  <2>1. TwoTo(n + h) = TwoTo(n) * TwoTo(h)
    BY <1>1, TwoToSum
  <2>. QED
    BY <1>1, <2>1
<1>4. Shift((t * x) * y, h) = t * x
  <2>. HIDE DEF x
  <2>1. t * x \in Nat
    BY <1>2
  <2>. QED
    BY <1>1, <2>1, ShiftTimes
<1>. HIDE DEF x, y
<1>5. t * (x * y) = (t * x) * y
  BY <1>2
<1>6. Offset(t) = t * (x * y)
  BY <1>3 DEF Offset
<1>. QED
  BY <1>4, <1>5, <1>6 DEF x, n

\* Node g at height h, the j-th of tree t.
ForsNode(t, h, j, g, value) ==
    /\ value[2] = ForsRec("FORSTREE", h % Byte, g \div Byte, g % Byte)
    /\ h = 0 => value[3] = <<SecretAt(g)>>
    /\ h # 0 => value[3] = <<Node(ForsTree(t), h - 1, 2 * j), Node(ForsTree(t), h - 1, 2 * j + 1)>>

LEMMA ForsNodeIs ==
  ASSUME NEW l \in 0..SPX_FORS_TREES, NEW t \in 0..(l - 1), NEW h \in 0..SPX_FORS_HEIGHT,
         NEW j \in 0..(TwoTo(SPX_FORS_HEIGHT - h) - 1)
  PROVE  ForsNode(t, h, j, j + t * TwoTo(SPX_FORS_HEIGHT - h), Node(ForsTree(t), h, j))
<1>. DEFINE m == TwoTo(SPX_FORS_HEIGHT - h)
            g == j + t * m
            value == Node(ForsTree(t), h, j)
            base == ForsRec("FORSTREE", 0, 0, 0)
<1>1. t \in Nat /\ l \in Nat /\ l <= SPX_FORS_TREES /\ h \in Nat /\ SPX_FORS_HEIGHT - h \in Nat /\ SPX_FORS_TREES \in Nat
  BY ForsAre
<1>2. m \in Nat /\ m > 0
  BY <1>1, TwoToPositive
<1>3. j \in Nat /\ g \in Nat /\ g \in 0..(l * m - 1)
  <2>1. j \in 0..(m - 1)
    OBVIOUS
  <2>. HIDE DEF m
  <2>2. g \in 0..(l * m - 1)
    BY <1>1, <1>2, <2>1, Blocks
  <2>. QED
    BY <1>2, <2>1, <2>2
<1>4. CASE h = 0
  <2>1. m = TwoTo(SPX_FORS_HEIGHT)
    BY <1>4, ForsAre
  <2>2. g = j + Offset(t)
    BY <2>1 DEF Offset
  <2>3. g \in 0..(SPX_FORS_TREES * TwoTo(SPX_FORS_HEIGHT) - 1)
    <3>1. l * m <= SPX_FORS_TREES * m
      <4>. HIDE DEF m
      <4>. QED
        BY <1>1, <1>2, TimesMonotone
    <3>2. SPX_FORS_TREES * m \in Nat /\ l * m \in Nat
      <4>. HIDE DEF m
      <4>. QED
        BY <1>1, <1>2
    <3>. DEFINE a == l * m  b == SPX_FORS_TREES * m
    <3>3. a \in Nat /\ b \in Nat /\ a <= b /\ g \in 0..(a - 1)
      BY <1>3, <3>1, <3>2
    <3>. HIDE DEF a, b, g
    <3>4. g \in 0..(b - 1)
      BY <3>3
    <3>. QED
      BY <2>1, <3>4 DEF b
  <2>4. value = Leaves[j + Offset(t)]
    <3>1. Node(Tree(Leaves, Offset(t), base), 0, j) = Leaves[j + Offset(t)]
      BY <1>3, NodeIs
    <3>. QED
      BY <1>4, <3>1 DEF ForsTree
  <2>. HIDE DEF g
  <2>5. value = thash(<<SecretAt(g)>>, ForsRec("FORSTREE", 0, g \div Byte, g % Byte))
    BY <2>2, <2>3, <2>4, ForsLeafIs
  <2>. HIDE DEF value
  <2>6. value[2] = ForsRec("FORSTREE", 0, g \div Byte, g % Byte) /\ value[3] = <<SecretAt(g)>>
    BY <2>5, ThashIs
  <2>7. ForsNode(t, h, j, g, value)
    BY <1>4, <2>6, ZeroByte DEF ForsNode
  <2>. QED
    BY <2>7 DEF g, value
<1>5. CASE h # 0
  <2>. DEFINE f == h - 1  a == Node(ForsTree(t), f, 2 * j)  b == Node(ForsTree(t), f, 2 * j + 1)
              addr == set_tree_index(set_tree_height(base, h), g)
  <2>1. f \in Nat /\ h = f + 1
    BY <1>1, <1>5
  <2>2. Shift(Offset(t), h) = t * m
    BY <1>1, OffsetAt
  <2>3. value = thash(<<a, b>>, addr)
    <3>1. Node(ForsTree(t), f + 1, j) =
              thash(<<Node(ForsTree(t), f, 2 * j), Node(ForsTree(t), f, 2 * j + 1)>>,
                    set_tree_index(set_tree_height(base, f + 1), j + Shift(Offset(t), f + 1)))
      <4>. HIDE DEF f
      <4>. QED
        BY <1>3, <2>1, NodeIs DEF ForsTree
    <3>. HIDE DEF f
    <3>. QED
      BY <2>1, <2>2, <3>1
  <2>4. addr = ForsRec("FORSTREE", h % Byte, g \div Byte, g % Byte)
    BY SettersAre DEF ForsRec
  <2>. HIDE DEF a, b, addr, g
  <2>. HIDE DEF value
  <2>5. value[2] = addr /\ value[3] = <<a, b>>
    BY <2>3, ThashIs
  <2>6. ForsNode(t, h, j, g, value)
    BY <1>5, <2>4, <2>5 DEF ForsNode, a, b
  <2>. QED
    BY <2>6 DEF value, g
<1>. QED
  BY <1>4, <1>5

LEMMA PartNodes ==
  ASSUME NEW l \in 0..SPX_FORS_TREES, NEW values, values = NodesAt(l, SPX_FORS_HEIGHT)
  PROVE  /\ \A n \in 0..SPX_FORS_HEIGHT : Part(values, n) = NodesAt(l, SPX_FORS_HEIGHT - n)
         /\ Part(values, SPX_FORS_HEIGHT + 1) = Secrets(l * TwoTo(SPX_FORS_HEIGHT))
<1>. DEFINE last == SPX_FORS_HEIGHT
            N == {n \in Nat : n <= last => Part(values, n) = NodesAt(l, last - n)}
<1>0. last \in Nat /\ l \in Nat
  BY ForsAre
<1>1. 0 \in N
  <2>1. last - 0 = last
    BY <1>0
  <2>. QED
    BY <2>1, PartsAre
<1>2. ASSUME NEW n \in Nat, n \in N PROVE n + 1 \in N
  <2>. SUFFICES ASSUME n + 1 <= last PROVE Part(values, n + 1) = NodesAt(l, last - (n + 1))
    OBVIOUS
  <2>. DEFINE h == last - n  f == last - (n + 1)
  <2>1. h \in 0..last /\ f \in 0..last /\ h # 0 /\ h - 1 = f /\ last - h = n /\ last - f = n + 1
    BY <1>0
  <2>2. TwoTo(n + 1) = 2 * TwoTo(n) /\ TwoTo(n) \in Nat
    BY TwoToIs, TwoToPositive
  <2>3. Part(values, n + 1) = AllBelow(NodesAt(l, h))
    <3>1. Part(values, n) = NodesAt(l, h)
      BY <1>0, <1>2
    <3>2. Part(values, n + 1) = AllBelow(Part(values, n))
      BY PartsAre
    <3>. QED
      BY <3>1, <3>2, Zenon
  <2>4. ASSUME NEW t \in 0..(l - 1), NEW j \in 0..(TwoTo(n) - 1)
        PROVE  Below(Node(ForsTree(t), h, j)) = {Node(ForsTree(t), f, 2 * j), Node(ForsTree(t), f, 2 * j + 1)}
    <3>. HIDE DEF h, f
    <3>1. j \in 0..(TwoTo(last - h) - 1)
      BY <2>1
    <3>. DEFINE x == Node(ForsTree(t), h - 1, 2 * j)  y == Node(ForsTree(t), h - 1, 2 * j + 1)
                value == Node(ForsTree(t), h, j)
    <3>. DEFINE g == j + t * TwoTo(last - h)
    <3>2. ForsNode(t, h, j, g, value)
      BY <2>1, <3>1, ForsNodeIs
    <3>. HIDE DEF value, g
    <3>4. value[3] = <<x, y>>
      BY <2>1, <3>2 DEF ForsNode
    <3>. HIDE DEF x, y
    <3>3. Below(value) = {x, y}
      BY <3>4 DEF Below
    <3>. QED
      BY <2>1, <3>3 DEF x, y, value
  <2>5. /\ NodesAt(l, h) = {Node(ForsTree(t), h, j) : t \in 0..(l - 1), j \in 0..(TwoTo(n) - 1)}
        /\ NodesAt(l, f) = {Node(ForsTree(t), f, j) : t \in 0..(l - 1), j \in 0..(2 * TwoTo(n) - 1)}
    <3>. HIDE DEF h, f
    <3>. QED
      BY <2>1, <2>2 DEF NodesAt
  <2>. HIDE DEF h, f
  <2>6. ASSUME NEW x \in AllBelow(NodesAt(l, h)) PROVE x \in NodesAt(l, f)
    <3>1. PICK t \in 0..(l - 1), j \in 0..(TwoTo(n) - 1) : x \in Below(Node(ForsTree(t), h, j))
      BY <2>5 DEF AllBelow
    <3>2. x = Node(ForsTree(t), f, 2 * j) \/ x = Node(ForsTree(t), f, 2 * j + 1)
      BY <2>4, <3>1
    <3>3. 2 * j \in 0..(2 * TwoTo(n) - 1) /\ 2 * j + 1 \in 0..(2 * TwoTo(n) - 1)
      BY <2>2
    <3>. QED
      BY <2>5, <3>2, <3>3
  <2>7. ASSUME NEW x \in NodesAt(l, f) PROVE x \in AllBelow(NodesAt(l, h))
    <3>1. PICK t \in 0..(l - 1), j \in 0..(2 * TwoTo(n) - 1) : x = Node(ForsTree(t), f, j)
      BY <2>5
    <3>. DEFINE q == j \div 2
    <3>2. q \in 0..(TwoTo(n) - 1) /\ (j = 2 * q \/ j = 2 * q + 1)
      BY <2>2
    <3>. HIDE DEF q
    <3>3. x \in Below(Node(ForsTree(t), h, q))
      BY <2>4, <3>1, <3>2
    <3>4. Node(ForsTree(t), h, q) \in NodesAt(l, h)
      BY <2>5, <3>2
    <3>. QED
      BY <3>3, <3>4 DEF AllBelow
  <2>. QED
    BY <2>3, <2>6, <2>7 DEF f
<1>3. ASSUME NEW n \in 0..last PROVE Part(values, n) = NodesAt(l, last - n)
  <2>1. n \in Nat /\ n <= last
    BY <1>0
  <2>. HIDE DEF N
  <2>2. n \in N
    BY <1>1, <1>2, <2>1, NatSetInduction
  <2>. QED
    BY <2>1, <2>2 DEF N
<1>4. Part(values, last + 1) = Secrets(l * TwoTo(last))
  <2>. DEFINE p == TwoTo(last)  zero == last - last
  <2>1. p \in Nat /\ p > 0 /\ zero = 0 /\ zero \in 0..last /\ last \in 0..last /\ last - zero = last
    BY <1>0, TwoToPositive
  <2>2. Part(values, last + 1) = AllBelow(NodesAt(l, zero))
    <3>1. Part(values, last) = NodesAt(l, zero)
      BY <1>3, <2>1
    <3>2. Part(values, last + 1) = AllBelow(Part(values, last))
      BY <1>0, PartsAre
    <3>. QED
      BY <3>1, <3>2, Zenon
  <2>3. ASSUME NEW t \in 0..(l - 1), NEW j \in 0..(p - 1)
        PROVE  Below(Node(ForsTree(t), zero, j)) = {SecretAt(j + t * p)}
    <3>. HIDE DEF zero
    <3>1. j \in 0..(TwoTo(last - zero) - 1) /\ TwoTo(last - zero) = p
      BY <2>1
    <3>. DEFINE x == SecretAt(j + t * p)  value == Node(ForsTree(t), zero, j)
    <3>. DEFINE g == j + t * TwoTo(last - zero)
    <3>2. ForsNode(t, zero, j, g, value)
      BY <2>1, <3>1, ForsNodeIs
    <3>4. g = j + t * p
      BY <3>1
    <3>. HIDE DEF value, g
    <3>5. value[3] = <<x>>
      BY <2>1, <3>2, <3>4 DEF ForsNode
    <3>. HIDE DEF x
    <3>3. Below(value) = {x}
      BY <3>5 DEF Below
    <3>. QED
      BY <3>3 DEF x, value
  <2>4. NodesAt(l, zero) = {Node(ForsTree(t), zero, j) : t \in 0..(l - 1), j \in 0..(p - 1)}
    <3>. HIDE DEF zero
    <3>. QED
      BY <2>1 DEF NodesAt
  <2>5. /\ \A t \in 0..(l - 1), j \in 0..(p - 1) : j + t * p \in 0..(l * p - 1)
        /\ \A g \in 0..(l * p - 1) : \E t \in 0..(l - 1), j \in 0..(p - 1) : g = j + t * p
    <3>. HIDE DEF p
    <3>. QED
      BY <1>0, <2>1, Blocks
  <2>. HIDE DEF p, zero
  <2>6. ASSUME NEW x \in AllBelow(NodesAt(l, zero)) PROVE x \in Secrets(l * p)
    <3>1. PICK t \in 0..(l - 1), j \in 0..(p - 1) : x \in Below(Node(ForsTree(t), zero, j))
      BY <2>4 DEF AllBelow
    <3>2. x = SecretAt(j + t * p) /\ j + t * p \in 0..(l * p - 1)
      BY <2>3, <2>5, <3>1
    <3>. QED
      BY <3>2 DEF Secrets
  <2>7. ASSUME NEW x \in Secrets(l * p) PROVE x \in AllBelow(NodesAt(l, zero))
    <3>1. PICK g \in 0..(l * p - 1) : x = SecretAt(g)
      BY DEF Secrets
    <3>2. PICK t \in 0..(l - 1), j \in 0..(p - 1) : g = j + t * p
      BY <2>5
    <3>3. x \in Below(Node(ForsTree(t), zero, j)) /\ Node(ForsTree(t), zero, j) \in NodesAt(l, zero)
      BY <2>3, <2>4, <3>1, <3>2
    <3>. QED
      BY <3>3 DEF AllBelow
  <2>. QED
    BY <2>2, <2>6, <2>7 DEF p
<1>. QED
  BY <1>3, <1>4

\* m addresses of a kind and height, one after the other.
AddressRange(ty, x, m) == {ForsRec(ty, x, g \div Byte, g % Byte) : g \in 0..(m - 1)}

LEMMA RecDiffer ==
  ASSUME NEW ty, NEW x, NEW y, NEW z, NEW ty2, NEW x2, NEW y2, NEW z2,
         ForsRec(ty, x, y, z) = ForsRec(ty2, x2, y2, z2)
  PROVE  ty = ty2 /\ x = x2 /\ y = y2 /\ z = z2
<1>. DEFINE a == ForsRec(ty, x, y, z)  b == ForsRec(ty2, x2, y2, z2)
<1>1. a.type = ty /\ a.b17 = x /\ a.b18to20 = y /\ a.b21 = z
  BY DEF ForsRec, Rec
<1>2. b.type = ty2 /\ b.b17 = x2 /\ b.b18to20 = y2 /\ b.b21 = z2
  BY DEF ForsRec, Rec
<1>3. a = b
  OBVIOUS
<1>. HIDE DEF a, b
<1>. QED
  BY <1>1, <1>2, <1>3

LEMMA RangeIs ==
  ASSUME NEW ty, NEW x, NEW m \in Nat
  PROVE  IsFiniteSet(AddressRange(ty, x, m)) /\ Cardinality(AddressRange(ty, x, m)) = m
<1>. DEFINE S == 0..(m - 1)  T == AddressRange(ty, x, m)
            f == [g \in S |-> ForsRec(ty, x, g \div Byte, g % Byte)]
<1>1. IsFiniteSet(S) /\ Cardinality(S) = m
  <2>1. 0 \in Int /\ m - 1 \in Int
    OBVIOUS
  <2>2. IsFiniteSet(S) /\ Cardinality(S) = IF 0 > m - 1 THEN 0 ELSE (m - 1) - 0 + 1
    BY <2>1, FS_Interval
  <2>. HIDE DEF S
  <2>. QED
    BY <2>2
<1>2. f \in [S -> T] /\ \A b \in T : \E g \in S : f[g] = b
  BY DEF AddressRange
<1>3. ASSUME NEW g \in S, NEW k \in S, f[g] = f[k] PROVE g = k
  <2>1. ForsRec(ty, x, g \div Byte, g % Byte) = ForsRec(ty, x, k \div Byte, k % Byte)
    BY <1>3
  <2>2. g \div Byte = k \div Byte /\ g % Byte = k % Byte
    BY <2>1, RecDiffer
  <2>3. g = (g \div Byte) * Byte + (g % Byte) /\ k = (k \div Byte) * Byte + (k % Byte)
    <3>1. g \in Nat /\ k \in Nat /\ Byte \in Nat /\ Byte > 0
      BY ByteAssumption
    <3>. QED
      BY <3>1
  <2>. QED
    BY <2>2, <2>3
<1>4. ExistsBijection(S, T)
  <2>. HIDE DEF S, T, f
  <2>1. f \in Bijection(S, T)
    BY <1>2, <1>3 DEF Bijection, Injection, Surjection, IsInjective
  <2>. QED
    BY <2>1 DEF ExistsBijection
<1>. HIDE DEF S, T
<1>. QED
  BY <1>1, <1>4, FS_Bijection DEF T

LEMMA RangesDiffer ==
  ASSUME NEW ty, NEW x, NEW m, NEW ty2, NEW x2, NEW m2, ty # ty2 \/ x # x2
  PROVE  AddressRange(ty, x, m) \cap AddressRange(ty2, x2, m2) = {}
<1>. SUFFICES ASSUME NEW a \in AddressRange(ty, x, m), a \in AddressRange(ty2, x2, m2) PROVE FALSE
  OBVIOUS
<1>1. PICK g \in 0..(m - 1) : a = ForsRec(ty, x, g \div Byte, g % Byte)
  BY DEF AddressRange
<1>2. PICK k \in 0..(m2 - 1) : a = ForsRec(ty2, x2, k \div Byte, k % Byte)
  BY DEF AddressRange
<1>. QED
  BY <1>1, <1>2, RecDiffer

LEMMA NodeAddresses ==
  ASSUME NEW l \in 0..SPX_FORS_TREES, NEW h \in 0..SPX_FORS_HEIGHT
  PROVE  {value[2] : value \in NodesAt(l, h)} = AddressRange("FORSTREE", h % Byte, l * TwoTo(SPX_FORS_HEIGHT - h))
<1>. DEFINE n == TwoTo(SPX_FORS_HEIGHT - h)
<1>1. l \in Nat /\ n \in Nat /\ n > 0
  BY ForsAre, TwoToPositive
<1>2. /\ \A t \in 0..(l - 1), j \in 0..(n - 1) : j + t * n \in 0..(l * n - 1)
      /\ \A g \in 0..(l * n - 1) : \E t \in 0..(l - 1), j \in 0..(n - 1) : g = j + t * n
  <2>. HIDE DEF n
  <2>. QED
    BY <1>1, Blocks
<1>3. ASSUME NEW t \in 0..(l - 1), NEW j \in 0..(n - 1)
      PROVE  Node(ForsTree(t), h, j)[2] =
                 ForsRec("FORSTREE", h % Byte, (j + t * n) \div Byte, (j + t * n) % Byte)
  <2>1. ForsNode(t, h, j, j + t * n, Node(ForsTree(t), h, j))
    BY ForsNodeIs
  <2>. QED
    BY <2>1 DEF ForsNode
<1>4. NodesAt(l, h) = {Node(ForsTree(t), h, j) : t \in 0..(l - 1), j \in 0..(n - 1)}
  BY DEF NodesAt
<1>. HIDE DEF n
<1>5. ASSUME NEW a \in {value[2] : value \in NodesAt(l, h)} PROVE a \in AddressRange("FORSTREE", h % Byte, l * n)
  <2>1. PICK t \in 0..(l - 1), j \in 0..(n - 1) : a = Node(ForsTree(t), h, j)[2]
    BY <1>4
  <2>. DEFINE g == j + t * n
  <2>2. a = ForsRec("FORSTREE", h % Byte, g \div Byte, g % Byte) /\ g \in 0..(l * n - 1)
    BY <1>2, <1>3, <2>1
  <2>. HIDE DEF g
  <2>. QED
    BY <2>2 DEF AddressRange
<1>6. ASSUME NEW a \in AddressRange("FORSTREE", h % Byte, l * n) PROVE a \in {value[2] : value \in NodesAt(l, h)}
  <2>1. PICK g \in 0..(l * n - 1) : a = ForsRec("FORSTREE", h % Byte, g \div Byte, g % Byte)
    BY DEF AddressRange
  <2>2. PICK t \in 0..(l - 1), j \in 0..(n - 1) : g = j + t * n
    BY <1>2
  <2>. DEFINE value == Node(ForsTree(t), h, j)
  <2>3. a = value[2]
    BY <1>3, <2>1, <2>2
  <2>4. value \in NodesAt(l, h)
    BY <1>4
  <2>. HIDE DEF value
  <2>. QED
    BY <2>3, <2>4
<1>. QED
  BY <1>5, <1>6 DEF n

LEMMA SecretAddresses ==
  ASSUME NEW m \in Nat
  PROVE  {value[2] : value \in Secrets(m)} = AddressRange("FORSPRF", 0, m)
<1>1. \A g : SecretAt(g)[2] = ForsRec("FORSPRF", 0, g \div Byte, g % Byte)
  BY DEF SecretAt, prf_addr
<1>2. ASSUME NEW a \in {value[2] : value \in Secrets(m)} PROVE a \in AddressRange("FORSPRF", 0, m)
  <2>1. PICK g \in 0..(m - 1) : a = SecretAt(g)[2]
    BY DEF Secrets
  <2>. QED
    BY <1>1, <2>1 DEF AddressRange
<1>3. ASSUME NEW a \in AddressRange("FORSPRF", 0, m) PROVE a \in {value[2] : value \in Secrets(m)}
  <2>1. PICK g \in 0..(m - 1) : a = ForsRec("FORSPRF", 0, g \div Byte, g % Byte)
    BY DEF AddressRange
  <2>. DEFINE value == SecretAt(g)
  <2>2. a = value[2] /\ value \in Secrets(m)
    BY <1>1, <2>1 DEF Secrets
  <2>. HIDE DEF value
  <2>. QED
    BY <2>2
<1>. QED
  BY <1>2, <1>3

\* The addresses of the nodes at the first m heights.
Lower(l, m) == UNION {AddressRange("FORSTREE", h % Byte, l * TwoTo(SPX_FORS_HEIGHT - h)) : h \in 0..(m - 1)}

LEMMA LowerIs ==
  ASSUME NEW l \in Nat, NEW m \in 0..(SPX_FORS_HEIGHT + 1)
  PROVE  /\ IsFiniteSet(Lower(l, m))
         /\ Cardinality(Lower(l, m)) + l * TwoTo(SPX_FORS_HEIGHT + 1 - m) = l * TwoTo(SPX_FORS_HEIGHT + 1)
<1>. DEFINE last == SPX_FORS_HEIGHT
            N == {k \in Nat : k <= last + 1 =>
                     /\ IsFiniteSet(Lower(l, k))
                     /\ Cardinality(Lower(l, k)) + l * TwoTo(last + 1 - k) = l * TwoTo(last + 1)}
<1>0. last \in Nat
  BY ForsAre
<1>1. 0 \in N
  <2>1. Lower(l, 0) = {}
    BY DEF Lower
  <2>2. last + 1 - 0 = last + 1 /\ TwoTo(last + 1) \in Nat
    BY <1>0, TwoToPositive
  <2>3. 0 + l * TwoTo(last + 1) = l * TwoTo(last + 1)
    BY <2>2
  <2>. QED
    BY <2>1, <2>2, <2>3, FS_EmptySet
<1>2. ASSUME NEW k \in Nat, k \in N PROVE k + 1 \in N
  <2>. SUFFICES ASSUME k + 1 <= last + 1
                PROVE  /\ IsFiniteSet(Lower(l, k + 1))
                       /\ Cardinality(Lower(l, k + 1)) + l * TwoTo(last + 1 - (k + 1)) = l * TwoTo(last + 1)
    OBVIOUS
  <2>. DEFINE n == last - k  p == TwoTo(n)  A == Lower(l, k)  B == AddressRange("FORSTREE", k % Byte, l * p)
  <2>1. n \in Nat /\ last + 1 - k = n + 1 /\ last + 1 - (k + 1) = n /\ k \in 0..last /\ k <= last + 1
    BY <1>0
  <2>2. p \in Nat /\ TwoTo(n + 1) = 2 * p
    <3>. HIDE DEF n
    <3>. QED
      BY <2>1, TwoToIs, TwoToPositive
  <2>3. Lower(l, k + 1) = A \cup B
    <3>1. 0..((k + 1) - 1) = (0..(k - 1)) \cup {k}
      OBVIOUS
    <3>2. Lower(l, k + 1) =
              UNION {AddressRange("FORSTREE", h % Byte, l * TwoTo(last - h)) : h \in (0..(k - 1)) \cup {k}}
      BY <3>1 DEF Lower
    <3>. QED
      BY <3>2 DEF Lower
  <2>4. A \cap B = {}
    <3>. SUFFICES ASSUME NEW a \in A, a \in B PROVE FALSE
      OBVIOUS
    <3>1. PICK h \in 0..(k - 1) : a \in AddressRange("FORSTREE", h % Byte, l * TwoTo(last - h))
      BY DEF Lower
    <3>2. h % Byte = h /\ k % Byte = k /\ h # k
      <4>1. last < Byte /\ Byte \in Nat
        BY ForsAssumption, ByteAssumption
      <4>2. h \in Nat /\ h < k /\ k < Byte
        BY <1>0, <2>1, <4>1
      <4>. QED
        BY <4>1, <4>2
    <3>. DEFINE x == h % Byte  y == k % Byte  m2 == l * TwoTo(last - h)  m3 == l * p
    <3>3. x # y
      BY <3>2
    <3>. HIDE DEF x, y, m2, m3
    <3>4. AddressRange("FORSTREE", x, m2) \cap AddressRange("FORSTREE", y, m3) = {}
      BY <3>3, RangesDiffer
    <3>. QED
      BY <3>1, <3>4 DEF x, y, m2, m3
  <2>5. IsFiniteSet(A) /\ Cardinality(A) + l * (2 * p) = l * TwoTo(last + 1)
    <3>. HIDE DEF n, p
    <3>. QED
      BY <1>2, <2>1, <2>2
  <2>6. IsFiniteSet(B) /\ Cardinality(B) = l * p
    <3>. DEFINE q == l * p  x == k % Byte
    <3>1. q \in Nat
      <4>. HIDE DEF p
      <4>. QED
        BY <2>2
    <3>. HIDE DEF q, x
    <3>2. IsFiniteSet(AddressRange("FORSTREE", x, q)) /\ Cardinality(AddressRange("FORSTREE", x, q)) = q
      BY <3>1, RangeIs
    <3>. QED
      BY <3>2 DEF q, x
  <2>. HIDE DEF A, B, p, n
  <2>7. IsFiniteSet(A \cup B) /\ Cardinality(A \cup B) = Cardinality(A) + Cardinality(B)
    <3>1. Cardinality(A) \in Nat /\ Cardinality(B) \in Nat
      BY <2>5, <2>6, FS_CardinalityType
    <3>2. /\ IsFiniteSet(A \cup B)
          /\ Cardinality(A \cup B) = Cardinality(A) + Cardinality(B) - Cardinality(A \cap B)
      BY <2>5, <2>6, FS_Union
    <3>3. Cardinality(A \cap B) = 0
      BY <2>4, FS_EmptySet
    <3>. DEFINE a == Cardinality(A)  b == Cardinality(B)  both == Cardinality(A \cup B)
    <3>4. both = a + b - 0 /\ a \in Nat /\ b \in Nat
      BY <3>1, <3>2, <3>3
    <3>5. both = a + b
      <4>. HIDE DEF a, b, both
      <4>. QED
        BY <3>4
    <3>. QED
      BY <3>2, <3>5
  <2>8. Cardinality(A) + l * p + l * p = l * TwoTo(last + 1)
    <3>1. l * (2 * p) = l * p + l * p /\ l * p \in Nat
      BY <2>2
    <3>2. Cardinality(A) \in Nat
      BY <2>5, FS_CardinalityType
    <3>. QED
      BY <2>5, <3>1, <3>2
  <2>9. l * TwoTo(last + 1 - (k + 1)) = l * p
    BY <2>1 DEF p
  <2>. QED
    BY <2>3, <2>6, <2>7, <2>8, <2>9
<1>. HIDE DEF N
<1>3. m \in N
  BY <1>0, <1>1, <1>2, NatSetInduction
<1>. QED
  BY <1>0, <1>3 DEF N

LEMMA AllAddresses ==
  ASSUME NEW l \in 0..SPX_FORS_TREES, NEW values, values = NodesAt(l, SPX_FORS_HEIGHT)
  PROVE  Addresses(values) = Lower(l, SPX_FORS_HEIGHT + 1)
                             \cup AddressRange("FORSPRF", 0, l * TwoTo(SPX_FORS_HEIGHT))
<1>. DEFINE last == SPX_FORS_HEIGHT
            m == l * TwoTo(last)
            Of(S) == {value[2] : value \in S}
            A == UNION {Part(values, n) : n \in 0..(last + 1)}
<1>0. last \in Nat /\ l \in Nat
  BY ForsAre
<1>1. Addresses(values) = Of(A)
  BY PartsAre
<1>2. \A n \in 0..last : Part(values, n) = NodesAt(l, last - n)
  BY PartNodes
<1>3. Part(values, last + 1) = Secrets(m)
  BY PartNodes
<1>4. \A h \in 0..last : Of(NodesAt(l, h)) = AddressRange("FORSTREE", h % Byte, l * TwoTo(last - h))
  BY NodeAddresses
<1>5. Of(Secrets(m)) = AddressRange("FORSPRF", 0, m)
  <2>1. m \in Nat
    <3>1. TwoTo(last) \in Nat
      BY <1>0, TwoToPositive
    <3>. QED
      BY <1>0, <3>1
  <2>. HIDE DEF m
  <2>. QED
    BY <2>1, SecretAddresses
<1>. HIDE DEF last, m
<1>6. Lower(l, last + 1) = UNION {AddressRange("FORSTREE", h % Byte, l * TwoTo(last - h)) : h \in 0..last}
  <2>1. 0..((last + 1) - 1) = 0..last
    BY <1>0
  <2>. QED
    BY <2>1 DEF Lower, last
<1>7. ASSUME NEW a \in Of(A) PROVE a \in Lower(l, last + 1) \cup AddressRange("FORSPRF", 0, m)
  <2>1. PICK n \in 0..(last + 1) : \E value \in Part(values, n) : a = value[2]
    OBVIOUS
  <2>2. CASE n = last + 1
    <3>1. a \in Of(Secrets(m))
      BY <1>3, <2>1, <2>2
    <3>. QED
      BY <1>5, <3>1
  <2>3. CASE n # last + 1
    <3>. DEFINE h == last - n
    <3>1. n \in 0..last /\ h \in 0..last
      BY <1>0, <2>3
    <3>. HIDE DEF h
    <3>2. a \in Of(NodesAt(l, h))
      BY <1>2, <2>1, <3>1 DEF h
    <3>3. a \in AddressRange("FORSTREE", h % Byte, l * TwoTo(last - h))
      BY <1>4, <3>1, <3>2
    <3>. QED
      BY <1>6, <3>1, <3>3
  <2>. QED
    BY <2>2, <2>3
<1>8. ASSUME NEW a \in Lower(l, last + 1) \cup AddressRange("FORSPRF", 0, m) PROVE a \in Of(A)
  <2>1. CASE a \in AddressRange("FORSPRF", 0, m)
    <3>1. PICK value \in Secrets(m) : a = value[2]
      BY <1>5, <2>1
    <3>2. value \in Part(values, last + 1) /\ last + 1 \in 0..(last + 1)
      BY <1>0, <1>3, <3>1
    <3>. QED
      BY <3>1, <3>2
  <2>2. CASE a \in Lower(l, last + 1)
    <3>1. PICK h \in 0..last : a \in AddressRange("FORSTREE", h % Byte, l * TwoTo(last - h))
      BY <1>6, <2>2
    <3>2. PICK value \in NodesAt(l, h) : a = value[2]
      BY <1>4, <3>1
    <3>. DEFINE n == last - h
    <3>3. n \in 0..last /\ n \in 0..(last + 1) /\ last - n = h
      BY <1>0
    <3>. HIDE DEF n
    <3>4. value \in Part(values, n)
      BY <1>2, <3>2, <3>3
    <3>. QED
      BY <3>2, <3>3, <3>4
  <2>. QED
    BY <2>1, <2>2
<1>. HIDE DEF A, Of
<1>9. Of(A) = Lower(l, last + 1) \cup AddressRange("FORSPRF", 0, m)
  BY <1>7, <1>8
<1>. QED
  BY <1>1, <1>9 DEF last, m

LEMMA AddressesCount ==
  ASSUME NEW l \in 0..SPX_FORS_TREES, NEW values, values = NodesAt(l, SPX_FORS_HEIGHT)
  PROVE  Cardinality(Addresses(values)) = l * (3 * TwoTo(SPX_FORS_HEIGHT) - 1)
<1>. DEFINE last == SPX_FORS_HEIGHT
            p == TwoTo(last)
            m == l * p
            A == Lower(l, last + 1)
            B == AddressRange("FORSPRF", 0, m)
<1>1. last \in Nat /\ l \in Nat /\ p \in Nat /\ TwoTo(last + 1) = 2 * p
  BY ForsAre, TwoToIs, TwoToPositive
<1>2. Addresses(values) = A \cup B
  BY AllAddresses
<1>3. IsFiniteSet(A) /\ Cardinality(A) + l * 1 = l * (2 * p)
  <2>. DEFINE k == last + 1
  <2>1. k \in 0..(SPX_FORS_HEIGHT + 1) /\ SPX_FORS_HEIGHT + 1 - k = 0
    BY <1>1
  <2>. HIDE DEF k
  <2>2. /\ IsFiniteSet(Lower(l, k))
        /\ Cardinality(Lower(l, k)) + l * TwoTo(SPX_FORS_HEIGHT + 1 - k) = l * TwoTo(SPX_FORS_HEIGHT + 1)
    BY <1>1, <2>1, LowerIs
  <2>3. TwoTo(SPX_FORS_HEIGHT + 1 - k) = 1
    BY <2>1, TwoToIs
  <2>. QED
    BY <1>1, <2>2, <2>3 DEF k
<1>4. IsFiniteSet(B) /\ Cardinality(B) = m
  <2>1. m \in Nat
    <3>. HIDE DEF p
    <3>. QED
      BY <1>1
  <2>. HIDE DEF m
  <2>. QED
    BY <2>1, RangeIs
<1>5. A \cap B = {}
  <2>. SUFFICES ASSUME NEW a \in A, a \in B PROVE FALSE
    OBVIOUS
  <2>1. PICK h \in 0..((last + 1) - 1) : a \in AddressRange("FORSTREE", h % Byte, l * TwoTo(last - h))
    BY DEF Lower
  <2>2. AddressRange("FORSTREE", h % Byte, l * TwoTo(last - h)) \cap AddressRange("FORSPRF", 0, m) = {}
    <3>. DEFINE x == h % Byte  m2 == l * TwoTo(last - h)  zero == 0
    <3>. HIDE DEF x, m2, m, zero
    <3>1. AddressRange("FORSTREE", x, m2) \cap AddressRange("FORSPRF", zero, m) = {}
      BY RangesDiffer
    <3>. QED
      BY <3>1 DEF x, m2, zero
  <2>. QED
    BY <2>1, <2>2
<1>. HIDE DEF A, B
<1>. DEFINE a == Cardinality(A)  both == Cardinality(A \cup B)
<1>6. a \in Nat /\ both = a + m
  <2>1. a \in Nat
    BY <1>3, FS_CardinalityType
  <2>2. both = Cardinality(A) + Cardinality(B) - Cardinality(A \cap B)
    BY <1>3, <1>4, FS_Union
  <2>3. Cardinality(A \cap B) = 0
    BY <1>5, FS_EmptySet
  <2>4. both = a + m - 0 /\ m \in Nat
    BY <1>4, <2>2, <2>3, FS_CardinalityType
  <2>. HIDE DEF a, both, m
  <2>. QED
    BY <2>1, <2>4
<1>7. a + l * 1 = l * (2 * p)
  BY <1>3
<1>. HIDE DEF a, both, p
<1>8. both = l * (3 * p - 1)
  <2>1. l * (2 * p) = l * p + l * p /\ l * (3 * p - 1) = l * p + l * p + l * p - l /\ l * p \in Nat /\ l * 1 = l
    BY <1>1
  <2>. DEFINE q == l * p
  <2>2. q \in Nat /\ a + l = q + q /\ both = a + q /\ l * (3 * p - 1) = q + q + q - l
    BY <1>6, <1>7, <2>1
  <2>. HIDE DEF q
  <2>3. both = q + q + q - l
    BY <1>1, <1>6, <2>2
  <2>. QED
    BY <2>2, <2>3
<1>. QED
  BY <1>2, <1>8 DEF both, p

\* Whatever their number and height, no two hashes of the FORS trees are computed
\* at the same address, if a byte can tell the heights apart (fors.c:92,
\* utilsx1.c:85-89).
THEOREM AddressesDifferHolds == Spec => []AddressesDiffer
<1>1. SigInv => AddressesDiffer
  <2>. SUFFICES ASSUME SigInv, phase = "fors"
                PROVE  Cardinality(Addresses({treeRoots[k] : k \in DOMAIN treeRoots}))
                           = Len(treeRoots) * (3 * TwoTo(SPX_FORS_HEIGHT) - 1)
    BY DEF AddressesDiffer
  <2>. DEFINE l == i  values == {treeRoots[k] : k \in DOMAIN treeRoots}
  <2>1. Climbed
    BY DEF SigInv, ForsInv
  <2>2. l \in 0..SPX_FORS_TREES /\ IsSeq(treeRoots, l) /\ \A k \in 1..l : treeRoots[k] = ForsRoot(k - 1)
    BY <2>1 DEF Climbed
  <2>3. Len(treeRoots) = l /\ DOMAIN treeRoots = 1..l
    <3>. DEFINE s == treeRoots
    <3>. HIDE DEF s, l
    <3>1. IsSeq(s, l) /\ l \in Nat
      BY <2>2, ForsAre DEF s
    <3>2. Len(s) = l /\ DOMAIN s = 1..l
      BY <3>1, Appended
    <3>. QED
      BY <3>2 DEF s
  <2>4. values = NodesAt(l, SPX_FORS_HEIGHT)
    <3>1. TwoTo(SPX_FORS_HEIGHT - SPX_FORS_HEIGHT) = 1
      BY ForsAre, TwoToIs
    <3>2. NodesAt(l, SPX_FORS_HEIGHT) = {ForsRoot(t) : t \in 0..(l - 1)}
      <4>1. 0..(TwoTo(SPX_FORS_HEIGHT - SPX_FORS_HEIGHT) - 1) = {0}
        BY <3>1
      <4>. QED
        BY <4>1 DEF NodesAt, ForsRoot
    <3>3. values = {ForsRoot(k - 1) : k \in 1..l}
      BY <2>2, <2>3
    <3>4. ASSUME NEW x \in {ForsRoot(k - 1) : k \in 1..l} PROVE x \in {ForsRoot(t) : t \in 0..(l - 1)}
      <4>1. PICK k \in 1..l : x = ForsRoot(k - 1)
        OBVIOUS
      <4>2. k - 1 \in 0..(l - 1)
        BY <2>2
      <4>. QED
        BY <4>1, <4>2
    <3>5. ASSUME NEW x \in {ForsRoot(t) : t \in 0..(l - 1)} PROVE x \in {ForsRoot(k - 1) : k \in 1..l}
      <4>1. PICK t \in 0..(l - 1) : x = ForsRoot(t)
        OBVIOUS
      <4>2. t + 1 \in 1..l /\ (t + 1) - 1 = t
        BY <2>2
      <4>. QED
        BY <4>1, <4>2
    <3>. QED
      BY <3>2, <3>3, <3>4, <3>5
  <2>. HIDE DEF values
  <2>5. Cardinality(Addresses(values)) = l * (3 * TwoTo(SPX_FORS_HEIGHT) - 1)
    BY <2>2, <2>4, AddressesCount
  <2>. QED
    BY <2>3, <2>5 DEF values
<1>. QED
  BY <1>1, SigInvHolds, PTL

------------------------------------------------------------------------------
(* Sequences of bytes.                                                       *)

LEMMA SeqIs ==
  ASSUME NEW n \in Nat, NEW s, IsSeq(s, n)
  PROVE  s \in Seq({s[k] : k \in 1..n}) /\ Len(s) = n /\ DOMAIN s = 1..n
<1>. DEFINE S == {s[k] : k \in 1..n}
<1>1. s \in [1..n -> S] /\ DOMAIN s = 1..n
  BY DEF IsSeq
<1>. HIDE DEF S
<1>2. s \in Seq(S)
  BY <1>1
<1>3. Len(s) = n
  BY <1>1, <1>2
<1>. QED
  BY <1>1, <1>2, <1>3 DEF S

LEMMA SeqInto ==
  ASSUME NEW n \in Nat, NEW s, IsSeq(s, n), NEW S, \A k \in 1..n : s[k] \in S
  PROVE  s \in Seq(S) /\ Len(s) = n
<1>1. s \in [1..n -> S]
  BY DEF IsSeq
<1>2. s \in Seq(S)
  BY <1>1
<1>. QED
  BY <1>2, SeqIs

LEMMA LenIsSeq ==
  ASSUME NEW S, NEW s \in Seq(S), NEW n \in Nat, Len(s) = n
  PROVE  IsSeq(s, n)
<1>1. s \in [1..n -> S]
  OBVIOUS
<1>. QED
  BY <1>1 DEF IsSeq

LEMMA SameSeq ==
  ASSUME NEW n \in Nat, NEW s, IsSeq(s, n), NEW t, IsSeq(t, n), \A k \in 1..n : s[k] = t[k]
  PROVE  s = t
<1>1. [k \in 1..n |-> s[k]] = [k \in 1..n |-> t[k]]
  OBVIOUS
<1>. QED
  BY <1>1, Zenon DEF IsSeq

\* w consists of the first a elements that s has and then of the first b that t has.
Consists(w, a, s, b, t) ==
    /\ IsSeq(w, a + b)
    /\ \A k \in 1..a : w[k] = s[k]
    /\ \A k \in 1..b : w[a + k] = t[k]

LEMMA ConcatIs ==
  ASSUME NEW a \in Nat, NEW s, IsSeq(s, a), NEW b \in Nat, NEW t, IsSeq(t, b)
  PROVE  Consists(s \o t, a, s, b, t)
<1>. DEFINE S == {s[k] : k \in 1..a} \cup {t[k] : k \in 1..b}
<1>1. (\A k \in 1..a : s[k] \in S) /\ \A k \in 1..b : t[k] \in S
  OBVIOUS
<1>. HIDE DEF S
<1>2. s \in Seq(S) /\ t \in Seq(S) /\ Len(s) = a /\ Len(t) = b
  BY <1>1, SeqInto
<1>3. s \o t \in Seq(S) /\ Len(s \o t) = a + b
  BY <1>2
<1>4. IsSeq(s \o t, a + b)
  <2>1. a + b \in Nat
    OBVIOUS
  <2>. QED
    BY <1>3, <2>1, LenIsSeq
<1>5. \A k \in 1..a : (s \o t)[k] = s[k]
  BY <1>2
<1>6. \A k \in 1..b : (s \o t)[a + k] = t[k]
  BY <1>2
<1>. QED
  BY <1>4, <1>5, <1>6 DEF Consists

LEMMA ConsistsSame ==
  ASSUME NEW a \in Nat, NEW s, NEW b \in Nat, NEW t, NEW v, NEW w, Consists(v, a, s, b, t), Consists(w, a, s, b, t)
  PROVE  v = w
<1>. DEFINE n == a + b
<1>1. n \in Nat /\ IsSeq(v, n) /\ IsSeq(w, n)
  BY DEF Consists
<1>2. ASSUME NEW k \in 1..n PROVE v[k] = w[k]
  <2>1. CASE k \in 1..a
    BY <2>1 DEF Consists
  <2>2. CASE k \notin 1..a
    <3>. DEFINE j == k - a
    <3>1. j \in 1..b /\ k = a + j
      BY <2>2
    <3>. HIDE DEF j
    <3>2. v[a + j] = t[j] /\ w[a + j] = t[j]
      BY <3>1 DEF Consists
    <3>. QED
      BY <3>1, <3>2
  <2>. QED
    BY <2>1, <2>2
<1>. HIDE DEF n
<1>. QED
  BY <1>1, <1>2, SameSeq

\* The n elements of s from number a + 1 on.
IsPart(w, s, a, n) == IsSeq(w, n) /\ \A k \in 1..n : w[k] = s[a + k]

LEMMA SubSeqIs ==
  ASSUME NEW n \in Nat, NEW s, IsSeq(s, n), NEW a \in 0..n, NEW b \in a..n
  PROVE  IsPart(SubSeq(s, a + 1, b), s, a, b - a)
<1>. DEFINE S == {s[k] : k \in 1..n}  w == SubSeq(s, a + 1, b)  m == b - a
<1>1. s \in Seq(S) /\ Len(s) = n
  BY SeqIs
<1>. HIDE DEF S
<1>2. a \in Nat /\ b \in Nat /\ a <= b /\ b <= n /\ m \in Nat
  OBVIOUS
<1>3. w \in Seq(S)
  BY <1>1, <1>2
<1>4. Len(w) = m
  BY <1>1, <1>2
<1>5. \A k \in 1..m : w[k] = s[a + k]
  BY <1>1, <1>2
<1>. HIDE DEF w, m
<1>6. IsSeq(w, m)
  BY <1>2, <1>3, <1>4, LenIsSeq
<1>. QED
  BY <1>5, <1>6 DEF IsPart, w, m

LEMMA FirstPart ==
  ASSUME NEW n \in Nat, NEW s, IsSeq(s, n), NEW b \in 0..n
  PROVE  IsPart(SubSeq(s, 1, b), s, 0, b)
<1>. DEFINE zero == 0
<1>1. zero \in 0..n /\ b \in zero..n /\ zero + 1 = 1 /\ b - zero = b
  OBVIOUS
<1>. HIDE DEF zero
<1>2. IsPart(SubSeq(s, zero + 1, b), s, zero, b - zero)
  BY <1>1, SubSeqIs
<1>. QED
  BY <1>1, <1>2 DEF zero

LEMMA EmptyConcat ==
  ASSUME NEW n \in Nat, NEW s, IsSeq(s, n)
  PROVE  <<>> \o s = s /\ s \o <<>> = s
<1>. DEFINE S == {s[k] : k \in 1..n}
<1>1. s \in Seq(S)
  BY SeqIs
<1>. HIDE DEF S
<1>. QED
  BY <1>1

AreSeqs(a, s, b, t, n, u) == a \in Nat /\ b \in Nat /\ n \in Nat /\ IsSeq(s, a) /\ IsSeq(t, b) /\ IsSeq(u, n)

LEMMA ConcatAssociates ==
  ASSUME NEW a, NEW s, NEW b, NEW t, NEW n, NEW u, AreSeqs(a, s, b, t, n, u)
  PROVE  (s \o t) \o u = s \o (t \o u)
<1>0. a \in Nat /\ b \in Nat /\ n \in Nat /\ IsSeq(s, a) /\ IsSeq(t, b) /\ IsSeq(u, n)
  BY DEF AreSeqs
<1>. DEFINE v == s \o t  w == t \o u  l == v \o u  r == s \o w
<1>1. Consists(v, a, s, b, t) /\ Consists(w, b, t, n, u)
  BY <1>0, ConcatIs
<1>. HIDE DEF v, w
<1>2. IsSeq(v, a + b) /\ IsSeq(w, b + n) /\ a + b \in Nat /\ b + n \in Nat
  BY <1>0, <1>1 DEF Consists
<1>3. Consists(l, a + b, v, n, u) /\ Consists(r, a, s, b + n, w)
  BY <1>0, <1>2, ConcatIs
<1>. HIDE DEF l, r
<1>4. Consists(l, a, s, b + n, w)
  <2>1. IsSeq(l, (a + b) + n) /\ (a + b) + n = a + (b + n)
    BY <1>0, <1>3 DEF Consists
  <2>2. ASSUME NEW k \in 1..a PROVE l[k] = s[k]
    <3>1. k \in 1..(a + b)
      BY <1>0
    <3>. QED
      BY <1>1, <1>3, <3>1 DEF Consists
  <2>3. ASSUME NEW k \in 1..(b + n) PROVE l[a + k] = w[k]
    <3>1. CASE k \in 1..b
      <4>1. a + k \in 1..(a + b)
        BY <1>0, <3>1
      <4>2. l[a + k] = v[a + k]
        BY <1>3, <4>1 DEF Consists
      <4>3. v[a + k] = t[k] /\ w[k] = t[k]
        BY <1>1, <3>1 DEF Consists
      <4>. QED
        BY <4>2, <4>3
    <3>2. CASE k \notin 1..b
      <4>. DEFINE j == k - b
      <4>1. j \in 1..n /\ k = b + j /\ a + k = (a + b) + j
        BY <1>0, <3>2
      <4>. HIDE DEF j
      <4>2. l[(a + b) + j] = u[j] /\ w[b + j] = u[j]
        BY <1>1, <1>3, <4>1 DEF Consists
      <4>. QED
        BY <4>1, <4>2
    <3>. QED
      BY <3>1, <3>2
  <2>4. IsSeq(l, a + (b + n))
    BY <2>1
  <2>. QED
    BY <2>2, <2>3, <2>4 DEF Consists
<1>5. l = r
  BY <1>0, <1>2, <1>3, <1>4, ConsistsSame
<1>. QED
  BY <1>5 DEF l, r, v, w

\* A sequence is its first part and the rest.
LEMMA Cut ==
  ASSUME NEW n \in Nat, NEW s, IsSeq(s, n), NEW a \in 0..n
  PROVE  s = SubSeq(s, 1, a) \o SubSeq(s, a + 1, n)
<1>. DEFINE l == SubSeq(s, 1, a)  r == SubSeq(s, a + 1, n)  b == n - a
<1>1. a \in Nat /\ b \in Nat /\ a + b = n /\ n \in a..n
  OBVIOUS
<1>2. IsPart(l, s, 0, a) /\ IsPart(r, s, a, b)
  BY <1>1, FirstPart, SubSeqIs
<1>. HIDE DEF l, r, b
<1>3. Consists(l \o r, a, l, b, r)
  BY <1>1, <1>2, ConcatIs DEF IsPart
<1>4. Consists(s, a, l, b, r)
  <2>1. \A k \in 1..a : 0 + k = k
    OBVIOUS
  <2>2. \A k \in 1..a : s[k] = l[k]
    BY <1>2, <2>1 DEF IsPart
  <2>3. \A k \in 1..b : s[a + k] = r[k]
    BY <1>2 DEF IsPart
  <2>. QED
    BY <1>1, <2>2, <2>3 DEF Consists
<1>5. s = l \o r
  BY <1>1, <1>3, <1>4, ConsistsSame
<1>. QED
  BY <1>5 DEF l, r

------------------------------------------------------------------------------
(* SM3's blocks and padding.                                                 *)

\* The length in bits, from that in bytes.
LEMMA EighthByte ==
  ASSUME NEW x \in Nat, NEW k \in 1..8
  PROVE  ByteOf(8 * x, 64 - 8 * k) = IF k = 8 THEN (x * 8) % 256 ELSE ByteOf(x, 61 - 8 * k)
<1>. DEFINE y == 8 * x
<1>1. y \in Nat /\ y = x * 8 /\ y \div 8 = x
  OBVIOUS
<1>. HIDE DEF y
<1>2. CASE k = 8
  <2>1. 64 - 8 * k = 0
    BY <1>2
  <2>2. Shift(y, 0) = y
    BY ShiftIs
  <2>. QED
    BY <1>1, <1>2, <2>1, <2>2 DEF ByteOf, y
<1>3. CASE k # 8
  <2>. DEFINE b == 61 - 8 * k
  <2>1. b \in Nat /\ 64 - 8 * k = 3 + b /\ 3 \in Nat
    BY <1>3
  <2>. HIDE DEF b
  <2>2. Shift(y, 3) = x
    BY <1>1, ByteShifts
  <2>3. Shift(Shift(y, 3), b) = Shift(y, 3 + b)
    BY <1>1, <2>1, ShiftShift
  <2>4. Shift(y, 64 - 8 * k) = Shift(x, b)
    BY <2>1, <2>2, <2>3
  <2>. QED
    BY <1>3, <2>4 DEF ByteOf, y, b
<1>. QED
  BY <1>2, <1>3

LEMMA BitLengthIs ==
  ASSUME NEW x \in Nat
  PROVE  BitLength(x) = [k \in 1..8 |-> Octet(ByteOf(8 * x, 64 - 8 * k))]
<1>1. ASSUME NEW k \in 1..8
      PROVE  Octet(IF k = 8 THEN (x * 8) % 256 ELSE ByteOf(x, 61 - 8 * k)) = Octet(ByteOf(8 * x, 64 - 8 * k))
  <2>1. ByteOf(8 * x, 64 - 8 * k) = IF k = 8 THEN (x * 8) % 256 ELSE ByteOf(x, 61 - 8 * k)
    BY EighthByte
  <2>. QED
    BY <2>1, Zenon
<1>. QED
  BY <1>1, Zenon DEF BitLength

\* The zeros that fill a block up.
Zeros(r) == PaddedSize(r) - (r + 9)

LEMMA ZerosAre ==
  ASSUME NEW x \in Nat, NEW q \in Nat, NEW r \in 0..63, x = 64 * q + r
  PROVE  (CHOOSE k \in 0..63 : (x + 1 + k + 8) % 64 = 0) = Zeros(r)
<1>. DEFINE z == PaddedSize(r) - (r + 9)
<1>1. z \in 0..63 /\ (x + 1 + z + 8) % 64 = 0
  <2>1. CASE r < 56
    <3>1. z = 55 - r /\ x + 1 + z + 8 = 64 * (q + 1)
      BY <2>1 DEF PaddedSize
    <3>. QED
      BY <2>1, <3>1
  <2>2. CASE ~(r < 56)
    <3>1. z = 119 - r /\ x + 1 + z + 8 = 64 * (q + 2)
      BY <2>2 DEF PaddedSize
    <3>. QED
      BY <2>2, <3>1
  <2>. QED
    BY <2>1, <2>2
<1>2. ASSUME NEW k \in 0..63, (x + 1 + k + 8) % 64 = 0 PROVE k = z
  <2>1. (r + 9 + k) % 64 = 0
    BY <1>2
  <2>2. CASE r < 56
    <3>1. z = 55 - r
      BY <2>2 DEF PaddedSize
    <3>. QED
      BY <2>1, <2>2, <3>1
  <2>3. CASE ~(r < 56)
    <3>1. z = 119 - r
      BY <2>3 DEF PaddedSize
    <3>. QED
      BY <2>1, <2>3, <3>1
  <2>. QED
    BY <2>2, <2>3
<1>. HIDE DEF z
<1>. QED
  BY <1>1, <1>2 DEF z, Zeros

\* The first n elements of a sequence of n.
LEMMA AllOfIt ==
  ASSUME NEW n \in Nat, NEW s, IsSeq(s, n)
  PROVE  SubSeq(s, 1, n) = s
<1>1. n \in 0..n
  OBVIOUS
<1>2. IsPart(SubSeq(s, 1, n), s, 0, n)
  BY <1>1, FirstPart
<1>3. \A k \in 1..n : 0 + k = k
  OBVIOUS
<1>. QED
  BY <1>2, <1>3, SameSeq DEF IsPart

\* The rest of a message and its padding, as one sequence and piece by piece.
PaddedRest(rest, r, total) ==
    [k \in 1..PaddedSize(r) |->
        IF k > PaddedSize(r) - 8 THEN BitLength(total)[k - (PaddedSize(r) - 8)]
        ELSE IF k <= r THEN rest[k]
        ELSE Octet(IF k = r + 1 THEN 128 ELSE 0)]

LEMMA PaddedRestIs ==
  ASSUME NEW r \in 0..63, NEW rest, IsSeq(rest, r), NEW total \in Nat
  PROVE  PaddedRest(rest, r, total) = ((rest \o <<Octet(128)>>) \o Times(0, Zeros(r))) \o BitLength(total)
<1>. DEFINE z == Zeros(r)
<1>. DEFINE size == PaddedSize(r)  end == <<Octet(128)>>  zeros == Times(0, z)  bits == BitLength(total)
            u == rest \o end  v == u \o zeros  w == v \o bits  x == PaddedRest(rest, r, total)
<1>1. z \in Nat /\ r \in Nat /\ size \in Nat /\ r + 1 \in Nat /\ (r + 1) + z \in Nat /\ size = ((r + 1) + z) + 8
  BY DEF PaddedSize, Zeros
<1>2. IsSeq(end, 1) /\ end[1] = Octet(128)
  BY DEF IsSeq
<1>3. IsSeq(zeros, z) /\ \A k \in 1..z : zeros[k] = Octet(0)
  <2>. HIDE DEF z
  <2>. QED
    BY DEF IsSeq, Times
<1>4. IsSeq(bits, 8)
  BY DEF IsSeq, BitLength
<1>5. IsSeq(x, size)
  BY DEF IsSeq, PaddedRest
<1>6. \A k \in 1..size : x[k] = IF k > size - 8 THEN bits[k - (size - 8)]
                                ELSE IF k <= r THEN rest[k] ELSE Octet(IF k = r + 1 THEN 128 ELSE 0)
  BY DEF PaddedRest
<1>. HIDE DEF z, size, end, zeros, bits, x, u, v, w
<1>7. Consists(u, r, rest, 1, end)
  BY <1>1, <1>2, ConcatIs DEF u
<1>8. Consists(v, r + 1, u, z, zeros)
  <2>1. IsSeq(u, r + 1)
    BY <1>7 DEF Consists
  <2>. QED
    BY <1>1, <1>3, <2>1, ConcatIs DEF v
<1>9. Consists(w, (r + 1) + z, v, 8, bits)
  <2>1. IsSeq(v, (r + 1) + z) /\ 8 \in Nat
    BY <1>8 DEF Consists
  <2>. QED
    BY <1>1, <1>4, <2>1, ConcatIs DEF w
<1>10. Consists(x, (r + 1) + z, v, 8, bits)
  <2>1. IsSeq(x, ((r + 1) + z) + 8)
    BY <1>1, <1>5
  <2>2. ASSUME NEW k \in 1..((r + 1) + z) PROVE x[k] = v[k]
    <3>1. k \in 1..size /\ ~(k > size - 8)
      BY <1>1
    <3>2. CASE k \in 1..r
      <4>1. k \in 1..(r + 1) /\ k <= r
        BY <3>2
      <4>2. x[k] = rest[k]
        BY <1>6, <3>1, <4>1
      <4>3. u[k] = rest[k]
        BY <1>7, <3>2 DEF Consists
      <4>4. v[k] = u[k]
        BY <1>8, <4>1 DEF Consists
      <4>. QED
        BY <4>2, <4>3, <4>4
    <3>3. CASE k = r + 1
      <4>1. k \in 1..(r + 1) /\ ~(k <= r) /\ 1 \in 1..1
        BY <1>1, <3>3
      <4>2. x[k] = Octet(128)
        BY <1>6, <3>1, <3>3, <4>1
      <4>3. u[r + 1] = end[1]
        BY <1>7, <4>1 DEF Consists
      <4>4. v[k] = u[k]
        BY <1>8, <4>1 DEF Consists
      <4>. QED
        BY <1>2, <3>3, <4>2, <4>3, <4>4
    <3>4. CASE k > r + 1
      <4>. DEFINE j == k - (r + 1)
      <4>1. j \in 1..z /\ k = (r + 1) + j /\ ~(k <= r) /\ k # r + 1
        BY <1>1, <3>4
      <4>. HIDE DEF j
      <4>2. x[k] = Octet(0)
        BY <1>6, <3>1, <4>1
      <4>3. v[(r + 1) + j] = zeros[j]
        BY <1>8, <4>1 DEF Consists
      <4>. QED
        BY <1>3, <4>1, <4>2, <4>3
    <3>. QED
      BY <1>1, <3>2, <3>3, <3>4
  <2>3. ASSUME NEW k \in 1..8 PROVE x[((r + 1) + z) + k] = bits[k]
    <3>. DEFINE j == ((r + 1) + z) + k
    <3>1. j \in 1..size /\ j > size - 8 /\ j - (size - 8) = k
      BY <1>1
    <3>. HIDE DEF j
    <3>2. x[j] = bits[j - (size - 8)]
      BY <1>6, <3>1
    <3>3. x[j] = bits[k]
      BY <3>1, <3>2
    <3>. QED
      BY <3>3 DEF j
  <2>. QED
    BY <2>1, <2>2, <2>3 DEF Consists
<1>11. x = w
  BY <1>1, <1>9, <1>10, ConsistsSame
<1>. QED
  BY <1>11 DEF x, w, v, u, end, zeros, bits, z

LEMMA WholeIs ==
  ASSUME NEW n \in Nat
  PROVE  /\ Whole(n) \in Nat /\ Whole(n) <= n /\ n - Whole(n) \in 0..63
         /\ \A q \in Nat, r \in 0..63 : n = 64 * q + r => Whole(n) = 64 * q
<1>1. n \div 64 \in Nat /\ 64 * (n \div 64) <= n /\ n - 64 * (n \div 64) \in 0..63
  OBVIOUS
<1>2. ASSUME NEW q \in Nat, NEW r \in 0..63, n = 64 * q + r PROVE n \div 64 = q
  BY <1>2
<1>. QED
  BY <1>1, <1>2 DEF Whole, SPX_SM3_BLOCK_BYTES

\* SM3 of a message from whole blocks that are absorbed already and the rest of it.
Absorbed(s) == [absorbed |-> s, bytes |-> Len(s)]

\* The last step absorbs h, what comes in whole blocks, and the padded rest.
LEMMA FinalizeCuts ==
  ASSUME NEW q \in Nat, NEW s, IsSeq(s, 64 * q), NEW n \in Nat, NEW in, IsSeq(in, n),
         NEW w, w = Whole(n), NEW r, r = n - w
  PROVE  sm3_inc_finalize(Absorbed(s), in)
             = Digest((s \o SubSeq(in, 1, w)) \o PaddedRest(SubSeq(in, w + 1, n), r, 64 * q + n))
<1>. DEFINE l == 64 * q  first == SubSeq(in, 1, w)  rest == SubSeq(in, w + 1, n)
            size == PaddedSize(r)  x == PaddedRest(rest, r, l + n)  h == s \o first
<1>1. w \in 0..n /\ r \in 0..63 /\ w \in Nat /\ r \in Nat /\ l \in Nat /\ n \in w..n /\ n - w = r
  BY WholeIs
<1>2. Len(s) = l /\ Len(in) = n
  BY <1>1, SeqIs
<1>3. IsPart(rest, in, w, r)
  BY <1>1, SubSeqIs
<1>. HIDE DEF rest
<1>4. Len(rest) = r
  BY <1>1, <1>3, SeqIs DEF IsPart
<1>5. size \in {64, 128} /\ size \in Nat /\ Whole(size) = size
  <2>1. size \in {64, 128}
    BY DEF PaddedSize
  <2>2. Whole(64) = 64 /\ Whole(128) = 128
    BY DEF Whole, SPX_SM3_BLOCK_BYTES
  <2>. QED
    BY <2>1, <2>2
<1>6. IsSeq(x, size) /\ Len(x) = size
  <2>1. IsSeq(x, size)
    BY DEF PaddedRest, IsSeq
  <2>. HIDE DEF x, size
  <2>. QED
    BY <1>5, <2>1, SeqIs
<1>. DEFINE padded == [k \in 1..PaddedSize(Len(rest)) |->
                      IF k > PaddedSize(Len(rest)) - 8
                      THEN BitLength(Absorbed(s).bytes + Len(in))[k - (PaddedSize(Len(rest)) - 8)]
                      ELSE IF k <= Len(rest) THEN rest[k]
                      ELSE Octet(IF k = Len(rest) + 1 THEN 128 ELSE 0)]
<1>7. padded = x
  <2>1. Absorbed(s).bytes + Len(in) = l + n
    BY <1>2 DEF Absorbed
  <2>. QED
    BY <1>4, <2>1, Zenon DEF PaddedRest
<1>. HIDE DEF padded, x
<1>. DEFINE first_state == crypto_hashblocks_sm3(Absorbed(s), in)
<1>8. sm3_inc_finalize(Absorbed(s), in) = Digest(crypto_hashblocks_sm3(first_state, padded).absorbed)
  <2>1. rest = SubSeq(in, Whole(Len(in)) + 1, Len(in))
    BY <1>2 DEF rest
  <2>. QED
    BY <2>1, Zenon DEF sm3_inc_finalize, padded
<1>9. first_state = [absorbed |-> h, bytes |-> l]
  <2>1. SubSeq(in, 1, Whole(Len(in))) = first
    BY <1>2
  <2>2. Absorbed(s) = [absorbed |-> s, bytes |-> l]
    BY <1>2 DEF Absorbed
  <2>. HIDE DEF l, first
  <2>3. first_state = [Absorbed(s) EXCEPT !.absorbed = @ \o first]
    BY <2>1, Zenon DEF crypto_hashblocks_sm3
  <2>. DEFINE state == [absorbed |-> s, bytes |-> l]
  <2>4. state.absorbed = s /\ \A a : [state EXCEPT !.absorbed = a] = [absorbed |-> a, bytes |-> l]
    OBVIOUS
  <2>5. [state EXCEPT !.absorbed = @ \o first] = [absorbed |-> s \o first, bytes |-> l]
    <3>. HIDE DEF state
    <3>. QED
      BY <2>4, Zenon
  <2>. HIDE DEF first_state
  <2>. QED
    BY <2>2, <2>3, <2>5
<1>. HIDE DEF first_state, h
<1>10. crypto_hashblocks_sm3(first_state, x).absorbed = h \o SubSeq(x, 1, size)
  BY <1>5, <1>6, <1>9 DEF crypto_hashblocks_sm3
<1>11. SubSeq(x, 1, size) = x
  <2>. HIDE DEF size
  <2>. QED
    BY <1>5, <1>6, AllOfIt
<1>. QED
  BY <1>7, <1>8, <1>10, <1>11 DEF x, h, rest

LEMMA FinalizeIs ==
  ASSUME NEW q \in Nat, NEW s, IsSeq(s, 64 * q), NEW n \in Nat, NEW in, IsSeq(in, n)
  PROVE  sm3_inc_finalize(Absorbed(s), in) = SM3Of(s \o in)
<1>. DEFINE l == 64 * q  w == Whole(n)  r == n - w  first == SubSeq(in, 1, w)  rest == SubSeq(in, w + 1, n)
            z == Zeros(r)  end == <<Octet(128)>>  zeros == Times(0, z)  bits == BitLength(l + n)
            h == s \o first  m == s \o in
<1>1. w \in 0..n /\ r \in 0..63 /\ w \in Nat /\ r \in Nat /\ l \in Nat /\ n \in w..n /\ n - w = r /\ l + w \in Nat
      /\ l + n \in Nat
  BY WholeIs
<1>2. IsPart(first, in, 0, w) /\ IsPart(rest, in, w, r) /\ in = first \o rest
  BY <1>1, FirstPart, SubSeqIs, Cut
<1>3. sm3_inc_finalize(Absorbed(s), in) = Digest(h \o PaddedRest(rest, r, l + n))
  BY <1>1, FinalizeCuts
<1>4. z \in Nat
  BY <1>1 DEF PaddedSize, Zeros
<1>5. IsSeq(end, 1) /\ IsSeq(zeros, z) /\ IsSeq(bits, 8) /\ IsSeq(first, w) /\ IsSeq(rest, r) /\ IsSeq(s, l)
  <2>1. IsSeq(end, 1)
    BY DEF IsSeq
  <2>2. IsSeq(zeros, z)
    BY Zenon DEF IsSeq, Times
  <2>3. IsSeq(bits, 8)
    BY DEF IsSeq, BitLength
  <2>4. IsSeq(first, w) /\ IsSeq(rest, r)
    BY <1>2, Zenon DEF IsPart
  <2>. QED
    BY <2>1, <2>2, <2>3, <2>4
<1>. HIDE DEF l, w, r, first, rest, end, zeros, bits, h, m
<1>6. PaddedRest(rest, r, l + n) = ((rest \o end) \o zeros) \o bits
  <2>. DEFINE total == l + n
  <2>2. total \in Nat
    BY <1>1
  <2>. HIDE DEF z, total
  <2>3. PaddedRest(rest, r, total) = ((rest \o <<Octet(128)>>) \o Times(0, Zeros(r))) \o BitLength(total)
    BY <1>1, <1>5, <2>2, PaddedRestIs
  <2>. QED
    BY <2>3, Zenon DEF total, end, zeros, bits, z
<1>7. Padded(m) = ((m \o end) \o zeros) \o bits
  <2>1. Len(m) = l + n
    <3>1. Consists(m, l, s, n, in)
      BY <1>1, <1>5, ConcatIs DEF m
    <3>. QED
      BY <1>1, <3>1, SeqIs DEF Consists
  <2>2. (CHOOSE k \in 0..63 : (l + n + 1 + k + 8) % 64 = 0) = z
    <3>1. PICK q2 \in Nat : l + n = 64 * q2 + r
      <4>1. w = 64 * (n \div 64) /\ n \div 64 \in Nat
        BY DEF Whole, SPX_SM3_BLOCK_BYTES, w
      <4>2. l + n = 64 * (q + (n \div 64)) + r /\ q + (n \div 64) \in Nat
        BY <4>1 DEF l, r
      <4>. QED
        BY <4>2
    <3>. DEFINE total == l + n
    <3>2. total \in Nat /\ total = 64 * q2 + r
      BY <1>1, <3>1
    <3>. HIDE DEF total
    <3>3. (CHOOSE k \in 0..63 : (total + 1 + k + 8) % 64 = 0) = Zeros(r)
      BY <1>1, <3>2, ZerosAre
    <3>. QED
      BY <3>3 DEF total
  <2>3. bits = [k \in 1..8 |-> Octet(ByteOf(8 * (l + n), 64 - 8 * k))]
    BY <1>1, BitLengthIs DEF bits
  <2>. HIDE DEF z
  <2>. QED
    BY <2>1, <2>2, <2>3, Zenon DEF Padded, end, zeros
<1>. HIDE DEF z
<1>8. m = h \o rest
  <2>1. (s \o first) \o rest = s \o (first \o rest)
    <3>1. AreSeqs(l, s, w, first, r, rest)
      BY <1>1, <1>5 DEF AreSeqs
    <3>. QED
      BY <3>1, ConcatAssociates
  <2>. QED
    BY <1>2, <2>1 DEF m, h
<1>9. ((m \o end) \o zeros) \o bits = h \o (((rest \o end) \o zeros) \o bits)
  <2>. DEFINE u == rest \o end  v == u \o zeros
  <2>1. IsSeq(h, l + w)
    BY <1>1, <1>5, ConcatIs DEF Consists, h
  <2>2. IsSeq(u, r + 1) /\ r + 1 \in Nat
    BY <1>1, <1>5, ConcatIs DEF Consists
  <2>3. m \o end = h \o u
    <3>1. (h \o rest) \o end = h \o (rest \o end)
      <4>1. AreSeqs(l + w, h, r, rest, 1, end)
        BY <1>1, <1>5, <2>1 DEF AreSeqs
      <4>. QED
        BY <4>1, ConcatAssociates
    <3>. QED
      BY <1>8, <3>1
  <2>. HIDE DEF u
  <2>4. IsSeq(v, (r + 1) + z) /\ (r + 1) + z \in Nat
    BY <1>1, <1>4, <1>5, <2>2, ConcatIs DEF Consists
  <2>5. (h \o u) \o zeros = h \o v
    <3>1. AreSeqs(l + w, h, r + 1, u, z, zeros)
      BY <1>1, <1>4, <1>5, <2>1, <2>2 DEF AreSeqs
    <3>. QED
      BY <3>1, ConcatAssociates
  <2>. HIDE DEF v
  <2>6. (h \o v) \o bits = h \o (v \o bits)
    <3>1. AreSeqs(l + w, h, (r + 1) + z, v, 8, bits)
      BY <1>1, <1>5, <2>1, <2>4 DEF AreSeqs
    <3>. QED
      BY <3>1, ConcatAssociates
  <2>. QED
    BY <2>3, <2>5, <2>6 DEF u, v
<1>10. sm3_inc_finalize(Absorbed(s), in) = SM3Of(m)
  BY <1>3, <1>6, <1>7, <1>9, Zenon DEF SM3Of
<1>. QED
  BY <1>10 DEF m

\* An exact number of blocks.
LEMMA BlocksAre ==
  ASSUME NEW q \in Nat, NEW s, IsSeq(s, 64 * q), NEW nb \in Nat, NEW in, IsSeq(in, 64 * nb)
  PROVE  sm3_inc_blocks(Absorbed(s), in, nb) = Absorbed(s \o in) /\ IsSeq(s \o in, 64 * (q + nb))
<1>. DEFINE l == 64 * q  n == 64 * nb
<1>1. l \in Nat /\ n \in Nat /\ Whole(n) = n
  <2>1. l \in Nat /\ n \in Nat /\ n = 64 * nb + 0 /\ 0 \in 0..63
    OBVIOUS
  <2>2. Whole(n) = 64 * nb
    <3>. DEFINE zero == 0
    <3>1. n = 64 * nb + zero /\ zero \in 0..63
      BY <2>1
    <3>. HIDE DEF zero, n
    <3>. QED
      BY <2>1, <3>1, WholeIs
  <2>. QED
    BY <2>1, <2>2
<1>2. SPX_SM3_BLOCK_BYTES * nb = n
  BY DEF SPX_SM3_BLOCK_BYTES
<1>3. IsSeq(s, l) /\ IsSeq(in, n)
  OBVIOUS
<1>4. l + n = 64 * (q + nb)
  OBVIOUS
<1>. HIDE DEF l, n
<1>5. Len(s) = l /\ Len(in) = n /\ SubSeq(in, 1, n) = in
  BY <1>1, <1>3, SeqIs, AllOfIt
<1>. DEFINE w == s \o in
<1>6. IsSeq(w, l + n) /\ l + n \in Nat
  BY <1>1, <1>3, ConcatIs DEF Consists
<1>. HIDE DEF w
<1>7. Len(w) = l + n
  BY <1>6, SeqIs
<1>. DEFINE state == [absorbed |-> s, bytes |-> l]
            hashed == crypto_hashblocks_sm3(Absorbed(s), SubSeq(in, 1, n))
<1>8. Absorbed(s) = state
  BY <1>5 DEF Absorbed
<1>9. hashed = [absorbed |-> w, bytes |-> l]
  <2>1. SubSeq(SubSeq(in, 1, n), 1, Whole(Len(SubSeq(in, 1, n)))) = in
    BY <1>1, <1>5
  <2>2. state.absorbed = s /\ \A a : [state EXCEPT !.absorbed = a] = [absorbed |-> a, bytes |-> l]
    OBVIOUS
  <2>. HIDE DEF state
  <2>3. hashed = [state EXCEPT !.absorbed = @ \o in]
    BY <1>8, <2>1, Zenon DEF crypto_hashblocks_sm3
  <2>. HIDE DEF hashed
  <2>. QED
    BY <2>2, <2>3, Zenon DEF w
<1>10. sm3_inc_blocks(Absorbed(s), in, nb) = [hashed EXCEPT !.bytes = @ + n]
  BY <1>2, Zenon DEF sm3_inc_blocks
<1>11. [hashed EXCEPT !.bytes = @ + n] = [absorbed |-> w, bytes |-> l + n]
  <2>. DEFINE next == [absorbed |-> w, bytes |-> l]
  <2>1. next.bytes = l /\ \A a : [next EXCEPT !.bytes = a] = [absorbed |-> w, bytes |-> a]
    OBVIOUS
  <2>. HIDE DEF next
  <2>. QED
    BY <1>9, <2>1, Zenon DEF next
<1>. HIDE DEF hashed, state
<1>. QED
  BY <1>4, <1>6, <1>7, <1>10, <1>11 DEF Absorbed, w

LEMMA NothingAbsorbed == sm3_inc_init = Absorbed(<<>>) /\ IsSeq(<<>>, 64 * 0)
<1>1. Len(<<>>) = 0 /\ 64 * 0 = 0
  OBVIOUS
<1>2. IsSeq(<<>>, 0)
  BY DEF IsSeq
<1>. QED
  BY <1>1, <1>2 DEF sm3_inc_init, Absorbed

LEMMA SM3Is ==
  ASSUME NEW n \in Nat, NEW in, IsSeq(in, n)
  PROVE  sm3(in) = SM3Of(in)
<1>. DEFINE zero == 0  empty == <<>>
<1>1. zero \in Nat /\ IsSeq(empty, 64 * zero) /\ sm3_inc_init = Absorbed(empty)
  BY NothingAbsorbed
<1>. HIDE DEF zero, empty
<1>2. sm3_inc_finalize(Absorbed(empty), in) = SM3Of(empty \o in)
  BY <1>1, FinalizeIs
<1>3. empty \o in = in
  BY EmptyConcat DEF empty
<1>. QED
  BY <1>1, <1>2, <1>3, Zenon DEF sm3

\* A prefix, and so much of the message that whole blocks are full, then the rest.
LEMMA AbsorbAfterIs ==
  ASSUME NEW q \in Nat, NEW s, IsSeq(s, 64 * q), NEW a \in Nat, NEW prefix, IsSeq(prefix, a),
         NEW nb \in Nat, a <= 64 * nb, NEW n \in Nat, NEW m, IsSeq(m, n)
  PROVE  AbsorbAfter(Absorbed(s), prefix, nb, m) = SM3Of(s \o (prefix \o m))
<1>1. Len(prefix) = a /\ Len(m) = n
  BY SeqIs
<1>. DEFINE l == 64 * q  w == prefix \o m
<1>2. l \in Nat /\ IsSeq(s, l)
  OBVIOUS
<1>3. IsSeq(w, a + n) /\ a + n \in Nat
  BY ConcatIs DEF Consists
<1>. HIDE DEF l, w
<1>4. CASE FillsBlocks(Len(prefix) + Len(m), nb)
  <2>. DEFINE taken == nb * SPX_SM3_BLOCK_BYTES - Len(prefix)
              first == SubSeq(m, 1, taken)  rest == SubSeq(m, taken + 1, n)  block == prefix \o first
  <2>1. taken \in 0..n /\ n \in taken..n /\ a + taken = 64 * nb /\ taken \in Nat /\ n - taken \in Nat
    BY <1>1, <1>4 DEF FillsBlocks, SPX_SM3_BLOCK_BYTES
  <2>2. AbsorbAfter(Absorbed(s), prefix, nb, m)
            = sm3_inc_finalize(sm3_inc_blocks(Absorbed(s), block, nb), SubSeq(m, taken + 1, Len(m)))
    BY <1>4, Zenon DEF AbsorbAfter
  <2>. HIDE DEF taken
  <2>3. IsPart(first, m, 0, taken) /\ IsPart(rest, m, taken, n - taken) /\ m = first \o rest
    BY <2>1, FirstPart, SubSeqIs, Cut
  <2>. HIDE DEF first, rest
  <2>4. IsSeq(first, taken) /\ IsSeq(rest, n - taken)
    BY <2>3, Zenon DEF IsPart
  <2>5. IsSeq(block, a + taken)
    BY <2>1, <2>4, ConcatIs DEF Consists
  <2>. HIDE DEF block
  <2>6. IsSeq(block, 64 * nb)
    BY <2>1, <2>5
  <2>7. sm3_inc_blocks(Absorbed(s), block, nb) = Absorbed(s \o block) /\ IsSeq(s \o block, 64 * (q + nb))
    BY <2>6, BlocksAre
  <2>8. sm3_inc_finalize(Absorbed(s \o block), rest) = SM3Of((s \o block) \o rest)
    <3>. DEFINE r == n - taken  p == q + nb  v == s \o block
    <3>1. r \in Nat /\ p \in Nat /\ IsSeq(v, 64 * p) /\ IsSeq(rest, r)
      BY <2>1, <2>4, <2>7
    <3>. HIDE DEF r, p, v
    <3>2. sm3_inc_finalize(Absorbed(v), rest) = SM3Of(v \o rest)
      BY <3>1, FinalizeIs
    <3>. QED
      BY <3>2 DEF v
  <2>9. (s \o block) \o rest = s \o (block \o rest)
    <3>1. AreSeqs(l, s, a + taken, block, n - taken, rest)
      BY <1>2, <2>1, <2>4, <2>5 DEF AreSeqs
    <3>. QED
      BY <3>1, ConcatAssociates
  <2>10. block \o rest = prefix \o (first \o rest)
    <3>1. AreSeqs(a, prefix, taken, first, n - taken, rest)
      BY <2>1, <2>4 DEF AreSeqs
    <3>. QED
      BY <3>1, ConcatAssociates DEF block
  <2>. QED
    BY <1>1, <2>2, <2>3, <2>7, <2>8, <2>9, <2>10 DEF rest
<1>5. CASE ~FillsBlocks(Len(prefix) + Len(m), nb)
  <2>1. AbsorbAfter(Absorbed(s), prefix, nb, m) = sm3_inc_finalize(Absorbed(s), w)
    BY <1>5, Zenon DEF AbsorbAfter, w
  <2>. DEFINE t == a + n
  <2>2. t \in Nat /\ IsSeq(w, t)
    BY <1>3
  <2>. HIDE DEF t
  <2>3. sm3_inc_finalize(Absorbed(s), w) = SM3Of(s \o w)
    BY <2>2, FinalizeIs
  <2>. QED
    BY <2>1, <2>3 DEF w
<1>. QED
  BY <1>4, <1>5

------------------------------------------------------------------------------
(* MGF1: pieces of 32 bytes, one after the other.                            *)

Piece(k) == (k - 1) \div 32
InPiece(k) == ((k - 1) % 32) + 1
Pieces(seqs, n) == [k \in 1..(32 * n) |-> seqs[Piece(k) + 1][InPiece(k)]]

LEMMA PieceIs ==
  ASSUME NEW n \in Nat, NEW r \in 1..32
  PROVE  Piece(32 * n + r) = n /\ InPiece(32 * n + r) = r
<1>1. (32 * n + r - 1) \div 32 = n /\ (32 * n + r - 1) % 32 = r - 1
  OBVIOUS
<1>. QED
  BY <1>1 DEF Piece, InPiece

LEMMA PieceIn ==
  ASSUME NEW n \in Nat, NEW k \in 1..(32 * n)
  PROVE  Piece(k) \in 0..(n - 1) /\ Piece(k) + 1 \in 1..n /\ InPiece(k) \in 1..32 /\ k = 32 * Piece(k) + InPiece(k)
BY DEF Piece, InPiece

LEMMA PiecesGrow ==
  ASSUME NEW n \in Nat, NEW seqs, IsSeq(seqs[n + 1], 32)
  PROVE  Pieces(seqs, n + 1) = Pieces(seqs, n) \o seqs[n + 1] /\ IsSeq(Pieces(seqs, n), 32 * n)
<1>. DEFINE l == 32 * n  s == Pieces(seqs, n)  t == seqs[n + 1]  x == Pieces(seqs, n + 1)
<1>1. l \in Nat /\ l + 32 = 32 * (n + 1)
  OBVIOUS
<1>2. IsSeq(s, l) /\ \A k \in 1..l : s[k] = seqs[Piece(k) + 1][InPiece(k)]
  BY DEF IsSeq, Pieces
<1>3. IsSeq(x, l + 32) /\ \A k \in 1..(l + 32) : x[k] = seqs[Piece(k) + 1][InPiece(k)]
  BY <1>1 DEF IsSeq, Pieces
<1>4. IsSeq(t, 32)
  OBVIOUS
<1>. HIDE DEF s, t, x
<1>5. Consists(s \o t, l, s, 32, t)
  <2>. HIDE DEF l
  <2>. QED
    BY <1>1, <1>2, <1>4, ConcatIs
<1>6. Consists(x, l, s, 32, t)
  <2>1. ASSUME NEW k \in 1..l PROVE x[k] = s[k]
    BY <1>2, <1>3
  <2>2. ASSUME NEW k \in 1..32 PROVE x[l + k] = t[k]
    <3>1. l + k \in 1..(l + 32)
      OBVIOUS
    <3>2. Piece(l + k) = n /\ InPiece(l + k) = k
      BY PieceIs
    <3>. HIDE DEF l
    <3>. QED
      BY <1>3, <3>1, <3>2 DEF t
  <2>. HIDE DEF l
  <2>. QED
    BY <1>3, <2>1, <2>2 DEF Consists
<1>7. x = s \o t
  <2>. HIDE DEF l
  <2>. QED
    BY <1>1, <1>5, <1>6, ConsistsSame
<1>. QED
  BY <1>2, <1>7 DEF x, s, t

LEMMA FlattenIs ==
  ASSUME NEW n \in Nat, NEW seqs, IsSeq(seqs, n), \A j \in 1..n : IsSeq(seqs[j], 32)
  PROVE  FlattenSeq(seqs) = Pieces(seqs, n)
<1>1. Len(seqs) = n
  BY SeqIs
<1>2. CASE n = 0
  <2>1. FlattenSeq(seqs) = seqs
    BY <1>1, <1>2 DEF FlattenSeq
  <2>2. seqs = <<>>
    BY <1>2 DEF IsSeq
  <2>3. Pieces(seqs, n) = <<>>
    BY <1>2 DEF Pieces
  <2>. QED
    BY <2>1, <2>2, <2>3
<1>3. CASE n # 0
  <2>. DEFINE Is(f) == f = [j \in 1..n |-> IF j = 1 THEN seqs[j] ELSE f[j - 1] \o seqs[j]]
              g == [j \in 1..n |-> Pieces(seqs, j)]
  <2>1. FlattenSeq(seqs) = (CHOOSE f : Is(f))[n]
    BY <1>1, <1>3 DEF FlattenSeq
  <2>2. Pieces(seqs, 1) = seqs[1]
    <3>. DEFINE s == seqs[1]
    <3>1. IsSeq(s, 32)
      BY <1>3
    <3>2. ASSUME NEW k \in 1..32 PROVE Piece(k) = 0 /\ InPiece(k) = k
      BY DEF Piece, InPiece
    <3>3. Pieces(seqs, 1) = [k \in 1..32 |-> seqs[Piece(k) + 1][InPiece(k)]]
      BY DEF Pieces
    <3>4. \A k \in 1..32 : seqs[Piece(k) + 1][InPiece(k)] = s[k]
      BY <3>2
    <3>5. Pieces(seqs, 1) = [k \in 1..32 |-> s[k]]
      <4>. HIDE DEF s
      <4>. QED
        BY <3>3, <3>4, Zenon
    <3>. HIDE DEF s
    <3>6. Pieces(seqs, 1) = s
      BY <3>1, <3>5, Zenon DEF IsSeq
    <3>. QED
      BY <3>6 DEF s
  <2>3. ASSUME NEW j \in Nat, j + 1 \in 1..n PROVE Pieces(seqs, j + 1) = Pieces(seqs, j) \o seqs[j + 1]
    BY <2>3, PiecesGrow
  <2>4. Is(g)
    <3>1. ASSUME NEW j \in 1..n PROVE Pieces(seqs, j) = IF j = 1 THEN seqs[j] ELSE g[j - 1] \o seqs[j]
      <4>1. CASE j = 1
        BY <2>2, <4>1
      <4>2. CASE j # 1
        <5>. DEFINE h == j - 1
        <5>1. h \in Nat /\ h + 1 = j /\ h \in 1..n
          BY <4>2
        <5>2. g[h] = Pieces(seqs, h)
          BY <5>1
        <5>. HIDE DEF h, g
        <5>3. Pieces(seqs, h + 1) = Pieces(seqs, h) \o seqs[h + 1]
          BY <2>3, <5>1
        <5>4. Pieces(seqs, j) = g[h] \o seqs[j]
          BY <5>1, <5>2, <5>3
        <5>. QED
          BY <4>2, <5>4 DEF h
      <4>. QED
        BY <4>1, <4>2
    <3>2. g = [j \in 1..n |-> Pieces(seqs, j)]
      OBVIOUS
    <3>. HIDE DEF g
    <3>. QED
      BY <3>1, <3>2, Zenon
  <2>5. PICK f : Is(f) /\ f = CHOOSE e : Is(e)
    <3>. HIDE DEF Is
    <3>. QED
      BY <2>4, Zenon
  <2>6. \A j \in 1..n : f[j] = IF j = 1 THEN seqs[j] ELSE f[j - 1] \o seqs[j]
    BY <2>5, Zenon
  <2>. HIDE DEF g, Is
  <2>. DEFINE N == {j \in Nat : j + 1 \in 1..n => f[j + 1] = Pieces(seqs, j + 1)}
  <2>7. 0 \in N
    BY <1>3, <2>2, <2>6
  <2>8. ASSUME NEW j \in Nat, j \in N PROVE j + 1 \in N
    <3>. SUFFICES ASSUME (j + 1) + 1 \in 1..n PROVE f[(j + 1) + 1] = Pieces(seqs, (j + 1) + 1)
      OBVIOUS
    <3>. DEFINE h == j + 1
    <3>1. h \in Nat /\ h \in 1..n /\ h + 1 \in 1..n /\ h + 1 # 1 /\ (h + 1) - 1 = h
      OBVIOUS
    <3>2. f[h] = Pieces(seqs, h)
      BY <2>8, <3>1
    <3>. HIDE DEF h, N
    <3>3. f[h + 1] = f[h] \o seqs[h + 1]
      BY <2>6, <3>1
    <3>4. f[h + 1] = Pieces(seqs, h + 1)
      BY <2>3, <3>1, <3>2, <3>3
    <3>. QED
      BY <3>4 DEF h
  <2>. HIDE DEF N
  <2>9. \A j \in Nat : j \in N
    BY <2>7, <2>8, NatSetInduction
  <2>10. f[n] = Pieces(seqs, n)
    <3>. DEFINE h == n - 1
    <3>1. h \in Nat /\ h + 1 = n /\ h + 1 \in 1..n
      BY <1>3
    <3>. HIDE DEF h
    <3>2. h \in N
      BY <2>9, <3>1
    <3>. QED
      BY <3>1, <3>2 DEF N
  <2>. QED
    BY <2>1, <2>5, <2>10
<1>. QED
  BY <1>2, <1>3

LEMMA HashIs32 ==
  ASSUME NEW message
  PROVE  IsSeq(SM3Of(message), 32)
BY DEF SM3Of, Digest, SPX_SM3_OUTPUT_BYTES, IsSeq

LEMMA MgfIs ==
  ASSUME NEW outlen \in Nat, NEW n \in Nat, NEW in, IsSeq(in, n)
  PROVE  mgf1_SM3(outlen, in) = Mgf1Of(outlen, in) /\ IsSeq(Mgf1Of(outlen, in), outlen)
<1>. DEFINE Counter(j) == [k \in 1..4 |-> Octet(ByteOf(j, 32 - 8 * k))]
            Chunk(j) == SM3Of(in \o Counter(j))
            whole == outlen \div 32  l == 32 * whole  r == outlen - l
            seqs == [j \in 1..whole |-> Chunk(j - 1)]
            part == SubSeq(Chunk(whole), 1, r)
            x == [k \in 1..outlen |-> Chunk(Piece(k))[InPiece(k)]]
<1>1. whole \in Nat /\ l \in Nat /\ r \in 0..31 /\ r \in Nat /\ l + r = outlen /\ r \in 0..32
  OBVIOUS
<1>2. \A j : IsSeq(Chunk(j), 32)
  BY HashIs32
<1>3. ASSUME NEW j PROVE sm3(in \o u32_to_bytes(j)) = Chunk(j)
  <2>. DEFINE count == Counter(j)  w == in \o count  t == n + 4
  <2>1. u32_to_bytes(j) = count
    BY Zenon DEF u32_to_bytes
  <2>2. IsSeq(count, 4) /\ 4 \in Nat
    BY DEF IsSeq
  <2>. HIDE DEF count
  <2>3. IsSeq(w, t) /\ t \in Nat
    BY <2>2, ConcatIs DEF Consists
  <2>. HIDE DEF w, t
  <2>4. sm3(w) = SM3Of(w)
    BY <2>3, SM3Is
  <2>. QED
    BY <2>1, <2>4, Zenon DEF w, count
<1>4. mgf1_SM3(outlen, in) = FlattenSeq(seqs) \o part
  <2>1. whole * 32 = l
    BY <1>1
  <2>2. mgf1_SM3(outlen, in) = FlattenSeq([j \in 1..whole |-> sm3(in \o u32_to_bytes(j - 1))])
                               \o SubSeq(sm3(in \o u32_to_bytes(whole)), 1, outlen - whole * 32)
    BY Zenon DEF mgf1_SM3, SPX_SM3_OUTPUT_BYTES
  <2>3. [j \in 1..whole |-> sm3(in \o u32_to_bytes(j - 1))] = seqs
    <3>. HIDE DEF Chunk, whole
    <3>. QED
      BY <1>3, Zenon
  <2>4. sm3(in \o u32_to_bytes(whole)) = Chunk(whole)
    BY <1>3
  <2>. HIDE DEF seqs, Chunk, whole, l
  <2>. QED
    BY <2>1, <2>2, <2>3, <2>4, Zenon
<1>. HIDE DEF Chunk
<1>5. FlattenSeq(seqs) = Pieces(seqs, whole) /\ IsSeq(Pieces(seqs, whole), l)
  <2>1. IsSeq(seqs, whole) /\ \A j \in 1..whole : IsSeq(seqs[j], 32)
    BY <1>2, Zenon DEF IsSeq
  <2>2. IsSeq(Pieces(seqs, whole), l)
    BY DEF Pieces, IsSeq
  <2>. HIDE DEF seqs, whole
  <2>. QED
    BY <1>1, <2>1, <2>2, FlattenIs
<1>6. ASSUME NEW k \in 1..l PROVE Pieces(seqs, whole)[k] = Chunk(Piece(k))[InPiece(k)]
  <2>1. Piece(k) + 1 \in 1..whole /\ (Piece(k) + 1) - 1 = Piece(k)
    BY <1>1, PieceIn
  <2>2. Pieces(seqs, whole)[k] = seqs[Piece(k) + 1][InPiece(k)]
    BY DEF Pieces
  <2>3. seqs[Piece(k) + 1] = Chunk((Piece(k) + 1) - 1)
    BY <2>1
  <2>. HIDE DEF seqs, whole
  <2>. QED
    BY <2>1, <2>2, <2>3
<1>7. IsSeq(part, r) /\ \A k \in 1..r : part[k] = Chunk(whole)[k]
  <2>. DEFINE chunk == Chunk(whole)
  <2>1. IsSeq(chunk, 32) /\ 32 \in Nat
    BY <1>2
  <2>. HIDE DEF chunk, r, whole
  <2>2. IsPart(SubSeq(chunk, 1, r), chunk, 0, r)
    BY <1>1, <2>1, FirstPart
  <2>3. \A k \in 1..r : 0 + k = k
    BY <1>1
  <2>. QED
    BY <2>2, <2>3 DEF IsPart, chunk
<1>8. IsSeq(x, outlen)
  BY DEF IsSeq
<1>9. ASSUME NEW k \in 1..r PROVE x[l + k] = Chunk(whole)[k]
  <2>1. k \in 1..32 /\ l + k \in 1..outlen
    BY <1>1
  <2>2. Piece(l + k) = whole /\ InPiece(l + k) = k
    BY <1>1, <2>1, PieceIs
  <2>. HIDE DEF l, whole
  <2>. QED
    BY <2>1, <2>2
<1>10. \A k \in 1..l : x[k] = Chunk(Piece(k))[InPiece(k)]
  <2>1. \A k \in 1..l : k \in 1..outlen
    BY <1>1
  <2>. HIDE DEF l
  <2>. QED
    BY <2>1
<1>11. Mgf1Of(outlen, in) = x
  <2>. DEFINE Chunks == [j \in 0..whole |-> Chunk(j)]
  <2>1. Mgf1Of(outlen, in) = [k \in 1..outlen |-> Chunks[Piece(k)][InPiece(k)]]
    BY Zenon DEF Mgf1Of, Piece, InPiece, Chunk
  <2>2. ASSUME NEW k \in 1..outlen PROVE Chunks[Piece(k)] = Chunk(Piece(k))
    <3>1. Piece(k) \in 0..whole
      BY DEF Piece
    <3>. QED
      BY <3>1
  <2>. HIDE DEF Chunks
  <2>. QED
    BY <2>1, <2>2, Zenon
<1>. DEFINE pieces == Pieces(seqs, whole)
<1>. HIDE DEF pieces, seqs, part, x, l, r, whole
<1>12. x = pieces \o part
  <2>1. Consists(pieces \o part, l, pieces, r, part)
    BY <1>1, <1>5, <1>7, ConcatIs DEF pieces
  <2>2. Consists(x, l, pieces, r, part)
    BY <1>1, <1>6, <1>7, <1>8, <1>9, <1>10 DEF Consists, pieces
  <2>. QED
    BY <1>1, <2>1, <2>2, ConsistsSame
<1>. QED
  BY <1>4, <1>5, <1>8, <1>11, <1>12 DEF pieces

------------------------------------------------------------------------------
(* The hashes of nodes, secrets and messages.                                *)

LEMMA InputBytes ==
  ASSUME NEW name, NEW n \in Nat
  PROVE  IsSeq(Input(name, n), n)
BY Zenon DEF Input, IsSeq

SeedBlock(n) == Input("pub_seed", n) \o Times(0, 64 - n)

LEMMA SeedBlockIs ==
  ASSUME NEW n \in 1..64
  PROVE  IsSeq(SeedBlock(n), 64) /\ seed_state(n) = Absorbed(SeedBlock(n))
<1>. DEFINE s == Input("pub_seed", n)  l == 64 - n  t == Times(0, l)  b == SeedBlock(n)
<1>1. n \in Nat /\ l \in Nat /\ n + l = 64 /\ IsSeq(s, n)
  BY InputBytes
<1>2. IsSeq(t, l)
  BY Zenon DEF IsSeq, Times
<1>3. b = s \o t
  BY Zenon DEF SeedBlock
<1>. HIDE DEF s, l, t, b
<1>4. IsSeq(b, n + l)
  BY <1>1, <1>2, <1>3, ConcatIs DEF Consists
<1>5. IsSeq(b, 64)
  BY <1>1, <1>4
<1>6. sm3_inc_blocks(sm3_inc_init, b, 1) = Absorbed(b)
  <2>. DEFINE zero == 0  one == 1  empty == <<>>
  <2>1. zero \in Nat /\ one \in Nat /\ IsSeq(empty, 64 * zero) /\ sm3_inc_init = Absorbed(empty) /\ IsSeq(b, 64 * one)
    <3>1. 64 * one = 64
      OBVIOUS
    <3>. QED
      BY <1>5, <3>1, NothingAbsorbed
  <2>. HIDE DEF zero, one, empty
  <2>2. sm3_inc_blocks(Absorbed(empty), b, one) = Absorbed(empty \o b)
    BY <2>1, BlocksAre
  <2>3. empty \o b = b
    <3>1. 64 \in Nat
      OBVIOUS
    <3>. QED
      BY <1>5, <3>1, EmptyConcat DEF empty
  <2>. QED
    BY <2>1, <2>2, <2>3 DEF one
<1>7. seed_state(n) = sm3_inc_blocks(sm3_inc_init, b, 1)
  BY Zenon DEF seed_state, SPX_SM3_BLOCK_BYTES, b, SeedBlock
<1>. QED
  BY <1>5, <1>6, <1>7 DEF b

LEMMA SeededIs ==
  ASSUME NEW n \in 1..64, NEW a \in Nat, NEW addr, IsSeq(addr, a), NEW l \in Nat, NEW in, IsSeq(in, l)
  PROVE  SeededHash(n, addr \o in) = SubSeq(SM3Of(SeedBlock(n) \o addr \o in), 1, n)
<1>. DEFINE w == addr \o in  t == a + l  b == SeedBlock(n)  one == 1
<1>1. IsSeq(w, t) /\ t \in Nat
  BY ConcatIs DEF Consists
<1>2. one \in Nat /\ IsSeq(b, 64 * one) /\ IsSeq(b, 64) /\ seed_state(n) = Absorbed(b)
  <2>1. 64 * one = 64
    OBVIOUS
  <2>. QED
    BY <2>1, SeedBlockIs
<1>3. (b \o addr) \o in = b \o w
  <2>1. AreSeqs(64, b, a, addr, l, in)
    BY <1>2 DEF AreSeqs
  <2>. QED
    BY <2>1, ConcatAssociates
<1>. HIDE DEF w, t, b, one
<1>4. sm3_inc_finalize(Absorbed(b), w) = SM3Of(b \o w)
  BY <1>1, <1>2, FinalizeIs
<1>5. SeededHash(n, w) = SubSeq(SM3Of(b \o w), 1, n)
  BY <1>2, <1>4, Zenon DEF SeededHash, initialize_hash_function
<1>. QED
  BY <1>3, <1>5 DEF w, b

LEMMA AddrBytes == IsSeq(Input("addr", 22), 22) /\ SPX_SM3_ADDR_BYTES = 22 /\ 22 \in Nat
BY InputBytes DEF SPX_SM3_ADDR_BYTES

LEMMA PrfIs ==
  ASSUME NEW n \in 1..64
  PROVE  PrfAddr(n) = SubSeq(SM3Of(SeedBlock(n) \o Input("addr", 22) \o Input("sk_seed", n)), 1, n)
<1>. DEFINE addr == Input("addr", 22)  in == Input("sk_seed", n)
<1>1. n \in Nat /\ IsSeq(in, n) /\ IsSeq(addr, 22) /\ 22 \in Nat
  BY InputBytes, AddrBytes
<1>. HIDE DEF addr, in
<1>2. SeededHash(n, addr \o in) = SubSeq(SM3Of(SeedBlock(n) \o addr \o in), 1, n)
  BY <1>1, SeededIs
<1>. QED
  BY <1>2, AddrBytes, Zenon DEF PrfAddr, addr, in

LEMMA SimpleIs ==
  ASSUME NEW n \in 1..64, NEW blocks, blocks * n \in Nat
  PROVE  ThashSimple(n, blocks)
             = SubSeq(SM3Of(SeedBlock(n) \o Input("addr", 22) \o Input("in", blocks * n)), 1, n)
<1>. DEFINE addr == Input("addr", 22)  l == blocks * n  in == Input("in", l)
<1>1. IsSeq(in, l) /\ IsSeq(addr, 22) /\ 22 \in Nat /\ l \in Nat
  BY InputBytes, AddrBytes
<1>. HIDE DEF addr, in, l
<1>2. SeededHash(n, addr \o in) = SubSeq(SM3Of(SeedBlock(n) \o addr \o in), 1, n)
  BY <1>1, SeededIs
<1>. QED
  BY <1>2, AddrBytes, Zenon DEF ThashSimple, addr, in, l

LEMMA RobustIs ==
  ASSUME NEW n \in 1..64, NEW blocks, blocks * n \in Nat, NEW in, in = Input("in", blocks * n),
         NEW mask, mask = Mgf1Of(blocks * n, Input("pub_seed", n) \o Input("addr", 22))
  PROVE  ThashRobust(n, blocks)
             = SubSeq(SM3Of(SeedBlock(n) \o Input("addr", 22) \o [k \in DOMAIN in |-> Xor(in[k], mask[k])]), 1, n)
<1>. DEFINE addr == Input("addr", 22)  l == blocks * n  seeds == Input("pub_seed", n)  both == seeds \o addr
            bitmask == mgf1_SM3(l, both)
            masked == [k \in 1..l |-> Xor(<<"in", k, <<>>>>, bitmask[k])]
<1>1. n \in Nat /\ IsSeq(addr, 22) /\ IsSeq(seeds, n) /\ 22 \in Nat /\ l \in Nat /\ n + 22 \in Nat
  BY InputBytes, AddrBytes
<1>2. ThashRobust(n, blocks) = SeededHash(n, addr \o masked)
  BY AddrBytes, Zenon DEF ThashRobust
<1>3. DOMAIN in = 1..l /\ \A k \in 1..l : in[k] = <<"in", k, <<>>>>
  BY Zenon DEF Input
<1>. HIDE DEF addr, l, seeds
<1>4. IsSeq(both, n + 22)
  BY <1>1, ConcatIs DEF Consists
<1>. HIDE DEF both
<1>5. bitmask = mask
  <2>1. mgf1_SM3(l, both) = Mgf1Of(l, both)
    <3>. DEFINE t == n + 22
    <3>1. t \in Nat /\ IsSeq(both, t)
      BY <1>1, <1>4
    <3>. HIDE DEF t
    <3>. QED
      BY <1>1, <3>1, MgfIs
  <2>. QED
    BY <2>1 DEF both, l, addr, seeds
<1>. HIDE DEF bitmask
<1>6. masked = [k \in DOMAIN in |-> Xor(in[k], mask[k])]
  BY <1>3, <1>5, Zenon
<1>7. IsSeq(masked, l)
  BY Zenon DEF IsSeq
<1>. HIDE DEF masked
<1>8. SeededHash(n, addr \o masked) = SubSeq(SM3Of(SeedBlock(n) \o addr \o masked), 1, n)
  BY <1>1, <1>7, SeededIs
<1>. QED
  BY <1>2, <1>6, <1>8, Zenon DEF addr

HmacKey(key, pad) == [k \in 1..64 |-> IF k <= Len(key) THEN Xor(Octet(pad), key[k]) ELSE Octet(pad)]

LEMMA KeyBlockIs ==
  ASSUME NEW n \in 1..64, NEW pad
  PROVE  KeyBlock(n, pad) = HmacKey(Input("sk_prf", n), pad) /\ IsSeq(KeyBlock(n, pad), 64)
<1>. DEFINE key == Input("sk_prf", n)  s == [k \in 1..n |-> Xor(Octet(pad), <<"sk_prf", k, <<>>>>)]
            l == 64 - n  t == Times(pad, l)  x == HmacKey(key, pad)
<1>1. n \in Nat /\ l \in Nat /\ n + l = 64 /\ IsSeq(key, n) /\ \A k \in 1..n : key[k] = <<"sk_prf", k, <<>>>>
  <2>1. n \in Nat /\ l \in Nat /\ n + l = 64
    OBVIOUS
  <2>2. IsSeq(key, n)
    BY <2>1, InputBytes
  <2>3. \A k \in 1..n : key[k] = <<"sk_prf", k, <<>>>>
    BY Zenon DEF Input
  <2>. QED
    BY <2>1, <2>2, <2>3
<1>2. KeyBlock(n, pad) = s \o t
  BY Zenon DEF KeyBlock, SPX_SM3_BLOCK_BYTES
<1>3. IsSeq(s, n) /\ IsSeq(t, l)
  BY Zenon DEF IsSeq, Times
<1>4. (\A k \in 1..n : s[k] = Xor(Octet(pad), <<"sk_prf", k, <<>>>>)) /\ \A k \in 1..l : t[k] = Octet(pad)
  BY Zenon DEF Times
<1>. HIDE DEF key, s, t
<1>5. Len(key) = n
  BY <1>1, SeqIs
<1>6. IsSeq(x, 64) /\ \A k \in 1..64 : x[k] = IF k <= n THEN Xor(Octet(pad), key[k]) ELSE Octet(pad)
  BY <1>5, Zenon DEF HmacKey, IsSeq
<1>. HIDE DEF x
<1>7. Consists(s \o t, n, s, l, t)
  BY <1>1, <1>3, ConcatIs
<1>8. Consists(x, n, s, l, t)
  <2>1. ASSUME NEW k \in 1..n PROVE x[k] = s[k]
    <3>1. k \in 1..64 /\ k <= n
      BY <1>1
    <3>2. x[k] = Xor(Octet(pad), key[k])
      BY <1>6, <3>1
    <3>. QED
      BY <1>1, <1>4, <3>2
  <2>2. ASSUME NEW k \in 1..l PROVE x[n + k] = t[k]
    <3>1. n + k \in 1..64 /\ ~(n + k <= n)
      BY <1>1
    <3>. QED
      BY <1>4, <1>6, <3>1
  <2>. QED
    BY <1>1, <1>6, <2>1, <2>2 DEF Consists
<1>. HIDE DEF l
<1>9. s \o t = x
  BY <1>1, <1>7, <1>8, ConsistsSame
<1>. QED
  BY <1>2, <1>6, <1>9 DEF x, key

LEMMA KeyAbsorbed ==
  ASSUME NEW n \in 1..64, NEW pad
  PROVE  sm3_inc_blocks(sm3_inc_init, KeyBlock(n, pad), 1) = Absorbed(KeyBlock(n, pad))
<1>. DEFINE zero == 0  one == 1  empty == <<>>  b == KeyBlock(n, pad)
<1>0. IsSeq(b, 64)
  BY KeyBlockIs
<1>. HIDE DEF b
<1>1. zero \in Nat /\ one \in Nat /\ IsSeq(empty, 64 * zero) /\ sm3_inc_init = Absorbed(empty) /\ IsSeq(b, 64 * one)
  <2>1. 64 * one = 64
    OBVIOUS
  <2>. QED
    BY <1>0, <2>1, NothingAbsorbed
<1>. HIDE DEF zero, one, empty
<1>2. sm3_inc_blocks(Absorbed(empty), b, one) = Absorbed(empty \o b)
  BY <1>1, BlocksAre
<1>3. empty \o b = b
  <2>1. 64 \in Nat
    OBVIOUS
  <2>. QED
    BY <1>0, <2>1, EmptyConcat DEF empty
<1>. QED
  BY <1>1, <1>2, <1>3 DEF one, b

LEMMA RandomizerIs ==
  ASSUME NEW n \in 1..64, NEW l \in Nat, NEW m, IsSeq(m, l)
  PROVE  gen_message_random(n, m) = SubSeq(HmacOf(Input("sk_prf", n), Input("optrand", n) \o m), 1, n)
<1>. DEFINE inner_key == KeyBlock(n, 54)  outer_key == KeyBlock(n, 92)  optrand == Input("optrand", n)
            one == 1  w == optrand \o m  inner == SM3Of(inner_key \o w)  outer == outer_key \o inner
<1>1. n \in Nat /\ one \in Nat /\ n <= 64 * one /\ IsSeq(optrand, n)
  BY InputBytes
<1>2. IsSeq(inner_key, 64 * one) /\ IsSeq(outer_key, 64)
  <2>1. 64 * one = 64
    OBVIOUS
  <2>. QED
    BY <2>1, KeyBlockIs
<1>3. gen_message_random(n, m)
          = SubSeq(sm3(outer_key \o AbsorbAfter(Absorbed(inner_key), optrand, one, m)), 1, n)
  BY KeyAbsorbed, Zenon DEF gen_message_random
<1>. HIDE DEF inner_key, outer_key, optrand, one
<1>4. AbsorbAfter(Absorbed(inner_key), optrand, one, m) = inner
  BY <1>1, <1>2, AbsorbAfterIs
<1>5. IsSeq(inner, 32)
  BY HashIs32
<1>6. sm3(outer) = SM3Of(outer)
  <2>. HIDE DEF inner
  <2>1. IsSeq(outer, 64 + 32)
    <3>1. 64 \in Nat /\ 32 \in Nat
      OBVIOUS
    <3>. QED
      BY <1>2, <1>5, <3>1, ConcatIs DEF Consists
  <2>. DEFINE t == 64 + 32
  <2>2. t \in Nat /\ IsSeq(outer, t)
    BY <2>1
  <2>. HIDE DEF t, outer
  <2>. QED
    BY <2>2, SM3Is
<1>7. HmacOf(Input("sk_prf", n), w) = SM3Of(outer)
  <2>1. HmacOf(Input("sk_prf", n), w)
            = SM3Of(HmacKey(Input("sk_prf", n), 92) \o SM3Of(HmacKey(Input("sk_prf", n), 54) \o w))
    BY Zenon DEF HmacOf, HmacKey
  <2>2. HmacKey(Input("sk_prf", n), 92) = outer_key /\ HmacKey(Input("sk_prf", n), 54) = inner_key
    BY KeyBlockIs DEF outer_key, inner_key
  <2>. QED
    BY <2>1, <2>2, Zenon
<1>. QED
  BY <1>3, <1>4, <1>6, <1>7, Zenon DEF optrand

LEMMA DigestIs ==
  ASSUME NEW p, p.n \in 1..64, SPX_DGST_BYTES(p) \in Nat, NEW pub, pub = Input("pk", 2 * p.n),
         NEW l \in Nat, NEW m, IsSeq(m, l)
  PROVE  hash_message(p, pub, m)
             = Mgf1Of(SPX_DGST_BYTES(p), Input("R", p.n) \o SubSeq(pub, 1, p.n) \o SM3Of(Input("R", p.n) \o pub \o m))
<1>. DEFINE n == p.n  R == Input("R", n)  prefix == R \o pub  nb == SPX_INBLOCKS(n)  first == SubSeq(pub, 1, n)
            hash == SM3Of(prefix \o m)  double == 2 * n  triple == n + double  bytes == SPX_DGST_BYTES(p)
            front == R \o first  w == front \o hash
<1>1. n \in 1..64 /\ n \in Nat /\ double \in Nat /\ triple \in Nat /\ n \in 0..double /\ triple = 3 * n
  OBVIOUS
<1>2. nb \in Nat /\ triple <= 64 * nb
  <2>. HIDE DEF n
  <2>. QED
    BY <1>1 DEF SPX_INBLOCKS, SPX_SM3_BLOCK_BYTES
<1>3. IsSeq(R, n) /\ IsSeq(pub, double)
  BY <1>1, InputBytes
<1>4. hash_message(p, pub, m) = mgf1_SM3(bytes, front \o AbsorbAfter(sm3_inc_init, prefix, nb, m))
  BY Zenon DEF hash_message
<1>. HIDE DEF n, R, nb, double, triple, bytes
<1>5. IsSeq(prefix, n + double)
  BY <1>1, <1>3, ConcatIs DEF Consists
<1>6. IsSeq(prefix, triple)
  BY <1>5 DEF triple
<1>7. IsPart(first, pub, 0, n)
  BY <1>1, <1>3, FirstPart
<1>8. IsSeq(first, n)
  BY <1>7, Zenon DEF IsPart
<1>. HIDE DEF prefix, first
<1>9. AbsorbAfter(sm3_inc_init, prefix, nb, m) = hash
  <2>. DEFINE zero == 0  empty == <<>>  u == prefix \o m
  <2>1. zero \in Nat /\ IsSeq(empty, 64 * zero) /\ sm3_inc_init = Absorbed(empty)
    BY NothingAbsorbed
  <2>2. IsSeq(u, triple + l) /\ triple + l \in Nat
    BY <1>1, <1>6, ConcatIs DEF Consists
  <2>. HIDE DEF zero, empty, u
  <2>3. empty \o u = u
    BY <2>2, EmptyConcat DEF empty
  <2>. HIDE DEF hash
  <2>4. AbsorbAfter(Absorbed(empty), prefix, nb, m) = SM3Of(empty \o (prefix \o m))
    BY <1>1, <1>2, <1>6, <2>1, AbsorbAfterIs
  <2>. QED
    BY <2>1, <2>3, <2>4, Zenon DEF u, hash
<1>10. IsSeq(hash, 32)
  BY HashIs32
<1>. HIDE DEF hash
<1>11. IsSeq(front, n + n) /\ n + n \in Nat
  BY <1>1, <1>3, <1>8, ConcatIs DEF Consists
<1>. HIDE DEF front
<1>12. IsSeq(w, (n + n) + 32) /\ (n + n) + 32 \in Nat
  <2>. DEFINE t == n + n
  <2>1. t \in Nat /\ 32 \in Nat /\ IsSeq(front, t) /\ t + 32 \in Nat
    BY <1>11
  <2>. HIDE DEF t
  <2>2. Consists(w, t, front, 32, hash)
    BY <1>10, <2>1, ConcatIs
  <2>. HIDE DEF w
  <2>. QED
    BY <2>1, <2>2 DEF Consists, t
<1>. HIDE DEF w
<1>13. mgf1_SM3(bytes, w) = Mgf1Of(bytes, w)
  <2>. DEFINE t == (n + n) + 32
  <2>1. t \in Nat /\ IsSeq(w, t) /\ bytes \in Nat
    BY <1>12 DEF bytes
  <2>. HIDE DEF t
  <2>. QED
    BY <2>1, MgfIs
<1>. QED
  BY <1>4, <1>9, <1>13, Zenon DEF w, front, first, hash, prefix, R, n, bytes

\* The bits of a digest are told by their byte and their place in it: f takes them from
\* the n bytes after the first a, each once.
Uses(f, bits, a, n) ==
    /\ IsSeq(f, bits)
    /\ \A k \in 1..bits : f[k][1] \in (a + 1)..(a + n)
    /\ \A k, l \in 1..bits : f[k] = f[l] => k = l

LEMMA BytesForIs ==
  ASSUME NEW bits \in Nat
  PROVE  BytesFor(bits) \in Nat /\ \A k \in 1..bits : (k - 1) \div 8 \in 0..(BytesFor(bits) - 1)
BY DEF BytesFor

LEMMA SamePlace ==
  ASSUME NEW k \in Nat \ {0}, NEW l \in Nat \ {0}, (k - 1) \div 8 = (l - 1) \div 8, (k - 1) % 8 = (l - 1) % 8
  PROVE  k = l
OBVIOUS

LEMMA BitsOfUse ==
  ASSUME NEW bits \in Nat, NEW bytes, \A k \in 1..BytesFor(bits) : bytes[k] = k
  PROVE  Uses(BitsOf(bytes, bits), bits, 0, BytesFor(bits))
<1>. DEFINE f == BitsOf(bytes, bits)  n == BytesFor(bits)
<1>1. n \in Nat /\ \A k \in 1..bits : (k - 1) \div 8 \in 0..(n - 1)
  BY BytesForIs
<1>2. IsSeq(f, bits) /\ \A k \in 1..bits : f[k] = <<bytes[(k - 1) \div 8 + 1], (k - 1) % 8>>
  BY Zenon DEF BitsOf, IsSeq
<1>. HIDE DEF f, n
<1>3. ASSUME NEW k \in 1..bits
      PROVE  f[k][1] = (k - 1) \div 8 + 1 /\ f[k][2] = (k - 1) % 8 /\ (k - 1) \div 8 + 1 \in 1..n
  <2>1. (k - 1) \div 8 + 1 \in 1..n
    BY <1>1
  <2>2. bytes[(k - 1) \div 8 + 1] = (k - 1) \div 8 + 1
    BY <2>1 DEF n
  <2>3. f[k] = <<(k - 1) \div 8 + 1, (k - 1) % 8>>
    BY <1>2, <2>2
  <2>. QED
    BY <2>1, <2>3
<1>4. ASSUME NEW k \in 1..bits, NEW l \in 1..bits, f[k] = f[l] PROVE k = l
  <2>1. (k - 1) \div 8 + 1 = (l - 1) \div 8 + 1 /\ (k - 1) % 8 = (l - 1) % 8
    BY <1>3, <1>4
  <2>2. (k - 1) \div 8 = (l - 1) \div 8
    BY <2>1
  <2>. QED
    BY <2>1, <2>2, SamePlace
<1>5. ASSUME NEW k \in 1..bits PROVE f[k][1] \in (0 + 1)..(0 + n)
  BY <1>1, <1>3
<1>. QED
  BY <1>2, <1>4, <1>5 DEF Uses, f, n

LEMMA LowBitsUse ==
  ASSUME NEW bits \in Nat, NEW a \in Nat, NEW number, IsSeq(number, BytesFor(bits)),
         \A k \in 1..BytesFor(bits) : number[k] = a + k
  PROVE  Uses(LowBits(number, bits), bits, a, BytesFor(bits))
<1>. DEFINE f == LowBits(number, bits)  n == BytesFor(bits)
<1>1. n \in Nat /\ \A k \in 1..bits : (k - 1) \div 8 \in 0..(n - 1)
  BY BytesForIs
<1>2. Len(number) = n
  BY <1>1, SeqIs
<1>3. IsSeq(f, bits) /\ \A k \in 1..bits : f[k] = <<number[n - (k - 1) \div 8], (k - 1) % 8>>
  BY <1>2, Zenon DEF LowBits, IsSeq
<1>. HIDE DEF f, n
<1>4. ASSUME NEW k \in 1..bits
      PROVE  /\ f[k][1] = a + (n - (k - 1) \div 8) /\ f[k][2] = (k - 1) % 8
             /\ n - (k - 1) \div 8 \in 1..n
  <2>1. n - (k - 1) \div 8 \in 1..n
    BY <1>1
  <2>2. number[n - (k - 1) \div 8] = a + (n - (k - 1) \div 8)
    BY <2>1 DEF n
  <2>3. f[k] = <<a + (n - (k - 1) \div 8), (k - 1) % 8>>
    BY <1>3, <2>2
  <2>. QED
    BY <2>1, <2>3
<1>5. ASSUME NEW k \in 1..bits, NEW l \in 1..bits, f[k] = f[l] PROVE k = l
  <2>1. a + (n - (k - 1) \div 8) = a + (n - (l - 1) \div 8) /\ (k - 1) % 8 = (l - 1) % 8
    BY <1>4, <1>5
  <2>2. (k - 1) \div 8 = (l - 1) \div 8
    BY <1>1, <2>1
  <2>. QED
    BY <2>1, <2>2, SamePlace
<1>6. ASSUME NEW k \in 1..bits PROVE f[k][1] \in (a + 1)..(a + n)
  BY <1>1, <1>4
<1>. QED
  BY <1>3, <1>5, <1>6 DEF Uses, f, n

LEMMA UsesJoin ==
  ASSUME NEW x \in Nat, NEW y \in Nat, NEW a \in Nat, NEW n \in Nat, NEW m \in Nat, NEW f, NEW g,
         Uses(f, x, a, n), Uses(g, y, a + n, m)
  PROVE  Uses(f \o g, x + y, a, n + m)
<1>. DEFINE w == f \o g
<1>1. IsSeq(f, x) /\ IsSeq(g, y)
  BY DEF Uses
<1>2. Consists(w, x, f, y, g)
  BY <1>1, ConcatIs
<1>. HIDE DEF w
<1>3. ASSUME NEW k \in 1..(x + y) PROVE \/ k \in 1..x /\ w[k] = f[k]
                                        \/ k - x \in 1..y /\ w[k] = g[k - x]
  <2>1. CASE k \in 1..x
    BY <1>2, <2>1 DEF Consists
  <2>2. CASE k \notin 1..x
    <3>. DEFINE j == k - x
    <3>1. j \in 1..y /\ k = x + j
      BY <2>2
    <3>. HIDE DEF j
    <3>2. w[x + j] = g[j]
      BY <1>2, <3>1 DEF Consists
    <3>. QED
      BY <3>1, <3>2 DEF j
  <2>. QED
    BY <2>1, <2>2
<1>4. (\A k \in 1..x : f[k][1] \in (a + 1)..(a + n)) /\ \A k \in 1..y : g[k][1] \in (a + n + 1)..(a + n + m)
  BY DEF Uses
<1>5. (\A k, l \in 1..x : f[k] = f[l] => k = l) /\ \A k, l \in 1..y : g[k] = g[l] => k = l
  BY DEF Uses
<1>6. ASSUME NEW k \in 1..(x + y) PROVE w[k][1] \in (a + 1)..(a + (n + m))
  <2>1. CASE k \in 1..x /\ w[k] = f[k]
    <3>1. f[k][1] \in (a + 1)..(a + n)
      BY <1>4, <2>1
    <3>. QED
      BY <2>1, <3>1
  <2>2. CASE k - x \in 1..y /\ w[k] = g[k - x]
    <3>1. g[k - x][1] \in (a + n + 1)..(a + n + m)
      BY <1>4, <2>2
    <3>. QED
      BY <2>2, <3>1
  <2>. QED
    BY <1>3, <2>1, <2>2
<1>7. ASSUME NEW k \in 1..x, NEW l \in 1..y PROVE f[k] # g[l]
  <2>1. f[k][1] \in (a + 1)..(a + n) /\ g[l][1] \in (a + n + 1)..(a + n + m)
    BY <1>4
  <2>. QED
    BY <2>1
<1>8. ASSUME NEW k \in 1..(x + y), NEW l \in 1..(x + y), w[k] = w[l] PROVE k = l
  <2>1. CASE k \in 1..x /\ w[k] = f[k]
    <3>1. CASE l \in 1..x /\ w[l] = f[l]
      BY <1>5, <1>8, <2>1, <3>1
    <3>2. CASE l - x \in 1..y /\ w[l] = g[l - x]
      BY <1>7, <1>8, <2>1, <3>2
    <3>. QED
      BY <1>3, <3>1, <3>2
  <2>2. CASE k - x \in 1..y /\ w[k] = g[k - x]
    <3>1. CASE l \in 1..x /\ w[l] = f[l]
      BY <1>7, <1>8, <2>2, <3>1
    <3>2. CASE l - x \in 1..y /\ w[l] = g[l - x]
      <4>1. k - x = l - x
        BY <1>5, <1>8, <2>2, <3>2
      <4>. QED
        BY <4>1
    <3>. QED
      BY <1>3, <3>1, <3>2
  <2>. QED
    BY <1>3, <2>1, <2>2
<1>9. IsSeq(w, x + y)
  BY <1>2 DEF Consists
<1>. QED
  BY <1>6, <1>8, <1>9 DEF Uses, w

\* The first n values of f, and how many they are when f repeats none.
Values(f, n) == {f[k] : k \in 1..n}
Distinct(f, n) == \A k, l \in 1..n : f[k] = f[l] => k = l

LEMMA ValuesCount ==
  ASSUME NEW n \in Nat, NEW f, Distinct(f, n)
  PROVE  Cardinality(Values(f, n)) = n
<1>. DEFINE S(m) == {f[k] : k \in 1..m}
            N == {m \in Nat : m <= n => (IsFiniteSet(S(m)) /\ Cardinality(S(m)) = m)}
<1>1. 0 \in N
  <2>1. S(0) = {}
    OBVIOUS
  <2>. QED
    BY <2>1, FS_EmptySet
<1>2. ASSUME NEW m \in Nat, m \in N PROVE m + 1 \in N
  <2>. SUFFICES ASSUME m + 1 <= n PROVE IsFiniteSet(S(m + 1)) /\ Cardinality(S(m + 1)) = m + 1
    OBVIOUS
  <2>1. IsFiniteSet(S(m)) /\ Cardinality(S(m)) = m
    BY <1>2
  <2>2. S(m + 1) = S(m) \cup {f[m + 1]}
    <3>1. \A k : k \in 1..(m + 1) <=> (k \in 1..m \/ k = m + 1)
      OBVIOUS
    <3>. QED
      BY <3>1, Zenon
  <2>3. f[m + 1] \notin S(m)
    <3>. SUFFICES ASSUME NEW k \in 1..m, f[m + 1] = f[k] PROVE FALSE
      OBVIOUS
    <3>1. k \in 1..n /\ m + 1 \in 1..n /\ k # m + 1
      OBVIOUS
    <3>. QED
      BY <3>1 DEF Distinct
  <2>. HIDE DEF S, N
  <2>. QED
    BY <2>1, <2>2, <2>3, FS_AddElement
<1>. HIDE DEF N
<1>3. n \in N
  BY <1>1, <1>2, NatSetInduction
<1>. QED
  BY <1>3 DEF N, Values

\* The parts of a digest, as many bits as the indices, the tree and the leaf take.
Fits(p) ==
    /\ p.n \in 1..64
    /\ p.d \in Nat \ {0}
    /\ SPX_TREE_HEIGHT_OF(p) \in Nat
    /\ p.fullHeight = p.d * SPX_TREE_HEIGHT_OF(p)
    /\ p.forsHeight * p.forsTrees \in Nat

UsedBits(p) ==
    LET parts == SplitDigest(p, [k \in 1..SPX_DGST_BYTES(p) |-> k])
    IN  parts.mhash \o parts.tree \o parts.leaf

LEMMA DigestUsed ==
  ASSUME NEW p, Fits(p)
  PROVE  /\ SPX_DGST_BYTES(p) \in Nat
         /\ Cardinality({UsedBits(p)[k] : k \in DOMAIN UsedBits(p)}) = p.forsHeight * p.forsTrees + p.fullHeight
<1>0. /\ p.d \in Nat \ {0} /\ SPX_TREE_HEIGHT_OF(p) \in Nat /\ p.fullHeight = p.d * SPX_TREE_HEIGHT_OF(p)
      /\ p.forsHeight * p.forsTrees \in Nat
  BY DEF Fits
<1>. DEFINE parts == SplitDigest(p, [k \in 1..SPX_DGST_BYTES(p) |-> k])
            used == UsedBits(p)
<1>. DEFINE A == p.forsHeight * p.forsTrees  F == SPX_TREE_HEIGHT_OF(p)  T == SPX_TREE_BITS(p)
            x == BytesFor(A)  y == BytesFor(T)  z == BytesFor(F)  all == SPX_DGST_BYTES(p)
            buf == [k \in 1..all |-> k]
            bytes == SubSeq(buf, 1, x)
            tree == SubSeq(buf, x + 1, x + y)
            leaf == SubSeq(buf, x + y + 1, all)
            f == BitsOf(bytes, A)  g == LowBits(tree, T)  h == LowBits(leaf, F)
<1>1. T = F * (p.d - 1) /\ all = x + y + z
  BY DEF SPX_TREE_BITS, SPX_DGST_BYTES, SPX_FORS_MSG_BYTES
<1>2. A \in Nat /\ F \in Nat /\ T \in Nat /\ T + F = p.fullHeight
  <2>. DEFINE d == p.d  n == p.d - 1
  <2>1. d \in Nat /\ n \in Nat /\ d = n + 1 /\ F \in Nat /\ p.fullHeight = d * F /\ T = F * n
    BY <1>0, <1>1
  <2>. HIDE DEF d, n, F, T
  <2>2. F * n \in Nat /\ F * n + F = (n + 1) * F
    BY <2>1
  <2>. QED
    BY <1>0, <2>1, <2>2 DEF F
<1>3. x \in Nat /\ y \in Nat /\ z \in Nat
  <2>. HIDE DEF A, T, F
  <2>. QED
    BY <1>2, BytesForIs
<1>4. IsSeq(buf, all) /\ \A k \in 1..all : buf[k] = k
  BY Zenon DEF IsSeq
<1>5. parts = [mhash |-> f, tree |-> g, leaf |-> h]
  <2>1. Len(buf) = all
    <3>. HIDE DEF buf, all
    <3>1. all \in Nat
      BY <1>1, <1>3
    <3>. QED
      BY <1>4, <3>1, SeqIs
  <2>. QED
    BY <2>1, Zenon DEF SplitDigest, SPX_FORS_MSG_BYTES
<1>6. used = (f \o g) \o h
  <2>. HIDE DEF f, g, h
  <2>1. parts.mhash = f /\ parts.tree = g /\ parts.leaf = h
    <3>. HIDE DEF parts
    <3>. QED
      BY <1>5
  <2>. QED
    BY <2>1, Zenon DEF UsedBits
<1>. HIDE DEF buf, all, A, T, F, x, y, z, parts, used
<1>7. all \in Nat /\ x \in 0..all /\ x + y \in x..all /\ x + y \in 0..all /\ all \in (x + y)..all
      /\ (x + y) - x = y /\ all - (x + y) = z /\ x + y \in Nat
  BY <1>1, <1>3
<1>8. IsPart(bytes, buf, 0, x) /\ IsPart(tree, buf, x, y) /\ IsPart(leaf, buf, x + y, z)
  <2>1. IsPart(bytes, buf, 0, x)
    BY <1>4, <1>7, FirstPart
  <2>2. IsPart(tree, buf, x, (x + y) - x)
    BY <1>4, <1>7, SubSeqIs
  <2>3. IsPart(leaf, buf, x + y, all - (x + y))
    <3>. DEFINE t == x + y
    <3>1. t \in 0..all /\ all \in t..all
      BY <1>7
    <3>. HIDE DEF t
    <3>2. IsPart(SubSeq(buf, t + 1, all), buf, t, all - t)
      BY <1>4, <1>7, <3>1, SubSeqIs
    <3>. QED
      BY <3>2 DEF t
  <2>. QED
    BY <1>7, <2>1, <2>2, <2>3
<1>. HIDE DEF bytes, tree, leaf
<1>9. Uses(f, A, 0, x)
  <2>1. ASSUME NEW k \in 1..x PROVE bytes[k] = k
    <3>1. bytes[k] = buf[0 + k] /\ 0 + k = k /\ k \in 1..all
      BY <1>3, <1>7, <1>8 DEF IsPart
    <3>. QED
      BY <1>4, <3>1
  <2>. QED
    BY <1>2, <2>1, BitsOfUse DEF x
<1>10. Uses(g, T, x, y)
  <2>1. ASSUME NEW k \in 1..y PROVE tree[k] = x + k
    <3>1. tree[k] = buf[x + k] /\ x + k \in 1..all
      BY <1>1, <1>3, <1>8 DEF IsPart
    <3>. QED
      BY <1>4, <3>1
  <2>2. IsSeq(tree, y)
    BY <1>8 DEF IsPart
  <2>. QED
    BY <1>2, <1>3, <2>1, <2>2, LowBitsUse DEF y
<1>11. Uses(h, F, x + y, z)
  <2>1. ASSUME NEW k \in 1..z PROVE leaf[k] = (x + y) + k
    <3>1. leaf[k] = buf[(x + y) + k] /\ (x + y) + k \in 1..all
      BY <1>1, <1>3, <1>8 DEF IsPart
    <3>. QED
      BY <1>4, <3>1
  <2>2. IsSeq(leaf, z)
    BY <1>8 DEF IsPart
  <2>. DEFINE t == x + y
  <2>3. t \in Nat /\ \A k \in 1..z : leaf[k] = t + k
    BY <1>7, <2>1
  <2>. HIDE DEF t
  <2>4. Uses(h, F, t, z)
    BY <1>2, <2>2, <2>3, LowBitsUse DEF z
  <2>. QED
    BY <2>4 DEF t
<1>. HIDE DEF f, g, h
<1>. DEFINE zero == 0
<1>12. zero \in Nat /\ Uses(f, A, zero, x) /\ zero + x = x /\ zero + (x + y) = x + y
  BY <1>3, <1>9
<1>. HIDE DEF zero
<1>13. Uses(f \o g, A + T, zero, x + y)
  <2>1. Uses(g, T, zero + x, y)
    BY <1>10, <1>12
  <2>. QED
    BY <1>2, <1>3, <1>12, <2>1, UsesJoin
<1>. DEFINE fg == f \o g  AT == A + T  xy == x + y  n == AT + F
<1>14. Uses(used, n, zero, xy + z)
  <2>1. AT \in Nat /\ xy \in Nat /\ Uses(fg, AT, zero, xy) /\ Uses(h, F, zero + xy, z)
    BY <1>2, <1>3, <1>11, <1>12, <1>13
  <2>. HIDE DEF fg, AT, xy
  <2>2. Uses(fg \o h, AT + F, zero, xy + z)
    BY <1>2, <1>3, <1>12, <2>1, UsesJoin
  <2>. QED
    BY <1>6, <2>2 DEF fg
<1>15. n \in Nat /\ n = A + p.fullHeight
  BY <1>2
<1>. HIDE DEF n, xy
<1>16. DOMAIN used = 1..n /\ Distinct(used, n)
  <2>1. IsSeq(used, n) /\ Distinct(used, n)
    BY <1>14, Zenon DEF Uses, Distinct
  <2>. QED
    BY <1>15, <2>1, SeqIs
<1>17. Cardinality(Values(used, n)) = n
  BY <1>15, <1>16, ValuesCount
<1>18. {used[k] : k \in DOMAIN used} = Values(used, n)
  BY <1>16, Zenon DEF Values
<1>. QED
  BY <1>7, <1>15, <1>17, <1>18, Zenon DEF A, all, used

LEMMA NatProduct ==
  ASSUME NEW a \in Nat, NEW b \in Nat
  PROVE  a * b \in Nat
OBVIOUS

LEMMA SessionIs ==
  ASSUME NEW given \in Inputs
  PROVE  /\ given.mlen \in Nat /\ given.p.n \in 1..64 /\ given.p.d \in Nat \ {0}
         /\ SPX_TREE_HEIGHT_OF(given.p) \in Nat /\ given.p.fullHeight = given.p.d * SPX_TREE_HEIGHT_OF(given.p)
         /\ given.p.forsTrees \in Nat /\ given.p.forsHeight * given.p.forsTrees \in Nat
<1>1. given.p.forsHeight \in Nat /\ given.p.forsTrees \in Nat
  BY SessionAssumption
<1>. DEFINE a == given.p.forsHeight  b == given.p.forsTrees
<1>2. a * b \in Nat
  <2>. HIDE DEF a, b
  <2>1. a \in Nat /\ b \in Nat
    BY <1>1 DEF a, b
  <2>. QED
    BY <2>1, NatProduct
<1>. QED
  BY <1>1, <1>2, SessionAssumption DEF SPX_SM3_BLOCK_BYTES

\* What is hashed for the randomizer and for the digest is the whole message, padded as
\* SM3 prescribes, whatever its length and however it is divided into blocks, and every
\* bit of the digest has one purpose, for any parameters (hash_SM3.c:60-176, SM3.c:192-243).
THEOREM MessageHashedHolds == Spec => []MessageHashed
<1>1. SigInv => MessageHashed
  <2>. SUFFICES ASSUME SigInv PROVE MessageHashed
    OBVIOUS
  <2>1. input \in Inputs
    BY DEF SigInv, ForsInv
  <2>. DEFINE p == input.p  l == input.mlen  n == p.n
  <2>2. l \in Nat /\ n \in 1..64 /\ Fits(p)
    BY <2>1, SessionIs DEF Fits
  <2>3. SPX_DGST_BYTES(p) \in Nat
        /\ Cardinality({UsedBits(p)[k] : k \in DOMAIN UsedBits(p)}) = p.forsHeight * p.forsTrees + p.fullHeight
    <3>. HIDE DEF p
    <3>. QED
      BY <2>2, DigestUsed
  <2>4. IsSeq(Message, l)
    <3>. HIDE DEF l
    <3>1. IsSeq(Input("m", l), l)
      BY <2>2, InputBytes
    <3>. QED
      BY <3>1 DEF Message, l
  <2>5. gen_message_random(n, Message) = SubSeq(HmacOf(Input("sk_prf", n), Input("optrand", n) \o Message), 1, n)
    <3>. HIDE DEF l
    <3>1. n \in 1..64
      BY <2>2
    <3>. HIDE DEF n
    <3>. QED
      BY <2>2, <2>4, <3>1, RandomizerIs
  <2>6. hash_message(p, PublicKey, Message)
            = Mgf1Of(SPX_DGST_BYTES(p),
                     Input("R", n) \o SubSeq(PublicKey, 1, n) \o SM3Of(Input("R", n) \o PublicKey \o Message))
    <3>1. PublicKey = Input("pk", 2 * p.n)
      BY DEF PublicKey
    <3>. HIDE DEF p, l
    <3>. QED
      BY <2>2, <2>3, <2>4, <3>1, DigestIs
  <2>. QED
    BY <2>3, <2>5, <2>6, Zenon DEF MessageHashed, UsedBits
<1>2. Spec => []SigInv
  BY SigInvHolds
<1>. QED
  BY <1>1, <1>2, PTL

\* The hash of a node and a secret, begun from the state after the seed's block, are
\* SM3 of block, address and data, masked or not, for every length of a value and number
\* of trees; SimpleIs and RobustIs say it of any number of blocks
\* (thash_SM3_simple.c:13-27, thash_SM3_robust.c:13-36).
THEOREM NodesHashedHolds == Spec => []NodesHashed
<1>1. SigInv => NodesHashed
  <2>. SUFFICES ASSUME SigInv PROVE NodesHashed
    OBVIOUS
  <2>1. input \in Inputs
    BY DEF SigInv, ForsInv
  <2>. DEFINE n == input.p.n
              Counts == {1, 2, input.p.forsTrees, 2 * n + 3}
              pub == Input("pub_seed", n)
              block == pub \o Times(0, 64 - n)
              addr == Input("addr", 22)
  <2>2. n \in 1..64 /\ n \in Nat /\ Counts \subseteq Nat
    BY <2>1, SessionIs
  <2>3. block = SeedBlock(n)
    BY Zenon DEF SeedBlock
  <2>. HIDE DEF n, Counts
  <2>4. PrfAddr(n) = SubSeq(SM3Of(block \o addr \o Input("sk_seed", n)), 1, n)
    BY <2>2, <2>3, PrfIs
  <2>5. ASSUME NEW blocks \in Counts PROVE blocks * n \in Nat
    BY <2>2, NatProduct
  <2>6. ASSUME NEW blocks \in Counts
        PROVE  ThashSimple(n, blocks) = SubSeq(SM3Of(block \o addr \o Input("in", blocks * n)), 1, n)
    BY <2>2, <2>3, <2>5, SimpleIs
  <2>7. ASSUME NEW blocks \in Counts, NEW in, in = Input("in", blocks * n),
               NEW mask, mask = Mgf1Of(blocks * n, pub \o addr)
        PROVE  ThashRobust(n, blocks)
                   = SubSeq(SM3Of(block \o addr \o [k \in DOMAIN in |-> Xor(in[k], mask[k])]), 1, n)
    <3>1. ThashRobust(n, blocks)
              = SubSeq(SM3Of(SeedBlock(n) \o addr \o [k \in DOMAIN in |-> Xor(in[k], mask[k])]), 1, n)
      BY <2>2, <2>5, <2>7, RobustIs
    <3>. QED
      BY <2>3, <3>1
  <2>8. ASSUME NEW blocks \in Counts
        PROVE  LET in == Input("in", blocks * n)
                   mask == Mgf1Of(blocks * n, pub \o addr)
               IN  /\ ThashSimple(n, blocks) = SubSeq(SM3Of(block \o addr \o in), 1, n)
                   /\ ThashRobust(n, blocks)
                          = SubSeq(SM3Of(block \o addr \o [k \in DOMAIN in |-> Xor(in[k], mask[k])]), 1, n)
    <3>. HIDE DEF block
    <3>. QED
      BY <2>6, <2>7, Zenon
  <2>. QED
    BY <2>4, <2>8, Zenon DEF NodesHashed, n, Counts
<1>2. Spec => []SigInv
  BY SigInvHolds
<1>. QED
  BY <1>1, <1>2, PTL
==============================================================================
