---------------------------- MODULE ProofBasics ----------------------------
(***************************************************************************)
(* What the proofs of several components need of the natural numbers and   *)
(* of sequences: the least element of a set and induction, stated for sets *)
(* so that a first-order prover can use them, a list less one element, and *)
(* a stream of packets that grows at the end and is read from the front.   *)
(***************************************************************************)
EXTENDS Integers, Sequences, FiniteSets, TLAPS, FiniteSetTheorems, SequenceTheorems

\* Every set of natural numbers that is not empty has a least element: what
\* a search of a list for its first match relies on.
LEMMA LeastNatural ==
    ASSUME NEW T, T \subseteq Nat, T # {}
    PROVE  \E x \in T : \A y \in T : x <= y
<1> DEFINE U == {1 .. n : n \in T}
<1>1. U \subseteq FiniteSubsetsOf(Nat) /\ U # {}
  <2>1. \A n \in T : IsFiniteSet(1 .. n)
    BY FS_Interval
  <2>2. U \subseteq FiniteSubsetsOf(Nat)
    BY <2>1 DEF FiniteSubsetsOf
  <2>3. U # {}
    OBVIOUS
  <2> QED BY <2>2, <2>3
<1>2. IsWellFoundedOn(StrictSubsetOrdering(Nat), FiniteSubsetsOf(Nat))
  BY FS_StrictSubsetOrderingWellFounded
<1>3. \E X \in U : \A Y \in U : ~ (<<Y, X>> \in StrictSubsetOrdering(Nat))
  <2> HIDE DEF U
  <2> QED BY <1>1, <1>2, WFMin, Zenon
<1>4. PICK x \in T : \A y \in T : ~ (<<1 .. y, 1 .. x>> \in StrictSubsetOrdering(Nat))
  BY <1>3
<1>5. ASSUME NEW y \in T, y < x PROVE FALSE
  <2>1. /\ x \in 1 .. x /\ x \notin 1 .. y
        /\ 1 .. y \subseteq 1 .. x /\ 1 .. x \subseteq Nat /\ 1 .. y \subseteq Nat
    BY <1>5
  <2>2. <<1 .. y, 1 .. x>> \in StrictSubsetOrdering(Nat)
    BY <2>1 DEF StrictSubsetOrdering
  <2> QED BY <2>2, <1>4
<1> QED BY <1>5

\* A set that has 0 and the successor of each of its numbers has them all.
LEMMA NaturalInduction ==
    ASSUME NEW T, 0 \in T, \A n \in Nat : n \in T => n + 1 \in T
    PROVE  Nat \subseteq T
<1>1. SUFFICES ASSUME Nat \ T # {} PROVE FALSE
  OBVIOUS
<1>2. PICK x \in Nat \ T : \A y \in Nat \ T : x <= y
  BY <1>1, LeastNatural
<1>3. x # 0 /\ x - 1 \in Nat /\ x - 1 \notin Nat \ T
  BY <1>2
<1> QED BY <1>3

\* A list less its i-th element: the list of the C code after an unlink.
LEMMA WithoutAt ==
    ASSUME NEW S, NEW list \in Seq(S), NEW i \in 1 .. Len(list)
    PROVE  LET r == SubSeq(list, 1, i - 1) \o SubSeq(list, i + 1, Len(list)) IN
           /\ r \in Seq(S)
           /\ Len(r) = Len(list) - 1
           /\ \A j \in 1 .. Len(list) - 1 : r[j] = IF j < i THEN list[j] ELSE list[j + 1]
<1> DEFINE n == Len(list)
           a == SubSeq(list, 1, i - 1)
           b == SubSeq(list, i + 1, n)
<1>1. n \in Nat /\ i \in Int /\ i >= 1 /\ i <= n
  OBVIOUS
<1>2. a \in Seq(S) /\ Len(a) = i - 1 /\ \A j \in 1 .. i - 1 : a[j] = list[j]
  <2>1. \A j \in 1 .. i - 1 : list[j] \in S
    BY <1>1
  <2> QED BY <1>1, <2>1, SubSeqProperties
<1>3. b \in Seq(S) /\ Len(b) = n - i /\ \A j \in 1 .. n - i : b[j] = list[j + i]
  <2>1. \A j \in i + 1 .. n : list[j] \in S
    BY <1>1
  <2> QED BY <1>1, <2>1, SubSeqProperties
<1> HIDE DEF a, b
<1>4. /\ a \o b \in Seq(S) /\ Len(a \o b) = Len(a) + Len(b)
      /\ \A j \in 1 .. Len(a) + Len(b) : (a \o b)[j] = IF j <= Len(a) THEN a[j] ELSE b[j - Len(a)]
  BY <1>2, <1>3, ConcatProperties
<1>5. Len(a) + Len(b) = n - 1
  BY <1>1, <1>2, <1>3
<1>6. ASSUME NEW j \in 1 .. n - 1
      PROVE  (a \o b)[j] = IF j < i THEN list[j] ELSE list[j + 1]
  <2>1. CASE j < i
    BY <2>1, <1>1, <1>2, <1>4, <1>5
  <2>2. CASE j >= i
    <3>1. j - Len(a) \in 1 .. n - i /\ (j - Len(a)) + i = j + 1 /\ ~(j <= Len(a))
      BY <2>2, <1>1, <1>2
    <3>2. (a \o b)[j] = b[j - Len(a)]
      BY <3>1, <1>4, <1>5
    <3>3. b[j - Len(a)] = list[(j - Len(a)) + i]
      BY <3>1, <1>3
    <3>4. ~(j < i)
      BY <2>2, <1>1
    <3> QED BY <3>1, <3>2, <3>3, <3>4
  <2>3. j < i \/ j >= i
    BY <1>1
  <2> QED BY <2>1, <2>2, <2>3
<1> QED BY <1>4, <1>5, <1>6 DEF a, b

----------------------------------------------------------------------------
(* Streams: a packet is added at the end, or taken from the front.         *)

\* What a stream of packets carries, told apart by their id: some packet of
\* S, nothing else, at most one, and none of T before one of S.
Has(q, S) == \E j \in 1..Len(q) : q[j].id \in S
Only(q, S) == \A j \in 1..Len(q) : q[j].id \in S
Once(q, S) == \A i, j \in 1..Len(q) : q[i].id \in S /\ q[j].id \in S => i = j
Before(q, S, T) == \A i, j \in 1..Len(q) : q[i].id \in S /\ q[j].id \in T => i < j

Adds(q, r, p) ==
    /\ Len(q) \in Nat /\ Len(r) = Len(q) + 1
    /\ \A j \in 1..Len(q) : r[j] = q[j]
    /\ r[Len(r)] = p

Drops(q, r) ==
    /\ Len(q) \in Nat /\ Len(r) \in Nat /\ Len(q) = Len(r) + 1
    /\ \A j \in 1..Len(r) : r[j] = q[j + 1]

LEMMA AddsHas ==
    ASSUME NEW q, NEW r, NEW p, NEW S, Adds(q, r, p)
    PROVE  Has(r, S) <=> (Has(q, S) \/ p.id \in S)
<1>1. ASSUME Has(q, S) PROVE Has(r, S)
  BY <1>1 DEF Has, Adds
<1>2. ASSUME p.id \in S PROVE Has(r, S)
  BY <1>2 DEF Has, Adds
<1>3. ASSUME Has(r, S), p.id \notin S PROVE Has(q, S)
  <2>1. PICK j \in 1..Len(r) : r[j].id \in S
    BY <1>3 DEF Has
  <2>2. j \in 1..Len(q)
    BY <2>1, <1>3 DEF Adds
  <2> QED BY <2>1, <2>2 DEF Has, Adds
<1> QED BY <1>1, <1>2, <1>3

LEMMA AddsOnly ==
    ASSUME NEW q, NEW r, NEW p, NEW S, Adds(q, r, p), Only(q, S), p.id \in S
    PROVE  Only(r, S)
<1>1. SUFFICES ASSUME NEW j \in 1..Len(r) PROVE r[j].id \in S
  BY DEF Only
<1>2. j \in 1..Len(q) \/ j = Len(r)
  BY DEF Adds
<1> QED BY <1>2 DEF Adds, Only

LEMMA AddsOnce ==
    ASSUME NEW q, NEW r, NEW p, NEW S, Adds(q, r, p), Once(q, S),
           p.id \in S => ~Has(q, S)
    PROVE  Once(r, S)
<1>1. SUFFICES ASSUME NEW i \in 1..Len(r), NEW j \in 1..Len(r), r[i].id \in S, r[j].id \in S
               PROVE  i = j
  BY DEF Once
<1>2. /\ i \in 1..Len(q) \/ i = Len(r)
      /\ j \in 1..Len(q) \/ j = Len(r)
  BY DEF Adds
<1>3. CASE i \in 1..Len(q) /\ j \in 1..Len(q)
  BY <1>1, <1>3 DEF Adds, Once
<1>4. CASE i \in 1..Len(q) /\ j = Len(r)
  BY <1>1, <1>4 DEF Adds, Has
<1>5. CASE j \in 1..Len(q) /\ i = Len(r)
  BY <1>1, <1>5 DEF Adds, Has
<1> QED BY <1>2, <1>3, <1>4, <1>5

LEMMA AddsBefore ==
    ASSUME NEW q, NEW r, NEW p, NEW S, NEW T, Adds(q, r, p), Before(q, S, T),
           p.id \in S => p.id \notin T /\ ~Has(q, T)
    PROVE  Before(r, S, T)
<1>1. SUFFICES ASSUME NEW i \in 1..Len(r), NEW j \in 1..Len(r), r[i].id \in S, r[j].id \in T
               PROVE  i < j
  BY DEF Before
<1>2. /\ i \in 1..Len(q) \/ i = Len(r)
      /\ j \in 1..Len(q) \/ j = Len(r)
  BY DEF Adds
<1>3. CASE i \in 1..Len(q) /\ j \in 1..Len(q)
  BY <1>1, <1>3 DEF Adds, Before
<1>4. CASE i \in 1..Len(q) /\ j = Len(r)
  BY <1>1, <1>4 DEF Adds, Has
<1>5. CASE i = Len(r)
  <2>1. p.id \in S
    BY <1>1, <1>5 DEF Adds
  <2>2. CASE j \in 1..Len(q)
    BY <1>1, <2>1, <2>2 DEF Adds, Has
  <2>3. CASE j = Len(r)
    BY <1>1, <2>1, <2>3 DEF Adds, Has
  <2> QED BY <1>2, <2>2, <2>3
<1> QED BY <1>2, <1>3, <1>4, <1>5

LEMMA DropsHas ==
    ASSUME NEW q, NEW r, NEW S, Drops(q, r)
    PROVE  /\ Has(q, S) <=> (Has(r, S) \/ q[1].id \in S)
           /\ Once(q, S) /\ q[1].id \in S => ~Has(r, S)
<1>1. ASSUME Has(r, S) PROVE Has(q, S)
  BY <1>1 DEF Has, Drops
<1>2. ASSUME q[1].id \in S PROVE Has(q, S)
  BY <1>2 DEF Has, Drops
<1>3. ASSUME Has(q, S), q[1].id \notin S PROVE Has(r, S)
  <2>1. PICK j \in 1..Len(q) : q[j].id \in S
    BY <1>3 DEF Has
  <2>2. j - 1 \in 1..Len(r) /\ r[j - 1] = q[j]
    BY <2>1, <1>3 DEF Drops
  <2> QED BY <2>1, <2>2 DEF Has
<1>4. ASSUME Once(q, S), q[1].id \in S, Has(r, S) PROVE FALSE
  <2>1. PICK j \in 1..Len(r) : r[j].id \in S
    BY <1>4 DEF Has
  <2>2. j + 1 \in 1..Len(q) /\ r[j] = q[j + 1] /\ 1 \in 1..Len(q) /\ j + 1 # 1
    BY <2>1 DEF Drops
  <2> QED BY <2>1, <2>2, <1>4 DEF Once
<1> QED BY <1>1, <1>2, <1>3, <1>4

LEMMA DropsKeep ==
    ASSUME NEW q, NEW r, NEW S, NEW T, Drops(q, r)
    PROVE  /\ Only(q, S) => Only(r, S) /\ q[1].id \in S
           /\ Once(q, S) => Once(r, S)
           /\ Before(q, S, T) => Before(r, S, T)
           /\ Before(q, S, T) /\ q[1].id \in T => ~Has(q, S)
<1>1. \A j \in 1..Len(r) : j + 1 \in 1..Len(q) /\ r[j] = q[j + 1]
  BY DEF Drops
<1>2. Only(q, S) => Only(r, S)
  BY <1>1 DEF Only
<1>3. Only(q, S) => q[1].id \in S
  BY DEF Only, Drops
<1>4. ASSUME Once(q, S) PROVE Once(r, S)
  <2>1. SUFFICES ASSUME NEW i \in 1..Len(r), NEW j \in 1..Len(r), r[i].id \in S, r[j].id \in S
                 PROVE  i = j
    BY DEF Once
  <2>2. i + 1 = j + 1
    BY <1>1, <1>4, <2>1 DEF Once
  <2> QED BY <2>2 DEF Drops
<1>5. ASSUME Before(q, S, T) PROVE Before(r, S, T)
  <2>1. SUFFICES ASSUME NEW i \in 1..Len(r), NEW j \in 1..Len(r), r[i].id \in S, r[j].id \in T
                 PROVE  i < j
    BY DEF Before
  <2>2. i + 1 < j + 1
    BY <1>1, <1>5, <2>1 DEF Before
  <2> QED BY <2>2 DEF Drops
<1>6. ASSUME Before(q, S, T), q[1].id \in T, Has(q, S) PROVE FALSE
  <2>1. PICK i \in 1..Len(q) : q[i].id \in S
    BY <1>6 DEF Has
  <2>2. i < 1
    BY <2>1, <1>6 DEF Before, Drops
  <2> QED BY <2>2
<1> QED BY <1>2, <1>3, <1>4, <1>5, <1>6
=============================================================================
