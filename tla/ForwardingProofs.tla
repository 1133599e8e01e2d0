------------------------- MODULE ForwardingProofs -------------------------
(***************************************************************************)
(* The registry of remote forwardings and the queue of awaited replies,    *)
(* for every set of addresses and ports, every bound on replies, calls and *)
(* nesting, every match mode and every peer: no registration is leaked,    *)
(* freed while named or doubled (Owned), and replies go to the requests    *)
(* they answer (Paired).                                                   *)
(*                                                                         *)
(* An operation takes registrations in hand, changes the list and the      *)
(* slots in several steps and puts down or frees what it holds, so the     *)
(* invariant has a part, Registry(s, X), that says who owns what while X   *)
(* is in hand; between operations X is empty.  The operations come first,  *)
(* then what each does to the order of the slots, then one lemma for each  *)
(* action.                                                                 *)
(***************************************************************************)
EXTENDS Forwarding, TLAPS, FiniteSetTheorems, ProofBasics

\* No element of a sequence comes twice.
Distinct(q) == \A i, j \in DOMAIN q : q[i] = q[j] => i = j

\* Appending adds one value and keeps values apart.
LEMMA AppendRange ==
    ASSUME NEW S, NEW q \in Seq(S), NEW x \in S
    PROVE  Range(Append(q, x)) = Range(q) \cup {x}
<1> DEFINE r == Append(q, x)
<1>1. /\ DOMAIN r = 1 .. Len(q) + 1 /\ DOMAIN q = 1 .. Len(q) /\ Len(q) \in Nat
      /\ \A i \in 1 .. Len(q) : r[i] = q[i]
      /\ r[Len(q) + 1] = x
  OBVIOUS
<1> HIDE DEF r
<1>2. ASSUME NEW y PROVE y \in Range(r) <=> y \in Range(q) \cup {x}
  BY <1>1 DEF Range
<1> QED BY <1>2 DEF r

LEMMA AppendDistinct ==
    ASSUME NEW S, NEW q \in Seq(S), NEW x \in S, Distinct(q), x \notin Range(q)
    PROVE  Distinct(Append(q, x))
<1> DEFINE r == Append(q, x)
<1>1. /\ DOMAIN r = 1 .. Len(q) + 1 /\ DOMAIN q = 1 .. Len(q) /\ Len(q) \in Nat
      /\ \A i \in 1 .. Len(q) : r[i] = q[i] /\ q[i] # x
      /\ r[Len(q) + 1] = x
  BY DEF Range
<1> HIDE DEF r
<1>2. Distinct(r)
  BY <1>1 DEF Distinct
<1> QED BY <1>2 DEF r

\* Appending to the second half is appending to the whole.
LEMMA AppendAfter ==
    ASSUME NEW S, NEW p \in Seq(S), NEW q \in Seq(S), NEW x \in S
    PROVE  p \o Append(q, x) = Append(p \o q, x)
<1> DEFINE l == p \o Append(q, x)
           r == Append(p \o q, x)
<1>1. l \in Seq(S) /\ r \in Seq(S) /\ Len(l) = Len(r)
  OBVIOUS
<1>2. \A i \in 1 .. Len(l) : l[i] = r[i]
  OBVIOUS
<1> HIDE DEF l, r
<1> QED BY <1>1, <1>2, SeqEqual DEF l, r

----------------------------------------------------------------------------
(* Part of a sequence.                                                     *)

\* f[n] is what is kept of the first n elements.
IsWalk(f, S, q, at) ==
    /\ f \in [0 .. Len(q) -> Seq(S)]
    /\ f[0] = <<>>
    /\ \A n \in 1 .. Len(q) :
          f[n] = IF n \in at THEN Append(f[n - 1], q[n]) ELSE f[n - 1]

\* Kept() is well defined: a walk along the sequence that carries what was
\* kept so far exists, by induction on its length, and ends with the result.
LEMMA KeptWalk ==
    ASSUME NEW S, NEW q \in Seq(S), NEW at
    PROVE  \E f : IsWalk(f, S, q, at) /\ Kept(q, at) = f[Len(q)]
<1> DEFINE N == Len(q)
           Walk(f, n) == IF n = 0 THEN <<>>
                         ELSE IF n \in at THEN Append(f[n - 1], q[n]) ELSE f[n - 1]
           Ok(n) == {f \in [0 .. n -> Seq(S)] : \A k \in 0 .. n : f[k] = Walk(f, k)}
<1>1. N \in Nat /\ \A n \in 1 .. N : q[n] \in S
  OBVIOUS
<1>2. ASSUME NEW n \in Nat PROVE n <= N => Ok(n) # {}
  <2> DEFINE T == {k \in Nat : k <= N => Ok(k) # {}}
  <2>1. 0 \in T
    <3> DEFINE f == [k \in 0 .. 0 |-> <<>>]
    <3>1. f \in [0 .. 0 -> Seq(S)] /\ \A k \in 0 .. 0 : f[k] = Walk(f, k)
      OBVIOUS
    <3>2. f \in Ok(0)
      BY <3>1
    <3> QED BY <3>2
  <2>2. ASSUME NEW k \in Nat, k \in T PROVE k + 1 \in T
    <3>1. SUFFICES ASSUME k + 1 <= N PROVE Ok(k + 1) # {}
      <4> HIDE DEF Ok
      <4> QED OBVIOUS
    <3>2. PICK f \in [0 .. k -> Seq(S)] : \A j \in 0 .. k : f[j] = Walk(f, j)
      <4>1. Ok(k) # {}
        <5> HIDE DEF Ok
        <5> QED BY <2>2, <3>1, <1>1
      <4> HIDE DEF Walk
      <4> QED BY <4>1
    <3> DEFINE v == IF k + 1 \in at THEN Append(f[k], q[k + 1]) ELSE f[k]
               g == [j \in 0 .. k + 1 |-> IF j = k + 1 THEN v ELSE f[j]]
    <3>3. v \in Seq(S)
      <4>1. q[k + 1] \in S /\ f[k] \in Seq(S)
        BY <1>1, <3>1, <3>2
      <4> QED BY <4>1
    <3>4. g \in [0 .. k + 1 -> Seq(S)]
      <4> HIDE DEF v
      <4> QED BY <3>3, <3>2
    <3>5. ASSUME NEW j \in 0 .. k + 1 PROVE g[j] = Walk(g, j)
      <4>1. CASE j = k + 1
        <5>1. g[j] = v /\ j # 0 /\ j - 1 = k /\ g[j - 1] = f[k]
          BY <4>1
        <5> QED BY <5>1, <4>1
      <4>2. CASE j = 0
        <5>1. g[j] = f[0] /\ f[0] = Walk(f, 0)
          BY <4>2, <3>2
        <5> QED BY <5>1, <4>2
      <4>3. CASE j \in 1 .. k
        <5>1. f[j] = Walk(f, j)
          <6> HIDE DEF Walk
          <6> QED BY <4>3, <3>2
        <5>2. g[j] = f[j] /\ j # 0 /\ g[j - 1] = f[j - 1]
          BY <4>3
        <5> HIDE DEF g
        <5> QED BY <5>1, <5>2
      <4> QED BY <4>1, <4>2, <4>3
    <3>6. g \in Ok(k + 1)
      BY <3>4, <3>5
    <3> QED BY <3>6
  <2>3. Nat \subseteq T
    <3> HIDE DEF T
    <3> QED BY <2>1, <2>2, NaturalInduction
  <2> QED BY <2>3
<1>3. PICK f \in [0 .. N -> Seq(S)] : \A k \in 0 .. N : f[k] = Walk(f, k)
  <2>1. Ok(N) # {}
    <3> HIDE DEF Ok
    <3> QED BY <1>1, <1>2
  <2> HIDE DEF Walk
  <2> QED BY <2>1
<1> DEFINE Unfolds(g) == g = [k \in 0 .. N |-> Walk(g, k)]
           h == CHOOSE g : Unfolds(g)
<1>4. Unfolds(f)
  BY <1>3
<1>5. Unfolds(h)
  BY <1>4
<1>6. DOMAIN h = 0 .. N /\ \A k \in 0 .. N : h[k] = Walk(h, k)
  <2> HIDE DEF h
  <2> QED BY <1>5
<1>7. Kept(q, at) = h[N]
  BY DEF Kept
<1> HIDE DEF h
<1>8. ASSUME NEW n \in Nat PROVE n <= N => h[n] = f[n]
  <2> DEFINE T == {k \in Nat : k <= N => h[k] = f[k]}
  <2>1. 0 \in T
    <3>1. h[0] = Walk(h, 0) /\ f[0] = Walk(f, 0)
      BY <1>1, <1>3, <1>6
    <3> QED BY <3>1
  <2>2. ASSUME NEW k \in Nat, k \in T PROVE k + 1 \in T
    <3>1. SUFFICES ASSUME k + 1 <= N PROVE h[k + 1] = f[k + 1]
      OBVIOUS
    <3>2. h[k] = f[k] /\ k + 1 # 0 /\ (k + 1) - 1 = k
      BY <2>2, <3>1, <1>1
    <3>3. h[k + 1] = Walk(h, k + 1) /\ f[k + 1] = Walk(f, k + 1)
      <4> HIDE DEF Walk
      <4> QED BY <1>3, <1>6, <3>1, <1>1
    <3> QED BY <3>2, <3>3
  <2>3. Nat \subseteq T
    <3> HIDE DEF T
    <3> QED BY <2>1, <2>2, NaturalInduction
  <2> QED BY <2>3
<1>9. /\ Kept(q, at) = f[N]
      /\ f[0] = <<>>
      /\ \A n \in 1 .. N : f[n] = IF n \in at THEN Append(f[n - 1], q[n]) ELSE f[n - 1]
  <2>1. Kept(q, at) = f[N]
    BY <1>1, <1>7, <1>8
  <2>2. f[0] = Walk(f, 0)
    BY <1>1, <1>3
  <2>3. ASSUME NEW n \in 1 .. N
        PROVE  f[n] = IF n \in at THEN Append(f[n - 1], q[n]) ELSE f[n - 1]
    <3>1. f[n] = Walk(f, n) /\ n # 0
      <4> HIDE DEF Walk
      <4> QED BY <1>1, <1>3
    <3> QED BY <3>1
  <2> QED BY <2>1, <2>2, <2>3
<1>10. IsWalk(f, S, q, at)
  BY <1>3, <1>9 DEF IsWalk
<1> QED BY <1>9, <1>10

\* What is kept are the elements at the chosen indices, and each of them once.
LEMMA KeptElements ==
    ASSUME NEW S, NEW q \in Seq(S), NEW at
    PROVE  /\ Kept(q, at) \in Seq(S)
           /\ Range(Kept(q, at)) = {q[i] : i \in at \cap (1 .. Len(q))}
           /\ Distinct(q) => Distinct(Kept(q, at))
<1>0. PICK f : IsWalk(f, S, q, at) /\ Kept(q, at) = f[Len(q)]
  BY KeptWalk
<1>1. /\ f \in [0 .. Len(q) -> Seq(S)]
      /\ Kept(q, at) = f[Len(q)]
      /\ f[0] = <<>>
      /\ \A n \in 1 .. Len(q) :
             f[n] = IF n \in at THEN Append(f[n - 1], q[n]) ELSE f[n - 1]
  BY <1>0 DEF IsWalk
<1> DEFINE N == Len(q)
           Upto(n) == {q[i] : i \in at \cap (1 .. n)}
           T == {k \in Nat : k <= N => /\ Range(f[k]) = Upto(k)
                                       /\ Distinct(q) => Distinct(f[k])}
<1>2. N \in Nat
  OBVIOUS
<1>3. 0 \in T
  <2>1. Range(f[0]) = {} /\ Upto(0) = {} /\ Distinct(f[0])
    BY <1>1 DEF Range, Distinct
  <2> QED BY <2>1
<1>4. ASSUME NEW k \in Nat, k \in T PROVE k + 1 \in T
  <2>1. SUFFICES ASSUME k + 1 <= N
                 PROVE  Range(f[k + 1]) = Upto(k + 1) /\ (Distinct(q) => Distinct(f[k + 1]))
    <3> HIDE DEF Upto
    <3> QED OBVIOUS
  <2>2. /\ f[k] \in Seq(S) /\ q[k + 1] \in S
        /\ f[k + 1] = IF k + 1 \in at THEN Append(f[k], q[k + 1]) ELSE f[k]
    <3>1. k \in 0 .. N /\ k + 1 \in 1 .. N /\ (k + 1) - 1 = k
      BY <2>1, <1>2
    <3> QED BY <3>1, <1>1
  <2>3. Range(f[k]) = Upto(k) /\ (Distinct(q) => Distinct(f[k]))
    <3> HIDE DEF Upto
    <3> QED BY <1>4, <2>1, <1>2
  <2>4. CASE k + 1 \notin at
    <3>1. Upto(k + 1) = Upto(k)
      <4>1. at \cap (1 .. k + 1) = at \cap (1 .. k)
        BY <2>4
      <4> QED BY <4>1
    <3> QED BY <3>1, <2>2, <2>3, <2>4
  <2>5. CASE k + 1 \in at
    <3>1. Upto(k + 1) = Upto(k) \cup {q[k + 1]}
      <4>1. at \cap (1 .. k + 1) = (at \cap (1 .. k)) \cup {k + 1}
        BY <2>5
      <4> QED BY <4>1
    <3>2. f[k + 1] = Append(f[k], q[k + 1])
      BY <2>2, <2>5
    <3>3. Range(f[k + 1]) = Range(f[k]) \cup {q[k + 1]}
      <4> DEFINE u == f[k]
                 x == q[k + 1]
      <4>1. u \in Seq(S) /\ x \in S
        BY <2>2
      <4> HIDE DEF u, x
      <4>2. Range(Append(u, x)) = Range(u) \cup {x}
        BY <4>1, AppendRange
      <4> QED BY <4>2, <3>2 DEF u, x
    <3>4. ASSUME Distinct(q) PROVE Distinct(f[k + 1])
      <4>1. q[k + 1] \notin Upto(k)
        BY <3>4, <2>1, <1>2 DEF Distinct
      <4> HIDE DEF Upto
      <4> QED BY <4>1, <2>3, <3>2, <3>4, <2>2, AppendDistinct
    <3> HIDE DEF Upto
    <3> QED BY <3>1, <3>3, <3>4, <2>3
  <2> QED BY <2>4, <2>5
<1>5. Nat \subseteq T
  <2> HIDE DEF T
  <2> QED BY <1>3, <1>4, NaturalInduction
<1>6. Range(f[N]) = Upto(N) /\ (Distinct(q) => Distinct(f[N]))
  <2> HIDE DEF Upto
  <2> QED BY <1>5, <1>2
<1> QED BY <1>1, <1>2, <1>6

\* The indices c into a sequence of m and then n elements are those of a in
\* the first part and those of b in the second.
Splits(c, a, b, m, n) ==
    /\ \A i \in 1 .. m : i \in c <=> i \in a
    /\ \A i \in 1 .. n : i + m \in c <=> i \in b

\* Keeping commutes with joining two sequences.
LEMMA KeptConcat ==
    ASSUME NEW S, NEW p \in Seq(S), NEW q \in Seq(S), NEW a, NEW b, NEW c,
           Splits(c, a, b, Len(p), Len(q))
    PROVE  Kept(p \o q, c) = Kept(p, a) \o Kept(q, b)
<1> DEFINE M == Len(p)
           N == Len(q)
           r == p \o q
<1>1. /\ M \in Nat /\ N \in Nat
      /\ r \in Seq(S) /\ Len(r) = M + N
      /\ \A i \in 1 .. M : r[i] = p[i]
      /\ \A i \in 1 .. N : r[i + M] = q[i]
  OBVIOUS
<1>2. PICK f : IsWalk(f, S, p, a) /\ Kept(p, a) = f[Len(p)]
  BY KeptWalk
<1>3. PICK g : IsWalk(g, S, q, b) /\ Kept(q, b) = g[Len(q)]
  BY KeptWalk
<1> HIDE DEF r
<1>4. PICK h : IsWalk(h, S, r, c) /\ Kept(r, c) = h[Len(r)]
  BY KeptWalk, <1>1
<1>5. /\ f \in [0 .. M -> Seq(S)] /\ f[0] = <<>>
      /\ \A n \in 1 .. M : f[n] = IF n \in a THEN Append(f[n - 1], p[n]) ELSE f[n - 1]
  BY <1>2 DEF IsWalk
<1>6. /\ g \in [0 .. N -> Seq(S)] /\ g[0] = <<>>
      /\ \A n \in 1 .. N : g[n] = IF n \in b THEN Append(g[n - 1], q[n]) ELSE g[n - 1]
  BY <1>3 DEF IsWalk
<1>7. /\ h[0] = <<>>
      /\ \A n \in 1 .. M + N : h[n] = IF n \in c THEN Append(h[n - 1], r[n]) ELSE h[n - 1]
  BY <1>1, <1>4 DEF IsWalk
<1>8. /\ \A i \in 1 .. M : i \in c <=> i \in a
      /\ \A i \in 1 .. N : i + M \in c <=> i \in b
      /\ \A i \in 1 .. N : q[i] \in S
  BY DEF Splits
<1>9. M = Len(p) /\ N = Len(q)
  OBVIOUS
<1> HIDE DEF M, N
<1>10. h[M] = f[M]
  <2> DEFINE T == {k \in Nat : k <= M => h[k] = f[k]}
  <2>1. 0 \in T
    BY <1>5, <1>7
  <2>2. ASSUME NEW k \in Nat, k \in T PROVE k + 1 \in T
    <3>1. SUFFICES ASSUME k + 1 <= M PROVE h[k + 1] = f[k + 1]
      OBVIOUS
    <3>2. /\ h[k] = f[k] /\ (k + 1) - 1 = k
          /\ k + 1 \in 1 .. M /\ k + 1 \in 1 .. M + N
      BY <2>2, <3>1, <1>1
    <3>3. h[k + 1] = IF k + 1 \in c THEN Append(h[k], r[k + 1]) ELSE h[k]
      BY <1>7, <3>2
    <3>4. f[k + 1] = IF k + 1 \in a THEN Append(f[k], p[k + 1]) ELSE f[k]
      BY <1>5, <3>2
    <3>5. r[k + 1] = p[k + 1] /\ (k + 1 \in c <=> k + 1 \in a)
      BY <1>1, <1>8, <3>2
    <3> QED BY <3>2, <3>3, <3>4, <3>5
  <2>3. Nat \subseteq T
    <3> HIDE DEF T
    <3> QED BY <2>1, <2>2, NaturalInduction
  <2> QED BY <2>3, <1>1
<1> DEFINE J(k) == f[M] \o g[k]
<1>11. J(0) = f[M]
  <2>1. f[M] \in Seq(S)
    BY <1>1, <1>5
  <2>2. f[M] \o <<>> = f[M]
    BY <2>1
  <2> QED BY <2>2, <1>6
<1>12. ASSUME NEW k \in Nat, k + 1 <= N
       PROVE  J(k + 1) = IF k + 1 \in b THEN Append(J(k), q[k + 1]) ELSE J(k)
  <2> DEFINE u == f[M]
             v == g[k]
             x == q[k + 1]
  <2>1. M \in 0 .. M /\ k \in 0 .. N /\ k + 1 \in 1 .. N /\ (k + 1) - 1 = k
    BY <1>1, <1>12
  <2>2. u \in Seq(S) /\ v \in Seq(S) /\ x \in S
    BY <2>1, <1>5, <1>6, <1>8
  <2>3. g[k + 1] = IF k + 1 \in b THEN Append(v, x) ELSE v
    BY <1>6, <2>1
  <2>4. J(k) = u \o v /\ J(k + 1) = u \o g[k + 1]
    OBVIOUS
  <2> HIDE DEF u, v, x, J
  <2>5. u \o Append(v, x) = Append(u \o v, x)
    BY <2>2, AppendAfter
  <2> QED BY <2>3, <2>4, <2>5 DEF x
<1> HIDE DEF J
<1>13. h[N + M] = J(N)
  <2> DEFINE T == {k \in Nat : k <= N => h[k + M] = J(k)}
  <2>1. 0 \in T
    BY <1>1, <1>10, <1>11
  <2>2. ASSUME NEW k \in Nat, k \in T PROVE k + 1 \in T
    <3>1. SUFFICES ASSUME k + 1 <= N PROVE h[(k + 1) + M] = J(k + 1)
      OBVIOUS
    <3>2. /\ h[k + M] = J(k) /\ ((k + 1) + M) - 1 = k + M
          /\ k + 1 \in 1 .. N /\ (k + 1) + M \in 1 .. M + N
      BY <2>2, <3>1, <1>1
    <3>3. h[(k + 1) + M] = IF (k + 1) + M \in c THEN Append(h[k + M], r[(k + 1) + M]) ELSE h[k + M]
      BY <1>7, <3>2
    <3>4. r[(k + 1) + M] = q[k + 1] /\ ((k + 1) + M \in c <=> k + 1 \in b)
      BY <1>1, <1>8, <3>2
    <3> QED BY <3>1, <3>2, <3>3, <3>4, <1>12
  <2>3. Nat \subseteq T
    <3> HIDE DEF T
    <3> QED BY <2>1, <2>2, NaturalInduction
  <2> QED BY <2>3, <1>1
<1>14. M + N = N + M
  BY <1>1
<1> QED BY <1>1, <1>2, <1>3, <1>4, <1>9, <1>13, <1>14 DEF r, J

----------------------------------------------------------------------------
(* The invariant.                                                          *)

Names == Addrs \cup {NoAddr}

Slot ==
    [id : Nat, entry : Nat, isCancel : BOOLEAN, uncommitted : BOOLEAN, named : BOOLEAN,
     addr : Names, port : Nat]

Pend ==
    [id : Nat, entry : Nat, found : Nat, isCancel : BOOLEAN, reply : BOOLEAN,
     answered : BOOLEAN, success : BOOLEAN, port : Nat, fwd : BOOLEAN,
     stage : {"sending", "written", "highwater"}, flushed : BOOLEAN]

Registration == [addr : Names, port : Nat, portPending : BOOLEAN, confirmed : BOOLEAN]

Req == [id : Nat, kind : {"setup", "cancel", "app"}, addr : Names, port : Nat, want : BOOLEAN]

Msg == [kind : {"reply", "open", "request"}, id : Nat, success : BOOLEAN, addr : Names, port : Nat]

LogEntry ==
    [fwd : BOOLEAN, addr : Names, port : Nat, want : BOOLEAN, isCancel : BOOLEAN,
     givenUp : BOOLEAN, heard : BOOLEAN, success : BOOLEAN]

Fields == {"heap", "list", "queue", "pending", "out", "fwdRemoteMatch", "peer", "nesting"}

\* A session, with the types the proofs need.
IsSession(s) ==
    /\ DOMAIN s = Fields
    /\ s.heap \in [DOMAIN s.heap -> Registration]
    /\ s.list \in Seq(Nat)
    /\ s.queue \in Seq(Slot)
    /\ s.pending \in Seq(Pend)
    /\ s.out \in Seq(Req)

\* The registrations that requests still in their send hold.
Held(s) == {s.pending[i].entry : i \in DOMAIN s.pending} \ {None}

\* Every registration has one owner: the list, a request in its send, or the
\* operation that is running, which has those of X in hand.  What a slot or
\* a request names exists.
Registry(s, X) ==
    /\ DOMAIN s.heap = Range(s.list) \cup Held(s) \cup X
    /\ Range(s.list) \cap Held(s) = {}
    /\ X \cap (Range(s.list) \cup Held(s)) = {}
    /\ None \notin DOMAIN s.heap
    /\ Distinct(s.list)
    /\ \A i, j \in DOMAIN s.pending :
          (s.pending[i].entry = s.pending[j].entry /\ s.pending[i].entry # None) => i = j
    /\ \A i \in DOMAIN s.queue : s.queue[i].entry \in DOMAIN s.heap \cup {None}
    /\ \A i \in DOMAIN s.pending : s.pending[i].found \in DOMAIN s.heap \cup {None}

\* A bind has one registration on the list.
SameBind(f, g) ==
    ~f.portPending /\ ~g.portPending /\ f.addr = g.addr /\ f.port = g.port

OneEach(s) == \A d, e \in Range(s.list) : SameBind(s.heap[d], s.heap[e]) => d = e

Good(s, X) == IsSession(s) /\ Registry(s, X) /\ OneEach(s)

\* What operations on the registry leave as it is: the order of the slots, the
\* output, and how far each send has come.
Same(s, t) ==
    /\ Ids(t.queue) = Ids(s.queue)
    /\ t.out = s.out /\ t.peer = s.peer
    /\ DOMAIN t.pending = DOMAIN s.pending
    /\ \A i \in DOMAIN s.pending :
          /\ t.pending[i].id = s.pending[i].id
          /\ t.pending[i].stage = s.pending[i].stage
          /\ t.pending[i].flushed = s.pending[i].flushed
    /\ DOMAIN t.heap \subseteq DOMAIN s.heap

\* A request whose send has not reached the wire is framed, or the send of the
\* innermost request has written and will say so when it returns.
Framed(s) ==
    \A i \in DOMAIN s.pending :
        (s.pending[i].stage = "sending" /\ ~s.pending[i].flushed)
          => \/ \E k \in DOMAIN s.out : s.out[k].id = s.pending[i].id
             \/ s.pending[1].stage = "written"

\* Only the innermost send can be about to return what it wrote, and nothing
\* was framed since.
Written(s) ==
    \A i \in DOMAIN s.pending : s.pending[i].stage = "written" => i = 1 /\ s.out = <<>>

Types ==
    /\ DOMAIN ssh.heap \subseteq 1 .. Len(log)
    /\ log \in Seq(LogEntry)
    /\ toServer \in Seq(Req)
    /\ toClient \in Seq(Msg)
    /\ listeners \subseteq [addr : Names, port : Nat]
    /\ dead \in BOOLEAN

\* The queue q holds what is answered in r, waits in w and is framed in o.
Pairs(q, r, w, o) == Ids(q) = Replies(r) \o Wanted(w) \o Wanted(o)

\* What makes the pairing last, while no output was lost.
Sound(s, r, w) ==
    /\ Framed(s)
    /\ Written(s)
    /\ s.peer = "wolfssh" => Pairs(s.queue, r, w, s.out)

InOrder == ~dead => Sound(ssh, toClient, toServer)

\* The registry is sound whatever a failed send leaves behind; the pairing
\* needs a failed send to leave nothing framed.
IInv ==
    /\ Good(ssh, {})
    /\ Types
    /\ "timeout" \notin SendFaults => InOrder
----------------------------------------------------------------------------
(* Fields.                                                                 *)

\* Changing some fields of a record of a queue leaves the others.
LEMMA SlotFields ==
    ASSUME NEW r \in Slot
    PROVE  /\ r.id \in Nat /\ r.entry \in Nat /\ r.uncommitted \in BOOLEAN
           /\ \A e \in Nat : /\ [r EXCEPT !.entry = e] \in Slot
                             /\ [r EXCEPT !.entry = e].entry = e
                             /\ [r EXCEPT !.entry = e].id = r.id
  BY DEF Slot

LEMMA PendFields ==
    ASSUME NEW r \in Pend
    PROVE  /\ r.id \in Nat /\ r.entry \in Nat /\ r.found \in Nat /\ r.port \in Nat
           /\ {r.reply, r.answered, r.flushed, r.fwd, r.isCancel, r.success} \subseteq BOOLEAN
  BY DEF Pend

\* Two pending requests at the same place of their send.
Alike(p, r) == p.id = r.id /\ p.stage = r.stage /\ p.flushed = r.flushed

LEMMA PendFound ==
    ASSUME NEW r \in Pend, NEW f \in Nat
    PROVE  LET p == [r EXCEPT !.found = f]
           IN  p \in Pend /\ p.entry = r.entry /\ p.found = f /\ Alike(p, r)
  BY DEF Pend, Alike

\* A sequence changed element by element keeps its length and type.
LEMMA MapSeq ==
    ASSUME NEW S, NEW q \in Seq(S), NEW f, DOMAIN f = DOMAIN q, \A i \in DOMAIN q : f[i] \in S,
           f = [i \in DOMAIN q |-> f[i]]
    PROVE  f \in Seq(S) /\ Len(f) = Len(q) /\ DOMAIN q = 1 .. Len(q) /\ Len(q) \in Nat
<1>1. DOMAIN q = 1 .. Len(q) /\ Len(q) \in Nat
  OBVIOUS
<1>2. f \in [1 .. Len(q) -> S]
  BY <1>1
<1>3. f \in Seq(S)
  BY <1>1, <1>2, SeqDef
<1> QED BY <1>1, <1>2, <1>3

\* The types of the parts of a session.
LEMMA SessionFields ==
    ASSUME NEW s, IsSession(s)
    PROVE  /\ s.list \in Seq(Nat) /\ DOMAIN s.list = 1 .. Len(s.list) /\ Len(s.list) \in Nat
           /\ s.queue \in Seq(Slot) /\ DOMAIN s.queue = 1 .. Len(s.queue) /\ Len(s.queue) \in Nat
           /\ \A i \in DOMAIN s.queue : s.queue[i] \in Slot
           /\ s.pending \in Seq(Pend) /\ DOMAIN s.pending = 1 .. Len(s.pending)
           /\ Len(s.pending) \in Nat
           /\ \A i \in DOMAIN s.pending : s.pending[i] \in Pend
           /\ s.out \in Seq(Req) /\ DOMAIN s.out = 1 .. Len(s.out) /\ Len(s.out) \in Nat
           /\ \A x \in DOMAIN s.heap : s.heap[x] \in Registration
           /\ Range(s.list) \subseteq Nat
<1>1. s.list \in Seq(Nat) /\ s.queue \in Seq(Slot) /\ s.pending \in Seq(Pend) /\ s.out \in Seq(Req)
  BY DEF IsSession
<1>2. Range(s.list) \subseteq Nat
  BY <1>1 DEF Range
<1>3. \A x \in DOMAIN s.heap : s.heap[x] \in Registration
  BY DEF IsSession
<1> QED BY <1>1, <1>2, <1>3

\* The slots renamed by a function of the entry they named.
LEMMA QueueChange ==
    ASSUME NEW s, IsSession(s), NEW q,
           DOMAIN q = DOMAIN s.queue, q = [i \in DOMAIN q |-> q[i]],
           \A i \in DOMAIN s.queue : q[i] \in Slot /\ q[i].id = s.queue[i].id
    PROVE  LET t == [s EXCEPT !.queue = q]
           IN  /\ IsSession(t) /\ Same(s, t)
               /\ t.queue = q /\ t.heap = s.heap /\ t.list = s.list /\ t.pending = s.pending
               /\ Range(t.list) = Range(s.list) /\ Held(t) = Held(s)
<1> DEFINE t == [s EXCEPT !.queue = q]
<1>1. /\ DOMAIN t = Fields
      /\ t.queue = q /\ t.heap = s.heap /\ t.list = s.list /\ t.pending = s.pending
      /\ t.out = s.out /\ t.peer = s.peer
  BY DEF IsSession, Fields
<1>2. q \in Seq(Slot)
  BY MapSeq, SessionFields
<1> HIDE DEF t
<1>3. IsSession(t)
  BY <1>1, <1>2 DEF IsSession
<1>4. Ids(q) = Ids(s.queue)
  BY DEF Ids
<1>5. Same(s, t) /\ Held(t) = Held(s)
  BY <1>1, <1>4 DEF Same, Held
<1> QED BY <1>1, <1>3, <1>5 DEF t

\* Requests in their send change in what they hold and name, and nothing else.
LEMMA PendingChange ==
    ASSUME NEW s, IsSession(s), NEW p,
           DOMAIN p = DOMAIN s.pending, p = [i \in DOMAIN p |-> p[i]],
           \A i \in DOMAIN s.pending : p[i] \in Pend /\ Alike(p[i], s.pending[i])
    PROVE  LET t == [s EXCEPT !.pending = p]
           IN  /\ IsSession(t) /\ Same(s, t)
               /\ t.queue = s.queue /\ t.heap = s.heap /\ t.list = s.list /\ t.pending = p
<1> DEFINE t == [s EXCEPT !.pending = p]
<1>1. /\ DOMAIN t = Fields
      /\ t.queue = s.queue /\ t.heap = s.heap /\ t.list = s.list /\ t.pending = p
      /\ t.out = s.out /\ t.peer = s.peer
  BY DEF IsSession, Fields
<1>2. p \in Seq(Pend)
  BY MapSeq, SessionFields
<1> HIDE DEF t
<1>3. IsSession(t)
  BY <1>1, <1>2 DEF IsSession
<1>4. Same(s, t)
  BY <1>1 DEF Same, Alike
<1> QED BY <1>1, <1>3, <1>4 DEF t

\* Same is a preorder.
LEMMA SameTrans ==
    ASSUME NEW s, NEW t, NEW u, Same(s, t), Same(t, u)
    PROVE  Same(s, u)
  BY DEF Same

LEMMA SameRefl ==
    ASSUME NEW s
    PROVE  Same(s, s)
  BY DEF Same

----------------------------------------------------------------------------
(* The operations on the registry.                                         *)

\* Changing what slots name, to something that exists, changes nothing else.
LEMMA GoodQueue ==
    ASSUME NEW s, NEW X, Registry(s, X), NEW t,
           t.heap = s.heap, t.list = s.list, t.pending = s.pending,
           \A i \in DOMAIN t.queue : t.queue[i].entry \in DOMAIN s.heap \cup {None}
    PROVE  Registry(t, X) /\ (OneEach(s) => OneEach(t))
<1>1. Held(t) = Held(s)
  BY DEF Held
<1>2. Registry(t, X)
  BY <1>1 DEF Registry
<1>3. OneEach(s) => OneEach(t)
  BY DEF OneEach
<1> QED BY <1>2, <1>3

\* FwdReplyRebind() points slots at a registration that exists, or at none.
LEMMA ReplyRebindGood ==
    ASSUME NEW s, NEW X, IsSession(s), Registry(s, X), NEW from,
           NEW to \in Nat, to \in DOMAIN s.heap \cup {None}
    PROVE  LET t == FwdReplyRebind(s, from, to)
           IN  /\ IsSession(t) /\ Registry(t, X) /\ Same(s, t) /\ (OneEach(s) => OneEach(t))
               /\ t.heap = s.heap /\ t.list = s.list /\ t.pending = s.pending
               /\ DOMAIN t.queue = DOMAIN s.queue
               /\ \A i \in DOMAIN s.queue :
                     t.queue[i].entry = IF s.queue[i].entry \in from THEN to ELSE s.queue[i].entry
<1> DEFINE q == [i \in DOMAIN s.queue |->
                   IF s.queue[i].entry \in from THEN [s.queue[i] EXCEPT !.entry = to]
                   ELSE s.queue[i]]
           t == [s EXCEPT !.queue = q]
<1>1. FwdReplyRebind(s, from, to) = t
  BY DEF FwdReplyRebind
<1>2. \A i \in DOMAIN s.queue : s.queue[i] \in Slot
  BY SessionFields
<1>3. /\ DOMAIN q = DOMAIN s.queue /\ q = [i \in DOMAIN q |-> q[i]]
      /\ \A i \in DOMAIN s.queue :
            /\ q[i] \in Slot /\ q[i].id = s.queue[i].id
            /\ q[i].entry = IF s.queue[i].entry \in from THEN to ELSE s.queue[i].entry
  BY <1>2, SlotFields
<1> HIDE DEF q
<1>4. /\ IsSession(t) /\ Same(s, t)
      /\ t.queue = q /\ t.heap = s.heap /\ t.list = s.list /\ t.pending = s.pending
  BY <1>3, QueueChange
<1> HIDE DEF t
<1>5. \A i \in DOMAIN t.queue : t.queue[i].entry \in DOMAIN s.heap \cup {None}
  BY <1>3, <1>4 DEF Registry
<1>6. Registry(t, X) /\ (OneEach(s) => OneEach(t))
  BY <1>4, <1>5, GoodQueue
<1> QED BY <1>1, <1>3, <1>4, <1>6

\* FwdReplyVoid() is a rebind to nothing.
LEMMA ReplyVoidIsRebind ==
    ASSUME NEW s, NEW gone
    PROVE  FwdReplyVoid(s, gone) = FwdReplyRebind(s, gone, None)
  BY DEF FwdReplyVoid, FwdReplyRebind

\* FwdPendingRebind() points requests in their send at one that exists.
LEMMA PendingRebindGood ==
    ASSUME NEW s, NEW X, IsSession(s), Registry(s, X), NEW from,
           NEW to \in Nat, to \in DOMAIN s.heap
    PROVE  LET t == FwdPendingRebind(s, from, to)
           IN  /\ IsSession(t) /\ Registry(t, X) /\ Same(s, t) /\ (OneEach(s) => OneEach(t))
               /\ t.heap = s.heap /\ t.list = s.list
<1> DEFINE p == [i \in DOMAIN s.pending |->
                   IF s.pending[i].found \in from THEN [s.pending[i] EXCEPT !.found = to]
                   ELSE s.pending[i]]
           t == [s EXCEPT !.pending = p]
<1>1. FwdPendingRebind(s, from, to) = t
  BY DEF FwdPendingRebind
<1>2. \A i \in DOMAIN s.pending : s.pending[i] \in Pend
  BY SessionFields
<1>3. /\ DOMAIN p = DOMAIN s.pending /\ p = [i \in DOMAIN p |-> p[i]]
      /\ \A i \in DOMAIN s.pending :
            /\ p[i] \in Pend /\ Alike(p[i], s.pending[i])
            /\ p[i].entry = s.pending[i].entry
            /\ p[i].found = IF s.pending[i].found \in from THEN to ELSE s.pending[i].found
  BY <1>2, PendFound DEF Alike
<1> HIDE DEF p
<1>4. /\ IsSession(t) /\ Same(s, t)
      /\ t.queue = s.queue /\ t.heap = s.heap /\ t.list = s.list /\ t.pending = p
  BY <1>3, PendingChange
<1> HIDE DEF t
<1>5. Held(t) = Held(s)
  BY <1>3, <1>4 DEF Held
<1>6. \A i \in DOMAIN s.pending : p[i].found \in DOMAIN s.heap \cup {None}
  BY <1>3 DEF Registry
<1>7. Registry(t, X)
  BY <1>3, <1>4, <1>5, <1>6 DEF Registry
<1>8. OneEach(s) => OneEach(t)
  BY <1>4 DEF OneEach
<1> QED BY <1>1, <1>4, <1>7, <1>8

\* FwdPendingVoid(): what it leaves.
LEMMA PendingVoidFields ==
    ASSUME NEW s, IsSession(s), NEW gone
    PROVE  LET t == FwdPendingVoid(s, gone)
           IN  /\ IsSession(t) /\ Same(s, t)
               /\ t.queue = s.queue /\ t.heap = s.heap /\ t.list = s.list
               /\ DOMAIN t.pending = DOMAIN s.pending
               /\ \A i \in DOMAIN s.pending :
                     /\ t.pending[i].entry = IF s.pending[i].entry \in gone THEN None
                                             ELSE s.pending[i].entry
                     /\ t.pending[i].found = IF s.pending[i].found \in gone THEN None
                                             ELSE s.pending[i].found
<1> DEFINE E(i) == IF s.pending[i].entry \in gone THEN None ELSE s.pending[i].entry
           F(i) == IF s.pending[i].found \in gone THEN None ELSE s.pending[i].found
           p == [i \in DOMAIN s.pending |-> [s.pending[i] EXCEPT !.entry = E(i), !.found = F(i)]]
           t == [s EXCEPT !.pending = p]
<1>1. FwdPendingVoid(s, gone) = t
  BY DEF FwdPendingVoid
<1>2. ASSUME NEW i \in DOMAIN s.pending
      PROVE  /\ p[i] \in Pend /\ Alike(p[i], s.pending[i])
             /\ p[i].entry = E(i) /\ p[i].found = F(i)
  <2>1. s.pending[i] \in Pend /\ E(i) \in Nat /\ F(i) \in Nat
    BY SessionFields, PendFields DEF None
  <2>2. p[i] = [s.pending[i] EXCEPT !.entry = E(i), !.found = F(i)]
    OBVIOUS
  <2> DEFINE r == s.pending[i]
             a == E(i)
             b == F(i)
             o == p[i]
  <2>3. r \in Pend /\ a \in Nat /\ b \in Nat /\ o = [r EXCEPT !.entry = a, !.found = b]
    BY <2>1, <2>2
  <2> HIDE DEF r, a, b, o
  <2>4. o \in Pend /\ o.entry = a /\ o.found = b /\ Alike(o, r)
    BY <2>3 DEF Pend, Alike
  <2> QED BY <2>4 DEF o, a, b, r
<1>3. DOMAIN p = DOMAIN s.pending /\ p = [i \in DOMAIN p |-> p[i]]
  OBVIOUS
<1> HIDE DEF p, E, F
<1>4. /\ IsSession(t) /\ Same(s, t)
      /\ t.queue = s.queue /\ t.heap = s.heap /\ t.list = s.list /\ t.pending = p
  BY <1>2, <1>3, PendingChange
<1> HIDE DEF t
<1> QED BY <1>1, <1>2, <1>3, <1>4 DEF E, F

\* Freed(): what it leaves.
LEMMA FreedFields ==
    ASSUME NEW s, IsSession(s), NEW gone
    PROVE  LET t == Freed(s, gone)
           IN  /\ IsSession(t) /\ Same(s, t)
               /\ t.queue = s.queue /\ t.pending = s.pending
               /\ DOMAIN t.heap = DOMAIN s.heap \ gone
               /\ \A x \in DOMAIN t.heap : t.heap[x] = s.heap[x]
               /\ Range(t.list) = Range(s.list) \ gone
               /\ Distinct(s.list) => Distinct(t.list)
<1> DEFINE at == {i \in DOMAIN s.list : s.list[i] \notin gone}
           l == Kept(s.list, at)
           h == [x \in DOMAIN s.heap \ gone |-> s.heap[x]]
           t == [s EXCEPT !.list = l, !.heap = h]
<1>1. Freed(s, gone) = t
  BY DEF Freed
<1>2. l \in Seq(Nat) /\ Range(l) = {s.list[i] : i \in at \cap (1 .. Len(s.list))}
      /\ (Distinct(s.list) => Distinct(l))
  <2> HIDE DEF at
  <2> QED BY SessionFields, KeptElements
<1>3. Range(l) = Range(s.list) \ gone
  <2>1. at \cap (1 .. Len(s.list)) = at
    BY SessionFields
  <2>2. Range(l) = {s.list[i] : i \in at}
    BY <1>2, <2>1
  <2> HIDE DEF l
  <2> QED BY <2>2 DEF Range
<1>4. h \in [DOMAIN h -> Registration] /\ DOMAIN h = DOMAIN s.heap \ gone
      /\ \A x \in DOMAIN h : h[x] = s.heap[x]
  BY SessionFields
<1> HIDE DEF l, h
<1>5. /\ DOMAIN t = Fields
      /\ t.list = l /\ t.heap = h /\ t.queue = s.queue /\ t.pending = s.pending
      /\ t.out = s.out /\ t.peer = s.peer
  BY DEF IsSession, Fields
<1> HIDE DEF t
<1>6. IsSession(t)
  BY <1>2, <1>4, <1>5 DEF IsSession
<1>7. Same(s, t)
  BY <1>4, <1>5 DEF Same
<1> QED BY <1>1, <1>2, <1>3, <1>4, <1>5, <1>6, <1>7

\* FwdRemoteUnlink(): the registrations are gone from wherever they were.
LEMMA UnlinkGood ==
    ASSUME NEW s, NEW X, IsSession(s), Registry(s, X), NEW gone
    PROVE  LET t == FwdRemoteUnlink(s, gone)
           IN  /\ IsSession(t) /\ Registry(t, X \ gone) /\ Same(s, t)
               /\ DOMAIN t.heap = DOMAIN s.heap \ gone
               /\ \A x \in DOMAIN t.heap : t.heap[x] = s.heap[x]
               /\ Range(t.list) = Range(s.list) \ gone
               /\ OneEach(s) => OneEach(t)
<1> DEFINE u == FwdReplyVoid(s, gone)
           v == FwdPendingVoid(u, gone)
           t == Freed(v, gone)
<1>1. FwdRemoteUnlink(s, gone) = t
  BY DEF FwdRemoteUnlink
<1>2. /\ IsSession(u) /\ Registry(u, X) /\ Same(s, u) /\ (OneEach(s) => OneEach(u))
      /\ u.heap = s.heap /\ u.list = s.list /\ u.pending = s.pending
      /\ DOMAIN u.queue = DOMAIN s.queue
      /\ \A i \in DOMAIN s.queue :
            u.queue[i].entry = IF s.queue[i].entry \in gone THEN None ELSE s.queue[i].entry
  <2>1. None \in Nat /\ None \in DOMAIN s.heap \cup {None}
    BY DEF None
  <2> QED BY <2>1, ReplyVoidIsRebind, ReplyRebindGood
<1> HIDE DEF u
<1>3. /\ IsSession(v) /\ Same(u, v)
      /\ v.queue = u.queue /\ v.heap = u.heap /\ v.list = u.list
      /\ DOMAIN v.pending = DOMAIN u.pending
      /\ \A i \in DOMAIN u.pending :
            /\ v.pending[i].entry = IF u.pending[i].entry \in gone THEN None
                                    ELSE u.pending[i].entry
            /\ v.pending[i].found = IF u.pending[i].found \in gone THEN None
                                    ELSE u.pending[i].found
  BY <1>2, PendingVoidFields
<1> HIDE DEF v
<1>4. /\ IsSession(t) /\ Same(v, t)
      /\ t.queue = v.queue /\ t.pending = v.pending
      /\ DOMAIN t.heap = DOMAIN v.heap \ gone
      /\ \A x \in DOMAIN t.heap : t.heap[x] = v.heap[x]
      /\ Range(t.list) = Range(v.list) \ gone
      /\ Distinct(v.list) => Distinct(t.list)
  BY <1>3, FreedFields
<1> HIDE DEF t
<1>5. Same(s, t)
  BY <1>2, <1>3, <1>4, SameTrans
<1>6. Held(t) = Held(s) \ gone
  <2>1. Held(t) = {t.pending[i].entry : i \in DOMAIN s.pending} \ {None}
    BY <1>2, <1>3, <1>4 DEF Held
  <2>2. \A i \in DOMAIN s.pending :
           t.pending[i].entry = IF s.pending[i].entry \in gone THEN None ELSE s.pending[i].entry
    BY <1>2, <1>3, <1>4
  <2> QED BY <2>1, <2>2 DEF Held
<1>7. Registry(t, X \ gone)
  <2>1. /\ DOMAIN t.heap = Range(t.list) \cup Held(t) \cup (X \ gone)
        /\ Range(t.list) \cap Held(t) = {}
        /\ (X \ gone) \cap (Range(t.list) \cup Held(t)) = {}
        /\ None \notin DOMAIN t.heap
    BY <1>2, <1>3, <1>4, <1>6 DEF Registry
  <2>2. Distinct(t.list)
    BY <1>2, <1>3, <1>4 DEF Registry
  <2>3. \A i, j \in DOMAIN t.pending :
          (t.pending[i].entry = t.pending[j].entry /\ t.pending[i].entry # None) => i = j
    BY <1>2, <1>3, <1>4 DEF Registry
  <2>4. \A i \in DOMAIN t.queue : t.queue[i].entry \in DOMAIN t.heap \cup {None}
    BY <1>2, <1>3, <1>4 DEF Registry
  <2>5. \A i \in DOMAIN t.pending : t.pending[i].found \in DOMAIN t.heap \cup {None}
    BY <1>2, <1>3, <1>4 DEF Registry
  <2> QED BY <2>1, <2>2, <2>3, <2>4, <2>5 DEF Registry
<1>8. OneEach(s) => OneEach(t)
  <2>1. \A d \in Range(t.list) : d \in Range(s.list) /\ t.heap[d] = s.heap[d]
    BY <1>2, <1>3, <1>4, <1>7 DEF Registry
  <2> QED BY <2>1 DEF OneEach
<1> QED BY <1>1, <1>2, <1>3, <1>4, <1>5, <1>7, <1>8

\* A registration that changes, in place.
LEMMA HeapChange ==
    ASSUME NEW s, NEW X, IsSession(s), Registry(s, X), NEW e \in DOMAIN s.heap,
           NEW f \in Registration
    PROVE  LET t == [s EXCEPT !.heap[e] = f]
           IN  /\ IsSession(t) /\ Registry(t, X) /\ Same(s, t)
               /\ t.list = s.list /\ DOMAIN t.heap = DOMAIN s.heap
               /\ t.heap[e] = f /\ \A x \in DOMAIN s.heap \ {e} : t.heap[x] = s.heap[x]
<1> DEFINE h == [s.heap EXCEPT ![e] = f]
           t == [s EXCEPT !.heap = h]
<1>1. [s EXCEPT !.heap[e] = f] = t
  OBVIOUS
<1>2. /\ DOMAIN h = DOMAIN s.heap /\ h[e] = f /\ \A x \in DOMAIN s.heap \ {e} : h[x] = s.heap[x]
      /\ h \in [DOMAIN h -> Registration]
  BY DEF IsSession
<1> HIDE DEF h
<1>3. /\ DOMAIN t = Fields
      /\ t.heap = h /\ t.list = s.list /\ t.queue = s.queue /\ t.pending = s.pending
      /\ t.out = s.out /\ t.peer = s.peer
  BY DEF IsSession, Fields
<1> HIDE DEF t
<1>4. IsSession(t)
  BY <1>2, <1>3 DEF IsSession
<1>5. Held(t) = Held(s)
  BY <1>3 DEF Held
<1>6. Registry(t, X)
  BY <1>2, <1>3, <1>5 DEF Registry
<1>7. Same(s, t)
  BY <1>2, <1>3 DEF Same
<1> QED BY <1>1, <1>2, <1>3, <1>4, <1>6, <1>7

\* Marking a registration confirmed disturbs no owner.
LEMMA Confirmed ==
    ASSUME NEW s, NEW X, Good(s, X), NEW e \in DOMAIN s.heap, NEW b \in BOOLEAN
    PROVE  LET t == [s EXCEPT !.heap[e].confirmed = b]
           IN  Good(t, X) /\ Same(s, t)
<1> DEFINE f == [s.heap[e] EXCEPT !.confirmed = b]
           t == [s EXCEPT !.heap[e] = f]
<1>1. [s EXCEPT !.heap[e].confirmed = b] = t
  OBVIOUS
<1>2. s.heap[e] \in Registration /\ IsSession(s) /\ Registry(s, X) /\ OneEach(s)
  BY SessionFields DEF Good
<1>3. /\ f \in Registration
      /\ f.addr = s.heap[e].addr /\ f.port = s.heap[e].port
      /\ f.portPending = s.heap[e].portPending
  BY <1>2 DEF Registration
<1> HIDE DEF f
<1>4. /\ IsSession(t) /\ Registry(t, X) /\ Same(s, t)
      /\ t.list = s.list /\ DOMAIN t.heap = DOMAIN s.heap
      /\ t.heap[e] = f /\ \A x \in DOMAIN s.heap \ {e} : t.heap[x] = s.heap[x]
  BY <1>2, <1>3, HeapChange
<1> HIDE DEF t
<1>5. \A x \in DOMAIN s.heap : /\ t.heap[x].addr = s.heap[x].addr
                               /\ t.heap[x].port = s.heap[x].port
                               /\ t.heap[x].portPending = s.heap[x].portPending
  BY <1>3, <1>4
<1>6. Range(s.list) \subseteq DOMAIN s.heap
  BY <1>2 DEF Registry
<1>7. OneEach(t)
  BY <1>2, <1>4, <1>5, <1>6 DEF OneEach, SameBind
<1> QED BY <1>1, <1>4, <1>7 DEF Good

\* FoldInto(): the registration whose port was just named stays, and no
\* other on the list stands at its bind.
LEMMA FoldGood ==
    ASSUME NEW s, NEW X, IsSession(s), Registry(s, X), NEW e \in DOMAIN s.heap, e \notin X,
           ~s.heap[e].portPending,
           \A d, g \in Range(s.list) \ {e} : SameBind(s.heap[d], s.heap[g]) => d = g
    PROVE  LET t == FoldInto(s, e)
           IN  Good(t, X) /\ Same(s, t) /\ e \in DOMAIN t.heap
<1> DEFINE dups == {d \in Range(s.list) \ {e} :
                      StandsAt(s.heap[d], s.heap[e].addr, s.heap[e].port)}
           u == FwdReplyRebind(s, dups, e)
           v == FwdPendingRebind(u, dups, e)
           t == FwdRemoteUnlink(v, dups)
<1>1. FoldInto(s, e) = t
  BY DEF FoldInto
<1>2. e \in Nat
  <2>1. Range(s.list) \subseteq Nat
    BY SessionFields
  <2>2. Held(s) \subseteq Nat
    BY SessionFields, PendFields DEF Held
  <2> QED BY <2>1, <2>2 DEF Registry
<1>3. dups \cap X = {} /\ e \notin dups
  BY DEF Registry
<1>4. ASSUME NEW d \in Range(s.list) \ dups, NEW g \in Range(s.list) \ dups,
             SameBind(s.heap[d], s.heap[g])
      PROVE  d = g
  BY <1>4 DEF SameBind, StandsAt
<1> HIDE DEF dups
<1>5. IsSession(u) /\ Registry(u, X) /\ Same(s, u) /\ u.heap = s.heap /\ u.list = s.list
  BY <1>2, ReplyRebindGood
<1> HIDE DEF u
<1>6. IsSession(v) /\ Registry(v, X) /\ Same(u, v) /\ v.heap = u.heap /\ v.list = u.list
  BY <1>2, <1>5, PendingRebindGood
<1> HIDE DEF v
<1>7. /\ IsSession(t) /\ Registry(t, X \ dups) /\ Same(v, t)
      /\ DOMAIN t.heap = DOMAIN v.heap \ dups
      /\ \A x \in DOMAIN t.heap : t.heap[x] = v.heap[x]
      /\ Range(t.list) = Range(v.list) \ dups
  BY <1>6, UnlinkGood
<1> HIDE DEF t
<1>8. Registry(t, X)
  <2>1. X \ dups = X
    BY <1>3
  <2> QED BY <2>1, <1>7
<1>9. OneEach(t)
  <2>1. \A d \in Range(t.list) : d \in Range(s.list) \ dups /\ t.heap[d] = s.heap[d]
    BY <1>5, <1>6, <1>7, <1>8 DEF Registry
  <2> QED BY <2>1, <1>4 DEF OneEach
<1>10. Same(s, t)
  BY <1>5, <1>6, <1>7, SameTrans
<1>11. e \in DOMAIN t.heap
  BY <1>3, <1>5, <1>6, <1>7
<1> QED BY <1>1, <1>7, <1>8, <1>9, <1>10, <1>11 DEF Good

\* The unlink of one registration, as the settling functions use it.
LEMMA UnlinkOne ==
    ASSUME NEW s, Good(s, {}), NEW e
    PROVE  Good(FwdRemoteUnlink(s, {e}), {}) /\ Same(s, FwdRemoteUnlink(s, {e}))
<1> DEFINE t == FwdRemoteUnlink(s, {e})
<1>1. IsSession(t) /\ Registry(t, {} \ {e}) /\ Same(s, t) /\ (OneEach(s) => OneEach(t))
  BY UnlinkGood DEF Good
<1> HIDE DEF t
<1>2. {} \ {e} = {}
  OBVIOUS
<1> QED BY <1>1, <1>2 DEF Good, t

\* FwdRemoteSettle() of a cancel frees the registration or leaves it listed.
LEMMA SettleCancelGood ==
    ASSUME NEW s, Good(s, {}), NEW e \in DOMAIN s.heap, NEW success
    PROVE  Good(SettleCancel(s, e, success), {}) /\ Same(s, SettleCancel(s, e, success))
<1>1. \/ SettleCancel(s, e, success) = FwdRemoteUnlink(s, {e})
      \/ SettleCancel(s, e, success) = s
      \/ SettleCancel(s, e, success) = [s EXCEPT !.heap[e].confirmed = FALSE]
  BY DEF SettleCancel
<1>2. Good(FwdRemoteUnlink(s, {e}), {}) /\ Same(s, FwdRemoteUnlink(s, {e}))
  BY UnlinkOne
<1>3. Good([s EXCEPT !.heap[e].confirmed = FALSE], {}) /\ Same(s, [s EXCEPT !.heap[e].confirmed = FALSE])
  BY Confirmed
<1> QED BY <1>1, <1>2, <1>3, SameRefl, Zenon

\* FwdRemoteSettle() of a setup, with the fold of duplicates when the port is learned.
LEMMA SettleSetupGood ==
    ASSUME NEW s, Good(s, {}), NEW e \in DOMAIN s.heap, NEW success, NEW port
    PROVE  LET t == SettleSetup(s, e, success, port) IN Good(t, {}) /\ Same(s, t)
<1> DEFINE t == SettleSetup(s, e, success, port)
           u == [s EXCEPT !.heap[e].port = port, !.heap[e].portPending = FALSE]
           v == FoldInto(u, e)
<1>1. \/ t = FwdRemoteUnlink(s, {e})
      \/ t = s
      \/ t = Confirm(s, e)
      \/ port \in Ports /\ t = Confirm(v, e)
  BY DEF SettleSetup
<1>0. SUFFICES Good(t, {}) /\ Same(s, t)
  OBVIOUS
<1> HIDE DEF t
<1>2. CASE t = FwdRemoteUnlink(s, {e}) \/ t = s
  BY <1>2, UnlinkOne, SameRefl
<1>3. CASE t = Confirm(s, e)
  <2>1. Good(Confirm(s, e), {}) /\ Same(s, Confirm(s, e))
    BY Confirmed DEF Confirm
  <2> QED BY <2>1, <1>3
<1>4. CASE port \in Ports /\ t = Confirm(v, e)
  <2> DEFINE f == [s.heap[e] EXCEPT !.port = port, !.portPending = FALSE]
  <2>1. s.heap[e] \in Registration /\ IsSession(s) /\ Registry(s, {}) /\ OneEach(s)
    BY SessionFields DEF Good
  <2>2. u = [s EXCEPT !.heap[e] = f]
    BY <2>1 DEF IsSession, Fields
  <2>3. f \in Registration /\ f.portPending = FALSE
    <3>1. port \in Nat
      BY <1>4, ForwardingAssumption
    <3> QED BY <2>1, <3>1 DEF Registration
  <2> HIDE DEF f
  <2> DEFINE w == [s EXCEPT !.heap[e] = f]
  <2>w. /\ IsSession(w) /\ Registry(w, {}) /\ Same(s, w)
        /\ w.list = s.list /\ DOMAIN w.heap = DOMAIN s.heap
        /\ w.heap[e] = f /\ \A x \in DOMAIN s.heap \ {e} : w.heap[x] = s.heap[x]
    BY <2>1, <2>3, HeapChange
  <2>0. u = w
    BY <2>2
  <2> HIDE DEF u, w
  <2>4. /\ IsSession(u) /\ Registry(u, {}) /\ Same(s, u)
        /\ u.list = s.list /\ DOMAIN u.heap = DOMAIN s.heap
        /\ u.heap[e] = f /\ \A x \in DOMAIN s.heap \ {e} : u.heap[x] = s.heap[x]
    BY <2>w, <2>0
  <2>5. \A d, g \in Range(u.list) \ {e} : SameBind(u.heap[d], u.heap[g]) => d = g
    <3>1. Range(u.list) \subseteq DOMAIN s.heap /\ Range(u.list) = Range(s.list)
      BY <2>1, <2>4 DEF Registry
    <3>2. \A d \in Range(u.list) \ {e} : u.heap[d] = s.heap[d]
      BY <2>4, <3>1
    <3> QED BY <3>1, <3>2, <2>1 DEF OneEach
  <2>6. Good(v, {}) /\ Same(u, v) /\ e \in DOMAIN v.heap
    BY <2>3, <2>4, <2>5, FoldGood
  <2> HIDE DEF v
  <2>7. Good(Confirm(v, e), {}) /\ Same(v, Confirm(v, e))
    BY <2>6, Confirmed DEF Confirm
  <2>8. Same(s, Confirm(v, e))
    BY <2>4, <2>6, <2>7, SameTrans
  <2> QED BY <2>7, <2>8, <1>4
<1> QED BY <1>1, <1>2, <1>3, <1>4

\* FwdRemoteSettle(): whatever the answer.
LEMMA SettleGood ==
    ASSUME NEW s, Good(s, {}), NEW e \in DOMAIN s.heap \cup {None}, NEW isCancel \in BOOLEAN,
           NEW success, NEW port
    PROVE  LET t == FwdRemoteSettle(s, e, isCancel, success, port) IN Good(t, {}) /\ Same(s, t)
<1>1. \/ FwdRemoteSettle(s, e, isCancel, success, port) = s
      \/ e # None /\ FwdRemoteSettle(s, e, isCancel, success, port) = SettleCancel(s, e, success)
      \/ e # None /\ FwdRemoteSettle(s, e, isCancel, success, port) = SettleSetup(s, e, success, port)
  BY DEF FwdRemoteSettle
<1>2. e # None => e \in DOMAIN s.heap
  OBVIOUS
<1> QED BY <1>1, <1>2, SameRefl, SettleCancelGood, SettleSetupGood

\* FwdPendingPop(): what the innermost request held is in hand.
InHand(s) == {Head(s.pending).entry} \ {None}

\* FwdPendingPop() hands what the request held to the operation.
LEMMA PopGood ==
    ASSUME NEW s, Good(s, {}), s.pending # <<>>
    PROVE  LET t == FwdPendingPop(s)
               pend == Head(s.pending)
           IN  /\ Good(t, InHand(s))
               /\ pend \in Pend /\ pend = s.pending[1] /\ 1 \in DOMAIN s.pending
               /\ pend.found \in DOMAIN t.heap \cup {None}
               /\ Len(t.pending) = Len(s.pending) - 1
               /\ \A i \in DOMAIN t.pending : i + 1 \in DOMAIN s.pending /\ t.pending[i] = s.pending[i + 1]
               /\ t.heap = s.heap /\ t.queue = s.queue /\ t.out = s.out /\ t.peer = s.peer
<1> DEFINE p == Tail(s.pending)
           t == [s EXCEPT !.pending = p]
           pend == Head(s.pending)
<1>1. FwdPendingPop(s) = t
  BY DEF FwdPendingPop
<1>2. IsSession(s) /\ Registry(s, {}) /\ OneEach(s)
  BY DEF Good
<1>3. /\ s.pending \in Seq(Pend) /\ DOMAIN s.pending = 1 .. Len(s.pending)
      /\ Len(s.pending) \in Nat
  BY <1>2, SessionFields
<1>4. /\ pend = s.pending[1] /\ pend \in Pend /\ 1 \in DOMAIN s.pending
      /\ p \in Seq(Pend) /\ Len(p) = Len(s.pending) - 1 /\ DOMAIN p = 1 .. Len(s.pending) - 1
      /\ \A i \in DOMAIN p : i + 1 \in DOMAIN s.pending /\ p[i] = s.pending[i + 1]
  BY <1>3
<1> HIDE DEF p, pend
<1>5. /\ DOMAIN t = Fields
      /\ t.heap = s.heap /\ t.list = s.list /\ t.queue = s.queue /\ t.pending = p
      /\ t.out = s.out /\ t.peer = s.peer
  BY <1>2 DEF IsSession, Fields
<1> HIDE DEF t
<1>6. IsSession(t)
  BY <1>2, <1>4, <1>5 DEF IsSession
<1>7. InHand(s) = {pend.entry} \ {None}
  BY DEF InHand, pend
<1>8. Held(s) = Held(t) \cup InHand(s) /\ Held(t) \cap InHand(s) = {}
  <2>1. \A i \in DOMAIN s.pending : i = 1 \/ (i - 1 \in DOMAIN p /\ s.pending[i] = p[i - 1])
    BY <1>3, <1>4
  <2>2. Held(s) = Held(t) \cup InHand(s)
    BY <1>4, <1>5, <1>7, <2>1 DEF Held
  <2>3. ASSUME NEW i \in DOMAIN p, p[i].entry = pend.entry, pend.entry # None PROVE FALSE
    <3>1. i + 1 \in DOMAIN s.pending /\ s.pending[i + 1].entry = s.pending[1].entry /\ i + 1 # 1
      BY <1>3, <1>4, <2>3
    <3> QED BY <1>2, <1>4, <2>3, <3>1 DEF Registry
  <2>4. Held(t) \cap InHand(s) = {}
    BY <1>5, <1>7, <2>3 DEF Held
  <2> QED BY <2>2, <2>4
<1>9. Registry(t, InHand(s))
  <2>1. /\ DOMAIN t.heap = Range(t.list) \cup Held(t) \cup InHand(s)
        /\ Range(t.list) \cap Held(t) = {}
        /\ InHand(s) \cap (Range(t.list) \cup Held(t)) = {}
        /\ None \notin DOMAIN t.heap
    BY <1>2, <1>5, <1>8 DEF Registry
  <2>2. \A i, j \in DOMAIN t.pending :
          (t.pending[i].entry = t.pending[j].entry /\ t.pending[i].entry # None) => i = j
    <3> SUFFICES ASSUME NEW i \in DOMAIN p, NEW j \in DOMAIN p,
                        p[i].entry = p[j].entry, p[i].entry # None
                 PROVE  i = j
      BY <1>5
    <3>1. /\ i + 1 \in DOMAIN s.pending /\ p[i] = s.pending[i + 1]
          /\ j + 1 \in DOMAIN s.pending /\ p[j] = s.pending[j + 1]
      BY <1>4
    <3>2. i + 1 = j + 1
      BY <1>2, <3>1 DEF Registry
    <3> QED BY <3>2, <1>3, <1>4
  <2>3. \A i \in DOMAIN t.pending : t.pending[i].found \in DOMAIN t.heap \cup {None}
    BY <1>2, <1>4, <1>5 DEF Registry
  <2>4. /\ Distinct(t.list)
        /\ \A i \in DOMAIN t.queue : t.queue[i].entry \in DOMAIN t.heap \cup {None}
    BY <1>2, <1>5 DEF Registry
  <2> QED BY <2>1, <2>2, <2>3, <2>4 DEF Registry
<1>10. OneEach(t)
  BY <1>2, <1>5 DEF OneEach
<1>11. pend.found \in DOMAIN t.heap \cup {None}
  BY <1>2, <1>4, <1>5 DEF Registry
<1> QED BY <1>1, <1>4, <1>5, <1>6, <1>9, <1>10, <1>11 DEF Good, pend

\* FwdRemoteFind(): the first registration on the list that stands at a bind.
LEMMA FindOnList ==
    ASSUME NEW s, IsSession(s), NEW a, NEW p
    PROVE  LET r == FwdRemoteFind(s, a, p)
           IN  \/ r = None /\ \A e \in Range(s.list) : ~StandsAt(s.heap[e], a, p)
               \/ r \in Range(s.list) /\ StandsAt(s.heap[r], a, p)
<1> DEFINE at == {i \in DOMAIN s.list : StandsAt(s.heap[s.list[i]], a, p)}
<1>1. FwdRemoteFind(s, a, p) = IF at = {} THEN None ELSE s.list[Min(at)]
  BY DEF FwdRemoteFind
<1>2. CASE at = {}
  <2>1. \A e \in Range(s.list) : ~StandsAt(s.heap[e], a, p)
    BY <1>2 DEF Range
  <2> QED BY <1>1, <1>2, <2>1
<1>3. CASE at # {}
  <2>1. at \subseteq Nat
    BY SessionFields
  <2>2. Min(at) \in at
    <3> HIDE DEF at
    <3>1. \E x \in at : \A y \in at : x <= y
      BY <1>3, <2>1, LeastNatural
    <3> QED BY <3>1 DEF Min
  <2>3. FwdRemoteFind(s, a, p) = s.list[Min(at)]
    BY <1>1, <1>3
  <2>4. Min(at) \in DOMAIN s.list /\ StandsAt(s.heap[s.list[Min(at)]], a, p)
    BY <2>2
  <2> QED BY <2>3, <2>4 DEF Range
<1> QED BY <1>2, <1>3

\* FwdPendingFind(): one that a request in its send holds.
LEMMA FindPending ==
    ASSUME NEW s, IsSession(s), NEW a, NEW p
    PROVE  FwdPendingFind(s, a, p) \in Held(s) \cup {None}
<1> DEFINE at == {i \in DOMAIN s.pending : /\ s.pending[i].entry # None
                                           /\ StandsAt(s.heap[s.pending[i].entry], a, p)}
<1>1. FwdPendingFind(s, a, p) = IF at = {} THEN None ELSE s.pending[Min(at)].entry
  BY DEF FwdPendingFind
<1>2. CASE at # {}
  <2>1. at \subseteq Nat
    BY SessionFields
  <2>2. Min(at) \in at
    <3> HIDE DEF at
    <3>1. \E x \in at : \A y \in at : x <= y
      BY <1>2, <2>1, LeastNatural
    <3> QED BY <3>1 DEF Min
  <2>3. Min(at) \in DOMAIN s.pending /\ s.pending[Min(at)].entry # None
    BY <2>2
  <2>4. FwdPendingFind(s, a, p) = s.pending[Min(at)].entry
    BY <1>1, <1>2
  <2> QED BY <2>3, <2>4 DEF Held
<1> QED BY <1>1, <1>2

\* A registration in hand goes on the list, at a bind nobody else stands at.
LEMMA LinkGood ==
    ASSUME NEW s, NEW e \in Nat \ {None}, Good(s, {e}),
           \A d \in Range(s.list) : ~SameBind(s.heap[d], s.heap[e])
    PROVE  LET t == [s EXCEPT !.list = Append(@, e)]
           IN  Good(t, {}) /\ Same(s, t) /\ t.heap = s.heap
<1> DEFINE l == Append(s.list, e)
           t == [s EXCEPT !.list = l]
<1>1. IsSession(s) /\ Registry(s, {e}) /\ OneEach(s) /\ e \in Nat
  BY DEF Good
<1>2. s.list \in Seq(Nat)
  BY <1>1, SessionFields
<1>3. l \in Seq(Nat) /\ Range(l) = Range(s.list) \cup {e}
  BY <1>1, <1>2, AppendRange
<1>4. Distinct(l)
  <2>1. Distinct(s.list) /\ e \notin Range(s.list)
    BY <1>1 DEF Registry
  <2> QED BY <1>1, <1>2, <2>1, AppendDistinct
<1> HIDE DEF l
<1>5. /\ DOMAIN t = Fields
      /\ t.heap = s.heap /\ t.list = l /\ t.queue = s.queue /\ t.pending = s.pending
      /\ t.out = s.out /\ t.peer = s.peer
  BY <1>1 DEF IsSession, Fields
<1>6. [s EXCEPT !.list = Append(@, e)] = t
  BY DEF l
<1> HIDE DEF t
<1>7. IsSession(t)
  BY <1>1, <1>3, <1>5 DEF IsSession
<1>8. Held(t) = Held(s)
  BY <1>5 DEF Held
<1>9. Registry(t, {})
  BY <1>1, <1>3, <1>4, <1>5, <1>8 DEF Registry
<1>10. OneEach(t)
  <2> SUFFICES ASSUME NEW c \in Range(l), NEW d \in Range(l), SameBind(s.heap[c], s.heap[d])
               PROVE  c = d
    BY <1>5 DEF OneEach
  <2>1. SameBind(s.heap[d], s.heap[c])
    BY DEF SameBind
  <2> QED BY <2>1, <1>1, <1>3 DEF OneEach
<1>11. Same(s, t)
  BY <1>5 DEF Same
<1> QED BY <1>5, <1>6, <1>7, <1>9, <1>10, <1>11 DEF Good

\* LinkEntry(): nothing is in hand any more, and the target exists.
LEMMA LinkEntryGood ==
    ASSUME NEW s, NEW pend \in Pend, Good(s, {pend.entry} \ {None}),
           pend.found \in DOMAIN s.heap \cup {None}
    PROVE  LET link == LinkEntry(s, pend)
           IN  /\ Good(link.s, {}) /\ Same(s, link.s)
               /\ link.target \in DOMAIN link.s.heap \cup {None}
<1> DEFINE e == pend.entry
           dup == IF e = None \/ s.heap[e].portPending THEN None
                  ELSE FwdRemoteFind(s, s.heap[e].addr, s.heap[e].port)
           link == LinkEntry(s, pend)
<1>0. e \in Nat
  BY PendFields
<1>1. link = IF e = None THEN [s |-> s, target |-> pend.found]
             ELSE IF dup # None
                  THEN [s |-> FwdRemoteUnlink(FwdReplyRebind(s, {e}, dup), {e}), target |-> dup]
                  ELSE [s |-> [s EXCEPT !.list = Append(@, e)], target |-> e]
  BY DEF LinkEntry
<1>2. SUFFICES /\ Good(link.s, {}) /\ Same(s, link.s)
               /\ link.target \in DOMAIN link.s.heap \cup {None}
  OBVIOUS
<1> HIDE DEF link
<1>3. CASE e = None
  <2>1. {pend.entry} \ {None} = {} /\ link.s = s /\ link.target = pend.found
    BY <1>1, <1>3
  <2> QED BY <2>1, SameRefl
<1>4. CASE e # None
  <2>1. {pend.entry} \ {None} = {e}
    BY <1>4
  <2>2. Good(s, {e}) /\ IsSession(s) /\ Registry(s, {e}) /\ OneEach(s) /\ e \in DOMAIN s.heap
    BY <2>1 DEF Good, Registry
  <2>3. \/ dup = None /\ \A d \in Range(s.list) : ~SameBind(s.heap[d], s.heap[e])
        \/ dup # None /\ dup \in Range(s.list)
    <3>1. CASE s.heap[e].portPending
      BY <3>1, <1>4 DEF SameBind
    <3>2. CASE ~s.heap[e].portPending
      <4>1. dup = FwdRemoteFind(s, s.heap[e].addr, s.heap[e].port)
        BY <3>2, <1>4
      <4>2. None \notin Range(s.list)
        BY <2>2 DEF Registry
      <4>3. \/ dup = None /\ \A d \in Range(s.list) : ~StandsAt(s.heap[d], s.heap[e].addr, s.heap[e].port)
            \/ dup \in Range(s.list)
        BY <4>1, <2>2, FindOnList
      <4> HIDE DEF dup
      <4> QED BY <4>2, <4>3 DEF SameBind, StandsAt
    <3> QED BY <3>1, <3>2
  <2> HIDE DEF dup, e
  <2>4. CASE dup = None
    <3> DEFINE t == [s EXCEPT !.list = Append(@, e)]
    <3>1. link = [s |-> t, target |-> e]
      BY <1>1, <1>4, <2>4
    <3>2. Good(t, {}) /\ Same(s, t) /\ t.heap = s.heap
      BY <2>2, <2>3, <2>4, <1>0, <1>4, LinkGood
    <3> HIDE DEF t
    <3> QED BY <3>1, <3>2, <2>2
  <2>5. CASE dup # None
    <3> DEFINE u == FwdReplyRebind(s, {e}, dup)
               t == FwdRemoteUnlink(u, {e})
    <3>1. link = [s |-> t, target |-> dup]
      BY <1>1, <1>4, <2>5
    <3>2. dup \in Range(s.list) /\ dup \in Nat /\ dup \in DOMAIN s.heap /\ dup # e
      <4>1. dup \in Range(s.list)
        BY <2>3, <2>5
      <4> QED BY <4>1, <2>2, SessionFields DEF Registry
    <3>3. /\ IsSession(u) /\ Registry(u, {e}) /\ Same(s, u) /\ OneEach(u) /\ u.heap = s.heap
      BY <2>2, <3>2, ReplyRebindGood
    <3> HIDE DEF u
    <3>4. /\ IsSession(t) /\ Registry(t, {e} \ {e}) /\ Same(u, t)
          /\ DOMAIN t.heap = DOMAIN u.heap \ {e} /\ OneEach(t)
      BY <3>3, UnlinkGood
    <3> HIDE DEF t
    <3>5. {e} \ {e} = {}
      OBVIOUS
    <3>6. Good(t, {}) /\ Same(s, t) /\ dup \in DOMAIN t.heap
      BY <3>2, <3>3, <3>4, <3>5, SameTrans DEF Good
    <3> QED BY <3>1, <3>6
  <2> QED BY <2>4, <2>5
<1> QED BY <1>3, <1>4

\* The last word of a request that wants no reply keeps one owner each.
LEMMA LastWordGood ==
    ASSUME NEW s, Good(s, {}), NEW e \in DOMAIN s.heap \cup {None}, NEW isCancel \in BOOLEAN
    PROVE  LET t == LastWord(s, e, isCancel) IN Good(t, {}) /\ Same(s, t)
<1> DEFINE u == FwdReplyVoid(s, {e})
<1>1. \/ LastWord(s, e, isCancel) = s
      \/ LastWord(s, e, isCancel) = FwdRemoteUnlink(s, {e})
      \/ e # None /\ LastWord(s, e, isCancel) = Confirm(u, e)
  BY DEF LastWord
<1>2. Good(FwdRemoteUnlink(s, {e}), {}) /\ Same(s, FwdRemoteUnlink(s, {e}))
  BY UnlinkOne
<1>3. e # None => Good(Confirm(u, e), {}) /\ Same(s, Confirm(u, e))
  <2> SUFFICES ASSUME e # None PROVE Good(Confirm(u, e), {}) /\ Same(s, Confirm(u, e))
    OBVIOUS
  <2>1. None \in Nat /\ None \in DOMAIN s.heap \cup {None}
    BY DEF None
  <2>2. IsSession(u) /\ Registry(u, {}) /\ Same(s, u) /\ OneEach(u) /\ u.heap = s.heap
    BY <2>1, ReplyVoidIsRebind, ReplyRebindGood DEF Good
  <2> HIDE DEF u
  <2>3. Good(u, {}) /\ e \in DOMAIN u.heap
    BY <2>2 DEF Good
  <2>4. Good(Confirm(u, e), {}) /\ Same(u, Confirm(u, e))
    BY <2>3, Confirmed DEF Confirm
  <2> QED BY <2>2, <2>4, SameTrans
<1> HIDE DEF u
<1> QED BY <1>1, <1>2, <1>3, SameRefl

\* A committed slot names a registration that exists.
LEMMA CommitSlotGood ==
    ASSUME NEW s, Good(s, {}), NEW n, NEW e \in DOMAIN s.heap \cup {None}
    PROVE  LET t == CommitSlot(s, n, e) IN Good(t, {}) /\ Same(s, t)
<1> DEFINE D(i) == [s.queue[i] EXCEPT !.entry = e, !.named = FALSE, !.addr = NoAddr, !.port = 0,
                                      !.uncommitted = FALSE]
           q == [i \in DOMAIN s.queue |-> IF s.queue[i].id = n THEN D(i) ELSE s.queue[i]]
           t == [s EXCEPT !.queue = q]
<1>1. CommitSlot(s, n, e) = t
  BY DEF CommitSlot
<1>2. IsSession(s) /\ Registry(s, {}) /\ OneEach(s)
  BY DEF Good
<1>3. e \in Nat
  <2>1. Range(s.list) \subseteq Nat
    BY <1>2, SessionFields
  <2>2. Held(s) \subseteq Nat
    BY <1>2, SessionFields, PendFields DEF Held
  <2> QED BY <2>1, <2>2, <1>2 DEF Registry, None
<1>4. ASSUME NEW i \in DOMAIN s.queue
      PROVE  D(i) \in Slot /\ D(i).id = s.queue[i].id /\ D(i).entry = e
  <2>1. s.queue[i] \in Slot
    BY <1>2, SessionFields
  <2>2. NoAddr \in Names
    BY DEF Names
  <2> QED BY <2>1, <2>2, <1>3 DEF Slot
<1>5. \A i \in DOMAIN s.queue : s.queue[i] \in Slot
  BY <1>2, SessionFields
<1> HIDE DEF D
<1>6. /\ DOMAIN q = DOMAIN s.queue /\ q = [i \in DOMAIN q |-> q[i]]
      /\ \A i \in DOMAIN s.queue : /\ q[i] \in Slot /\ q[i].id = s.queue[i].id
                                   /\ q[i].entry \in {e, s.queue[i].entry}
  BY <1>4, <1>5
<1> HIDE DEF q
<1>7. /\ IsSession(t) /\ Same(s, t)
      /\ t.queue = q /\ t.heap = s.heap /\ t.list = s.list /\ t.pending = s.pending
  BY <1>2, <1>6, QueueChange
<1> HIDE DEF t
<1>8. \A i \in DOMAIN t.queue : t.queue[i].entry \in DOMAIN s.heap \cup {None}
  BY <1>2, <1>6, <1>7 DEF Registry
<1>9. Registry(t, {}) /\ OneEach(t)
  BY <1>2, <1>7, <1>8, GoodQueue
<1> QED BY <1>1, <1>7, <1>9 DEF Good

\* FwdPendingCommit(): the innermost request is done, everything is owned.
LEMMA CommitGood ==
    ASSUME NEW s, Good(s, {}), s.pending # <<>>
    PROVE  LET t == FwdPendingCommit(s)
           IN  Good(t, {}) /\ Same(FwdPendingPop(s), t)
<1> DEFINE u == FwdPendingPop(s)
           pend == Head(s.pending)
           link == LinkEntry(u, pend)
           v == link.s
           e == link.target
           t == FwdPendingCommit(s)
<1>1. /\ Good(u, {pend.entry} \ {None}) /\ pend \in Pend
      /\ pend.found \in DOMAIN u.heap \cup {None}
  BY PopGood DEF InHand
<1>2. \/ t = FwdRemoteSettle(v, e, pend.isCancel, pend.success, pend.port)
      \/ t = CommitSlot(v, pend.id, e)
      \/ t = LastWord(v, e, pend.isCancel)
  BY DEF FwdPendingCommit
<1>0. SUFFICES Good(t, {}) /\ Same(u, t)
  OBVIOUS
<1> HIDE DEF u, pend, t
<1>3. Good(v, {}) /\ Same(u, v) /\ e \in DOMAIN v.heap \cup {None}
  BY <1>1, LinkEntryGood
<1> HIDE DEF v, e
<1>4. pend.isCancel \in BOOLEAN
  BY <1>1, PendFields
<1>5. Good(t, {}) /\ Same(v, t)
  <2> DEFINE b == pend.isCancel
             x == pend.success
             y == pend.port
             n == pend.id
             t1 == FwdRemoteSettle(v, e, b, x, y)
             t2 == CommitSlot(v, n, e)
             t3 == LastWord(v, e, b)
  <2>1. b \in BOOLEAN /\ (t = t1 \/ t = t2 \/ t = t3)
    BY <1>2, <1>4
  <2> HIDE DEF b, x, y, n
  <2>2. Good(t1, {}) /\ Same(v, t1)
    BY <1>3, <2>1, SettleGood
  <2>3. Good(t2, {}) /\ Same(v, t2)
    BY <1>3, CommitSlotGood
  <2>4. Good(t3, {}) /\ Same(v, t3)
    BY <1>3, <2>1, LastWordGood
  <2> HIDE DEF t1, t2, t3
  <2> QED BY <2>1, <2>2, <2>3, <2>4
<1> QED BY <1>3, <1>5, SameTrans

\* FwdReplyUnqueue()
LEMMA UnqueueGood ==
    ASSUME NEW s, Good(s, {}), NEW n
    PROVE  LET t == FwdReplyUnqueue(s, n) IN Good(t, {}) /\ t.heap = s.heap
<1> DEFINE at == {i \in DOMAIN s.queue : s.queue[i].id # n}
           q == Kept(s.queue, at)
           t == [s EXCEPT !.queue = q]
<1>1. FwdReplyUnqueue(s, n) = t
  BY DEF FwdReplyUnqueue
<1>2. IsSession(s) /\ Registry(s, {}) /\ OneEach(s)
  BY DEF Good
<1>3. q \in Seq(Slot) /\ Range(q) = {s.queue[i] : i \in at \cap (1 .. Len(s.queue))}
  <2> HIDE DEF at
  <2> QED BY <1>2, SessionFields, KeptElements
<1>4. \A i \in DOMAIN q : \E j \in DOMAIN s.queue : q[i] = s.queue[j]
  <2>1. \A i \in DOMAIN q : q[i] \in Range(q)
    BY DEF Range
  <2>2. \A x \in Range(q) : \E j \in DOMAIN s.queue : x = s.queue[j]
    BY <1>3
  <2> HIDE DEF q
  <2> QED BY <2>1, <2>2
<1> HIDE DEF q
<1>5. /\ DOMAIN t = Fields
      /\ t.heap = s.heap /\ t.list = s.list /\ t.queue = q /\ t.pending = s.pending
      /\ t.out = s.out /\ t.peer = s.peer
  BY <1>2 DEF IsSession, Fields
<1> HIDE DEF t
<1>6. IsSession(t)
  BY <1>2, <1>3, <1>5 DEF IsSession
<1>7. \A i \in DOMAIN t.queue : t.queue[i].entry \in DOMAIN s.heap \cup {None}
  BY <1>2, <1>4, <1>5 DEF Registry
<1>8. Registry(t, {}) /\ OneEach(t)
  BY <1>2, <1>5, <1>7, GoodQueue
<1> QED BY <1>1, <1>5, <1>6, <1>8 DEF Good

\* FwdPendingDiscard(): what the request built is freed with it.
LEMMA DiscardGood ==
    ASSUME NEW s, Good(s, {}), s.pending # <<>>
    PROVE  LET t == FwdPendingDiscard(s) IN Good(t, {}) /\ DOMAIN t.heap \subseteq DOMAIN s.heap
<1> DEFINE u == FwdPendingPop(s)
           pend == Head(s.pending)
           gone == IF pend.entry = None THEN u ELSE FwdRemoteUnlink(u, {pend.entry})
           t == FwdPendingDiscard(s)
<1>1. Good(u, {pend.entry} \ {None}) /\ pend \in Pend /\ u.heap = s.heap
  BY PopGood DEF InHand
<1>2. t = gone \/ t = FwdReplyUnqueue(gone, pend.id)
  BY DEF FwdPendingDiscard
<1>0. SUFFICES Good(t, {}) /\ DOMAIN t.heap \subseteq DOMAIN s.heap
  OBVIOUS
<1> HIDE DEF u, pend, t
<1>3. Good(gone, {}) /\ DOMAIN gone.heap \subseteq DOMAIN u.heap
  <2>1. CASE pend.entry = None
    <3>1. {pend.entry} \ {None} = {} /\ gone = u
      BY <2>1
    <3> QED BY <1>1, <3>1
  <2>2. CASE pend.entry # None
    <3> DEFINE e == pend.entry
               w == FwdRemoteUnlink(u, {e})
    <3>1. {pend.entry} \ {None} = {e} /\ gone = w /\ {e} \ {e} = {}
      BY <2>2
    <3> HIDE DEF e
    <3>2. IsSession(u) /\ Registry(u, {e}) /\ OneEach(u)
      BY <1>1, <3>1 DEF Good
    <3>3. /\ IsSession(w) /\ Registry(w, {e} \ {e}) /\ OneEach(w)
          /\ DOMAIN w.heap = DOMAIN u.heap \ {e}
      BY <3>2, UnlinkGood
    <3> HIDE DEF w, gone
    <3> QED BY <3>1, <3>3 DEF Good
  <2> QED BY <2>1, <2>2
<1> HIDE DEF gone
<1>4. \A n : Good(FwdReplyUnqueue(gone, n), {}) /\ FwdReplyUnqueue(gone, n).heap = gone.heap
  BY <1>3, UnqueueGood
<1> QED BY <1>1, <1>2, <1>3, <1>4

\* FwdRemoteReply(): the oldest slot goes, and nothing else of the order.
LEMMA ReplyGood ==
    ASSUME NEW s, Good(s, {}), NEW success \in BOOLEAN, NEW port \in Nat, s.queue # <<>>
    PROVE  LET t == FwdRemoteReply(s, success, port)
               d == [s EXCEPT !.queue = Tail(@)]
           IN  /\ Good(t, {}) /\ Same(d, t)
               /\ d.queue = Tail(s.queue) /\ d.out = s.out /\ d.peer = s.peer
               /\ d.pending = s.pending /\ d.heap = s.heap
<1> DEFINE slot == Head(s.queue)
           d == [s EXCEPT !.queue = Tail(s.queue)]
           p == [i \in DOMAIN s.pending |->
                   IF s.pending[i].id = slot.id
                   THEN [s.pending[i] EXCEPT !.answered = TRUE, !.success = success, !.port = port]
                   ELSE s.pending[i]]
           u == [d EXCEPT !.pending = p]
           w == FwdRemoteSettle(d, slot.entry, slot.isCancel, success, port)
           t == FwdRemoteReply(s, success, port)
<1>1. IsSession(s) /\ Registry(s, {}) /\ OneEach(s)
  BY DEF Good
<1>2. /\ s.queue \in Seq(Slot) /\ DOMAIN s.queue = 1 .. Len(s.queue) /\ Len(s.queue) \in Nat
      /\ slot = s.queue[1] /\ 1 \in DOMAIN s.queue /\ slot \in Slot
      /\ Tail(s.queue) \in Seq(Slot)
      /\ DOMAIN Tail(s.queue) = 1 .. Len(s.queue) - 1
      /\ \A i \in DOMAIN Tail(s.queue) : i + 1 \in DOMAIN s.queue /\ Tail(s.queue)[i] = s.queue[i + 1]
  BY <1>1, SessionFields
<1>3. /\ DOMAIN d = Fields
      /\ d.heap = s.heap /\ d.list = s.list /\ d.queue = Tail(s.queue) /\ d.pending = s.pending
      /\ d.out = s.out /\ d.peer = s.peer
  BY <1>1 DEF IsSession, Fields
<1>4. [s EXCEPT !.queue = Tail(@)] = d
  OBVIOUS
<1>5. t = u \/ t = w
  BY <1>3 DEF FwdRemoteReply
<1> HIDE DEF d, slot
<1>6. Good(d, {})
  <2>1. IsSession(d)
    BY <1>1, <1>2, <1>3 DEF IsSession
  <2>2. \A i \in DOMAIN d.queue : d.queue[i].entry \in DOMAIN s.heap \cup {None}
    BY <1>1, <1>2, <1>3 DEF Registry
  <2>3. Registry(d, {}) /\ OneEach(d)
    BY <1>1, <1>3, <2>2, GoodQueue
  <2> QED BY <2>1, <2>3 DEF Good
<1>7. Good(u, {}) /\ Same(d, u)
  <2>1. ASSUME NEW i \in DOMAIN s.pending
        PROVE  /\ p[i] \in Pend /\ Alike(p[i], s.pending[i])
               /\ p[i].entry = s.pending[i].entry /\ p[i].found = s.pending[i].found
    <3>1. s.pending[i] \in Pend
      BY <1>1, SessionFields
    <3> QED BY <3>1 DEF Pend, Alike
  <2>2. DOMAIN p = DOMAIN d.pending /\ p = [i \in DOMAIN p |-> p[i]]
    BY <1>3
  <2> HIDE DEF p
  <2>3. /\ IsSession(u) /\ Same(d, u)
        /\ u.queue = d.queue /\ u.heap = d.heap /\ u.list = d.list /\ u.pending = p
    BY <1>3, <1>6, <2>1, <2>2, PendingChange DEF Good
  <2> HIDE DEF u
  <2>4. Held(u) = Held(d)
    BY <1>3, <2>1, <2>2, <2>3 DEF Held
  <2>5. Registry(u, {})
    <3>1. Registry(d, {})
      BY <1>6 DEF Good
    <3>2. \A i, j \in DOMAIN u.pending :
            (u.pending[i].entry = u.pending[j].entry /\ u.pending[i].entry # None) => i = j
      BY <1>3, <2>1, <2>2, <2>3, <3>1 DEF Registry
    <3>3. \A i \in DOMAIN u.pending : u.pending[i].found \in DOMAIN u.heap \cup {None}
      BY <1>3, <2>1, <2>2, <2>3, <3>1 DEF Registry
    <3> QED BY <2>3, <2>4, <3>1, <3>2, <3>3 DEF Registry
  <2>6. OneEach(u)
    BY <1>6, <2>3 DEF Good, OneEach
  <2> QED BY <2>3, <2>5, <2>6 DEF Good
<1>8. Good(w, {}) /\ Same(d, w)
  <2> DEFINE e == slot.entry
             b == slot.isCancel
  <2>1. e \in DOMAIN d.heap \cup {None} /\ b \in BOOLEAN
    BY <1>1, <1>2, <1>3 DEF Registry, Slot
  <2>2. w = FwdRemoteSettle(d, e, b, success, port)
    OBVIOUS
  <2> HIDE DEF e, b, w
  <2> QED BY <1>6, <2>1, <2>2, SettleGood
<1> HIDE DEF t, u, w
<1>9. Good(t, {}) /\ Same(d, t)
  BY <1>5, <1>7, <1>8
<1> QED BY <1>3, <1>4, <1>9 DEF t

\* FwdPendingPush(): the request holds what was in hand.
LEMMA PushGood ==
    ASSUME NEW s, NEW pend \in Pend, Good(s, {pend.entry} \ {None}),
           pend.found \in DOMAIN s.heap \cup {None}
    PROVE  LET t == FwdPendingPush(s, pend)
           IN  /\ Good(t, {})
               /\ t.heap = s.heap /\ t.queue = s.queue /\ t.out = s.out /\ t.peer = s.peer
               /\ DOMAIN t.pending = 1 .. Len(s.pending) + 1 /\ t.pending[1] = pend
               /\ \A i \in DOMAIN s.pending : t.pending[i + 1] = s.pending[i]
<1> DEFINE p == <<pend>> \o s.pending
           t == [s EXCEPT !.pending = p]
           X == {pend.entry} \ {None}
<1>1. FwdPendingPush(s, pend) = t
  BY DEF FwdPendingPush
<1>2. IsSession(s) /\ Registry(s, X) /\ OneEach(s)
  BY DEF Good
<1>3. /\ s.pending \in Seq(Pend) /\ DOMAIN s.pending = 1 .. Len(s.pending)
      /\ Len(s.pending) \in Nat
  BY <1>2, SessionFields
<1>4. /\ p \in Seq(Pend) /\ DOMAIN p = 1 .. Len(s.pending) + 1 /\ p[1] = pend
      /\ \A i \in DOMAIN s.pending : p[i + 1] = s.pending[i]
  BY <1>3
<1>5. \A i \in DOMAIN p : i = 1 \/ (i - 1 \in DOMAIN s.pending /\ p[i] = s.pending[i - 1])
  BY <1>3, <1>4
<1> HIDE DEF p
<1>6. /\ DOMAIN t = Fields
      /\ t.heap = s.heap /\ t.list = s.list /\ t.queue = s.queue /\ t.pending = p
      /\ t.out = s.out /\ t.peer = s.peer
  BY <1>2 DEF IsSession, Fields
<1> HIDE DEF t
<1>7. IsSession(t)
  BY <1>2, <1>4, <1>6 DEF IsSession
<1>8. Held(t) = Held(s) \cup X
  <2>1. Held(t) \subseteq Held(s) \cup X
    BY <1>4, <1>5, <1>6 DEF Held
  <2>2. \A i \in DOMAIN s.pending : i + 1 \in DOMAIN p /\ p[i + 1] = s.pending[i]
    BY <1>3, <1>4
  <2>3. Held(s) \subseteq Held(t)
    BY <2>2, <1>6 DEF Held
  <2>4. X \subseteq Held(t)
    <3>1. 1 \in DOMAIN p
      BY <1>3, <1>4
    <3> QED BY <3>1, <1>4, <1>6 DEF Held
  <2> QED BY <2>1, <2>3, <2>4
<1>9. Registry(t, {})
  <2>1. /\ DOMAIN t.heap = Range(t.list) \cup Held(t) \cup {}
        /\ Range(t.list) \cap Held(t) = {}
        /\ {} \cap (Range(t.list) \cup Held(t)) = {}
        /\ None \notin DOMAIN t.heap
    <3> HIDE DEF X
    <3> QED BY <1>2, <1>6, <1>8 DEF Registry
  <2>2. \A i, j \in DOMAIN t.pending :
          (t.pending[i].entry = t.pending[j].entry /\ t.pending[i].entry # None) => i = j
    <3> SUFFICES ASSUME NEW i \in DOMAIN p, NEW j \in DOMAIN p,
                        p[i].entry = p[j].entry, p[i].entry # None
                 PROVE  i = j
      BY <1>6
    <3>1. ASSUME NEW k \in DOMAIN s.pending, s.pending[k].entry = pend.entry, pend.entry # None
          PROVE  FALSE
      <4>1. pend.entry \in X /\ pend.entry \in Held(s)
        BY <3>1 DEF Held
      <4> HIDE DEF X
      <4> QED BY <4>1, <1>2 DEF Registry
    <3>2. CASE i = 1 \/ j = 1
      BY <1>4, <1>5, <3>1, <3>2
    <3>3. CASE i # 1 /\ j # 1
      <4>1. /\ i - 1 \in DOMAIN s.pending /\ p[i] = s.pending[i - 1]
            /\ j - 1 \in DOMAIN s.pending /\ p[j] = s.pending[j - 1]
        BY <1>5, <3>3
      <4>2. i - 1 = j - 1
        BY <4>1, <1>2 DEF Registry
      <4> QED BY <4>2, <1>3, <1>4
    <3> QED BY <3>2, <3>3
  <2>3. \A i \in DOMAIN t.pending : t.pending[i].found \in DOMAIN t.heap \cup {None}
    <3>1. \A k \in DOMAIN s.pending : s.pending[k].found \in DOMAIN s.heap \cup {None}
      BY <1>2 DEF Registry
    <3> QED BY <3>1, <1>4, <1>5, <1>6
  <2>4. /\ Distinct(t.list)
        /\ \A i \in DOMAIN t.queue : t.queue[i].entry \in DOMAIN t.heap \cup {None}
    BY <1>2, <1>6 DEF Registry
  <2> QED BY <2>1, <2>2, <2>3, <2>4 DEF Registry
<1>10. OneEach(t)
  BY <1>2, <1>6 DEF OneEach
<1> QED BY <1>1, <1>4, <1>6, <1>7, <1>9, <1>10 DEF Good

\* FwdReplyNew(): a slot at the end, that names nothing yet.
Slotted(s, t, n) ==
    /\ t.heap = s.heap /\ t.pending = s.pending /\ t.out = s.out /\ t.peer = s.peer
    /\ \E r \in Slot : r.id = n /\ t.queue = Append(s.queue, r)

\* FwdReplyNew() appends one slot that names nothing yet.
LEMMA ReplyNewGood ==
    ASSUME NEW s, NEW X, Good(s, X), NEW n \in Nat, NEW isCancel, NEW named,
           {isCancel, named} \subseteq BOOLEAN, NEW a \in Names, NEW p \in Nat,
           NEW new, new = FwdReplyNew(s, n, isCancel, named, a, p)
    PROVE  Good(new, X) /\ Slotted(s, new, n)
<1> DEFINE r == [id |-> n, entry |-> None, isCancel |-> isCancel, uncommitted |-> TRUE,
                 named |-> named, addr |-> a, port |-> p]
           q == Append(s.queue, r)
           t == [s EXCEPT !.queue = q]
<1>1. new = t
  BY DEF FwdReplyNew
<1>2. IsSession(s) /\ Registry(s, X) /\ OneEach(s)
  BY DEF Good
<1>3. r \in Slot /\ r.id = n /\ r.entry = None
  BY DEF Slot, None
<1> HIDE DEF r
<1>4. /\ s.queue \in Seq(Slot) /\ q \in Seq(Slot)
      /\ \A i \in DOMAIN q : q[i] = r \/ (i \in DOMAIN s.queue /\ q[i] = s.queue[i])
  BY <1>2, <1>3, SessionFields
<1> HIDE DEF q
<1>5. /\ DOMAIN t = Fields
      /\ t.heap = s.heap /\ t.list = s.list /\ t.queue = q /\ t.pending = s.pending
      /\ t.out = s.out /\ t.peer = s.peer
  BY <1>2 DEF IsSession, Fields
<1> HIDE DEF t
<1>6. IsSession(t)
  BY <1>2, <1>4, <1>5 DEF IsSession
<1>7. \A i \in DOMAIN t.queue : t.queue[i].entry \in DOMAIN s.heap \cup {None}
  BY <1>2, <1>3, <1>4, <1>5 DEF Registry
<1>8. Registry(t, X) /\ OneEach(t)
  BY <1>2, <1>5, <1>7, GoodQueue
<1> QED BY <1>1, <1>3, <1>5, <1>6, <1>8 DEF Good, q, Slotted

\* What a prepared request leaves: itself innermost, and its slot last.
Prepared(s, t, n, wantReply) ==
    /\ Good(t, {})
    /\ DOMAIN t.heap \subseteq DOMAIN s.heap \cup {n}
    /\ t.out = s.out /\ t.peer = s.peer
    /\ IF wantReply THEN \E r \in Slot : r.id = n /\ t.queue = Append(s.queue, r)
       ELSE t.queue = s.queue
    /\ DOMAIN t.pending = 1 .. Len(s.pending) + 1
    /\ t.pending[1].id = n /\ t.pending[1].stage = "sending"
    /\ \A i \in DOMAIN s.pending : t.pending[i + 1] = s.pending[i]

\* FwdReplyPrepare() for an application request: a slot and a send.
LEMMA ReplyPrepareGood ==
    ASSUME NEW s, Good(s, {}), NEW n \in Nat
    PROVE  Prepared(s, FwdReplyPrepare(s, n), n, TRUE)
<1> DEFINE no == FALSE
           u == FwdReplyNew(s, n, no, no, NoAddr, 0)
           pend == Pending(n, FALSE, TRUE, FALSE)
           t == FwdPendingPush(u, pend)
<1>1. FwdReplyPrepare(s, n) = t
  BY DEF FwdReplyPrepare
<1>2. NoAddr \in Names /\ 0 \in Nat /\ {no, no} \subseteq BOOLEAN
  BY DEF Names
<1>u. u = FwdReplyNew(s, n, no, no, NoAddr, 0)
  OBVIOUS
<1>3. /\ Good(u, {}) /\ u.heap = s.heap /\ u.pending = s.pending /\ u.out = s.out /\ u.peer = s.peer
      /\ \E r \in Slot : r.id = n /\ u.queue = Append(s.queue, r)
  <2> HIDE DEF no, u
  <2>1. Good(u, {}) /\ Slotted(s, u, n)
    BY <1>2, <1>u, ReplyNewGood
  <2> QED BY <2>1 DEF Slotted
<1>4. pend \in Pend /\ pend.entry = None /\ pend.found = None /\ pend.id = n /\ pend.stage = "sending"
  BY DEF Pending, Pend, None
<1> HIDE DEF u, pend
<1>5. {pend.entry} \ {None} = {}
  BY <1>4
<1>6. /\ Good(t, {})
      /\ t.heap = u.heap /\ t.queue = u.queue /\ t.out = u.out /\ t.peer = u.peer
      /\ DOMAIN t.pending = 1 .. Len(u.pending) + 1 /\ t.pending[1] = pend
      /\ \A i \in DOMAIN u.pending : t.pending[i + 1] = u.pending[i]
  <2>1. Good(u, {pend.entry} \ {None}) /\ pend.found \in DOMAIN u.heap \cup {None}
    BY <1>3, <1>4, <1>5
  <2> QED BY <2>1, <1>4, PushGood
<1> HIDE DEF t
<1> QED BY <1>1, <1>3, <1>4, <1>6 DEF Prepared

\* FwdRemotePrepare()
LEMMA PrepareGood ==
    ASSUME NEW s, Good(s, {}), NEW n \in Nat \ {None}, n \notin DOMAIN s.heap,
           NEW a \in Names, NEW p \in Nat, NEW wantReply \in BOOLEAN, NEW isCancel \in BOOLEAN
    PROVE  Prepared(s, FwdRemotePrepare(s, n, a, p, wantReply, isCancel), n, wantReply)
<1> DEFINE listed == FwdRemoteFind(s, a, p)
           found == IF listed # None THEN listed ELSE FwdPendingFind(s, a, p)
           new == ~isCancel /\ found = None
           reg == [addr |-> a, port |-> p, portPending |-> p = 0, confirmed |-> FALSE]
           h == [x \in DOMAIN s.heap \cup {n} |-> IF x = n THEN reg ELSE s.heap[x]]
           built == IF ~new THEN s ELSE [s EXCEPT !.heap = h]
           slot == IF wantReply THEN FwdReplyNew(built, n, isCancel, TRUE, a, p) ELSE built
           entry == IF new THEN n ELSE None
           pend == [Pending(n, isCancel, wantReply, TRUE) EXCEPT !.entry = entry, !.found = found]
           t == FwdPendingPush(slot, pend)
<1>1. FwdRemotePrepare(s, n, a, p, wantReply, isCancel) = t
  BY DEF FwdRemotePrepare
<1>2. IsSession(s) /\ Registry(s, {}) /\ OneEach(s)
  BY DEF Good
<1>3. found \in DOMAIN s.heap \cup {None} /\ found \in Nat
  <2>1. listed \in Range(s.list) \cup {None}
    BY <1>2, FindOnList
  <2>2. FwdPendingFind(s, a, p) \in Held(s) \cup {None}
    BY <1>2, FindPending
  <2>3. Range(s.list) \subseteq Nat
    BY <1>2, SessionFields
  <2>4. Held(s) \subseteq Nat
    BY <1>2, SessionFields, PendFields DEF Held
  <2> HIDE DEF listed
  <2>5. found \in Range(s.list) \cup Held(s) \cup {None}
    BY <2>1, <2>2
  <2> HIDE DEF found
  <2> QED BY <2>3, <2>4, <2>5, <1>2 DEF Registry, None
<1> HIDE DEF found
<1>4. /\ Good(built, {entry} \ {None}) /\ built.queue = s.queue /\ built.pending = s.pending
      /\ built.out = s.out /\ built.peer = s.peer
      /\ DOMAIN s.heap \subseteq DOMAIN built.heap
      /\ DOMAIN built.heap \subseteq DOMAIN s.heap \cup {n}
  <2>1. CASE ~new
    <3>1. built = s /\ {entry} \ {None} = {}
      BY <2>1
    <3> HIDE DEF built
    <3> QED BY <3>1
  <2>2. CASE new
    <3>1. built = [s EXCEPT !.heap = h] /\ {entry} \ {None} = {n}
      BY <2>2
    <3>2. /\ DOMAIN h = DOMAIN s.heap \cup {n} /\ h \in [DOMAIN h -> Registration]
          /\ \A x \in DOMAIN s.heap : h[x] = s.heap[x]
      <4>1. reg \in Registration
        BY DEF Registration
      <4>2. \A x \in DOMAIN s.heap : s.heap[x] \in Registration
        BY <1>2, SessionFields
      <4> HIDE DEF reg
      <4> QED BY <4>1, <4>2
    <3> HIDE DEF h
    <3>3. /\ DOMAIN built = Fields
          /\ built.heap = h /\ built.list = s.list /\ built.queue = s.queue
          /\ built.pending = s.pending /\ built.out = s.out /\ built.peer = s.peer
      BY <3>1, <1>2 DEF IsSession, Fields
    <3> HIDE DEF built
    <3>4. IsSession(built)
      BY <1>2, <3>2, <3>3 DEF IsSession
    <3>5. Held(built) = Held(s)
      BY <3>3 DEF Held
    <3>6. Registry(built, {n})
      BY <1>2, <3>2, <3>3, <3>5 DEF Registry
    <3>7. OneEach(built)
      <4>1. Range(s.list) \subseteq DOMAIN s.heap
        BY <1>2 DEF Registry
      <4> QED BY <1>2, <3>2, <3>3, <4>1 DEF OneEach
    <3> QED BY <3>1, <3>2, <3>3, <3>4, <3>6, <3>7 DEF Good
  <2> QED BY <2>1, <2>2
<1>5. pend \in Pend /\ pend.entry = entry /\ pend.found = found /\ pend.id = n /\ pend.stage = "sending"
  <2>1. entry \in Nat
    BY DEF None
  <2> HIDE DEF entry
  <2> QED BY <2>1, <1>3 DEF Pending, Pend, None
<1> HIDE DEF built, entry, pend
<1>6. /\ Good(slot, {entry} \ {None}) /\ slot.heap = built.heap /\ slot.pending = built.pending
      /\ slot.out = built.out /\ slot.peer = built.peer
      /\ IF wantReply THEN \E r \in Slot : r.id = n /\ slot.queue = Append(built.queue, r)
         ELSE slot.queue = built.queue
  <2> DEFINE yes == TRUE
             kind == isCancel
             w == FwdReplyNew(built, n, kind, yes, a, p)
             X == {entry} \ {None}
  <2>1. {kind, yes} \subseteq BOOLEAN /\ n \in Nat /\ Good(built, X)
    BY <1>4
  <2>3. slot = IF wantReply THEN w ELSE built
    OBVIOUS
  <2>w. w = FwdReplyNew(built, n, kind, yes, a, p)
    OBVIOUS
  <2> HIDE DEF X, yes, kind, w, slot
  <2>2. Good(w, X) /\ Slotted(built, w, n)
    BY <2>1, <2>w, ReplyNewGood
  <2>4. CASE wantReply
    BY <2>2, <2>3, <2>4 DEF X, Slotted
  <2>5. CASE ~wantReply
    BY <2>1, <2>3, <2>5 DEF X
  <2> QED BY <2>4, <2>5
<1> HIDE DEF slot
<1>7. /\ Good(t, {})
      /\ t.heap = slot.heap /\ t.queue = slot.queue /\ t.out = slot.out /\ t.peer = slot.peer
      /\ DOMAIN t.pending = 1 .. Len(slot.pending) + 1 /\ t.pending[1] = pend
      /\ \A i \in DOMAIN slot.pending : t.pending[i + 1] = slot.pending[i]
  <2>1. Good(slot, {pend.entry} \ {None}) /\ pend.found \in DOMAIN slot.heap \cup {None}
    BY <1>3, <1>4, <1>5, <1>6
  <2> QED BY <2>1, <1>5, PushGood
<1> HIDE DEF t
<1> QED BY <1>1, <1>4, <1>5, <1>6, <1>7 DEF Prepared


----------------------------------------------------------------------------
(* Sends.                                                                  *)

\* A step of a send changes the output and how far requests have come, and
\* nothing of the registry.
LEMMA SendChange ==
    ASSUME NEW s, Good(s, {}), NEW t, NEW p, NEW o \in Seq(Req),
           DOMAIN p = DOMAIN s.pending, p = [i \in DOMAIN p |-> p[i]],
           \A i \in DOMAIN s.pending :
              p[i] \in Pend /\ p[i].entry = s.pending[i].entry /\ p[i].found = s.pending[i].found,
           DOMAIN t = Fields, t.heap = s.heap, t.list = s.list, t.queue = s.queue,
           t.pending = p, t.out = o
    PROVE  Good(t, {})
<1>1. IsSession(s) /\ Registry(s, {}) /\ OneEach(s)
  BY DEF Good
<1>2. p \in Seq(Pend)
  <2> DEFINE q == s.pending
  <2>1. q \in Seq(Pend)
    BY <1>1, SessionFields
  <2>2. DOMAIN p = DOMAIN q /\ \A i \in DOMAIN q : p[i] \in Pend
    OBVIOUS
  <2> HIDE DEF q
  <2> QED BY <2>1, <2>2, MapSeq
<1>3. IsSession(t)
  BY <1>1, <1>2 DEF IsSession
<1>4. Held(t) = Held(s)
  BY DEF Held
<1>5. \A i, j \in DOMAIN t.pending :
        (t.pending[i].entry = t.pending[j].entry /\ t.pending[i].entry # None) => i = j
  BY <1>1 DEF Registry
<1>6. \A i \in DOMAIN t.pending : t.pending[i].found \in DOMAIN t.heap \cup {None}
  BY <1>1 DEF Registry
<1>7. Registry(t, {})
  BY <1>1, <1>4, <1>5, <1>6 DEF Registry
<1>8. OneEach(t)
  BY <1>1 DEF OneEach
<1> QED BY <1>3, <1>7, <1>8 DEF Good

\* Framing or writing output touches no registration.
LEMMA OutChange ==
    ASSUME NEW s, Good(s, {}), NEW o \in Seq(Req)
    PROVE  LET t == [s EXCEPT !.out = o]
           IN  /\ Good(t, {})
               /\ t.heap = s.heap /\ t.queue = s.queue /\ t.pending = s.pending
               /\ t.out = o /\ t.peer = s.peer
<1> DEFINE t == [s EXCEPT !.out = o]
           p == s.pending
<1>1. IsSession(s)
  BY DEF Good
<1>2. /\ DOMAIN t = Fields
      /\ t.heap = s.heap /\ t.list = s.list /\ t.queue = s.queue /\ t.pending = p
      /\ t.out = o /\ t.peer = s.peer
  BY <1>1 DEF IsSession, Fields
<1>3. \A i \in DOMAIN s.pending :
         p[i] \in Pend /\ p[i].entry = s.pending[i].entry /\ p[i].found = s.pending[i].found
  BY <1>1, SessionFields
<1>4. DOMAIN p = DOMAIN s.pending /\ p = [i \in DOMAIN p |-> p[i]]
  BY <1>1, SessionFields
<1>0. SUFFICES Good(t, {})
  BY <1>2
<1> HIDE DEF t, p
<1> QED BY <1>2, <1>3, <1>4, SendChange

\* Once output is written every send in progress has reached the wire.
LEMMA DrainedGood ==
    ASSUME NEW s, Good(s, {})
    PROVE  LET t == Drained(s)
           IN  /\ Good(t, {})
               /\ t.heap = s.heap /\ t.queue = s.queue /\ t.out = <<>> /\ t.peer = s.peer
               /\ DOMAIN t.pending = DOMAIN s.pending
               /\ \A i \in DOMAIN s.pending :
                     t.pending[i].flushed /\ t.pending[i].stage = s.pending[i].stage
<1> DEFINE p == [i \in DOMAIN s.pending |-> [s.pending[i] EXCEPT !.flushed = TRUE]]
           o == <<>>
           t == [s EXCEPT !.out = o, !.pending = p]
<1>1. IsSession(s)
  BY DEF Good
<1>2. Drained(s) = t
  BY <1>1 DEF Drained, IsSession, Fields
<1>3. ASSUME NEW i \in DOMAIN s.pending
      PROVE  /\ p[i] \in Pend /\ p[i].entry = s.pending[i].entry /\ p[i].found = s.pending[i].found
             /\ p[i].flushed /\ p[i].stage = s.pending[i].stage
  <2>1. s.pending[i] \in Pend
    BY <1>1, SessionFields
  <2> QED BY <2>1 DEF Pend
<1>4. DOMAIN p = DOMAIN s.pending /\ p = [i \in DOMAIN p |-> p[i]]
  OBVIOUS
<1>5. o \in Seq(Req) /\ o = <<>>
  OBVIOUS
<1> HIDE DEF p, o
<1>6. /\ DOMAIN t = Fields
      /\ t.heap = s.heap /\ t.list = s.list /\ t.queue = s.queue /\ t.pending = p
      /\ t.out = o /\ t.peer = s.peer
  BY <1>1 DEF IsSession, Fields
<1> HIDE DEF t
<1>7. Good(t, {})
  <2>1. \A i \in DOMAIN s.pending :
           p[i] \in Pend /\ p[i].entry = s.pending[i].entry /\ p[i].found = s.pending[i].found
    BY <1>3
  <2>2. o \in Seq(Req)
    BY <1>5
  <2> QED BY <2>1, <2>2, <1>4, <1>6, SendChange
<1> QED BY <1>2, <1>3, <1>4, <1>5, <1>6, <1>7

\* The innermost request comes to another place of its send.
AtStage(s, stage) == [s EXCEPT !.pending[1].stage = stage]

\* The innermost send moves on; nothing else does.
LEMMA StageGood ==
    ASSUME NEW s, Good(s, {}), s.pending # <<>>, NEW stage \in {"written", "highwater"}
    PROVE  LET t == AtStage(s, stage)
           IN  /\ Good(t, {})
               /\ t.heap = s.heap /\ t.queue = s.queue /\ t.out = s.out /\ t.peer = s.peer
               /\ DOMAIN t.pending = DOMAIN s.pending /\ 1 \in DOMAIN s.pending
               /\ t.pending[1].stage = stage
               /\ \A i \in DOMAIN s.pending : i # 1 => t.pending[i] = s.pending[i]
               /\ \A i \in DOMAIN s.pending : t.pending[i].flushed = s.pending[i].flushed
<1> DEFINE head == [s.pending[1] EXCEPT !.stage = stage]
           p == [s.pending EXCEPT ![1] = head]
           o == s.out
           t == [s EXCEPT !.pending = p]
<1>1. IsSession(s)
  BY DEF Good
<1>2. AtStage(s, stage) = t
  BY DEF AtStage
<1>3. /\ DOMAIN s.pending = 1 .. Len(s.pending) /\ 1 \in DOMAIN s.pending
      /\ s.pending = [i \in DOMAIN s.pending |-> s.pending[i]]
      /\ \A i \in DOMAIN s.pending : s.pending[i] \in Pend
  BY <1>1, SessionFields
<1>4. /\ head \in Pend /\ head.entry = s.pending[1].entry /\ head.found = s.pending[1].found
      /\ head.stage = stage /\ head.flushed = s.pending[1].flushed
  <2> DEFINE r == s.pending[1]
  <2>1. r \in Pend /\ head = [r EXCEPT !.stage = stage]
    BY <1>3
  <2>0. SUFFICES /\ head \in Pend /\ head.entry = r.entry /\ head.found = r.found
                 /\ head.stage = stage /\ head.flushed = r.flushed
    OBVIOUS
  <2> HIDE DEF r, head
  <2> QED BY <2>1 DEF Pend
<1> HIDE DEF head
<1>5. /\ DOMAIN p = DOMAIN s.pending /\ p = [i \in DOMAIN p |-> p[i]]
      /\ p[1] = head /\ \A i \in DOMAIN s.pending : i # 1 => p[i] = s.pending[i]
  BY <1>3
<1> HIDE DEF p
<1>6. ASSUME NEW i \in DOMAIN s.pending
      PROVE  /\ p[i] \in Pend /\ p[i].entry = s.pending[i].entry /\ p[i].found = s.pending[i].found
             /\ p[i].flushed = s.pending[i].flushed
  BY <1>3, <1>4, <1>5
<1>7. /\ DOMAIN t = Fields
      /\ t.heap = s.heap /\ t.list = s.list /\ t.queue = s.queue /\ t.pending = p
      /\ t.out = o /\ t.peer = s.peer /\ o \in Seq(Req)
  BY <1>1 DEF IsSession, Fields
<1> HIDE DEF t
<1>8. Good(t, {})
  <2> HIDE DEF o
  <2> QED BY <1>5, <1>6, <1>7, SendChange
<1> QED BY <1>2, <1>3, <1>4, <1>5, <1>6, <1>7, <1>8

\* FwdRemoteFreeList(): between calls no request holds a registration.
LEMMA FreeListGood ==
    ASSUME NEW s, Good(s, {}), s.pending = <<>>
    PROVE  LET t == FwdRemoteFreeList(s) IN Good(t, {}) /\ DOMAIN t.heap \subseteq DOMAIN s.heap
<1> DEFINE h == [x \in DOMAIN s.heap \ Range(s.list) |-> s.heap[x]]
           t == [s EXCEPT !.heap = h, !.list = <<>>, !.queue = <<>>]
<1>1. IsSession(s) /\ Registry(s, {}) /\ OneEach(s)
  BY DEF Good
<1>2. FwdRemoteFreeList(s) = t
  BY <1>1 DEF FwdRemoteFreeList, IsSession, Fields
<1>3. DOMAIN h = {} /\ h \in [DOMAIN h -> Registration]
  <2>1. Held(s) = {}
    BY DEF Held
  <2>2. DOMAIN s.heap = Range(s.list)
    BY <1>1, <2>1 DEF Registry
  <2> QED BY <2>2
<1> HIDE DEF h
<1>4. /\ DOMAIN t = Fields
      /\ t.heap = h /\ t.list = <<>> /\ t.queue = <<>> /\ t.pending = <<>> /\ t.out = s.out
  BY <1>1 DEF IsSession, Fields
<1> HIDE DEF t
<1>5. IsSession(t)
  BY <1>1, <1>3, <1>4 DEF IsSession
<1>6. Range(t.list) = {} /\ Held(t) = {}
  BY <1>4 DEF Range, Held
<1>7. Registry(t, {}) /\ OneEach(t)
  BY <1>3, <1>4, <1>6 DEF Registry, OneEach, Distinct
<1> QED BY <1>2, <1>3, <1>4, <1>5, <1>7 DEF Good

----------------------------------------------------------------------------
(* Streams.                                                                *)

\* The serial numbers, in order, of the elements of a stream in W.
Pick(q, W) == Kept(Ids(q), {i \in DOMAIN q : q[i] \in W})

Numbered(S) == \A x \in S : x.id \in Nat

\* The ids of a stream, as its elements come and go.
LEMMA IdsSeq ==
    ASSUME NEW S, Numbered(S), NEW q \in Seq(S)
    PROVE  /\ Ids(q) \in Seq(Nat) /\ Len(Ids(q)) = Len(q)
           /\ DOMAIN q = 1 .. Len(q) /\ Len(q) \in Nat
           /\ \A i \in 1 .. Len(q) : Ids(q)[i] = q[i].id
<1>1. DOMAIN q = 1 .. Len(q) /\ Len(q) \in Nat /\ \A i \in DOMAIN q : q[i] \in S
  OBVIOUS
<1>2. Ids(q) \in [1 .. Len(q) -> Nat]
  BY <1>1 DEF Ids, Numbered
<1>3. Ids(q) \in Seq(Nat)
  BY <1>1, <1>2, SeqDef
<1> QED BY <1>1, <1>2, <1>3 DEF Ids

LEMMA IdsAppend ==
    ASSUME NEW S, Numbered(S), NEW q \in Seq(S), NEW x \in S
    PROVE  Ids(Append(q, x)) = Append(Ids(q), x.id)
<1> DEFINE l == Ids(Append(q, x))
           r == Append(Ids(q), x.id)
<1>0. x.id \in Nat
  BY DEF Numbered
<1>1. Append(q, x) \in Seq(S) /\ Len(Append(q, x)) = Len(q) + 1
  OBVIOUS
<1>2. /\ l \in Seq(Nat) /\ Len(l) = Len(q) + 1 /\ Len(q) \in Nat
      /\ \A i \in 1 .. Len(q) + 1 : l[i] = Append(q, x)[i].id
  BY <1>1, IdsSeq
<1>3. /\ Ids(q) \in Seq(Nat) /\ Len(Ids(q)) = Len(q)
      /\ \A i \in 1 .. Len(q) : Ids(q)[i] = q[i].id
  BY IdsSeq
<1>4. r \in Seq(Nat) /\ Len(r) = Len(q) + 1
  BY <1>0, <1>3
<1>5. \A i \in 1 .. Len(q) + 1 : l[i] = r[i]
  <2>1. \A i \in 1 .. Len(q) : Append(q, x)[i] = q[i] /\ r[i] = Ids(q)[i]
    BY <1>0, <1>3
  <2>2. Append(q, x)[Len(q) + 1] = x /\ r[Len(q) + 1] = x.id
    BY <1>0, <1>3
  <2> HIDE DEF l, r
  <2>3. \A i \in 1 .. Len(q) + 1 : i \in 1 .. Len(q) \/ i = Len(q) + 1
    BY <1>2
  <2>4. \A i \in 1 .. Len(q) : i \in 1 .. Len(q) + 1
    BY <1>2
  <2>5. \A i \in 1 .. Len(q) : l[i] = r[i]
    BY <1>2, <1>3, <2>1, <2>4
  <2>6. l[Len(q) + 1] = r[Len(q) + 1]
    BY <1>2, <2>2
  <2> QED BY <2>3, <2>5, <2>6
<1> HIDE DEF l, r
<1>6. l = r
  BY <1>2, <1>4, <1>5, SeqEqual
<1> QED BY <1>6 DEF l, r

\* Where the elements of a concatenation are.
LEMMA ConcatAt ==
    ASSUME NEW S, NEW p \in Seq(S), NEW q \in Seq(S)
    PROVE  /\ p \o q \in Seq(S) /\ Len(p \o q) = Len(p) + Len(q)
           /\ \A i \in 1 .. Len(p) : (p \o q)[i] = p[i]
           /\ \A i \in Len(p) + 1 .. Len(p) + Len(q) : (p \o q)[i] = q[i - Len(p)]
  OBVIOUS

\* The ids of a concatenation are those of its halves.
LEMMA IdsConcat ==
    ASSUME NEW S, Numbered(S), NEW p \in Seq(S), NEW q \in Seq(S)
    PROVE  Ids(p \o q) = Ids(p) \o Ids(q)
<1> DEFINE l == Ids(p \o q)
           r == Ids(p) \o Ids(q)
           m == Len(p)
           n == Len(q)
<1>1. p \o q \in Seq(S) /\ Len(p \o q) = m + n /\ m \in Nat /\ n \in Nat
  OBVIOUS
<1>2. l \in Seq(Nat) /\ Len(l) = m + n /\ \A i \in 1 .. m + n : l[i] = (p \o q)[i].id
  BY <1>1, IdsSeq
<1>3. /\ Ids(p) \in Seq(Nat) /\ Len(Ids(p)) = m /\ \A i \in 1 .. m : Ids(p)[i] = p[i].id
      /\ Ids(q) \in Seq(Nat) /\ Len(Ids(q)) = n /\ \A i \in 1 .. n : Ids(q)[i] = q[i].id
  BY IdsSeq
<1>4. /\ r \in Seq(Nat) /\ Len(r) = m + n
      /\ \A i \in 1 .. m : r[i] = Ids(p)[i]
      /\ \A i \in m + 1 .. m + n : r[i] = Ids(q)[i - m]
  <2> DEFINE x == Ids(p)
             y == Ids(q)
  <2>1. /\ x \o y \in Seq(Nat) /\ Len(x \o y) = m + n
        /\ \A i \in 1 .. m : (x \o y)[i] = x[i]
        /\ \A i \in m + 1 .. m + n : (x \o y)[i] = y[i - m]
    <3>1. x \in Seq(Nat) /\ Len(x) = m /\ y \in Seq(Nat) /\ Len(y) = n
      BY <1>3
    <3> HIDE DEF x, y, m, n
    <3>2. /\ x \o y \in Seq(Nat) /\ Len(x \o y) = Len(x) + Len(y)
          /\ \A i \in 1 .. Len(x) : (x \o y)[i] = x[i]
          /\ \A i \in Len(x) + 1 .. Len(x) + Len(y) : (x \o y)[i] = y[i - Len(x)]
      <4> DEFINE N == Nat
      <4>1. x \in Seq(N) /\ y \in Seq(N)
        BY <3>1
      <4> HIDE DEF N
      <4>2. /\ x \o y \in Seq(N) /\ Len(x \o y) = Len(x) + Len(y)
            /\ \A i \in 1 .. Len(x) : (x \o y)[i] = x[i]
            /\ \A i \in Len(x) + 1 .. Len(x) + Len(y) : (x \o y)[i] = y[i - Len(x)]
        BY <4>1, ConcatAt
      <4> QED BY <4>2 DEF N
    <3> QED BY <3>1, <3>2
  <2> QED BY <2>1
<1>5. \A i \in 1 .. m + n : l[i] = r[i]
  <2> DEFINE z == p \o q
  <2>1. /\ \A i \in 1 .. m : z[i] = p[i]
        /\ \A i \in m + 1 .. m + n : z[i] = q[i - m]
    OBVIOUS
  <2>2. \A i \in 1 .. m + n : l[i] = z[i].id
    BY <1>2
  <2> HIDE DEF l, r, m, n, z
  <2>3. ASSUME NEW i \in 1 .. m PROVE l[i] = r[i]
    <3>1. i \in 1 .. m + n
      BY <1>1
    <3>2. l[i] = z[i].id /\ z[i] = p[i] /\ r[i] = Ids(p)[i] /\ Ids(p)[i] = p[i].id
      BY <3>1, <1>3, <1>4, <2>1, <2>2
    <3> QED BY <3>2
  <2>4. ASSUME NEW i \in m + 1 .. m + n PROVE l[i] = r[i]
    <3>1. i \in 1 .. m + n /\ i - m \in 1 .. n
      BY <1>1
    <3>2. l[i] = z[i].id /\ z[i] = q[i - m] /\ r[i] = Ids(q)[i - m]
          /\ Ids(q)[i - m] = q[i - m].id
      BY <3>1, <1>3, <1>4, <2>1, <2>2
    <3> QED BY <3>2
  <2>5. \A i \in 1 .. m + n : i \in 1 .. m \/ i \in m + 1 .. m + n
    BY <1>1
  <2> QED BY <2>3, <2>4, <2>5
<1> HIDE DEF l, r, m, n
<1>6. l = r
  BY <1>1, <1>2, <1>4, <1>5, SeqEqual
<1> QED BY <1>6 DEF l, r

\* Dropping the first element drops its id.
LEMMA IdsTail ==
    ASSUME NEW S, Numbered(S), NEW q \in Seq(S), q # <<>>
    PROVE  Ids(q) # <<>> /\ Ids(Tail(q)) = Tail(Ids(q)) /\ Head(Ids(q)) = Head(q).id
<1> DEFINE l == Ids(Tail(q))
           r == Tail(Ids(q))
           n == Len(q)
<1>1. /\ Tail(q) \in Seq(S) /\ Len(Tail(q)) = n - 1 /\ n \in Nat \ {0}
      /\ \A i \in 1 .. n - 1 : Tail(q)[i] = q[i + 1]
  OBVIOUS
<1>2. l \in Seq(Nat) /\ Len(l) = n - 1 /\ \A i \in 1 .. n - 1 : l[i] = Tail(q)[i].id
  BY <1>1, IdsSeq
<1>3. Ids(q) \in Seq(Nat) /\ Len(Ids(q)) = n /\ \A i \in 1 .. n : Ids(q)[i] = q[i].id
  BY IdsSeq
<1>4. /\ r \in Seq(Nat) /\ Len(r) = n - 1 /\ \A i \in 1 .. n - 1 : r[i] = Ids(q)[i + 1]
      /\ Ids(q) # <<>> /\ Head(Ids(q)) = Ids(q)[1]
  BY <1>1, <1>3
<1>5. Head(Ids(q)) = Head(q).id
  BY <1>1, <1>3, <1>4
<1>6. \A i \in 1 .. n - 1 : l[i] = r[i]
  <2>1. \A i \in 1 .. n - 1 : i + 1 \in 1 .. n
    BY <1>1
  <2> DEFINE z == Tail(q)
  <2>2. /\ \A i \in 1 .. n - 1 : z[i] = q[i + 1]
        /\ \A i \in 1 .. n - 1 : l[i] = z[i].id
    BY <1>1, <1>2
  <2> HIDE DEF l, r, n, z
  <2> QED BY <2>1, <2>2, <1>3, <1>4
<1> HIDE DEF l, r, n
<1>7. l = r
  BY <1>1, <1>2, <1>4, <1>6, SeqEqual
<1> QED BY <1>4, <1>5, <1>7 DEF l, r

\* The ids of the elements in W, picked in order.
LEMMA PickSeq ==
    ASSUME NEW S, Numbered(S), NEW q \in Seq(S), NEW W
    PROVE  Pick(q, W) \in Seq(Nat)
  BY IdsSeq, KeptElements DEF Pick

\* Picking distributes over concatenation.
LEMMA PickConcat ==
    ASSUME NEW S, Numbered(S), NEW p \in Seq(S), NEW q \in Seq(S), NEW W
    PROVE  Pick(p \o q, W) = Pick(p, W) \o Pick(q, W)
<1> DEFINE a == {i \in DOMAIN p : p[i] \in W}
           b == {i \in DOMAIN q : q[i] \in W}
           c == {i \in DOMAIN (p \o q) : (p \o q)[i] \in W}
           x == Ids(p)
           y == Ids(q)
<1>1. /\ DOMAIN p = 1 .. Len(p) /\ DOMAIN q = 1 .. Len(q) /\ Len(p) \in Nat /\ Len(q) \in Nat
      /\ DOMAIN (p \o q) = 1 .. Len(p) + Len(q)
      /\ \A i \in 1 .. Len(p) : (p \o q)[i] = p[i]
      /\ \A i \in 1 .. Len(q) : (p \o q)[i + Len(p)] = q[i]
  OBVIOUS
<1>2. x \in Seq(Nat) /\ y \in Seq(Nat) /\ Len(x) = Len(p) /\ Len(y) = Len(q) /\ Ids(p \o q) = x \o y
  BY IdsSeq, IdsConcat
<1>3. /\ \A i \in 1 .. Len(p) : i \in c <=> i \in a
      /\ \A i \in 1 .. Len(q) : i + Len(p) \in c <=> i \in b
  BY <1>1
<1> HIDE DEF a, b, c, x, y
<1>4. Kept(x \o y, c) = Kept(x, a) \o Kept(y, b)
  <2>1. Splits(c, a, b, Len(x), Len(y))
    BY <1>2, <1>3 DEF Splits
  <2> DEFINE N == Nat
  <2>2. x \in Seq(N) /\ y \in Seq(N)
    BY <1>2
  <2> HIDE DEF N
  <2> QED BY <2>1, <2>2, KeptConcat
<1> QED BY <1>2, <1>4 DEF Pick, a, b, c, x, y

LEMMA PickEmpty ==
    ASSUME NEW W
    PROVE  Pick(<<>>, W) = <<>>
<1> DEFINE q == Ids(<<>>)
           at == {i \in DOMAIN <<>> : <<>>[i] \in W}
<1>1. q \in Seq(Nat) /\ Len(q) = 0
  BY DEF Ids
<1> HIDE DEF q, at
<1>2. PICK f : IsWalk(f, Nat, q, at) /\ Kept(q, at) = f[Len(q)]
  BY <1>1, KeptWalk
<1>3. Kept(q, at) = <<>>
  BY <1>1, <1>2 DEF IsWalk
<1> QED BY <1>3 DEF Pick, q, at

LEMMA PickOne ==
    ASSUME NEW S, Numbered(S), NEW x \in S, NEW W
    PROVE  Pick(<<x>>, W) = IF x \in W THEN <<x.id>> ELSE <<>>
<1> DEFINE q == Ids(<<x>>)
           at == {i \in DOMAIN <<x>> : <<x>>[i] \in W}
<1>0. <<x>> \in Seq(S) /\ Len(<<x>>) = 1 /\ <<x>>[1] = x
  OBVIOUS
<1>1. q \in Seq(Nat) /\ Len(q) = 1 /\ q[1] = x.id
  <2> DEFINE y == <<x>>
  <2>1. y \in Seq(S) /\ Len(y) = 1 /\ y[1] = x
    BY <1>0
  <2>0. SUFFICES Ids(y) \in Seq(Nat) /\ Len(Ids(y)) = 1 /\ Ids(y)[1] = x.id
    OBVIOUS
  <2> HIDE DEF y
  <2>2. /\ Ids(y) \in Seq(Nat) /\ Len(Ids(y)) = Len(y)
        /\ \A i \in 1 .. Len(y) : Ids(y)[i] = y[i].id
    BY <2>1, IdsSeq
  <2> QED BY <2>1, <2>2
<1>2. 1 \in at <=> x \in W
  OBVIOUS
<1> HIDE DEF q, at
<1>3. PICK f : IsWalk(f, Nat, q, at) /\ Kept(q, at) = f[Len(q)]
  BY <1>1, KeptWalk
<1>4. f[0] = <<>> /\ f[1] = IF 1 \in at THEN Append(f[0], q[1]) ELSE f[0]
  BY <1>1, <1>3 DEF IsWalk
<1>5. Append(<<>>, x.id) = <<x.id>>
  OBVIOUS
<1>6. Kept(q, at) = IF x \in W THEN <<x.id>> ELSE <<>>
  BY <1>1, <1>2, <1>3, <1>4, <1>5
<1> QED BY <1>6 DEF Pick, q, at

LEMMA PickAppend ==
    ASSUME NEW S, Numbered(S), NEW q \in Seq(S), NEW x \in S, NEW W
    PROVE  Pick(Append(q, x), W) = IF x \in W THEN Append(Pick(q, W), x.id) ELSE Pick(q, W)
<1> DEFINE y == <<x>>
<1>1. Append(q, x) = q \o y /\ y \in Seq(S)
  OBVIOUS
<1>2. Pick(Append(q, x), W) = Pick(q, W) \o Pick(y, W)
  <2> HIDE DEF y
  <2>1. Pick(q \o y, W) = Pick(q, W) \o Pick(y, W)
    BY <1>1, PickConcat
  <2> QED BY <1>1, <2>1
<1>3. Pick(q, W) \in Seq(Nat) /\ x.id \in Nat
  BY PickSeq DEF Numbered
<1> DEFINE p == Pick(q, W)
           n == x.id
<1> HIDE DEF p, n
<1>4. p \o <<n>> = Append(p, n) /\ p \o <<>> = p
  BY <1>3 DEF p, n
<1> QED BY <1>2, <1>4, PickOne DEF p, n

LEMMA PickHead ==
    ASSUME NEW S, Numbered(S), NEW q \in Seq(S), q # <<>>, NEW W
    PROVE  /\ Head(q) \in S /\ Tail(q) \in Seq(S)
           /\ Pick(q, W) = (IF Head(q) \in W THEN <<Head(q).id>> ELSE <<>>) \o Pick(Tail(q), W)
<1> DEFINE x == Head(q)
           r == Tail(q)
<1>1. x \in S /\ r \in Seq(S) /\ q = <<x>> \o r
  OBVIOUS
<1> HIDE DEF x, r
<1> DEFINE y == <<x>>
<1>2. y \in Seq(S) /\ q = y \o r
  BY <1>1
<1>3. Pick(q, W) = Pick(y, W) \o Pick(r, W)
  <2> HIDE DEF y
  <2>1. Pick(y \o r, W) = Pick(y, W) \o Pick(r, W)
    BY <1>1, <1>2, PickConcat
  <2> QED BY <1>2, <2>1
<1> QED BY <1>1, <1>3, PickOne DEF x, r

\* Concatenation, as the streams are taken apart and put together.
LEMMA ConcatAssoc ==
    ASSUME NEW S, NEW p \in Seq(S), NEW q \in Seq(S), NEW r \in Seq(S)
    PROVE  (p \o q) \o r = p \o (q \o r)
<1> DEFINE l == (p \o q) \o r
           m == p \o (q \o r)
<1>1. l \in Seq(S) /\ m \in Seq(S) /\ Len(l) = Len(m)
  OBVIOUS
<1>2. \A i \in 1 .. Len(l) : l[i] = m[i]
  OBVIOUS
<1> HIDE DEF l, m
<1> QED BY <1>1, <1>2, SeqEqual DEF l, m

LEMMA ConcatTail ==
    ASSUME NEW S, NEW x \in S, NEW q \in Seq(S)
    PROVE  Tail(<<x>> \o q) = q /\ <<x>> \o q # <<>> /\ <<x>> \in Seq(S)
<1> DEFINE l == Tail(<<x>> \o q)
<1>1. l \in Seq(S) /\ Len(l) = Len(q) /\ \A i \in 1 .. Len(l) : l[i] = q[i]
  OBVIOUS
<1>2. <<x>> \o q # <<>> /\ <<x>> \in Seq(S)
  OBVIOUS
<1> HIDE DEF l
<1>3. l = q
  BY <1>1, SeqEqual
<1> QED BY <1>2, <1>3 DEF l

LEMMA AppendConcat ==
    ASSUME NEW S, NEW p \in Seq(S), NEW x \in S, NEW q \in Seq(S)
    PROVE  Append(p, x) \o q = p \o (<<x>> \o q)
<1> DEFINE y == <<x>>
<1>1. y \in Seq(S) /\ Append(p, x) = p \o y
  OBVIOUS
<1>2. (p \o y) \o q = p \o (y \o q)
  <2> HIDE DEF y
  <2> QED BY <1>1, ConcatAssoc
<1> QED BY <1>1, <1>2

LEMMA EmptyConcat ==
    ASSUME NEW S, NEW q \in Seq(S)
    PROVE  <<>> \o q = q /\ q \o <<>> = q
  OBVIOUS

\* Serial numbers, kept opaque.
Serials == Nat

Asked == {x \in Req : x.want}
Answers == {x \in Msg : x.kind = "reply"}

\* Requests, messages and slots all carry an id.
LEMMA StreamTypes ==
    Numbered(Req) /\ Numbered(Msg) /\ Numbered(Slot)
  BY DEF Numbered, Req, Msg, Slot

\* Wanted and Replies are two such picks.
LEMMA WantedIs ==
    ASSUME NEW q \in Seq(Req)
    PROVE  Wanted(q) = Pick(q, Asked) /\ Wanted(q) \in Seq(Serials)
<1>1. {i \in DOMAIN q : q[i].want} = {i \in DOMAIN q : q[i] \in Asked}
  BY DEF Asked
<1>2. Wanted(q) = Pick(q, Asked)
  BY <1>1 DEF Wanted, Pick
<1> QED BY <1>2, StreamTypes, PickSeq DEF Serials

LEMMA RepliesIs ==
    ASSUME NEW q \in Seq(Msg)
    PROVE  Replies(q) = Pick(q, Answers) /\ Replies(q) \in Seq(Serials)
<1>1. {i \in DOMAIN q : q[i].kind = "reply"} = {i \in DOMAIN q : q[i] \in Answers}
  BY DEF Answers
<1>2. Replies(q) = Pick(q, Answers)
  BY <1>1 DEF Replies, Pick
<1> QED BY <1>2, StreamTypes, PickSeq DEF Serials

\* A request takes the place behind all others.
LEMMA PairsAsk ==
    ASSUME NEW q \in Seq(Slot), NEW r \in Seq(Msg), NEW w \in Seq(Req), NEW o \in Seq(Req),
           Pairs(q, r, w, o), NEW x \in Req, NEW slot \in Slot, slot.id = x.id
    PROVE  /\ x.want => Pairs(Append(q, slot), r, w, Append(o, x))
           /\ ~x.want => Pairs(q, r, w, Append(o, x))
<1> DEFINE A == Replies(r)
           B == Wanted(w)
           C == Wanted(o)
           n == x.id
<1>1. A \in Seq(Serials) /\ B \in Seq(Serials) /\ C \in Seq(Serials) /\ n \in Serials
  BY WantedIs, RepliesIs, StreamTypes DEF Numbered, Serials
<1>2. Wanted(Append(o, x)) = IF x \in Asked THEN Append(C, n) ELSE C
  <2>1. Append(o, x) \in Seq(Req)
    OBVIOUS
  <2>2. Pick(Append(o, x), Asked) = IF x \in Asked THEN Append(Pick(o, Asked), x.id) ELSE Pick(o, Asked)
    BY StreamTypes, PickAppend
  <2>3. Wanted(Append(o, x)) = Pick(Append(o, x), Asked) /\ Wanted(o) = Pick(o, Asked)
    BY <2>1, WantedIs
  <2> QED BY <2>2, <2>3
<1>3. Ids(Append(q, slot)) = Append(Ids(q), n)
  BY StreamTypes, IdsAppend
<1>4. x \in Asked <=> x.want
  BY DEF Asked
<1>5. Ids(q) = (A \o B) \o C
  BY DEF Pairs
<1>0. SUFFICES /\ x.want => Ids(Append(q, slot)) = (A \o B) \o Wanted(Append(o, x))
               /\ ~x.want => Ids(q) = (A \o B) \o Wanted(Append(o, x))
  BY DEF Pairs
<1> HIDE DEF A, B, C, n
<1>6. A \o B \in Seq(Serials)
  BY <1>1
<1>7. (A \o B) \o Append(C, n) = Append((A \o B) \o C, n)
  BY <1>1, <1>6, AppendAfter
<1> QED BY <1>2, <1>3, <1>4, <1>5, <1>7

\* What is framed goes out.
LEMMA PairsWrite ==
    ASSUME NEW q, NEW r \in Seq(Msg), NEW w \in Seq(Req), NEW o \in Seq(Req), Pairs(q, r, w, o)
    PROVE  Pairs(q, r, w \o o, <<>>)
<1> DEFINE A == Replies(r)
           B == Wanted(w)
           C == Wanted(o)
           e == <<>>
<1>1. A \in Seq(Serials) /\ B \in Seq(Serials) /\ C \in Seq(Serials)
  BY WantedIs, RepliesIs
<1>2. Wanted(w \o o) = B \o C
  <2>1. w \o o \in Seq(Req)
    OBVIOUS
  <2>2. Pick(w \o o, Asked) = Pick(w, Asked) \o Pick(o, Asked)
    BY StreamTypes, PickConcat
  <2>3. /\ Wanted(w \o o) = Pick(w \o o, Asked)
        /\ Wanted(w) = Pick(w, Asked) /\ Wanted(o) = Pick(o, Asked)
    BY <2>1, WantedIs
  <2> QED BY <2>2, <2>3
<1>3. Wanted(e) = <<>>
  <2>1. e \in Seq(Req)
    OBVIOUS
  <2> QED BY <2>1, WantedIs, PickEmpty
<1>4. Ids(q) = (A \o B) \o C
  BY DEF Pairs
<1>0. SUFFICES Ids(q) = (A \o Wanted(w \o o)) \o Wanted(e)
  BY DEF Pairs
<1> HIDE DEF A, B, C, e
<1>5. (A \o B) \o C = A \o (B \o C)
  BY <1>1, ConcatAssoc
<1>6. A \o (B \o C) \in Seq(Serials)
  BY <1>1
<1>7. (A \o (B \o C)) \o <<>> = A \o (B \o C)
  BY <1>6, EmptyConcat
<1> QED BY <1>2, <1>3, <1>4, <1>5, <1>7

\* The peer handles a request, and answers one that wants a reply.
LEMMA PairsServe ==
    ASSUME NEW q, NEW r \in Seq(Msg), NEW w \in Seq(Req), NEW o \in Seq(Req), Pairs(q, r, w, o),
           w # <<>>, NEW m \in Msg, m.kind = "reply", m.id = Head(w).id
    PROVE  /\ Head(w).want => Pairs(q, Append(r, m), Tail(w), o)
           /\ ~Head(w).want => Pairs(q, r, Tail(w), o)
<1> DEFINE A == Replies(r)
           B == Wanted(Tail(w))
           C == Wanted(o)
           n == m.id
           x == Head(w)
<1>0. Tail(w) \in Seq(Req) /\ Head(w) \in Req /\ Append(r, m) \in Seq(Msg)
  OBVIOUS
<1>1. A \in Seq(Serials) /\ B \in Seq(Serials) /\ C \in Seq(Serials) /\ n \in Serials
  BY <1>0, WantedIs, RepliesIs, StreamTypes DEF Numbered, Serials
<1>2. Wanted(w) = (IF x \in Asked THEN <<n>> ELSE <<>>) \o B
  <2>1. Pick(w, Asked) = (IF Head(w) \in Asked THEN <<Head(w).id>> ELSE <<>>) \o Pick(Tail(w), Asked)
    BY StreamTypes, PickHead
  <2>2. Wanted(w) = Pick(w, Asked) /\ Wanted(Tail(w)) = Pick(Tail(w), Asked)
    BY <1>0, WantedIs
  <2> QED BY <2>1, <2>2
<1>3. Replies(Append(r, m)) = Append(A, n)
  <2>1. m \in Answers
    BY DEF Answers
  <2>2. Pick(Append(r, m), Answers)
          = IF m \in Answers THEN Append(Pick(r, Answers), m.id) ELSE Pick(r, Answers)
    BY StreamTypes, PickAppend
  <2>3. Replies(Append(r, m)) = Pick(Append(r, m), Answers) /\ Replies(r) = Pick(r, Answers)
    BY <1>0, RepliesIs
  <2> QED BY <2>1, <2>2, <2>3
<1>4. x \in Asked <=> x.want
  BY <1>0 DEF Asked
<1>5. Ids(q) = (A \o Wanted(w)) \o C
  BY DEF Pairs
<1>6. SUFFICES /\ x.want => Ids(q) = (Replies(Append(r, m)) \o B) \o C
               /\ ~x.want => Ids(q) = (A \o B) \o C
  BY DEF Pairs
<1> HIDE DEF A, B, C, n, x
<1>8. Append(A, n) \o B = A \o (<<n>> \o B)
  BY <1>1, AppendConcat
<1>9. <<>> \o B = B
  BY <1>1, EmptyConcat
<1>10. CASE x.want
  BY <1>2, <1>3, <1>4, <1>5, <1>8, <1>10
<1>11. CASE ~x.want
  BY <1>2, <1>4, <1>5, <1>9, <1>11
<1> QED BY <1>10, <1>11

\* An answer is the one the oldest slot waits for.
LEMMA PairsReply ==
    ASSUME NEW q \in Seq(Slot), NEW r \in Seq(Msg), NEW w \in Seq(Req), NEW o \in Seq(Req),
           Pairs(q, r, w, o), r # <<>>, Head(r).kind = "reply"
    PROVE  q # <<>> /\ Pairs(Tail(q), Tail(r), w, o)
<1> DEFINE A == Replies(Tail(r))
           B == Wanted(w)
           C == Wanted(o)
           x == Head(r)
           n == x.id
           y == <<n>>
<1>0. Tail(r) \in Seq(Msg) /\ x \in Msg
  OBVIOUS
<1>1. A \in Seq(Serials) /\ B \in Seq(Serials) /\ C \in Seq(Serials) /\ n \in Serials /\ y \in Seq(Serials)
  <2>1. n \in Serials
    BY <1>0, StreamTypes DEF Numbered, Serials
  <2> HIDE DEF n
  <2>2. <<n>> \in Seq(Serials)
    BY <2>1
  <2> QED BY <1>0, <2>1, <2>2, WantedIs, RepliesIs
<1>2. Replies(r) = y \o A
  <2>1. x \in Answers
    BY <1>0 DEF Answers
  <2> QED BY <1>0, <2>1, RepliesIs, StreamTypes, PickHead
<1>3. Ids(q) = (Replies(r) \o B) \o C
  BY DEF Pairs
<1>4. Ids(<<>>) = <<>>
  BY DEF Ids
<1>5. q # <<>> => Ids(Tail(q)) = Tail(Ids(q))
  BY StreamTypes, IdsTail
<1>6. SUFFICES q # <<>> /\ Ids(Tail(q)) = (A \o B) \o C
  BY DEF Pairs
<1> HIDE DEF A, B, C, x
<1>7. Ids(q) = y \o ((A \o B) \o C)
  <2> HIDE DEF y
  <2>1. (y \o A) \o B = y \o (A \o B)
    BY <1>1, ConcatAssoc
  <2> DEFINE D == A \o B
  <2>2. D \in Seq(Serials) /\ y \in Seq(Serials) /\ C \in Seq(Serials)
    BY <1>1
  <2>3. (y \o D) \o C = y \o (D \o C)
    <3> HIDE DEF D
    <3> QED BY <2>2, ConcatAssoc
  <2> QED BY <1>2, <1>3, <2>1, <2>3
<1> DEFINE Z == (A \o B) \o C
<1>8. Z \in Seq(Serials)
  BY <1>1
<1>9. Ids(q) = <<n>> \o Z
  BY <1>7
<1> HIDE DEF Z, n, y
<1>10. Tail(<<n>> \o Z) = Z /\ <<n>> \o Z # <<>>
  BY <1>1, <1>8, ConcatTail
<1>11. q # <<>>
  BY <1>4, <1>9, <1>10
<1> QED BY <1>5, <1>9, <1>10, <1>11 DEF Z

\* Other messages of the peer take no slot.
LEMMA PairsOther ==
    ASSUME NEW q, NEW r \in Seq(Msg), NEW w, NEW o, Pairs(q, r, w, o),
           r # <<>>, Head(r).kind # "reply"
    PROVE  Pairs(q, Tail(r), w, o)
<1> DEFINE A == Replies(Tail(r))
           x == Head(r)
<1>0. Tail(r) \in Seq(Msg) /\ x \in Msg
  OBVIOUS
<1>1. x \notin Answers
  BY DEF Answers
<1>2. Replies(r) = <<>> \o A /\ A \in Seq(Serials)
  <2>1. Pick(r, Answers)
          = (IF Head(r) \in Answers THEN <<Head(r).id>> ELSE <<>>) \o Pick(Tail(r), Answers)
    BY StreamTypes, PickHead
  <2>2. Replies(r) = Pick(r, Answers) /\ A = Pick(Tail(r), Answers) /\ A \in Seq(Serials)
    BY <1>0, RepliesIs
  <2> HIDE DEF A
  <2> QED BY <1>1, <2>1, <2>2
<1> HIDE DEF A
<1>3. <<>> \o A = A
  BY <1>2, EmptyConcat
<1>4. Replies(r) = A
  BY <1>2, <1>3
<1> QED BY <1>4 DEF Pairs, A

\* A message that is no reply changes no pairing.
LEMMA PairsOpen ==
    ASSUME NEW q, NEW r \in Seq(Msg), NEW w, NEW o, Pairs(q, r, w, o), NEW m \in Msg,
           m.kind # "reply"
    PROVE  Pairs(q, Append(r, m), w, o)
<1>1. Append(r, m) \in Seq(Msg) /\ m \notin Answers
  BY DEF Answers
<1>2. Replies(Append(r, m)) = Replies(r)
  BY <1>1, RepliesIs, StreamTypes, PickAppend
<1> QED BY <1>2 DEF Pairs

----------------------------------------------------------------------------
(* The order of the slots, step by step.                                   *)

\* A request is prepared and framed.
LEMMA AskGood ==
    ASSUME NEW s, Good(s, {}), NEW u, NEW x \in Req, Prepared(s, u, x.id, x.want)
    PROVE  LET t == Frame(u, x)
           IN  /\ Good(t, {})
               /\ t.heap = u.heap /\ t.queue = u.queue /\ t.pending = u.pending
               /\ t.out = Append(s.out, x) /\ t.peer = s.peer
<1>1. Good(u, {}) /\ u.out = s.out /\ u.peer = s.peer
  BY DEF Prepared
<1> DEFINE o == Append(u.out, x)
           t == [u EXCEPT !.out = o]
<1>2. Frame(u, x) = t
  BY DEF Frame
<1>3. u.out \in Seq(Req)
  BY <1>1, SessionFields DEF Good
<1>4. o \in Seq(Req) /\ o = Append(s.out, x)
  BY <1>1, <1>3
<1> HIDE DEF o
<1>5. /\ Good(t, {})
      /\ t.heap = u.heap /\ t.queue = u.queue /\ t.pending = u.pending
      /\ t.out = o /\ t.peer = u.peer
  BY <1>1, <1>4, OutChange
<1> HIDE DEF t
<1> QED BY <1>1, <1>2, <1>4, <1>5

\* A request that claims its slot and is framed comes last in both orders.
LEMMA AskSound ==
    ASSUME NEW s, Good(s, {}), NEW u, NEW x \in Req, Prepared(s, u, x.id, x.want),
           MaySend(s), NEW r \in Seq(Msg), NEW w \in Seq(Req), Sound(s, r, w)
    PROVE  Sound(Frame(u, x), r, w)
<1> DEFINE t == Frame(u, x)
<1>1. /\ Good(t, {}) /\ t.queue = u.queue /\ t.pending = u.pending
      /\ t.out = Append(s.out, x) /\ t.peer = s.peer
  BY AskGood
<1> HIDE DEF t
<1>2. /\ s.queue \in Seq(Slot) /\ s.pending \in Seq(Pend) /\ DOMAIN s.pending = 1 .. Len(s.pending)
      /\ Len(s.pending) \in Nat /\ s.out \in Seq(Req) /\ DOMAIN s.out = 1 .. Len(s.out)
      /\ Len(s.out) \in Nat
  BY SessionFields DEF Good
<1>3. /\ DOMAIN t.pending = 1 .. Len(s.pending) + 1
      /\ t.pending[1].id = x.id /\ t.pending[1].stage = "sending"
      /\ \A i \in DOMAIN s.pending : t.pending[i + 1] = s.pending[i]
  BY <1>1 DEF Prepared
<1>4. \A i \in DOMAIN t.pending :
         i = 1 \/ (i - 1 \in DOMAIN s.pending /\ t.pending[i] = s.pending[i - 1])
  BY <1>2, <1>3
<1>5. \A i \in DOMAIN s.pending : s.pending[i].stage # "written"
  <2>1. ASSUME NEW i \in DOMAIN s.pending, s.pending[i].stage = "written" PROVE FALSE
    <3>1. i = 1
      BY <2>1 DEF Sound, Written
    <3>2. s.pending # <<>> /\ Head(s.pending) = s.pending[1]
      BY <1>2, <2>1
    <3> QED BY <2>1, <3>1, <3>2 DEF MaySend
  <2> QED BY <2>1
<1>6. Written(t)
  <2>1. \A i \in DOMAIN t.pending : t.pending[i].stage # "written"
    BY <1>3, <1>4, <1>5
  <2> QED BY <2>1 DEF Written
<1>7. Framed(t)
  <2>1. /\ DOMAIN t.out = 1 .. Len(s.out) + 1 /\ t.out[Len(s.out) + 1] = x
        /\ \A k \in DOMAIN s.out : k \in DOMAIN t.out /\ t.out[k] = s.out[k]
    BY <1>1, <1>2
  <2>2. SUFFICES ASSUME NEW i \in DOMAIN t.pending, t.pending[i].stage = "sending",
                        ~t.pending[i].flushed
                 PROVE  \E k \in DOMAIN t.out : t.out[k].id = t.pending[i].id
    BY DEF Framed
  <2>3. CASE i = 1
    <3>1. Len(s.out) + 1 \in DOMAIN t.out
      BY <1>2, <2>1
    <3> QED BY <1>3, <2>1, <2>3, <3>1
  <2>4. CASE i # 1
    <3>1. i - 1 \in DOMAIN s.pending /\ t.pending[i] = s.pending[i - 1]
      BY <1>4, <2>4
    <3>2. s.pending # <<>> /\ 1 \in DOMAIN s.pending
      BY <1>2, <3>1
    <3>3. s.pending[1].stage # "written"
      BY <1>5, <3>2
    <3>4. PICK k \in DOMAIN s.out : s.out[k].id = s.pending[i - 1].id
      BY <2>2, <3>1, <3>3 DEF Sound, Framed
    <3> QED BY <2>1, <3>1, <3>4
  <2> QED BY <2>3, <2>4
<1>8. ASSUME s.peer = "wolfssh" PROVE Pairs(t.queue, r, w, t.out)
  <2>1. Pairs(s.queue, r, w, s.out)
    BY <1>8 DEF Sound
  <2> DEFINE q == s.queue
             o == s.out
  <2>2. q \in Seq(Slot) /\ o \in Seq(Req) /\ Pairs(q, r, w, o) /\ t.out = Append(o, x)
    BY <1>1, <1>2, <2>1
  <2>3. CASE x.want
    <3>1. PICK slot \in Slot : slot.id = x.id /\ t.queue = Append(q, slot)
      BY <1>1, <2>3 DEF Prepared
    <3> HIDE DEF q, o
    <3>2. Pairs(Append(q, slot), r, w, Append(o, x))
      BY <2>2, <2>3, <3>1, PairsAsk
    <3> QED BY <2>2, <3>1, <3>2
  <2>4. CASE ~x.want
    <3>1. t.queue = q
      BY <1>1, <2>4 DEF Prepared
    <3> DEFINE slot == [id |-> x.id, entry |-> 0, isCancel |-> FALSE, uncommitted |-> FALSE,
                        named |-> FALSE, addr |-> NoAddr, port |-> 0]
    <3>2. slot \in Slot /\ slot.id = x.id
      BY DEF Slot, Req, Names
    <3> HIDE DEF q, o, slot
    <3>3. Pairs(q, r, w, Append(o, x))
      BY <2>2, <2>4, <3>2, PairsAsk
    <3> QED BY <2>2, <3>1, <3>3
  <2> QED BY <2>3, <2>4
<1>9. Sound(t, r, w)
  BY <1>1, <1>6, <1>7, <1>8 DEF Sound
<1> QED BY <1>9 DEF t

\* What goes onto the wire.
Wire(s, w) == IF s.peer = "any" THEN w ELSE w \o s.out

\* What is written keeps its place in the order.
LEMMA WirePairs ==
    ASSUME NEW s, Good(s, {}), NEW r \in Seq(Msg), NEW w \in Seq(Req), Sound(s, r, w),
           s.peer = "wolfssh"
    PROVE  Pairs(s.queue, r, Wire(s, w), <<>>)
<1> DEFINE q == s.queue
           o == s.out
<1>1. o \in Seq(Req) /\ Pairs(q, r, w, o) /\ Wire(s, w) = w \o o
  BY SessionFields DEF Good, Sound, Wire
<1>0. SUFFICES Pairs(q, r, Wire(s, w), <<>>)
  OBVIOUS
<1> HIDE DEF q, o
<1>2. Pairs(q, r, w \o o, <<>>)
  BY <1>1, PairsWrite
<1> QED BY <1>1, <1>2

\* CallbackWrites
LEMMA WriteSound ==
    ASSUME NEW s, Good(s, {}), s.pending # <<>>, s.pending[1].stage # "written", NEW t,
           t.queue = s.queue, t.out = <<>>, t.peer = s.peer,
           DOMAIN t.pending = DOMAIN s.pending, t.pending[1].stage = "written",
           \A i \in DOMAIN s.pending : i # 1 => t.pending[i] = s.pending[i],
           NEW r \in Seq(Msg), NEW w \in Seq(Req), Sound(s, r, w)
    PROVE  Sound(t, r, Wire(s, w))
<1>1. Framed(t)
  BY DEF Framed
<1>2. Written(t)
  BY DEF Written, Sound
<1>3. t.peer = "wolfssh" => Pairs(t.queue, r, Wire(s, w), t.out)
  BY WirePairs
<1> QED BY <1>1, <1>2, <1>3 DEF Sound

\* Flush, and an answer that takes what is framed along
LEMMA DrainSound ==
    ASSUME NEW s, Good(s, {}), NEW r \in Seq(Msg), NEW w \in Seq(Req), Sound(s, r, w)
    PROVE  Sound(Drained(s), r, Wire(s, w))
<1> DEFINE t == Drained(s)
<1>1. /\ t.queue = s.queue /\ t.out = <<>> /\ t.peer = s.peer
      /\ DOMAIN t.pending = DOMAIN s.pending
      /\ \A i \in DOMAIN s.pending : t.pending[i].flushed /\ t.pending[i].stage = s.pending[i].stage
  BY DrainedGood
<1> HIDE DEF t
<1>2. Framed(t)
  BY <1>1 DEF Framed
<1>3. Written(t)
  BY <1>1 DEF Written, Sound
<1>4. t.peer = "wolfssh" => Pairs(t.queue, r, Wire(s, w), t.out)
  BY <1>1, WirePairs
<1>5. Sound(t, r, Wire(s, w))
  BY <1>2, <1>3, <1>4 DEF Sound
<1> QED BY <1>5 DEF t

\* The send of a request that wrote returns: nothing was framed meanwhile.
LEMMA ReturnSound ==
    ASSUME NEW s, Good(s, {}), s.pending # <<>>, s.pending[1].stage = "written",
           NEW r, NEW w, Sound(s, r, w)
    PROVE  Sound(Drained(s), r, w)
<1> DEFINE t == Drained(s)
<1>1. /\ t.queue = s.queue /\ t.out = <<>> /\ t.peer = s.peer
      /\ DOMAIN t.pending = DOMAIN s.pending
      /\ \A i \in DOMAIN s.pending : t.pending[i].flushed /\ t.pending[i].stage = s.pending[i].stage
  BY DrainedGood
<1> HIDE DEF t
<1>2. Framed(t)
  BY <1>1 DEF Framed
<1>3. Written(t)
  BY <1>1 DEF Written, Sound
<1>4. s.out = <<>>
  <2>1. 1 \in DOMAIN s.pending
    BY SessionFields DEF Good
  <2> QED BY <2>1 DEF Sound, Written
<1>5. Sound(t, r, w)
  BY <1>1, <1>2, <1>3, <1>4 DEF Sound
<1> QED BY <1>5 DEF t

\* FwdPendingCommit() of a send that left nothing unsaid.
LEMMA CommitSound ==
    ASSUME NEW s, Good(s, {}), s.pending # <<>>, NEW r, NEW w, Sound(s, r, w),
           \/ s.pending[1].stage # "written"
           \/ \A i \in DOMAIN s.pending : s.pending[i].flushed
    PROVE  Sound(FwdPendingCommit(s), r, w)
<1> DEFINE u == FwdPendingPop(s)
           t == FwdPendingCommit(s)
<1>1. Same(u, t)
  BY CommitGood
<1>2. /\ 1 \in DOMAIN s.pending
      /\ \A i \in DOMAIN u.pending : i + 1 \in DOMAIN s.pending /\ u.pending[i] = s.pending[i + 1]
      /\ u.queue = s.queue /\ u.out = s.out /\ u.peer = s.peer
  BY PopGood
<1>3. DOMAIN s.pending = 1 .. Len(s.pending) /\ Len(s.pending) \in Nat
  BY SessionFields DEF Good
<1> HIDE DEF t, u
<1>4. /\ t.out = s.out /\ t.peer = s.peer /\ Ids(t.queue) = Ids(s.queue)
      /\ \A i \in DOMAIN t.pending :
            /\ i + 1 \in DOMAIN s.pending
            /\ t.pending[i].id = s.pending[i + 1].id
            /\ t.pending[i].stage = s.pending[i + 1].stage
            /\ t.pending[i].flushed = s.pending[i + 1].flushed
  BY <1>1, <1>2 DEF Same
<1>5. Written(t)
  <2>1. ASSUME NEW i \in DOMAIN t.pending, t.pending[i].stage = "written" PROVE FALSE
    <3>1. i + 1 \in DOMAIN s.pending /\ s.pending[i + 1].stage = "written"
      BY <1>4, <2>1
    <3>2. i + 1 = 1
      BY <3>1 DEF Sound, Written
    <3>3. i \in DOMAIN u.pending /\ i \in Nat \ {0}
      <4>1. i \in DOMAIN u.pending
        BY <1>1, <2>1 DEF Same
      <4>2. u.pending \in Seq(Pend)
        BY PopGood, SessionFields DEF u, Good
      <4> QED BY <4>1, <4>2
    <3> QED BY <3>2, <3>3
  <2> QED BY <2>1 DEF Written
<1>6. Framed(t)
  <2>1. SUFFICES ASSUME NEW i \in DOMAIN t.pending, t.pending[i].stage = "sending",
                        ~t.pending[i].flushed
                 PROVE  \E k \in DOMAIN t.out : t.out[k].id = t.pending[i].id
    BY DEF Framed
  <2>2. /\ i + 1 \in DOMAIN s.pending /\ s.pending[i + 1].stage = "sending"
        /\ ~s.pending[i + 1].flushed
    BY <1>4, <2>1
  <2>3. s.pending[1].stage # "written"
    BY <2>2
  <2> QED BY <1>4, <2>2, <2>3 DEF Sound, Framed
<1>7. t.peer = "wolfssh" => Pairs(t.queue, r, w, t.out)
  BY <1>4 DEF Sound, Pairs
<1>8. Sound(t, r, w)
  BY <1>5, <1>6, <1>7 DEF Sound
<1> QED BY <1>8 DEF t

\* FwdRemoteReply()
LEMMA ReplySound ==
    ASSUME NEW s, Good(s, {}), NEW r \in Seq(Msg), NEW w \in Seq(Req), Sound(s, r, w),
           r # <<>>, Head(r).kind = "reply", NEW success \in BOOLEAN, NEW port \in Nat
    PROVE  Sound(FwdRemoteReply(s, success, port), Tail(r), w)
<1> DEFINE t == FwdRemoteReply(s, success, port)
           d == [s EXCEPT !.queue = Tail(@)]
<1>1. s.queue \in Seq(Slot) /\ s.out \in Seq(Req)
  BY SessionFields DEF Good
<1>2. s.peer = "wolfssh" => s.queue # <<>> /\ Pairs(Tail(s.queue), Tail(r), w, s.out)
  <2> DEFINE q == s.queue
             o == s.out
  <2>1. q \in Seq(Slot) /\ o \in Seq(Req) /\ (s.peer = "wolfssh" => Pairs(q, r, w, o))
    BY <1>1 DEF Sound
  <2>0. SUFFICES s.peer = "wolfssh" => q # <<>> /\ Pairs(Tail(q), Tail(r), w, o)
    OBVIOUS
  <2> HIDE DEF q, o
  <2> QED BY <2>1, PairsReply
<1>3. CASE s.queue = <<>>
  <2>1. t = s
    BY <1>3 DEF FwdRemoteReply
  <2>2. Sound(s, Tail(r), w)
    BY <1>2, <1>3 DEF Sound
  <2> QED BY <2>1, <2>2
<1>4. CASE s.queue # <<>>
  <2>1. /\ Same(d, t) /\ d.queue = Tail(s.queue) /\ d.out = s.out /\ d.peer = s.peer
        /\ d.pending = s.pending
    BY <1>4, ReplyGood
  <2> HIDE DEF t, d
  <2>2. /\ t.out = s.out /\ t.peer = s.peer /\ Ids(t.queue) = Ids(Tail(s.queue))
        /\ DOMAIN t.pending = DOMAIN s.pending
        /\ \A i \in DOMAIN s.pending : /\ t.pending[i].id = s.pending[i].id
                                       /\ t.pending[i].stage = s.pending[i].stage
                                       /\ t.pending[i].flushed = s.pending[i].flushed
    BY <2>1 DEF Same
  <2>3. Written(t)
    BY <2>2 DEF Sound, Written
  <2>4. Framed(t)
    <3>1. SUFFICES ASSUME NEW i \in DOMAIN t.pending, t.pending[i].stage = "sending",
                          ~t.pending[i].flushed
                   PROVE  \/ \E k \in DOMAIN t.out : t.out[k].id = t.pending[i].id
                          \/ t.pending[1].stage = "written"
      BY DEF Framed
    <3>2. 1 \in DOMAIN s.pending
      <4>1. DOMAIN s.pending = 1 .. Len(s.pending) /\ Len(s.pending) \in Nat
        BY SessionFields DEF Good
      <4> QED BY <4>1, <2>2
    <3> QED BY <2>2, <3>1, <3>2 DEF Sound, Framed
  <2>5. t.peer = "wolfssh" => Pairs(t.queue, Tail(r), w, t.out)
    BY <1>2, <2>2 DEF Pairs
  <2>6. Sound(t, Tail(r), w)
    BY <2>3, <2>4, <2>5 DEF Sound
  <2> QED BY <2>6 DEF t
<1> QED BY <1>3, <1>4

----------------------------------------------------------------------------
(* One lemma per action.                                                   *)

\* The constants, as the types use them.
LEMMA PortNames ==
    /\ Ports \subseteq Nat /\ 0 \in Nat
    /\ Addrs \subseteq Names /\ NoAddr \in Names
  BY ForwardingAssumption DEF Names

\* No forwarding, nothing sent: the invariant holds.
LEMMA InitHolds == Init => IInv
<1> SUFFICES ASSUME Init PROVE IInv
  OBVIOUS
<1>1. /\ DOMAIN ssh = Fields
      /\ ssh.heap = <<>> /\ ssh.list = <<>> /\ ssh.queue = <<>> /\ ssh.pending = <<>>
      /\ ssh.out = <<>>
  BY DEF Init, Fields
<1>2. DOMAIN ssh.heap = {} /\ Range(ssh.list) = {} /\ Held(ssh) = {}
  BY <1>1 DEF Range, Held
<1>3. IsSession(ssh)
  BY <1>1 DEF IsSession
<1>4. Registry(ssh, {}) /\ OneEach(ssh)
  BY <1>1, <1>2 DEF Registry, OneEach, Distinct
<1>5. Types
  <2>1. /\ log = <<>> /\ toServer = <<>> /\ toClient = <<>> /\ listeners = {} /\ dead = FALSE
    BY DEF Init
  <2>2. log \in Seq(LogEntry) /\ toServer \in Seq(Req) /\ toClient \in Seq(Msg)
    BY <2>1
  <2>3. DOMAIN ssh.heap \subseteq 1 .. Len(log) /\ listeners \subseteq [addr : Names, port : Nat]
    BY <1>2, <2>1
  <2> QED BY <2>1, <2>2, <2>3 DEF Types
<1>6. Framed(ssh) /\ Written(ssh)
  BY <1>1 DEF Framed, Written
<1>7. Pairs(ssh.queue, toClient, toServer, ssh.out)
  <2> DEFINE e == <<>>
  <2>1. e \in Seq(Msg) /\ e \in Seq(Req) /\ Ids(e) = <<>>
    BY DEF Ids
  <2>2. Replies(e) = <<>> /\ Wanted(e) = <<>>
    BY <2>1, RepliesIs, WantedIs, PickEmpty
  <2>3. Ids(e) = Replies(e) \o Wanted(e) \o Wanted(e)
    <3>1. e \o e = e
      BY <2>1, EmptyConcat
    <3> QED BY <2>1, <2>2, <3>1
  <2> QED BY <1>1, <2>3 DEF Init, Pairs
<1> QED BY <1>3, <1>4, <1>5, <1>6, <1>7 DEF IInv, Good, InOrder, Sound

\* The three calls: a request is prepared and framed.
LEMMA CallHolds ==
    ASSUME IInv, ~dead, MaySend(ssh), NEW u, NEW x \in Req, x.id = Len(log) + 1,
           Prepared(ssh, u, x.id, x.want), ssh' = Frame(u, x),
           NEW l \in LogEntry, log' = Append(log, l),
           UNCHANGED <<toServer, toClient, listeners, dead>>
    PROVE  IInv'
<1>1. Good(ssh, {}) /\ Types
  BY DEF IInv
<1>2. Good(ssh', {}) /\ ssh'.heap = u.heap
  <2> DEFINE t == Frame(u, x)
  <2>1. Good(t, {}) /\ t.heap = u.heap
    BY <1>1, AskGood
  <2> QED BY <2>1
<1>3. log' \in Seq(LogEntry) /\ Len(log') = Len(log) + 1 /\ Len(log) \in Nat
  BY <1>1 DEF Types
<1>4. DOMAIN ssh'.heap \subseteq 1 .. Len(log')
  <2>1. DOMAIN u.heap \subseteq DOMAIN ssh.heap \cup {Len(log) + 1}
    BY DEF Prepared
  <2>2. DOMAIN ssh.heap \subseteq 1 .. Len(log)
    BY <1>1 DEF Types
  <2> QED BY <1>2, <1>3, <2>1, <2>2
<1>5. Types'
  BY <1>1, <1>3, <1>4 DEF Types
<1>6. ASSUME "timeout" \notin SendFaults PROVE Sound(ssh', toClient', toServer')
  <2>1. Sound(ssh, toClient, toServer) /\ toClient \in Seq(Msg) /\ toServer \in Seq(Req)
    BY <1>6 DEF IInv, InOrder, Types
  <2>2. Sound(Frame(u, x), toClient, toServer)
    BY <1>1, <2>1, AskSound
  <2> QED BY <2>2
<1> QED BY <1>2, <1>5, <1>6 DEF IInv, InOrder

\* Setup and cancel differ in what FwdRemotePrepare() does.
LEMMA RemoteHolds ==
    ASSUME IInv, CanCall(ssh), NEW a \in Addrs, NEW p \in Ports \cup {0},
           NEW wantReply \in BOOLEAN, NEW isCancel \in BOOLEAN,
           NEW kind \in {"setup", "cancel"},
           ssh' = Frame(FwdRemotePrepare(ssh, Len(log) + 1, a, p, wantReply, isCancel),
                        Request(Len(log) + 1, kind, a, p, wantReply)),
           log' = Append(log, Logged(TRUE, a, p, wantReply, isCancel)),
           UNCHANGED <<toServer, toClient, listeners, dead>>
    PROVE  IInv'
<1> DEFINE n == Len(log) + 1
           u == FwdRemotePrepare(ssh, n, a, p, wantReply, isCancel)
           x == Request(n, kind, a, p, wantReply)
           l == Logged(TRUE, a, p, wantReply, isCancel)
<1>1. a \in Names /\ p \in Nat
  BY PortNames
<1>2. n \in Nat \ {None} /\ n \notin DOMAIN ssh.heap
  BY DEF IInv, Types, None
<1>3. x \in Req /\ x.id = n /\ x.want = wantReply
  <2> HIDE DEF n
  <2> QED BY <1>1, <1>2 DEF Request, Req
<1>4. l \in LogEntry
  BY <1>1 DEF Logged, LogEntry
<1>5. Prepared(ssh, u, n, wantReply)
  <2> HIDE DEF n
  <2>1. Good(ssh, {})
    BY DEF IInv
  <2> QED BY <1>1, <1>2, <2>1, PrepareGood
<1>6. ssh' = Frame(u, x) /\ log' = Append(log, l) /\ x.id = Len(log) + 1
  BY <1>3
<1>7. ~dead /\ MaySend(ssh)
  BY DEF CanCall
<1>8. Prepared(ssh, u, x.id, x.want)
  <2> HIDE DEF u, x, n
  <2> QED BY <1>3, <1>5
<1> HIDE DEF u, x, l, n
<1> QED BY <1>3, <1>4, <1>6, <1>7, <1>8, CallHolds

\* wolfSSH_FwdRemoteSetup() keeps the invariant.
LEMMA SetupHolds ==
    ASSUME IInv, NEW a \in Addrs, NEW p \in Ports \cup {0}, NEW wantReply \in BOOLEAN,
           wolfSSH_FwdRemoteSetup(a, p, wantReply)
    PROVE  IInv'
<1> DEFINE no == FALSE
           kind == "setup"
<1>1. no \in BOOLEAN /\ kind \in {"setup", "cancel"}
  OBVIOUS
<1>2. /\ CanCall(ssh)
      /\ ssh' = Frame(FwdRemotePrepare(ssh, Len(log) + 1, a, p, wantReply, no),
                      Request(Len(log) + 1, kind, a, p, wantReply))
      /\ log' = Append(log, Logged(TRUE, a, p, wantReply, no))
      /\ UNCHANGED <<toServer, toClient, listeners, dead>>
  BY DEF wolfSSH_FwdRemoteSetup
<1> HIDE DEF no, kind
<1> QED BY <1>1, <1>2, RemoteHolds

\* wolfSSH_FwdRemoteCancel() keeps the invariant.
LEMMA CancelHolds ==
    ASSUME IInv, NEW a \in Addrs, NEW p \in Ports, NEW wantReply \in BOOLEAN,
           wolfSSH_FwdRemoteCancel(a, p, wantReply)
    PROVE  IInv'
<1> DEFINE yes == TRUE
           kind == "cancel"
<1>1. yes \in BOOLEAN /\ kind \in {"setup", "cancel"} /\ p \in Ports \cup {0}
  OBVIOUS
<1>2. /\ CanCall(ssh)
      /\ ssh' = Frame(FwdRemotePrepare(ssh, Len(log) + 1, a, p, wantReply, yes),
                      Request(Len(log) + 1, kind, a, p, wantReply))
      /\ log' = Append(log, Logged(TRUE, a, p, wantReply, yes))
      /\ UNCHANGED <<toServer, toClient, listeners, dead>>
  BY DEF wolfSSH_FwdRemoteCancel
<1> HIDE DEF yes, kind
<1> QED BY <1>1, <1>2, RemoteHolds

\* wolfSSH_global_request() keeps the invariant.
LEMMA GlobalRequestHolds ==
    ASSUME IInv, wolfSSH_global_request
    PROVE  IInv'
<1> DEFINE n == Len(log) + 1
           u == FwdReplyPrepare(ssh, n)
           x == Request(n, "app", NoAddr, 0, TRUE)
           l == Logged(FALSE, NoAddr, 0, TRUE, FALSE)
<1>1. n \in Nat /\ Good(ssh, {})
  BY DEF IInv, Types
<1>2. x \in Req /\ x.id = n /\ x.want = TRUE
  <2> HIDE DEF n
  <2> QED BY <1>1, PortNames DEF Request, Req
<1>3. l \in LogEntry
  BY PortNames DEF Logged, LogEntry
<1>4. Prepared(ssh, u, n, TRUE)
  <2> HIDE DEF n
  <2> QED BY <1>1, ReplyPrepareGood
<1>5. /\ ~dead /\ MaySend(ssh) /\ ssh' = Frame(u, x) /\ log' = Append(log, l)
      /\ UNCHANGED <<toServer, toClient, listeners, dead>>
  BY DEF wolfSSH_global_request, CanCall
<1>6. Prepared(ssh, u, x.id, x.want) /\ x.id = Len(log) + 1
  <2>1. n = Len(log) + 1
    OBVIOUS
  <2> HIDE DEF u, x, n
  <2> QED BY <1>2, <1>4, <2>1
<1> HIDE DEF u, x, l, n
<1> QED BY <1>2, <1>3, <1>5, <1>6, CallHolds

\* Steps that leave the history and the server alone.
LEMMA SessionStep ==
    ASSUME IInv, Good(ssh', {}), DOMAIN ssh'.heap \subseteq DOMAIN ssh.heap,
           Len(log') = Len(log), log' \in Seq(LogEntry),
           toServer' \in Seq(Req), toClient' \in Seq(Msg),
           UNCHANGED listeners, dead' \in BOOLEAN,
           "timeout" \notin SendFaults => InOrder'
    PROVE  IInv'
<1>1. Types'
  BY DEF IInv, Types
<1> QED BY <1>1 DEF IInv

\* What the invariant says of the streams.
LEMMA WireTypes ==
    ASSUME IInv
    PROVE  /\ Good(ssh, {})
           /\ log \in Seq(LogEntry) /\ toServer \in Seq(Req) /\ toClient \in Seq(Msg)
           /\ dead \in BOOLEAN
           /\ OnTheWire = Wire(ssh, toServer) /\ OnTheWire \in Seq(Req)
           /\ ("timeout" \notin SendFaults /\ ~dead) => Sound(ssh, toClient, toServer)
<1>1. Good(ssh, {}) /\ Types
  BY DEF IInv
<1>2. ssh.out \in Seq(Req) /\ toServer \in Seq(Req)
  BY <1>1, SessionFields DEF Good, Types
<1>3. OnTheWire = Wire(ssh, toServer)
  BY DEF OnTheWire, Wire
<1>4. OnTheWire \in Seq(Req)
  BY <1>2 DEF OnTheWire
<1> QED BY <1>1, <1>3, <1>4 DEF IInv, InOrder, Types

\* The send callback writes what is framed.
LEMMA WritesHolds ==
    ASSUME IInv, CallbackWrites
    PROVE  IInv'
<1> DEFINE e == <<>>
           u == [ssh EXCEPT !.out = e]
           t == AtStage(u, "written")
<1>1. /\ Good(ssh, {}) /\ ~dead /\ ssh.pending # <<>> /\ Head(ssh.pending).stage = "sending"
      /\ toServer' = OnTheWire
      /\ ssh' = [ssh EXCEPT !.out = <<>>, !.pending[1].stage = "written"]
      /\ UNCHANGED <<toClient, listeners, dead, log>>
  BY DEF IInv, CallbackWrites
<1>2. ssh' = t
  <2>1. DOMAIN ssh = Fields
    BY <1>1 DEF Good, IsSession
  <2>2. u.pending = ssh.pending
    BY <2>1 DEF Fields
  <2> QED BY <1>1, <2>1, <2>2 DEF AtStage
<1>3. e \in Seq(Req) /\ e = <<>>
  OBVIOUS
<1> HIDE DEF e
<1>4. /\ Good(u, {}) /\ u.heap = ssh.heap /\ u.queue = ssh.queue /\ u.pending = ssh.pending
      /\ u.out = e /\ u.peer = ssh.peer
  <2>1. e \in Seq(Req)
    BY <1>3
  <2> QED BY <1>1, <2>1, OutChange
<1> HIDE DEF u
<1>5. /\ Good(t, {}) /\ t.heap = u.heap /\ t.queue = u.queue /\ t.out = u.out /\ t.peer = u.peer
      /\ DOMAIN t.pending = DOMAIN u.pending /\ t.pending[1].stage = "written"
      /\ \A i \in DOMAIN u.pending : i # 1 => t.pending[i] = u.pending[i]
  <2> DEFINE stage == "written"
  <2>1. stage \in {"written", "highwater"} /\ u.pending # <<>>
    BY <1>1, <1>4
  <2>0. SUFFICES LET v == AtStage(u, stage)
                 IN  /\ Good(v, {})
                     /\ v.heap = u.heap /\ v.queue = u.queue /\ v.out = u.out /\ v.peer = u.peer
                     /\ DOMAIN v.pending = DOMAIN u.pending /\ v.pending[1].stage = stage
                     /\ \A i \in DOMAIN u.pending : i # 1 => v.pending[i] = u.pending[i]
    OBVIOUS
  <2> HIDE DEF stage
  <2> QED BY <1>4, <2>1, StageGood
<1> HIDE DEF t
<1>6. ASSUME "timeout" \notin SendFaults PROVE InOrder'
  <2>1. ssh.pending[1].stage # "written"
    <3>1. Head(ssh.pending) = ssh.pending[1]
      BY <1>1, SessionFields DEF Good
    <3> QED BY <1>1, <3>1
  <2>2. Sound(ssh, toClient, toServer) /\ toClient \in Seq(Msg) /\ toServer \in Seq(Req)
        /\ toServer' = Wire(ssh, toServer)
    BY <1>1, <1>6, WireTypes
  <2>3. Sound(t, toClient, Wire(ssh, toServer))
    BY <1>1, <1>3, <1>4, <1>5, <2>1, <2>2, WriteSound
  <2> QED BY <1>1, <1>2, <2>2, <2>3 DEF InOrder
<1> QED BY <1>1, <1>2, <1>4, <1>5, <1>6, WireTypes, SessionStep

Updated(r, q, k, v) == r = [q EXCEPT ![k] = v]

\* A log with one entry changed is a log.
LEMMA UpdatedSeq ==
    ASSUME NEW S, NEW q \in Seq(S), NEW k, NEW v \in S,
           NEW r, Updated(r, q, k, v)
    PROVE  r \in Seq(S) /\ Len(r) = Len(q)
<1>1. DOMAIN q = 1 .. Len(q) /\ Len(q) \in Nat /\ \A i \in DOMAIN q : q[i] \in S
  OBVIOUS
<1>2. r \in [1 .. Len(q) -> S]
  BY <1>1 DEF Updated
<1>3. r \in Seq(S)
  BY <1>1, <1>2
<1>4. Len(r) = Len(q)
  BY <1>1, <1>2, <1>3
<1>5. QED
  BY <1>3, <1>4

\* FwdPendingCommit() keeps one owner each and registers nothing new.
LEMMA CommitHeap ==
    ASSUME NEW s, Good(s, {}), s.pending # <<>>
    PROVE  /\ Good(FwdPendingCommit(s), {})
           /\ DOMAIN FwdPendingCommit(s).heap \subseteq DOMAIN s.heap
<1> DEFINE u == FwdPendingPop(s)
           t == FwdPendingCommit(s)
<1>1. Good(t, {}) /\ Same(u, t)
  BY CommitGood
<1>2. u.heap = s.heap
  BY PopGood
<1> HIDE DEF u, t
<1>3. DOMAIN t.heap \subseteq DOMAIN s.heap
  BY <1>1, <1>2 DEF Same
<1> QED BY <1>1, <1>3 DEF t

\* A send returns and its request is committed, or reaches the high water mark.
LEMMA ReturnsHolds ==
    ASSUME IInv, CallbackReturns
    PROVE  IInv'
<1> DEFINE d == Drained(ssh)
           c == FwdPendingCommit(d)
           h == AtStage(d, "highwater")
<1>1. /\ Good(ssh, {}) /\ ssh.pending # <<>> /\ Head(ssh.pending).stage = "written"
      /\ ssh' = c \/ ssh' = h
      /\ UNCHANGED <<toServer, toClient, listeners, dead, log>>
  BY DEF IInv, CallbackReturns, AtStage
<1>2. /\ ssh.pending[1].stage = "written" /\ 1 \in DOMAIN ssh.pending
      /\ DOMAIN ssh.pending = 1 .. Len(ssh.pending)
  <2>1. Head(ssh.pending) = ssh.pending[1] /\ 1 \in DOMAIN ssh.pending
    BY <1>1, SessionFields DEF Good
  <2> QED BY <1>1, <2>1, SessionFields DEF Good
<1>3. /\ Good(d, {}) /\ d.heap = ssh.heap /\ d.peer = ssh.peer /\ d.out = <<>>
      /\ DOMAIN d.pending = DOMAIN ssh.pending
      /\ \A i \in DOMAIN ssh.pending :
            d.pending[i].flushed /\ d.pending[i].stage = ssh.pending[i].stage
  BY <1>1, DrainedGood
<1>4. ("timeout" \notin SendFaults /\ ~dead) => Sound(d, toClient, toServer)
  BY <1>1, <1>2, WireTypes, ReturnSound
<1> HIDE DEF d
<1>5. d.pending # <<>>
  BY <1>2, <1>3
<1>6. /\ Good(c, {}) /\ DOMAIN c.heap \subseteq DOMAIN ssh.heap
      /\ Sound(d, toClient, toServer) => Sound(c, toClient, toServer)
  <2>1. \A i \in DOMAIN d.pending : d.pending[i].flushed
    BY <1>3
  <2>2. Good(c, {}) /\ DOMAIN c.heap \subseteq DOMAIN d.heap
    BY <1>3, <1>5, CommitHeap
  <2>3. Sound(d, toClient, toServer) => Sound(c, toClient, toServer)
    BY <1>3, <1>5, <2>1, CommitSound
  <2> QED BY <1>3, <2>2, <2>3
<1>7. /\ Good(h, {}) /\ DOMAIN h.heap \subseteq DOMAIN ssh.heap
      /\ Sound(d, toClient, toServer) => Sound(h, toClient, toServer)
  <2> DEFINE stage == "highwater"
             v == AtStage(d, stage)
  <2>1. stage \in {"written", "highwater"} /\ stage = "highwater" /\ h = v
    OBVIOUS
  <2> HIDE DEF h, stage
  <2>2. /\ Good(v, {}) /\ v.heap = d.heap /\ v.queue = d.queue /\ v.out = d.out /\ v.peer = d.peer
        /\ DOMAIN v.pending = DOMAIN d.pending /\ v.pending[1].stage = stage
        /\ \A i \in DOMAIN d.pending : i # 1 => v.pending[i] = d.pending[i]
        /\ \A i \in DOMAIN d.pending : v.pending[i].flushed = d.pending[i].flushed
    <3>1. stage \in {"written", "highwater"}
      BY <2>1
    <3> QED BY <1>3, <1>5, <3>1, StageGood
  <2> HIDE DEF v
  <2>3. \A i \in DOMAIN v.pending : v.pending[i].flushed
    BY <1>3, <2>2
  <2>4. Framed(v)
    BY <2>3 DEF Framed
  <2>5. Written(d) => Written(v)
    BY <1>3, <2>1, <2>2 DEF Written
  <2>6. Sound(d, toClient, toServer) => Sound(v, toClient, toServer)
    BY <2>2, <2>4, <2>5 DEF Sound
  <2> QED BY <1>3, <2>1, <2>2, <2>6
<1> HIDE DEF c, h
<1>8. /\ Good(ssh', {}) /\ DOMAIN ssh'.heap \subseteq DOMAIN ssh.heap
      /\ Sound(d, toClient, toServer) => Sound(ssh', toClient, toServer)
  BY <1>1, <1>6, <1>7
<1>9. "timeout" \notin SendFaults => InOrder'
  BY <1>1, <1>4, <1>8 DEF InOrder
<1> QED BY <1>1, <1>8, <1>9, WireTypes, SessionStep

\* The high water callback returns, or the send would block: the request is
\* committed as it is.
LEMMA CommitHolds ==
    ASSUME IInv, ssh.pending # <<>>, Head(ssh.pending).stage # "written",
           ssh' = FwdPendingCommit(ssh),
           UNCHANGED <<toServer, toClient, listeners, dead, log>>
    PROVE  IInv'
<1>1. Good(ssh, {})
  BY DEF IInv
<1>2. Good(ssh', {}) /\ DOMAIN ssh'.heap \subseteq DOMAIN ssh.heap
  BY <1>1, CommitHeap
<1>3. ssh.pending[1].stage # "written"
  <2>1. Head(ssh.pending) = ssh.pending[1]
    BY <1>1, SessionFields DEF Good
  <2> QED BY <2>1
<1>4. Sound(ssh, toClient, toServer) => Sound(ssh', toClient, toServer)
  BY <1>1, <1>3, CommitSound
<1>5. "timeout" \notin SendFaults => InOrder'
  BY <1>4, WireTypes DEF InOrder
<1> QED BY <1>2, <1>5, WireTypes, SessionStep

\* A send fails and its request is given up.
LEMMA FailsHolds ==
    ASSUME IInv, NEW fault \in SendFaults, CallbackFails(fault)
    PROVE  IInv'
<1> DEFINE e == <<>>
           pend == Head(ssh.pending)
           cleared == [ssh EXCEPT !.out = e]
           left == IF fault = "general" THEN cleared ELSE ssh
<1>1. /\ Good(ssh, {}) /\ ssh.pending # <<>> /\ pend.stage = "sending"
      /\ dead' = (dead \/ (fault = "general" /\ ssh.out # <<>>))
      /\ IF pend.flushed
         THEN ssh' = FwdPendingCommit(left) /\ UNCHANGED log
         ELSE /\ ssh' = FwdPendingDiscard(left)
              /\ log' = [log EXCEPT ![pend.id].givenUp = TRUE]
      /\ UNCHANGED <<toServer, toClient, listeners>>
  BY DEF IInv, CallbackFails
<1>2. pend = ssh.pending[1] /\ 1 \in DOMAIN ssh.pending
  BY <1>1, SessionFields DEF Good
<1>3. e \in Seq(Req) /\ e = <<>>
  OBVIOUS
<1> HIDE DEF e
<1>4. /\ Good(cleared, {}) /\ cleared.heap = ssh.heap /\ cleared.queue = ssh.queue
      /\ cleared.pending = ssh.pending /\ cleared.out = e /\ cleared.peer = ssh.peer
  <2>1. e \in Seq(Req)
    BY <1>3
  <2> QED BY <1>1, <2>1, OutChange
<1> HIDE DEF cleared
<1>5. /\ Good(left, {}) /\ left.heap = ssh.heap /\ left.queue = ssh.queue
      /\ left.pending = ssh.pending /\ left.peer = ssh.peer
      /\ left.out = ssh.out \/ (fault = "general" /\ left.out = <<>>)
  BY <1>1, <1>3, <1>4
<1> HIDE DEF left, pend
<1>6. dead' \in BOOLEAN /\ toServer \in Seq(Req) /\ toClient \in Seq(Msg) /\ log \in Seq(LogEntry)
  BY <1>1, WireTypes
<1>7. CASE pend.flushed
  <2>1. ssh' = FwdPendingCommit(left) /\ UNCHANGED log
    BY <1>1, <1>7
  <2>2. left.pending # <<>> /\ left.pending[1].stage # "written"
    BY <1>1, <1>2, <1>5
  <2>3. Good(ssh', {}) /\ DOMAIN ssh'.heap \subseteq DOMAIN ssh.heap
    BY <1>5, <2>1, <2>2, CommitHeap
  <2>4. ASSUME "timeout" \notin SendFaults, ~dead' PROVE Sound(ssh', toClient', toServer')
    <3>1. ~dead /\ left.out = ssh.out
      BY <1>1, <1>5, <2>4
    <3>2. Sound(ssh, toClient, toServer)
      BY <2>4, <3>1, WireTypes
    <3>3. Sound(left, toClient, toServer)
      BY <1>5, <3>1, <3>2 DEF Sound, Framed, Written
    <3>4. Sound(ssh', toClient, toServer)
      BY <1>5, <2>1, <2>2, <3>3, CommitSound
    <3> QED BY <1>1, <3>4
  <2>5. "timeout" \notin SendFaults => InOrder'
    BY <2>4 DEF InOrder
  <2> QED BY <1>1, <1>6, <2>1, <2>3, <2>5, SessionStep
<1>8. CASE ~pend.flushed
  <2>1. ssh' = FwdPendingDiscard(left) /\ log' = [log EXCEPT ![pend.id].givenUp = TRUE]
    BY <1>1, <1>8
  <2>2. left.pending # <<>>
    BY <1>1, <1>5
  <2>3. Good(ssh', {}) /\ DOMAIN ssh'.heap \subseteq DOMAIN ssh.heap
    <3> DEFINE t == FwdPendingDiscard(left)
    <3>1. Good(t, {}) /\ DOMAIN t.heap \subseteq DOMAIN left.heap
      BY <1>5, <2>2, DiscardGood
    <3> QED BY <1>5, <2>1, <3>1
  <2>4. log' \in Seq(LogEntry) /\ Len(log') = Len(log)
    <3> DEFINE k == pend.id
    <3>1. log' = [log EXCEPT ![k] = [log[k] EXCEPT !.givenUp = TRUE]]
      BY <2>1
    <3>2. k \in DOMAIN log => [log[k] EXCEPT !.givenUp = TRUE] \in LogEntry
      <4>1. k \in DOMAIN log => log[k] \in LogEntry
        BY <1>6
      <4> HIDE DEF k
      <4> QED BY <4>1 DEF LogEntry
    <3> DEFINE v == [log[k] EXCEPT !.givenUp = TRUE]
    <3>3. Updated(log', log, k, v) /\ (k \in DOMAIN log => v \in LogEntry)
      BY <3>1, <3>2 DEF Updated
    <3> HIDE DEF k, v
    <3>4. CASE k \in DOMAIN log
      BY <1>6, <3>3, <3>4, UpdatedSeq
    <3>5. CASE k \notin DOMAIN log
      <4>1. log' = log
        BY <1>6, <3>3, <3>5 DEF Updated
      <4> QED BY <1>6, <4>1
    <3> QED BY <3>4, <3>5
  <2>5. ASSUME "timeout" \notin SendFaults PROVE dead'
    <3>1. SUFFICES ASSUME ~dead, ssh.out = <<>> PROVE FALSE
      <4>1. fault = "general"
        BY <2>5, ForwardingAssumption
      <4> QED BY <1>1, <4>1
    <3>2. Framed(ssh)
      BY <2>5, <3>1, WireTypes DEF Sound
    <3>3. /\ ssh.pending[1].stage = "sending" /\ ~ssh.pending[1].flushed
      BY <1>1, <1>2, <1>8
    <3> QED BY <1>2, <3>1, <3>2, <3>3 DEF Framed
  <2>6. "timeout" \notin SendFaults => InOrder'
    BY <2>5 DEF InOrder
  <2> QED BY <1>1, <1>6, <2>3, <2>4, <2>6, SessionStep
<1> QED BY <1>7, <1>8

\* A flush, whatever the client reads with it.
LEMMA DrainHolds ==
    ASSUME IInv, ~dead, toServer' = OnTheWire, ssh' = Drained(ssh),
           UNCHANGED <<listeners, dead, log>>, toClient' \in Seq(Msg),
           Sound(ssh, toClient, toServer) => Sound(ssh, toClient', toServer)
    PROVE  IInv'
<1>1. Good(ssh, {})
  BY DEF IInv
<1>2. Good(ssh', {}) /\ ssh'.heap = ssh.heap
  BY <1>1, DrainedGood
<1>3. Sound(ssh, toClient, toServer) => Sound(ssh', toClient', toServer')
  <2>1. toServer \in Seq(Req) /\ toServer' = Wire(ssh, toServer)
    BY WireTypes
  <2>2. Sound(ssh, toClient', toServer) => Sound(Drained(ssh), toClient', Wire(ssh, toServer))
    BY <1>1, <2>1, DrainSound
  <2> QED BY <2>1, <2>2
<1>4. "timeout" \notin SendFaults => InOrder'
  BY <1>3, WireTypes DEF InOrder
<1> QED BY <1>2, <1>4, WireTypes, SessionStep

\* Another send, or wolfSSH_worker(), flushes what is framed.
LEMMA FlushHolds ==
    ASSUME IInv, Flush
    PROVE  IInv'
<1>1. /\ ~dead /\ toServer' = OnTheWire /\ ssh' = Drained(ssh)
      /\ UNCHANGED <<toClient, listeners, dead, log>>
  BY DEF Flush
<1>2. toClient' \in Seq(Msg)
  BY <1>1, WireTypes
<1> QED BY <1>1, <1>2, DrainHolds

\* A message that is no reply is handled.
LEMMA ReceiveOtherHolds ==
    ASSUME IInv, ReceiveOther
    PROVE  IInv'
<1>1. /\ ~dead /\ toClient # <<>> /\ Head(toClient).kind # "reply" /\ toClient' = Tail(toClient)
      /\ \/ toServer' = OnTheWire /\ ssh' = Drained(ssh)
         \/ UNCHANGED <<toServer, ssh>>
      /\ UNCHANGED <<listeners, dead, log>>
  BY DEF ReceiveOther
<1>2. toClient \in Seq(Msg) /\ toClient' \in Seq(Msg)
  BY <1>1, WireTypes
<1>3. Sound(ssh, toClient, toServer) => Sound(ssh, toClient', toServer)
  <2> DEFINE q == ssh.queue
             o == ssh.out
  <2>1. Pairs(q, toClient, toServer, o) => Pairs(q, Tail(toClient), toServer, o)
    <3> HIDE DEF q, o
    <3> QED BY <1>1, <1>2, PairsOther
  <2> QED BY <1>1, <2>1 DEF Sound
<1>4. CASE toServer' = OnTheWire /\ ssh' = Drained(ssh)
  BY <1>1, <1>2, <1>3, <1>4, DrainHolds
<1>5. CASE UNCHANGED <<toServer, ssh>>
  <2>1. "timeout" \notin SendFaults => InOrder'
    BY <1>1, <1>3, <1>5, WireTypes DEF InOrder
  <2>2. Good(ssh', {}) /\ DOMAIN ssh'.heap \subseteq DOMAIN ssh.heap
    BY <1>5 DEF IInv
  <2> QED BY <1>1, <1>2, <1>5, <2>1, <2>2, WireTypes, SessionStep
<1> QED BY <1>1, <1>4, <1>5

\* A reply settles the oldest slot.
LEMMA ReceiveReplyHolds ==
    ASSUME IInv, ReceiveReply
    PROVE  IInv'
<1> DEFINE m == Head(toClient)
           ok == m.success
           p == m.port
           k == m.id
           t == FwdRemoteReply(ssh, ok, p)
<1>1. /\ ~dead /\ toClient # <<>> /\ m.kind = "reply" /\ toClient' = Tail(toClient)
      /\ ssh' = t
      /\ log' = IF k = None THEN log
                ELSE [log EXCEPT ![k].heard = TRUE, ![k].success = ok,
                                 ![k].port = IF @ = 0 THEN p ELSE @]
      /\ UNCHANGED <<toServer, listeners, dead>>
  BY DEF ReceiveReply
<1>2. /\ toClient \in Seq(Msg) /\ toClient' \in Seq(Msg) /\ toServer \in Seq(Req)
      /\ Good(ssh, {}) /\ log \in Seq(LogEntry) /\ m \in Msg
  BY <1>1, WireTypes
<1>3. ok \in BOOLEAN /\ p \in Nat
  BY <1>2 DEF Msg
<1> HIDE DEF ok, p, k
<1>4. Good(t, {}) /\ DOMAIN t.heap \subseteq DOMAIN ssh.heap
  <2>1. CASE ssh.queue = <<>>
    <3>1. t = ssh
      BY <2>1 DEF FwdRemoteReply
    <3> QED BY <1>2, <3>1
  <2>2. CASE ssh.queue # <<>>
    <3> DEFINE d == [ssh EXCEPT !.queue = Tail(@)]
    <3>1. Good(t, {}) /\ Same(d, t) /\ d.heap = ssh.heap
      BY <1>2, <1>3, <2>2, ReplyGood
    <3> HIDE DEF t, d
    <3> QED BY <3>1 DEF Same
  <2> QED BY <2>1, <2>2
<1>5. Sound(ssh, toClient, toServer) => Sound(t, Tail(toClient), toServer)
  BY <1>1, <1>2, <1>3, ReplySound
<1>6. log' \in Seq(LogEntry) /\ Len(log') = Len(log)
  <2>1. CASE k = None
    BY <1>1, <1>2, <2>1
  <2>2. CASE k # None /\ k \notin DOMAIN log
    <3>1. log' = log
      BY <1>1, <1>2, <2>2
    <3> QED BY <1>2, <3>1
  <2>3. CASE k # None /\ k \in DOMAIN log
    <3> DEFINE r == log[k]
               v == [r EXCEPT !.heard = TRUE, !.success = ok, !.port = IF r.port = 0 THEN p ELSE r.port]
    <3>1. r \in LogEntry
      BY <1>2, <2>3
    <3>2. log' = [log EXCEPT ![k] = v]
      BY <1>1, <1>2, <2>3, <3>1 DEF LogEntry
    <3> HIDE DEF r
    <3>3. v \in LogEntry
      BY <1>3, <3>1 DEF LogEntry
    <3> HIDE DEF v
    <3>4. Updated(log', log, k, v)
      BY <3>2 DEF Updated
    <3> QED BY <1>2, <3>3, <3>4, UpdatedSeq
  <2> QED BY <2>1, <2>2, <2>3
<1> HIDE DEF t, m
<1>7. "timeout" \notin SendFaults => InOrder'
  BY <1>1, <1>5, WireTypes DEF InOrder
<1>8. dead' \in BOOLEAN /\ toServer' \in Seq(Req) /\ UNCHANGED listeners
  BY <1>1, WireTypes
<1> QED BY <1>1, <1>2, <1>4, <1>6, <1>7, <1>8, SessionStep

\* SshResourceFree() leaves nothing registered.
LEMMA FreeHolds ==
    ASSUME IInv, Free
    PROVE  IInv'
<1> DEFINE t == FwdRemoteFreeList(ssh)
<1>1. /\ ssh.pending = <<>> /\ dead' = TRUE /\ ssh' = t /\ Good(ssh, {})
      /\ UNCHANGED <<toServer, toClient, listeners, log>>
  BY DEF Free, IInv
<1>2. Good(t, {}) /\ DOMAIN t.heap \subseteq DOMAIN ssh.heap
  BY <1>1, FreeListGood
<1> HIDE DEF t
<1>3. "timeout" \notin SendFaults => InOrder'
  BY <1>1 DEF InOrder
<1> QED BY <1>1, <1>2, <1>3, WireTypes, SessionStep

Binds == [addr : Names, port : Nat]

\* Whatever the server decides, its listeners are binds.
LEMMA VerdictTypes ==
    ASSUME NEW l, l \subseteq Binds, NEW m \in Req, NEW v \in Verdicts(l, m)
    PROVE  v.l \subseteq Binds /\ v.success \in BOOLEAN /\ v.port \in Nat
<1>1. m.addr \in Names /\ m.port \in Nat
  BY DEF Req
<1>2. \A p \in Nat : Bind(m.addr, p) \in Binds
  BY <1>1 DEF Bind, Binds
<1>3. (\E ok \in BOOLEAN : v = DoGlobalRequestAny(l, m, ok))
      \/ (\E cb \in CallbackAnswers : v = DoGlobalRequestFwd(l, m, cb))
  BY DEF Verdicts
<1>4. CASE \E ok \in BOOLEAN : v = DoGlobalRequestAny(l, m, ok)
  <2>1. PICK ok \in BOOLEAN : v = DoGlobalRequestAny(l, m, ok)
    BY <1>4
  <2> DEFINE b == Bind(m.addr, m.port)
             set == CASE ok /\ m.kind = "setup"  -> l \cup {b}
                      [] ok /\ m.kind = "cancel" -> l \ {b}
                      [] OTHER -> l
  <2>2. b \in Binds
    BY <1>1, <1>2
  <2>3. v = [l |-> set, success |-> ok, port |-> 0]
    BY <2>1 DEF DoGlobalRequestAny
  <2> HIDE DEF b
  <2>4. set \subseteq Binds
    BY <2>2
  <2> HIDE DEF set
  <2> QED BY <2>3, <2>4
<1>5. CASE \E cb \in CallbackAnswers : v = DoGlobalRequestFwd(l, m, cb)
  <2>1. PICK cb \in CallbackAnswers : v = DoGlobalRequestFwd(l, m, cb)
    BY <1>5
  <2>2. cb.port \in Nat
    BY PortNames DEF CallbackAnswers, Callback
  <2> DEFINE b == Bind(m.addr, m.port)
             c == Bind(m.addr, cb.port)
  <2>3. b \in Binds /\ c \in Binds
    BY <1>1, <1>2, <2>2
  <2>4. \/ v = [l |-> l, success |-> FALSE, port |-> 0]
        \/ v = [l |-> l \ {b}, success |-> TRUE, port |-> 0]
        \/ v = [l |-> l \cup {b}, success |-> TRUE, port |-> 0]
        \/ v = [l |-> l \cup {c}, success |-> TRUE, port |-> cb.port]
    BY <2>1 DEF DoGlobalRequestFwd
  <2> DEFINE less == l \ {b}
             more == l \cup {b}
             other == l \cup {c}
  <2>5. less \subseteq Binds /\ more \subseteq Binds /\ other \subseteq Binds
    BY <2>3
  <2> HIDE DEF b, c, less, more, other
  <2>6. CASE v = [l |-> l, success |-> FALSE, port |-> 0]
    BY <2>6
  <2>7. CASE v = [l |-> less, success |-> TRUE, port |-> 0]
    BY <2>5, <2>7
  <2>8. CASE v = [l |-> more, success |-> TRUE, port |-> 0]
    BY <2>5, <2>8
  <2>9. CASE v = [l |-> other, success |-> TRUE, port |-> cb.port]
    BY <2>2, <2>5, <2>9
  <2> QED BY <2>4, <2>6, <2>7, <2>8, <2>9 DEF less, more, other
<1> QED BY <1>3, <1>4, <1>5

\* Steps of the peer leave the client's session alone.
LEMMA PeerStep ==
    ASSUME IInv, UNCHANGED <<ssh, dead, log>>,
           toServer' \in Seq(Req), toClient' \in Seq(Msg), listeners' \subseteq Binds,
           (ssh.peer = "wolfssh" /\ Pairs(ssh.queue, toClient, toServer, ssh.out))
             => (ssh.peer = "wolfssh" => Pairs(ssh.queue, toClient', toServer', ssh.out))
    PROVE  IInv'
<1>1. Good(ssh', {}) /\ Types'
  BY DEF IInv, Types, Binds
<1>2. Sound(ssh, toClient, toServer) => Sound(ssh', toClient', toServer')
  BY DEF Sound
<1>3. "timeout" \notin SendFaults => InOrder'
  BY <1>2 DEF IInv, InOrder
<1> QED BY <1>1, <1>3 DEF IInv

\* The server takes a request and answers it if it wants a reply.
LEMMA ServeHolds ==
    ASSUME IInv, DoGlobalRequest
    PROVE  IInv'
<1> DEFINE m == Head(toServer)
<1>1. PICK v \in Verdicts(listeners, m) :
        /\ listeners' = v.l
        /\ toClient' = IF m.want
                       THEN Append(toClient, FromPeer("reply", m.id, v.success, NoAddr, v.port))
                       ELSE toClient
  BY DEF DoGlobalRequest
<1>2. toServer # <<>> /\ toServer' = Tail(toServer) /\ UNCHANGED <<ssh, dead, log>>
  BY DEF DoGlobalRequest
<1>3. /\ toServer \in Seq(Req) /\ toClient \in Seq(Msg) /\ listeners \subseteq Binds /\ Good(ssh, {})
  BY DEF IInv, Types, Binds
<1>4. m \in Req /\ toServer' \in Seq(Req)
  BY <1>2, <1>3
<1>5. v.l \subseteq Binds /\ v.success \in BOOLEAN /\ v.port \in Nat
  <2> HIDE DEF m
  <2> QED BY <1>1, <1>3, <1>4, VerdictTypes
<1> DEFINE a == FromPeer("reply", m.id, v.success, NoAddr, v.port)
<1>6. a \in Msg /\ a.kind = "reply" /\ a.id = m.id
  <2>1. m.id \in Nat /\ NoAddr \in Names
    BY <1>4, PortNames DEF Req
  <2> HIDE DEF m
  <2> QED BY <1>5, <2>1 DEF FromPeer, Msg
<1>7. toClient' = IF m.want THEN Append(toClient, a) ELSE toClient
  BY <1>1
<1> HIDE DEF a
<1>8. toClient' \in Seq(Msg)
  BY <1>3, <1>6, <1>7
<1>9. Pairs(ssh.queue, toClient, toServer, ssh.out)
        => Pairs(ssh.queue, toClient', toServer', ssh.out)
  <2> DEFINE q == ssh.queue
             o == ssh.out
  <2>1. o \in Seq(Req)
    BY <1>3, SessionFields DEF Good
  <2>0. SUFFICES Pairs(q, toClient, toServer, o) => Pairs(q, toClient', toServer', o)
    OBVIOUS
  <2> HIDE DEF q, o
  <2>2. ASSUME Pairs(q, toClient, toServer, o)
        PROVE  /\ m.want => Pairs(q, Append(toClient, a), Tail(toServer), o)
               /\ ~m.want => Pairs(q, toClient, Tail(toServer), o)
    BY <1>2, <1>3, <1>6, <2>1, <2>2, PairsServe
  <2> QED BY <1>2, <1>7, <2>2
<1> QED BY <1>1, <1>2, <1>4, <1>5, <1>8, <1>9, PeerStep

\* The server opens a channel for a listener.
LEMMA OpenHolds ==
    ASSUME IInv, OpenForwarded
    PROVE  IInv'
<1>1. PICK b \in listeners :
        toClient' = Append(toClient, FromPeer("open", None, FALSE, b.addr, b.port))
  BY DEF OpenForwarded
<1>2. UNCHANGED <<ssh, dead, log, toServer, listeners>>
  BY DEF OpenForwarded
<1>3. /\ toServer \in Seq(Req) /\ toClient \in Seq(Msg) /\ listeners \subseteq Binds
  BY DEF IInv, Types, Binds
<1> DEFINE a == FromPeer("open", None, FALSE, b.addr, b.port)
<1>4. a \in Msg /\ a.kind # "reply"
  <2>1. b.addr \in Names /\ b.port \in Nat
    BY <1>1, <1>3 DEF Binds
  <2> QED BY <2>1 DEF FromPeer, Msg, None
<1>5. toClient' = Append(toClient, a)
  BY <1>1
<1> HIDE DEF a
<1>6. toClient' \in Seq(Msg)
  BY <1>3, <1>4, <1>5
<1>7. Pairs(ssh.queue, toClient, toServer, ssh.out)
        => Pairs(ssh.queue, toClient', toServer', ssh.out)
  BY <1>2, <1>3, <1>4, <1>5, PairsOpen
<1> QED BY <1>2, <1>3, <1>6, <1>7, PeerStep

\* The peer sends a message nobody asked for.
LEMMA StrayHolds ==
    ASSUME IInv, Stray
    PROVE  IInv'
<1>1. PICK kind \in {"reply", "request"}, ok \in BOOLEAN, p \in Ports \cup {0} :
        toClient' = Append(toClient, FromPeer(kind, None, ok, NoAddr, p))
  BY DEF Stray
<1>2. UNCHANGED <<ssh, dead, log, toServer, listeners>> /\ ssh.peer = "any"
  BY DEF Stray
<1>3. /\ toServer \in Seq(Req) /\ toClient \in Seq(Msg) /\ listeners \subseteq Binds
  BY DEF IInv, Types, Binds
<1>4. FromPeer(kind, None, ok, NoAddr, p) \in Msg
  BY PortNames DEF FromPeer, Msg, None
<1>5. toClient' \in Seq(Msg)
  BY <1>1, <1>3, <1>4
<1> QED BY <1>2, <1>3, <1>5, PeerStep

\* Nothing happens.
LEMMA StutterHolds ==
    ASSUME IInv, UNCHANGED vars
    PROVE  IInv'
  BY DEF IInv, vars, Types, InOrder

\* Every step keeps the invariant.
LEMMA NextHolds ==
    ASSUME IInv, [Next]_vars
    PROVE  IInv'
<1>1. CASE \E a \in Addrs, p \in Ports \cup {0}, w \in BOOLEAN : wolfSSH_FwdRemoteSetup(a, p, w)
  BY <1>1, SetupHolds
<1>2. CASE \E a \in Addrs, p \in Ports, w \in BOOLEAN : wolfSSH_FwdRemoteCancel(a, p, w)
  BY <1>2, CancelHolds
<1>3. CASE wolfSSH_global_request
  BY <1>3, GlobalRequestHolds
<1>4. CASE CallbackWrites
  BY <1>4, WritesHolds
<1>5. CASE CallbackReturns
  BY <1>5, ReturnsHolds
<1>6. CASE HighwaterReturns
  BY <1>6, CommitHolds DEF HighwaterReturns
<1>7. CASE CallbackBlocks
  BY <1>7, CommitHolds DEF CallbackBlocks
<1>8. CASE \E f \in SendFaults : CallbackFails(f)
  BY <1>8, FailsHolds
<1>9. CASE Flush
  BY <1>9, FlushHolds
<1>10. CASE ReceiveReply
  BY <1>10, ReceiveReplyHolds
<1>11. CASE ReceiveOther
  BY <1>11, ReceiveOtherHolds
<1>12. CASE Free
  BY <1>12, FreeHolds
<1>13. CASE DoGlobalRequest
  BY <1>13, ServeHolds
<1>14. CASE OpenForwarded
  BY <1>14, OpenHolds
<1>15. CASE Stray
  BY <1>15, StrayHolds
<1>16. CASE UNCHANGED vars
  BY <1>16, StutterHolds
<1> QED BY <1>1, <1>2, <1>3, <1>4, <1>5, <1>6, <1>7, <1>8, <1>9, <1>10, <1>11, <1>12, <1>13,
           <1>14, <1>15, <1>16 DEF Next, Call, Send
----------------------------------------------------------------------------
(* The theorems.                                                           *)

\* The invariant holds in every reachable state, whatever the constants are.
THEOREM ForwardingInvariant == Spec => []IInv
<1>1. Init => IInv
  BY InitHolds
<1>2. IInv /\ [Next]_vars => IInv'
  BY NextHolds
<1> QED BY <1>1, <1>2, PTL DEF Spec

\* As many registrations as the list and the sends own, each with one owner.
LEMMA OwnersCount ==
    ASSUME NEW s, Good(s, {}),
           NEW held, held = {i \in DOMAIN s.pending : s.pending[i].entry # None}
    PROVE  Cardinality(DOMAIN s.heap) = Len(s.list) + Cardinality(held)
<1> DEFINE L == Range(s.list)
           H == Held(s)
           n == Len(s.list)
           I == 1 .. n
           f == [i \in I |-> s.list[i]]
           g == [i \in held |-> s.pending[i].entry]
           m == Len(s.pending)
           P == 1 .. m
<1>1. s.list \in Seq(Nat) /\ s.pending \in Seq(Pend)
  BY DEF Good, IsSession
<1>2. n \in Nat /\ DOMAIN s.list = I /\ m \in Nat /\ DOMAIN s.pending = P
  BY <1>1
<1>3. IsFiniteSet(I) /\ Cardinality(I) = n /\ IsFiniteSet(P)
  <2> HIDE DEF n, m
  <2>1. n \in Nat /\ m \in Nat /\ 1 \in Int
    BY <1>2
  <2>2. IsFiniteSet(1 .. n) /\ Cardinality(1 .. n) = IF 1 > n THEN 0 ELSE n - 1 + 1
    BY <2>1, FS_Interval
  <2>3. IsFiniteSet(1 .. m)
    BY <2>1, FS_Interval
  <2> QED BY <2>1, <2>2, <2>3
<1>4. ExistsBijection(I, L)
  <2>1. f \in Bijection(I, L)
    BY <1>2 DEF Good, Registry, Distinct, Range, Bijection, Injection, Surjection, IsInjective
  <2> QED BY <2>1 DEF ExistsBijection
<1>5. ExistsBijection(held, H)
  <2>1. g \in Bijection(held, H)
    BY DEF Good, Registry, Held, Bijection, Injection, Surjection, IsInjective
  <2> QED BY <2>1 DEF ExistsBijection
<1>6. held \subseteq P
  BY <1>2
<1>7. DOMAIN s.heap = L \cup H /\ L \cap H = {}
  BY DEF Good, Registry
<1> HIDE DEF L, H, I, P, n, m
<1>8. IsFiniteSet(held)
  BY <1>3, <1>6, FS_Subset
<1>9. IsFiniteSet(L) /\ Cardinality(L) = n
  BY <1>3, <1>4, FS_Bijection
<1>10. IsFiniteSet(H) /\ Cardinality(H) = Cardinality(held)
  BY <1>5, <1>8, FS_Bijection
<1>11. Cardinality(L \cup H) = Cardinality(L) + Cardinality(H)
  <2>1. Cardinality(L \cup H) = Cardinality(L) + Cardinality(H) - Cardinality(L \cap H)
    BY <1>9, <1>10, FS_Union
  <2>2. Cardinality(L \cap H) = 0
    BY <1>7, FS_EmptySet
  <2>3. Cardinality(L) \in Nat /\ Cardinality(H) \in Nat
    BY <1>9, <1>10, FS_CardinalityType
  <2> QED BY <2>1, <2>2, <2>3
<1> QED BY <1>7, <1>9, <1>10, <1>11 DEF n

\* Whatever is set up, cancelled, answered, given up or called from inside a
\* send, no registration is leaked or freed while named, and a bind has one
\* registration (FwdRemoteUnlink(), FwdPendingCommit(), FwdRemoteSettle()).
THEOREM OwnedAlways == Spec => []Owned
<1>1. ASSUME IInv PROVE Owned
  <2> DEFINE held == {i \in DOMAIN ssh.pending : ssh.pending[i].entry # None}
             live == DOMAIN ssh.heap
  <2>1. Good(ssh, {})
    BY <1>1 DEF IInv
  <2>2. {ssh.pending[i].entry : i \in held} = Held(ssh)
    BY DEF Held
  <2>3. live = Range(ssh.list) \cup {ssh.pending[i].entry : i \in held}
    BY <2>1, <2>2 DEF Good, Registry
  <2>4. Cardinality(live) = Len(ssh.list) + Cardinality(held)
    BY <2>1, OwnersCount
  <2>5. \A i \in DOMAIN ssh.queue : ssh.queue[i].entry \in live \cup {None}
    BY <2>1 DEF Good, Registry
  <2>6. \A i \in DOMAIN ssh.pending :
          {ssh.pending[i].entry, ssh.pending[i].found} \subseteq live \cup {None}
    BY <2>1 DEF Good, Registry, Held
  <2>7. \A d, e \in Range(ssh.list) :
          ( /\ ~ssh.heap[d].portPending /\ ~ssh.heap[e].portPending
            /\ ssh.heap[d].addr = ssh.heap[e].addr
            /\ ssh.heap[d].port = ssh.heap[e].port ) => d = e
    BY <2>1 DEF Good, OneEach, SameBind
  <2> HIDE DEF held, live
  <2>8. /\ live = Range(ssh.list) \cup {ssh.pending[i].entry : i \in held}
        /\ Cardinality(live) = Len(ssh.list) + Cardinality(held)
        /\ \A i \in DOMAIN ssh.queue : ssh.queue[i].entry \in live \cup {None}
        /\ \A i \in DOMAIN ssh.pending :
              {ssh.pending[i].entry, ssh.pending[i].found} \subseteq live \cup {None}
    BY <2>3, <2>4, <2>5, <2>6
  <2> QED BY <2>7, <2>8 DEF Owned, held, live
<1> QED BY <1>1, ForwardingInvariant, PTL

\* While no send fails with output left framed, the queue holds exactly the
\* requests a wolfSSH peer will answer, in its order, whatever was sent from
\* inside whose send (FwdReplyNew(), FwdReplyUnqueue()).
THEOREM PairedAlways ==
    ASSUME "timeout" \notin SendFaults
    PROVE  Spec => []Paired
<1>1. IInv => Paired
  BY DEF IInv, InOrder, Sound, Pairs, Paired
<1> QED BY <1>1, ForwardingInvariant, PTL

=============================================================================
