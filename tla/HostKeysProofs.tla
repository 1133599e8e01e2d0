--------------------------- MODULE HostKeysProofs ---------------------------
(***************************************************************************)
(* Whatever host keys and certificates are loaded, in whatever order, from *)
(* files, a TPM or a store, and whichever calls fail: what a server        *)
(* advertises it can sign for, and a certificate signs with its key.       *)
(*                                                                         *)
(* The invariant relates the slots to the history: a certificate's slot    *)
(* holds the certificate last asked for, and the slot of a plain key signs *)
(* with the key last asked for, which is what the certificate's slot gets  *)
(* a copy of.                                                              *)
(***************************************************************************)
EXTENDS KeyExchange, TLAPS, ProofBasics

MaybeKey == Keys \cup {None}

\* The format of a family's plain key, and of its certificate.
PlainId(f) == Id(f, FALSE, IF f = "rsa" THEN 1 ELSE 0)
CertId(f) == Id(f, TRUE, IF f = "rsa" THEN 1 ELSE 0)

Certified == {"rsa", "ecdsa", "mldsa"}

SlotIds == {PlainId(f) : f \in Families} \cup {CertId(f) : f \in Certified}

Slot ==
    [publicKeyFmt : SlotIds, key : MaybeKey, cert : MaybeKey, isTpm : BOOLEAN,
     useCertStore : BOOLEAN, mldsaPub : MaybeKey]

\* No format has two slots.
Apart(s) == \A i, j \in DOMAIN s : s[i].publicKeyFmt = s[j].publicKeyFmt => i = j

\* A certificate's slot and a slot of the store have a certificate, and the
\* public half kept for a plain ML-DSA key is that of the key in the slot.
Filled(slot) ==
    /\ slot.publicKeyFmt.x509 \/ slot.useCertStore => slot.cert # None
    /\ slot.publicKeyFmt = PlainId("mldsa") => slot.mldsaPub = slot.key

\* What is advertised has a slot that can sign.
Signs(s, a) ==
    \E i \in DOMAIN s : s[i].publicKeyFmt = PubKeyFmtId(a) /\ SigningKey(s[i]) # None

\* The slots of a family are what was last asked for.
Serves(s, f, want) ==
    /\ want.key # None =>
          \E i \in DOMAIN s : s[i].publicKeyFmt = PlainId(f) /\ SigningKey(s[i]) = want.key
    /\ \A i \in DOMAIN s : s[i].publicKeyFmt = CertId(f) =>
          /\ s[i].cert = want.cert
          /\ want.key # None => SigningKey(s[i]) = want.key

Slots(s) == s \in Seq(Slot) /\ Apart(s)

IInv ==
    /\ Slots(privateKey)
    /\ Len(privateKey) <= MaxPvtKeys /\ Len(publicKeyAlgo) <= MaxPubKeyAlgo
    /\ \A i \in DOMAIN privateKey : Filled(privateKey[i])
    /\ \A a \in Range(publicKeyAlgo) : Signs(privateKey, a)
    /\ asked \in [Families -> [key : MaybeKey, cert : MaybeKey]]
    /\ \A f \in Families : Serves(privateKey, f, asked[f])

----------------------------------------------------------------------------
(* Formats and slots.                                                      *)

\* No key is the absence of one.
LEMMA KeysAreKeys ==
    /\ None \notin Keys
    /\ TpmKey \in Keys
    /\ \A k \in Keys : k.fam \in Families
  BY HostKeysAssumption DEF None, Families

\* The formats of the families differ.
LEMMA FormatsDiffer ==
    ASSUME NEW f \in Families, NEW g \in Families
    PROVE  /\ PlainId(f) = PlainId(g) => f = g
           /\ CertId(f) = CertId(g) => f = g
           /\ PlainId(f) # CertId(g)
           /\ PlainId(f).fam = f /\ CertId(f).fam = f
           /\ PlainId(f).x509 = FALSE /\ CertId(f).x509 = TRUE
           /\ PlainId(f) \in SlotIds
           /\ f \in Certified => CertId(f) \in SlotIds
  BY DEF PlainId, CertId, Id, SlotIds

\* The format of a key, and the one its certificate has.
LEMMA FormatOf ==
    ASSUME NEW k, k.fam \in Families
    PROVE  /\ IdentifyAsn1Key(k) = PlainId(k.fam)
           /\ CertTypeForId(IdentifyAsn1Key(k)) =
                IF k.fam \in Certified THEN CertId(k.fam) ELSE PlainId(k.fam)
           /\ IdentifyCert(k) = IF k.fam \in Certified THEN {CertId(k.fam)} ELSE {}
<1>1. IdentifyAsn1Key(k) = PlainId(k.fam)
  BY DEF IdentifyAsn1Key, PlainId
<1>2. CertTypeForId(PlainId(k.fam)) =
        IF k.fam \in Certified THEN CertId(k.fam) ELSE PlainId(k.fam)
  <2> DEFINE f == k.fam
             certified == {Id("rsa", FALSE, 1), Id("ecdsa", FALSE, 0), Id("mldsa", FALSE, 0)}
  <2>1. f \in Families
    OBVIOUS
  <2> HIDE DEF f
  <2>2. [PlainId(f) EXCEPT !.x509 = TRUE] = CertId(f)
    <3> DEFINE n == IF f = "rsa" THEN 1 ELSE 0
               no == FALSE
               yes == TRUE
    <3>1. PlainId(f) = [fam |-> f, x509 |-> no, sha |-> n]
          /\ CertId(f) = [fam |-> f, x509 |-> yes, sha |-> n]
      BY DEF PlainId, CertId, Id
    <3> HIDE DEF n, no, yes
    <3>2. [PlainId(f) EXCEPT !.x509 = yes] = CertId(f)
      BY <3>1
    <3> QED BY <3>2 DEF yes
  <2>3. f \in Certified <=> PlainId(f) \in certified
    BY <2>1 DEF PlainId, Id, Certified, Families
  <2>4. CertTypeForId(PlainId(f)) =
          IF PlainId(f) \in certified THEN [PlainId(f) EXCEPT !.x509 = TRUE] ELSE PlainId(f)
    BY DEF CertTypeForId
  <2> HIDE DEF certified
  <2>5. CertTypeForId(PlainId(f)) = IF f \in Certified THEN CertId(f) ELSE PlainId(f)
    BY <2>2, <2>3, <2>4
  <2> QED BY <2>5 DEF f
<1>3. CertId(k.fam) # PlainId(k.fam)
  BY FormatsDiffer
<1>4. IdentifyCert(k) = IF k.fam \in Certified THEN {CertId(k.fam)} ELSE {}
  BY <1>1, <1>2, <1>3 DEF IdentifyCert
<1> QED BY <1>1, <1>2, <1>4

\* A format belongs to one family, plain or certified.
LEMMA FormatCases ==
    ASSUME NEW id \in SlotIds
    PROVE  \/ \E f \in Families : id = PlainId(f)
           \/ \E f \in Certified : id = CertId(f)
  BY DEF SlotIds

\* The families that have certificates.
LEMMA CertifiedFamilies == Certified \subseteq Families
  BY DEF Certified, Families

\* Ed25519 and composite keys have no certificates.
LEMMA NoCertSlot ==
    ASSUME NEW f \in Families, f \notin Certified, NEW s, Slots(s), NEW i \in DOMAIN s
    PROVE  s[i].publicKeyFmt # CertId(f)
<1>1. CertId(f) \notin SlotIds
  <2>1. ASSUME NEW g \in Certified PROVE CertId(f) # CertId(g)
    BY CertifiedFamilies, FormatsDiffer
  <2>2. ASSUME NEW g \in Families PROVE CertId(f) # PlainId(g)
    BY FormatsDiffer
  <2> QED BY <2>1, <2>2, FormatCases
<1>2. s[i] \in Slot
  BY DEF Slots
<1>3. s[i].publicKeyFmt \in SlotIds
  BY <1>2 DEF Slot
<1> QED BY <1>1, <1>3

\* Slots changed one by one are slots.
LEMMA SlotsFrom ==
    ASSUME NEW s, Slots(s), NEW t, DOMAIN t = DOMAIN s, t = [i \in DOMAIN t |-> t[i]],
           \A i \in DOMAIN s : t[i] \in Slot /\ t[i].publicKeyFmt = s[i].publicKeyFmt
    PROVE  Slots(t)
<1>1. s \in Seq(Slot) /\ DOMAIN s = 1 .. Len(s) /\ Len(s) \in Nat
  BY DEF Slots
<1> DEFINE u == [i \in 1 .. Len(s) |-> t[i]]
<1>2. t = u
  BY <1>1
<1>3. u \in Seq(Slot)
  BY <1>1
<1>4. Apart(t)
  BY DEF Slots, Apart
<1> QED BY <1>2, <1>3, <1>4 DEF Slots

\* FindPvtKeyIdx() finds the one slot of a format, or none.
LEMMA FindIs ==
    ASSUME NEW s, Slots(s), NEW id
    PROVE  /\ FindPvtKeyIdx(s, id) \in DOMAIN s =>
                s[FindPvtKeyIdx(s, id)].publicKeyFmt = id
           /\ FindPvtKeyIdx(s, id) \notin DOMAIN s =>
                FindPvtKeyIdx(s, id) = 0 /\ \A j \in DOMAIN s : s[j].publicKeyFmt # id
           /\ 0 \notin DOMAIN s
           /\ \A j \in DOMAIN s : s[j].publicKeyFmt = id => FindPvtKeyIdx(s, id) = j
<1> DEFINE at == {i \in DOMAIN s : s[i].publicKeyFmt = id}
<1>1. DOMAIN s = 1 .. Len(s) /\ Len(s) \in Nat
  BY DEF Slots
<1>2. ASSUME NEW j \in DOMAIN s, s[j].publicKeyFmt = id PROVE FindPvtKeyIdx(s, id) = j
  <2>1. at = {j}
    BY <1>2 DEF Slots, Apart
  <2>2. j <= j
    BY <1>1
  <2>3. (CHOOSE i \in {j} : \A k \in {j} : i <= k) = j
    BY <2>2
  <2>4. FindPvtKeyIdx(s, id) = IF at = {} THEN 0 ELSE CHOOSE i \in at : \A k \in at : i <= k
    BY DEF FindPvtKeyIdx
  <2> HIDE DEF at
  <2> QED BY <2>1, <2>3, <2>4
<1>3. ASSUME \A j \in DOMAIN s : s[j].publicKeyFmt # id PROVE FindPvtKeyIdx(s, id) = 0
  BY <1>3 DEF FindPvtKeyIdx
<1>4. 0 \notin DOMAIN s
  BY <1>1
<1> QED BY <1>2, <1>3, <1>4

\* t is s with one slot of format id, perhaps new, at d.
IsClaimed(s, t, id, d) ==
    /\ Slots(t)
    /\ d \in DOMAIN t /\ t[d].publicKeyFmt = id
    /\ \A i \in DOMAIN s : i \in DOMAIN t /\ t[i] = s[i]
    /\ \A i \in DOMAIN t : i # d => i \in DOMAIN s
    /\ d \notin DOMAIN s => t[d] = EmptySlot(id)

\* A slot that was just claimed.
LEMMA EmptyIs ==
    ASSUME NEW id \in SlotIds
    PROVE  EmptySlot(id) \in Slot /\ EmptySlot(id).publicKeyFmt = id
           /\ EmptySlot(id).useCertStore = FALSE
  BY DEF EmptySlot, Slot, MaybeKey

\* A call that needs a slot gets the one of its format, or a new one.
LEMMA ClaimedIs ==
    ASSUME NEW s, Slots(s), NEW id \in SlotIds
    PROVE  IsClaimed(s, Claimed(s, id), id, FindPvtKeyIdx(Claimed(s, id), id))
<1>1. s \in Seq(Slot) /\ DOMAIN s = 1 .. Len(s) /\ Len(s) \in Nat
  BY DEF Slots
<1>2. CASE FindPvtKeyIdx(s, id) \in DOMAIN s
  <2>1. FindPvtKeyIdx(s, id) # 0
    BY <1>2, FindIs
  <2>2. Claimed(s, id) = s
    BY <2>1 DEF Claimed
  <2> QED BY <1>2, <2>2, FindIs DEF IsClaimed
<1>3. CASE FindPvtKeyIdx(s, id) \notin DOMAIN s
  <2> DEFINE e == EmptySlot(id)
             t == Append(s, e)
             d == Len(s) + 1
  <2>1. FindPvtKeyIdx(s, id) = 0 /\ \A j \in DOMAIN s : s[j].publicKeyFmt # id
    BY <1>3, FindIs
  <2>2. Claimed(s, id) = t
    BY <2>1 DEF Claimed
  <2>3. e \in Slot /\ e.publicKeyFmt = id
    BY EmptyIs
  <2> HIDE DEF e
  <2>4. /\ t \in Seq(Slot) /\ DOMAIN t = 1 .. d /\ t[d] = e
        /\ \A i \in DOMAIN s : i \in DOMAIN t /\ t[i] = s[i]
        /\ d \in DOMAIN t /\ d \notin DOMAIN s
        /\ \A i \in DOMAIN t : i # d => i \in DOMAIN s
    BY <1>1, <2>3
  <2> HIDE DEF t, d
  <2>5. Apart(t)
    BY <2>1, <2>3, <2>4 DEF Slots, Apart
  <2>6. Slots(t)
    BY <2>4, <2>5 DEF Slots
  <2>7. FindPvtKeyIdx(t, id) = d
    BY <2>3, <2>4, <2>6, FindIs
  <2>8. IsClaimed(s, t, id, d)
    BY <2>3, <2>4, <2>6 DEF IsClaimed, e
  <2> QED BY <2>2, <2>7, <2>8
<1> QED BY <1>2, <1>3

----------------------------------------------------------------------------
(* What is advertised.                                                     *)

AnyId == SlotIds \cup {Id("rsa", FALSE, 512), Id("rsa", FALSE, 256)}

\* A slot is advertised under names that lead back to it, and only if it has
\* something to sign with.
LEMMA IdsLeadBack ==
    ASSUME NEW slot \in Slot
    PROVE  /\ IdsOfSlot(slot) \in Seq(AnyId)
           /\ \A a \in Range(IdsOfSlot(slot)) :
                 /\ PubKeyFmtId(a) = slot.publicKeyFmt
                 /\ slot.key # None \/ slot.isTpm \/ slot.useCertStore
<1> DEFINE id == slot.publicKeyFmt
           big == Id("rsa", FALSE, 512)
           small == Id("rsa", FALSE, 256)
<1>1. id \in SlotIds
  BY DEF Slot
<1>2. id \in AnyId /\ PubKeyFmtId(id) = id
  <2>1. ASSUME NEW f \in Families PROVE PubKeyFmtId(PlainId(f)) = PlainId(f)
    <3>1. CASE f = "rsa"
      BY <3>1 DEF PubKeyFmtId, PlainId, Id
    <3>2. CASE f # "rsa"
      BY <3>2 DEF PubKeyFmtId, PlainId, Id
    <3> QED BY <3>1, <3>2
  <2>2. ASSUME NEW f \in Certified PROVE PubKeyFmtId(CertId(f)) = CertId(f)
    BY DEF PubKeyFmtId, CertId, Id
  <2> QED BY <1>1, <2>1, <2>2, FormatCases DEF AnyId
<1>3. big \in AnyId /\ small \in AnyId
  BY DEF AnyId
<1>4. PubKeyFmtId(big) = Id("rsa", FALSE, 1) /\ PubKeyFmtId(small) = Id("rsa", FALSE, 1)
  BY DEF PubKeyFmtId, Id
<1>5. \/ IdsOfSlot(slot) = <<>>
      \/ /\ slot.key # None \/ slot.isTpm \/ slot.useCertStore
         /\ id = Id("rsa", FALSE, 1) /\ IdsOfSlot(slot) = <<big, small>>
      \/ /\ slot.key # None \/ slot.isTpm \/ slot.useCertStore
         /\ IdsOfSlot(slot) = <<id>>
  <2>1. IdsOfSlot(slot) = <<>> \/
          /\ slot.key # None \/ slot.isTpm \/ slot.useCertStore
          /\ IdsOfSlot(slot) = IF id = Id("rsa", FALSE, 1) THEN <<big, small>> ELSE <<id>>
    BY DEF IdsOfSlot
  <2> HIDE DEF id, big, small
  <2> QED BY <2>1
<1> HIDE DEF id, big, small
<1>6. CASE IdsOfSlot(slot) = <<>>
  BY <1>6 DEF Range
<1>7. CASE /\ slot.key # None \/ slot.isTpm \/ slot.useCertStore
           /\ id = Id("rsa", FALSE, 1) /\ IdsOfSlot(slot) = <<big, small>>
  <2>1. <<big, small>> \in Seq(AnyId) /\ Range(<<big, small>>) = {big, small}
    BY <1>3 DEF Range
  <2> QED BY <1>4, <1>7, <2>1 DEF id
<1>8. CASE /\ slot.key # None \/ slot.isTpm \/ slot.useCertStore
           /\ IdsOfSlot(slot) = <<id>>
  <2>1. <<id>> \in Seq(AnyId) /\ Range(<<id>>) = {id}
    BY <1>2 DEF Range
  <2> QED BY <1>2, <1>8, <2>1 DEF id
<1> QED BY <1>5, <1>6, <1>7, <1>8

\* A slot that is filled and has something to sign with signs.
LEMMA FilledSigns ==
    ASSUME NEW slot \in Slot, Filled(slot), slot.key # None \/ slot.isTpm \/ slot.useCertStore
    PROVE  SigningKey(slot) # None
  BY KeysAreKeys DEF Filled, SigningKey, Slot

\* f[n] is what the first n slots are advertised under.
IsListing(f, s) ==
    /\ f \in [0 .. Len(s) -> Seq(AnyId)]
    /\ f[0] = <<>>
    /\ \A n \in 1 .. Len(s) : f[n] = f[n - 1] \o IdsOfSlot(s[n])

\* The list is well defined, by induction on the number of slots.
LEMMA ListingExists ==
    ASSUME NEW s \in Seq(Slot)
    PROVE  \E f : IsListing(f, s) /\ RefreshPublicKeyAlgo(s) =
                      IF Len(f[Len(s)]) > MaxPubKeyAlgo
                      THEN SubSeq(f[Len(s)], 1, MaxPubKeyAlgo) ELSE f[Len(s)]
<1> DEFINE N == Len(s)
           Walk(f, n) == IF n = 0 THEN <<>> ELSE f[n - 1] \o IdsOfSlot(s[n])
           Ok(n) == {f \in [0 .. n -> Seq(AnyId)] : \A k \in 0 .. n : f[k] = Walk(f, k)}
<1>1. N \in Nat /\ \A n \in 1 .. N : IdsOfSlot(s[n]) \in Seq(AnyId)
  <2>1. N \in Nat /\ \A n \in 1 .. N : s[n] \in Slot
    OBVIOUS
  <2> QED BY <2>1, IdsLeadBack
<1>2. ASSUME NEW n \in Nat PROVE n <= N => Ok(n) # {}
  <2> DEFINE T == {k \in Nat : k <= N => Ok(k) # {}}
  <2>1. 0 \in T
    <3> DEFINE f == [k \in 0 .. 0 |-> <<>>]
    <3>1. f \in [0 .. 0 -> Seq(AnyId)] /\ \A k \in 0 .. 0 : f[k] = Walk(f, k)
      OBVIOUS
    <3>2. f \in Ok(0)
      BY <3>1
    <3> QED BY <3>2
  <2>2. ASSUME NEW k \in Nat, k \in T PROVE k + 1 \in T
    <3>1. SUFFICES ASSUME k + 1 <= N PROVE Ok(k + 1) # {}
      <4> HIDE DEF Ok
      <4> QED OBVIOUS
    <3>2. PICK f \in [0 .. k -> Seq(AnyId)] : \A j \in 0 .. k : f[j] = Walk(f, j)
      <4>1. Ok(k) # {}
        <5> HIDE DEF Ok
        <5> QED BY <2>2, <3>1, <1>1
      <4> HIDE DEF Walk
      <4> QED BY <4>1
    <3> DEFINE v == f[k] \o IdsOfSlot(s[k + 1])
               g == [j \in 0 .. k + 1 |-> IF j = k + 1 THEN v ELSE f[j]]
    <3>3. v \in Seq(AnyId)
      <4>1. IdsOfSlot(s[k + 1]) \in Seq(AnyId) /\ f[k] \in Seq(AnyId)
        BY <1>1, <3>1, <3>2
      <4> QED BY <4>1
    <3>4. g \in [0 .. k + 1 -> Seq(AnyId)]
      <4> HIDE DEF v
      <4> QED BY <3>3, <3>2
    <3>5. ASSUME NEW j \in 0 .. k + 1 PROVE g[j] = Walk(g, j)
      <4>1. CASE j = k + 1
        <5>1. g[j] = v /\ j # 0 /\ j - 1 = k /\ g[j - 1] = f[k]
          BY <4>1
        <5> QED BY <5>1, <4>1
      <4>2. CASE j = 0
        <5>1. g[j] = f[0] /\ f[0] = Walk(f, 0)
          <6>1. 0 \in 0 .. k
            OBVIOUS
          <6> HIDE DEF Walk
          <6> QED BY <4>2, <3>2, <6>1
        <5> QED BY <5>1, <4>2
      <4>3. CASE j \in 1 .. k
        <5>1. f[j] = Walk(f, j)
          <6> HIDE DEF Walk
          <6> QED BY <4>3, <3>2
        <5>2. g[j] = f[j] /\ j # 0 /\ g[j - 1] = f[j - 1]
          BY <4>3
        <5> HIDE DEF g
        <5> QED BY <5>1, <5>2
      <4> QED BY <4>1, <4>2, <4>3
    <3>6. g \in Ok(k + 1)
      BY <3>4, <3>5
    <3> QED BY <3>6
  <2>3. Nat \subseteq T
    <3> HIDE DEF T
    <3> QED BY <2>1, <2>2, NaturalInduction
  <2> QED BY <2>3
<1>3. PICK f \in [0 .. N -> Seq(AnyId)] : \A k \in 0 .. N : f[k] = Walk(f, k)
  <2>1. Ok(N) # {}
    <3> HIDE DEF Ok
    <3> QED BY <1>1, <1>2
  <2> HIDE DEF Walk
  <2> QED BY <2>1
<1> DEFINE Unfolds(g) == g = [k \in 0 .. N |-> Walk(g, k)]
           h == CHOOSE g : Unfolds(g)
<1>4. Unfolds(f)
  BY <1>3
<1>5. Unfolds(h)
  BY <1>4
<1>6. DOMAIN h = 0 .. N /\ \A k \in 0 .. N : h[k] = Walk(h, k)
  <2> HIDE DEF h
  <2> QED BY <1>5
<1>7. RefreshPublicKeyAlgo(s) = IF Len(h[N]) > MaxPubKeyAlgo
                                THEN SubSeq(h[N], 1, MaxPubKeyAlgo) ELSE h[N]
  BY DEF RefreshPublicKeyAlgo
<1> HIDE DEF h
<1>0. h[0] = <<>>
  <2>1. h[0] = Walk(h, 0)
    <3>1. 0 \in 0 .. N
      BY <1>1
    <3> HIDE DEF Walk
    <3> QED BY <3>1, <1>6
  <2> QED BY <2>1
<1>8. ASSUME NEW n \in Nat PROVE n <= N => h[n] \in Seq(AnyId)
  <2> DEFINE T == {k \in Nat : k <= N => h[k] \in Seq(AnyId)}
  <2>1. 0 \in T
    <3>1. <<>> \in Seq(AnyId)
      OBVIOUS
    <3> QED BY <1>0, <3>1
  <2>2. ASSUME NEW k \in Nat, k \in T PROVE k + 1 \in T
    <3>1. SUFFICES ASSUME k + 1 <= N PROVE h[k + 1] \in Seq(AnyId)
      OBVIOUS
    <3>2. h[k + 1] = h[k] \o IdsOfSlot(s[k + 1])
      <4>1. k + 1 \in 0 .. N /\ k + 1 # 0 /\ (k + 1) - 1 = k
        BY <1>1, <3>1
      <4> QED BY <4>1, <1>6
    <3>3. h[k] \in Seq(AnyId) /\ IdsOfSlot(s[k + 1]) \in Seq(AnyId)
      BY <1>1, <2>2, <3>1
    <3> QED BY <3>2, <3>3
  <2>3. Nat \subseteq T
    <3> HIDE DEF T
    <3> QED BY <2>1, <2>2, NaturalInduction
  <2> QED BY <2>3
<1>9. h \in [0 .. N -> Seq(AnyId)]
  <2>1. h = [k \in 0 .. N |-> h[k]]
    BY <1>5, <1>6
  <2>2. \A k \in 0 .. N : h[k] \in Seq(AnyId)
    BY <1>8, <1>1
  <2> HIDE DEF N
  <2> QED BY <2>1, <2>2
<1>10. IsListing(h, s)
  <2>1. ASSUME NEW n \in 1 .. N PROVE h[n] = h[n - 1] \o IdsOfSlot(s[n])
    <3>1. n \in 0 .. N /\ n # 0
      BY <1>1
    <3>2. h[n] = Walk(h, n)
      <4> HIDE DEF Walk
      <4> QED BY <3>1, <1>6
    <3> QED BY <3>1, <3>2
  <2> QED BY <1>0, <1>9, <2>1 DEF IsListing
<1> QED BY <1>7, <1>10

\* What RefreshPublicKeyAlgo() lists is a name of one of the slots.
LEMMA ListedIsSlot ==
    ASSUME NEW s \in Seq(Slot), NEW a \in Range(RefreshPublicKeyAlgo(s))
    PROVE  \E i \in DOMAIN s : a \in Range(IdsOfSlot(s[i]))
<1> DEFINE N == Len(s)
           P == {x \in AnyId : \E i \in 1 .. N : x \in Range(IdsOfSlot(s[i]))}
           L == RefreshPublicKeyAlgo(s)
<1>1. N \in Nat /\ DOMAIN s = 1 .. N /\ \A i \in 1 .. N : s[i] \in Slot
  OBVIOUS
<1>2. PICK f : IsListing(f, s) /\ L = IF Len(f[N]) > MaxPubKeyAlgo
                                     THEN SubSeq(f[N], 1, MaxPubKeyAlgo) ELSE f[N]
  BY ListingExists
<1>3. ASSUME NEW i \in 1 .. N PROVE IdsOfSlot(s[i]) \in Seq(P)
  <2> DEFINE q == IdsOfSlot(s[i])
  <2>1. q \in Seq(AnyId) /\ \A x \in Range(q) : x \in P \/ x \notin AnyId
    BY <1>1, IdsLeadBack
  <2> HIDE DEF q, P
  <2>2. \A j \in 1 .. Len(q) : q[j] \in P
    BY <2>1 DEF Range
  <2> QED BY <2>1, <2>2 DEF q
<1>4. ASSUME NEW n \in Nat PROVE n <= N => f[n] \in Seq(P)
  <2> DEFINE T == {k \in Nat : k <= N => f[k] \in Seq(P)}
  <2> HIDE DEF P
  <2>1. 0 \in T
    BY <1>2 DEF IsListing
  <2>2. ASSUME NEW k \in Nat, k \in T PROVE k + 1 \in T
    <3>1. SUFFICES ASSUME k + 1 <= N PROVE f[k + 1] \in Seq(P)
      OBVIOUS
    <3>2. f[k] \in Seq(P) /\ k + 1 \in 1 .. N /\ (k + 1) - 1 = k
      BY <1>1, <2>2, <3>1
    <3>3. f[k + 1] = f[k] \o IdsOfSlot(s[k + 1]) /\ IdsOfSlot(s[k + 1]) \in Seq(P)
      BY <1>2, <1>3, <3>2 DEF IsListing
    <3> QED BY <3>2, <3>3
  <2>3. Nat \subseteq T
    <3> HIDE DEF T
    <3> QED BY <2>1, <2>2, NaturalInduction
  <2> QED BY <2>3
<1>5. f[N] \in Seq(P)
  BY <1>1, <1>4
<1> HIDE DEF P
<1>6. L \in Seq(P)
  <2> DEFINE q == f[N]
             m == MaxPubKeyAlgo
  <2>1. q \in Seq(P) /\ m \in Nat
    BY <1>5, HostKeysAssumption DEF MaxPubKeyAlgo
  <2>2. L = IF Len(q) > m THEN SubSeq(q, 1, m) ELSE q
    BY <1>2
  <2> HIDE DEF q, m
  <2>3. Len(q) > m => SubSeq(q, 1, m) \in Seq(P)
    BY <2>1
  <2> QED BY <2>1, <2>2, <2>3
<1>7. a \in P
  <2> HIDE DEF L
  <2>1. \A j \in DOMAIN L : L[j] \in P
    BY <1>6
  <2> QED BY <2>1 DEF L, Range
<1> QED BY <1>1, <1>7 DEF P

\* What is advertised after a refresh can be signed for.
LEMMA RefreshSigns ==
    ASSUME NEW s, Slots(s), \A i \in DOMAIN s : Filled(s[i]),
           NEW a \in Range(RefreshPublicKeyAlgo(s))
    PROVE  Signs(s, a)
<1>1. PICK i \in DOMAIN s : a \in Range(IdsOfSlot(s[i]))
  BY ListedIsSlot DEF Slots
<1>2. s[i] \in Slot
  BY DEF Slots
<1>3. /\ PubKeyFmtId(a) = s[i].publicKeyFmt
      /\ s[i].key # None \/ s[i].isTpm \/ s[i].useCertStore
  BY <1>1, <1>2, IdsLeadBack
<1>4. SigningKey(s[i]) # None
  BY <1>2, <1>3, FilledSigns
<1> QED BY <1>3, <1>4 DEF Signs

\* The list is cut off at the room it has.
LEMMA RefreshFits ==
    ASSUME NEW s \in Seq(Slot)
    PROVE  Len(RefreshPublicKeyAlgo(s)) <= MaxPubKeyAlgo
<1> DEFINE N == Len(s)
           L == RefreshPublicKeyAlgo(s)
           m == MaxPubKeyAlgo
<1>1. N \in Nat /\ m \in Nat
  BY HostKeysAssumption DEF MaxPubKeyAlgo
<1>2. PICK f : IsListing(f, s) /\ L = IF Len(f[N]) > m THEN SubSeq(f[N], 1, m) ELSE f[N]
  BY ListingExists
<1> DEFINE q == f[N]
<1>3. q \in Seq(AnyId) /\ L = IF Len(q) > m THEN SubSeq(q, 1, m) ELSE q
  BY <1>1, <1>2 DEF IsListing
<1> HIDE DEF q, m, L
<1>4. Len(q) \in Nat /\ (Len(q) > m => Len(SubSeq(q, 1, m)) = m)
  BY <1>1, <1>3
<1>5. Len(L) <= m
  BY <1>1, <1>3, <1>4
<1> QED BY <1>5 DEF L, m

----------------------------------------------------------------------------
(* The loading calls.                                                      *)

Mine(f) == {PlainId(f), CertId(f)}

\* t is s after a call that loads for family f: no slot goes, and those of
\* other families are left alone.
Loads(s, t, f) ==
    /\ Slots(t)
    /\ \A i \in DOMAIN s : /\ i \in DOMAIN t
                           /\ t[i].publicKeyFmt = s[i].publicKeyFmt
                           /\ s[i].publicKeyFmt \notin Mine(f) => t[i] = s[i]
    /\ \A i \in DOMAIN t : t[i].publicKeyFmt \in Mine(f) \/ i \in DOMAIN s

\* Other families are served as before.
LEMMA OthersServed ==
    ASSUME NEW s, NEW t, NEW f \in Families, NEW g \in Families, f # g, Loads(s, t, f),
           NEW want, Serves(s, g, want)
    PROVE  Serves(t, g, want)
<1>1. PlainId(g) \notin Mine(f) /\ CertId(g) \notin Mine(f)
  BY FormatsDiffer DEF Mine
<1> DEFINE p == PlainId(g)
           c == CertId(g)
<1> HIDE DEF p, c
<1>2. want.key # None =>
        \E i \in DOMAIN t : t[i].publicKeyFmt = p /\ SigningKey(t[i]) = want.key
  BY <1>1 DEF Serves, Loads, p
<1>3. ASSUME NEW i \in DOMAIN t, t[i].publicKeyFmt = c
      PROVE  t[i].cert = want.cert /\ (want.key # None => SigningKey(t[i]) = want.key)
  <2>1. i \in DOMAIN s /\ s[i] = t[i]
    BY <1>1, <1>3 DEF Loads, c
  <2> QED BY <1>3, <2>1 DEF Serves, c
<1> QED BY <1>2, <1>3 DEF Serves, p, c

\* As many slots as before.
LEMMA SameLength ==
    ASSUME NEW s, Slots(s), NEW t, Slots(t), DOMAIN t = DOMAIN s
    PROVE  Len(t) = Len(s)
<1>1. Len(s) \in Nat /\ DOMAIN s = 1 .. Len(s) /\ Len(t) \in Nat /\ DOMAIN t = 1 .. Len(t)
  BY DEF Slots
<1>2. 1 .. Len(s) = 1 .. Len(t)
  BY <1>1
<1> QED BY <1>1, <1>2

\* A call keeps the invariant if it fills the slots of its family and serves
\* what it was asked for, and advertises anew or leaves its slots signing.
LEMMA LoadKeeps ==
    ASSUME IInv, NEW f \in Families, NEW t, Loads(privateKey, t, f),
           Len(t) <= MaxPvtKeys,
           \A i \in DOMAIN t : t[i].publicKeyFmt \in Mine(f) => Filled(t[i]),
           NEW want \in [key : MaybeKey, cert : MaybeKey], Serves(t, f, want),
           privateKey' = t, asked' = [asked EXCEPT ![f] = want],
           \/ publicKeyAlgo' = RefreshPublicKeyAlgo(t)
           \/ /\ publicKeyAlgo' = publicKeyAlgo
              /\ \A i \in DOMAIN privateKey :
                    SigningKey(privateKey[i]) # None => SigningKey(t[i]) # None
    PROVE  IInv'
<1> DEFINE s == privateKey
<1>1. ASSUME NEW i \in DOMAIN t PROVE Filled(t[i])
  <2>1. CASE t[i].publicKeyFmt \in Mine(f)
    BY <2>1
  <2>2. CASE t[i].publicKeyFmt \notin Mine(f)
    <3>1. i \in DOMAIN s /\ t[i] = s[i]
      BY <2>2 DEF Loads
    <3> QED BY <3>1 DEF IInv
  <2> QED BY <2>1, <2>2
<1>2. ASSUME NEW a \in Range(publicKeyAlgo') PROVE Signs(t, a)
  <2>1. CASE publicKeyAlgo' = RefreshPublicKeyAlgo(t)
    BY <1>1, <2>1, RefreshSigns DEF Loads
  <2>2. CASE /\ publicKeyAlgo' = publicKeyAlgo
             /\ \A i \in DOMAIN s : SigningKey(s[i]) # None => SigningKey(t[i]) # None
    <3>1. PICK i \in DOMAIN s : s[i].publicKeyFmt = PubKeyFmtId(a) /\ SigningKey(s[i]) # None
      BY <2>2 DEF IInv, Signs
    <3>2. i \in DOMAIN t /\ t[i].publicKeyFmt = s[i].publicKeyFmt
      BY DEF Loads
    <3> QED BY <2>2, <3>1, <3>2 DEF Signs
  <2> QED BY <2>1, <2>2
<1>3. asked' \in [Families -> [key : MaybeKey, cert : MaybeKey]]
  BY DEF IInv
<1>4. ASSUME NEW g \in Families PROVE Serves(t, g, asked'[g])
  <2>1. CASE g = f
    BY <2>1 DEF IInv
  <2>2. CASE g # f
    <3>1. asked'[g] = asked[g] /\ Serves(s, g, asked[g])
      BY <2>2 DEF IInv
    <3> QED BY <2>2, <3>1, OthersServed
  <2> QED BY <2>1, <2>2
<1>5. Len(publicKeyAlgo') <= MaxPubKeyAlgo
  BY RefreshFits DEF IInv, Loads, Slots
<1> QED BY <1>1, <1>2, <1>3, <1>4, <1>5 DEF IInv, Loads

\* A call that is refused changes nothing.
LEMMA RefusedKeeps ==
    ASSUME IInv, Refused
    PROVE  IInv'
  BY DEF IInv, Refused

\* The slot a private key or the TPM goes into, and its certificate's.
LEMMA NotFromStore ==
    ASSUME NEW s, Slots(s), NEW id, ~FromStore(s, id), NEW i \in DOMAIN s,
           s[i].publicKeyFmt = id
    PROVE  ~s[i].useCertStore
<1>1. FindPvtKeyIdx(s, id) = i /\ i # 0
  BY FindIs
<1> QED BY <1>1 DEF FromStore

\* r is s with the private key k in its slot d.
KeyAt(s, r, d, k) ==
    /\ Loads(s, r, k.fam)
    /\ d \in DOMAIN r /\ r[d].publicKeyFmt = PlainId(k.fam)
    /\ r[d].key = k /\ r[d].isTpm = FALSE /\ ~r[d].useCertStore
    /\ k.fam = "mldsa" => r[d].mldsaPub = k
    /\ \A i \in DOMAIN r : i # d => i \in DOMAIN s /\ r[i] = s[i]

\* SetHostPrivateKey() puts a key into its own slot and into no other.
LEMMA WithPrivateKeyIs ==
    ASSUME NEW s, Slots(s), NEW k \in Keys, ~FromStore(s, PlainId(k.fam))
    PROVE  LET r == WithPrivateKey(s, k) IN KeyAt(s, r, FindPvtKeyIdx(r, PlainId(k.fam)), k)
<1> DEFINE f == k.fam
           id == PlainId(f)
           c == Claimed(s, id)
           d == FindPvtKeyIdx(c, id)
           m == IF f = "mldsa" THEN k ELSE None
           no == FALSE
           v == [c[d] EXCEPT !.key = k, !.isTpm = no, !.mldsaPub = m]
           r == WithPrivateKey(s, k)
<1>1. f \in Families /\ id \in SlotIds
  BY KeysAreKeys, FormatsDiffer
<1>2. IdentifyAsn1Key(k) = id
  BY <1>1, FormatOf
<1>3. IsClaimed(s, c, id, d)
  <2> HIDE DEF id
  <2> QED BY <1>1, ClaimedIs
<1>4. Slots(c) /\ d \in DOMAIN c /\ c[d].publicKeyFmt = id /\ c[d] \in Slot
  BY <1>3 DEF IsClaimed, Slots
<1>5. /\ DOMAIN r = DOMAIN c /\ r = [i \in DOMAIN r |-> r[i]]
      /\ r[d] = v /\ \A i \in DOMAIN c : i # d => r[i] = c[i]
  <2>1. r = [c EXCEPT ![d].key = k, ![d].isTpm = no, ![d].mldsaPub = m]
    BY <1>2 DEF WithPrivateKey
  <2> HIDE DEF c, d, m, no
  <2> QED BY <1>4, <2>1
<1>6. ~c[d].useCertStore
  <2>1. CASE d \in DOMAIN s
    BY <1>3, <1>4, <2>1, NotFromStore DEF IsClaimed
  <2>2. CASE d \notin DOMAIN s
    BY <1>1, <1>3, <2>2, EmptyIs DEF IsClaimed
  <2> QED BY <2>1, <2>2
<1>7. k \in MaybeKey /\ m \in MaybeKey /\ no \in BOOLEAN /\ (f = "mldsa" => m = k)
  BY DEF MaybeKey
<1> HIDE DEF m, no, c, d, id, f
<1>8. /\ v \in Slot /\ v.publicKeyFmt = id /\ v.cert = c[d].cert
      /\ v.key = k /\ v.isTpm = no /\ v.mldsaPub = m
      /\ v.useCertStore = c[d].useCertStore
  <2> DEFINE x == c[d]
  <2>1. x \in Slot /\ x.publicKeyFmt = id
    BY <1>4
  <2> HIDE DEF x
  <2>2. LET y == [x EXCEPT !.key = k, !.isTpm = no, !.mldsaPub = m]
        IN  /\ y \in Slot /\ y.publicKeyFmt = x.publicKeyFmt /\ y.cert = x.cert
            /\ y.key = k /\ y.isTpm = no /\ y.mldsaPub = m
            /\ y.useCertStore = x.useCertStore
    BY <1>7, <2>1 DEF Slot
  <2> QED BY <2>1, <2>2 DEF x
<1> HIDE DEF v, r
<1>9. \A i \in DOMAIN c : c[i] \in Slot
  BY <1>4 DEF Slots
<1>10. Slots(r)
  <2>1. \A i \in DOMAIN c : r[i] \in Slot /\ r[i].publicKeyFmt = c[i].publicKeyFmt
    BY <1>4, <1>5, <1>8, <1>9
  <2> QED BY <1>4, <1>5, <2>1, SlotsFrom
<1>11. FindPvtKeyIdx(r, id) = d
  BY <1>4, <1>5, <1>8, <1>10, FindIs
<1>12. \A i \in DOMAIN r : i # d => i \in DOMAIN s /\ r[i] = s[i]
  BY <1>3, <1>5 DEF IsClaimed
<1>13. id \in Mine(f)
  BY DEF Mine, id
<1>14. Loads(s, r, f)
  <2>1. ASSUME NEW i \in DOMAIN s
        PROVE  /\ i \in DOMAIN r /\ r[i].publicKeyFmt = s[i].publicKeyFmt
               /\ s[i].publicKeyFmt \notin Mine(f) => r[i] = s[i]
    <3>1. i \in DOMAIN c /\ c[i] = s[i]
      BY <1>3 DEF IsClaimed
    <3> QED BY <1>4, <1>5, <1>8, <1>13, <3>1
  <2>2. ASSUME NEW i \in DOMAIN r PROVE r[i].publicKeyFmt \in Mine(f) \/ i \in DOMAIN s
    BY <1>5, <1>8, <1>12, <1>13
  <2> QED BY <1>10, <2>1, <2>2 DEF Loads
<1>15. KeyAt(s, r, d, k)
  <2>1. r[d].key = k /\ r[d].isTpm = FALSE /\ ~r[d].useCertStore
    BY <1>5, <1>6, <1>8 DEF no
  <2>2. k.fam = "mldsa" => r[d].mldsaPub = k
    BY <1>5, <1>7, <1>8 DEF f
  <2>3. d \in DOMAIN r /\ r[d].publicKeyFmt = PlainId(k.fam) /\ Loads(s, r, k.fam)
    BY <1>4, <1>5, <1>8, <1>14 DEF f, id
  <2> QED BY <1>12, <2>1, <2>2, <2>3 DEF KeyAt
<1> QED BY <1>11, <1>15 DEF id, f, r

\* u is r with the private key at d copied to the certificate's slot.
LEMMA CopyServes ==
    ASSUME IInv, NEW k \in Keys, NEW r, NEW d, KeyAt(privateKey, r, d, k),
           NEW c, c = FindPvtKeyIdx(r, CertTypeForId(PlainId(k.fam))),
           NEW u, u = UpdateHostCertificates(r, d, c)
    PROVE  /\ Loads(privateKey, u, k.fam) /\ DOMAIN u = DOMAIN r
           /\ \A i \in DOMAIN u : u[i].publicKeyFmt \in Mine(k.fam) => Filled(u[i])
           /\ Serves(u, k.fam, [asked[k.fam] EXCEPT !.key = k])
<1> DEFINE s == privateKey
           f == k.fam
           a == asked[f]
           want == [a EXCEPT !.key = k]
           no == FALSE
<1>1. /\ f \in Families /\ k # None
      /\ PlainId(f) # CertId(f)
      /\ a \in [key : MaybeKey, cert : MaybeKey] /\ Serves(s, f, a)
  BY KeysAreKeys, FormatsDiffer DEF IInv
<1>2. want.key = k /\ want.cert = a.cert
  BY <1>1
<1>3. Slots(r) /\ Loads(s, r, f) /\ d \in DOMAIN r /\ r[d] \in Slot /\ d # 0
  BY FindIs DEF KeyAt, Loads, Slots
<1>4. /\ r[d].publicKeyFmt = PlainId(f)
      /\ r[d].key = k /\ r[d].isTpm = FALSE /\ ~r[d].useCertStore
      /\ f = "mldsa" => r[d].mldsaPub = k
      /\ \A i \in DOMAIN r : i # d => i \in DOMAIN s /\ r[i] = s[i]
  BY DEF KeyAt
<1>5. SigningKey(r[d]) = k
  BY <1>4 DEF SigningKey
<1>6. Filled(r[d])
  <2>1. PlainId(f).x509 = FALSE
    BY <1>1, FormatsDiffer
  <2>2. PlainId(f) = PlainId("mldsa") => f = "mldsa"
    BY <1>1, FormatsDiffer DEF Families
  <2> QED BY <1>4, <2>1, <2>2 DEF Filled
<1> HIDE DEF want
\* What has to be shown once the certificate's slot is settled.
<1>7. ASSUME NEW w, Slots(w), DOMAIN w = DOMAIN r, w[d] = r[d],
             \A i \in DOMAIN r : i # d =>
                IF r[i].publicKeyFmt = CertId(f)
                THEN /\ w[i].publicKeyFmt = CertId(f) /\ w[i].cert = r[i].cert
                     /\ SigningKey(w[i]) = k
                ELSE w[i] = r[i]
      PROVE  /\ Loads(s, w, f) /\ DOMAIN w = DOMAIN r
             /\ \A i \in DOMAIN w : w[i].publicKeyFmt \in Mine(f) => Filled(w[i])
             /\ Serves(w, f, want)
  <2>1. \A i \in DOMAIN r : w[i].publicKeyFmt = r[i].publicKeyFmt
    BY <1>7
  <2>2. Loads(s, w, f)
    <3>1. CertId(f) \in Mine(f) /\ PlainId(f) \in Mine(f)
      BY DEF Mine
    <3>2. ASSUME NEW i \in DOMAIN s
          PROVE  /\ i \in DOMAIN w /\ w[i].publicKeyFmt = s[i].publicKeyFmt
                 /\ s[i].publicKeyFmt \notin Mine(f) => w[i] = s[i]
      BY <1>3, <1>4, <1>7, <2>1, <3>1 DEF Loads
    <3>3. ASSUME NEW i \in DOMAIN w PROVE w[i].publicKeyFmt \in Mine(f) \/ i \in DOMAIN s
      BY <1>3, <1>7, <2>1 DEF Loads
    <3> QED BY <1>7, <3>2, <3>3 DEF Loads
  <2>3. ASSUME NEW i \in DOMAIN w, w[i].publicKeyFmt \in Mine(f) PROVE Filled(w[i])
    <3>1. CASE i = d
      BY <1>6, <1>7, <3>1
    <3>2. CASE i # d
      <4>1. r[i] = s[i] /\ i \in DOMAIN s /\ Filled(s[i])
        BY <1>4, <1>7, <3>2 DEF IInv
      <4>2. CASE r[i].publicKeyFmt = CertId(f)
        <5>1. CertId(f).x509 /\ CertId(f) # PlainId("mldsa")
          BY <1>1, FormatsDiffer DEF Families
        <5>2. w[i].cert # None
          BY <1>7, <3>2, <4>1, <4>2, <5>1 DEF Filled
        <5> QED BY <1>7, <3>2, <4>2, <5>1, <5>2 DEF Filled
      <4>3. CASE r[i].publicKeyFmt # CertId(f)
        BY <1>7, <3>2, <4>1, <4>3
      <4> QED BY <4>2, <4>3
    <3> QED BY <3>1, <3>2
  <2>4. Serves(w, f, want)
    <3>1. \E i \in DOMAIN w : w[i].publicKeyFmt = PlainId(f) /\ SigningKey(w[i]) = want.key
      BY <1>2, <1>3, <1>4, <1>5, <1>7
    <3>2. ASSUME NEW i \in DOMAIN w, w[i].publicKeyFmt = CertId(f)
          PROVE  w[i].cert = want.cert /\ SigningKey(w[i]) = want.key
      <4>1. i # d /\ r[i] = s[i] /\ i \in DOMAIN s /\ s[i].publicKeyFmt = CertId(f)
        BY <1>1, <1>4, <1>7, <2>1, <3>2
      <4>2. s[i].cert = a.cert
        BY <1>1, <4>1 DEF Serves
      <4> QED BY <1>2, <1>7, <4>1, <4>2
    <3> QED BY <3>1, <3>2 DEF Serves
  <2> QED BY <1>7, <2>2, <2>3, <2>4
<1>8. CertTypeForId(PlainId(f)) = IF f \in Certified THEN CertId(f) ELSE PlainId(f)
  BY <1>1, FormatOf
<1>9. CASE f \in Certified /\ c \notin DOMAIN r
  <2>1. c = 0 /\ \A j \in DOMAIN r : r[j].publicKeyFmt # CertId(f)
    BY <1>3, <1>8, <1>9, FindIs
  <2>2. u = r
    BY <2>1 DEF UpdateHostCertificates
  <2> QED BY <1>3, <1>7, <2>1, <2>2 DEF want
<1>10. CASE c \in DOMAIN r
  <2> DEFINE v == [r[c] EXCEPT !.key = k, !.useCertStore = no, !.isTpm = no]
  <2>1. c # 0 /\ r[c] \in Slot /\ r[c].publicKeyFmt = CertTypeForId(PlainId(f))
    BY <1>3, <1>10, FindIs DEF Slots
  <2>2. /\ DOMAIN u = DOMAIN r /\ u = [i \in DOMAIN u |-> u[i]]
        /\ u[c] = v /\ \A i \in DOMAIN r : i # c => u[i] = r[i]
    <3>1. u = [r EXCEPT ![c].key = k, ![c].useCertStore = no, ![c].isTpm = no]
      <4>1. ~r[d].isTpm /\ r[d].key # None /\ r[d].key = k
        BY <1>1, <1>4
      <4> QED BY <1>3, <2>1, <4>1 DEF UpdateHostCertificates
    <3> HIDE DEF no
    <3> QED BY <1>10, <3>1
  <2>3. /\ v \in Slot /\ v.publicKeyFmt = r[c].publicKeyFmt /\ v.cert = r[c].cert
        /\ v.key = k /\ v.isTpm = no /\ v.mldsaPub = r[c].mldsaPub
        /\ v.useCertStore = no
    <3> DEFINE x == r[c]
    <3>1. x \in Slot /\ k \in MaybeKey /\ no \in BOOLEAN
      BY <2>1 DEF MaybeKey
    <3> HIDE DEF x, no
    <3>2. LET y == [x EXCEPT !.key = k, !.useCertStore = no, !.isTpm = no]
          IN  /\ y \in Slot /\ y.publicKeyFmt = x.publicKeyFmt /\ y.cert = x.cert
              /\ y.key = k /\ y.isTpm = no /\ y.mldsaPub = x.mldsaPub
              /\ y.useCertStore = no
      BY <3>1 DEF Slot
    <3> QED BY <3>2 DEF x
  <2> HIDE DEF v
  <2>4. Slots(u)
    <3>1. \A i \in DOMAIN r : r[i] \in Slot
      BY <1>3 DEF Slots
    <3>2. \A i \in DOMAIN r : u[i] \in Slot /\ u[i].publicKeyFmt = r[i].publicKeyFmt
      BY <2>2, <2>3, <3>1
    <3> QED BY <1>3, <2>2, <3>2, SlotsFrom
  <2>5. SigningKey(v) = k
    BY <2>3 DEF SigningKey
  <2>6. CASE f \in Certified
    <3>1. r[c].publicKeyFmt = CertId(f) /\ c # d
      BY <1>1, <1>4, <1>8, <2>1, <2>6
    <3>2. ASSUME NEW i \in DOMAIN r, i # d
          PROVE  IF r[i].publicKeyFmt = CertId(f)
                 THEN /\ u[i].publicKeyFmt = CertId(f) /\ u[i].cert = r[i].cert
                      /\ SigningKey(u[i]) = k
                 ELSE u[i] = r[i]
      <4>1. r[i].publicKeyFmt = CertId(f) => i = c
        BY <1>3, <1>10, <3>1 DEF Slots, Apart
      <4> QED BY <2>2, <2>3, <2>5, <3>1, <4>1
    <3>3. u[d] = r[d]
      BY <1>3, <2>2, <3>1
    <3> QED BY <1>7, <2>2, <2>4, <3>2, <3>3 DEF want
  <2>7. CASE f \notin Certified
    <3>1. c = d
      BY <1>3, <1>4, <1>8, <1>10, <2>1, <2>7 DEF Slots, Apart
    <3>2. \A i \in DOMAIN r : r[i].publicKeyFmt # CertId(f)
      BY <1>1, <1>3, <2>7, NoCertSlot
    <3>3. u[d] = r[d]
      <4> DEFINE x == r[d]
      <4>1. x \in Slot /\ x.key = k /\ x.isTpm = FALSE /\ x.useCertStore = FALSE
        BY <1>3, <1>4 DEF Slot
      <4>2. u[d] = v /\ v = [x EXCEPT !.key = k, !.useCertStore = FALSE, !.isTpm = FALSE]
        BY <2>2, <3>1 DEF v
      <4> HIDE DEF x
      <4>3. [x EXCEPT !.key = k, !.useCertStore = FALSE, !.isTpm = FALSE] = x
        BY <4>1 DEF Slot
      <4> QED BY <4>2, <4>3 DEF x
    <3> QED BY <1>7, <2>2, <2>4, <3>1, <3>2, <3>3 DEF want
  <2> QED BY <2>6, <2>7
<1>11. f \notin Certified => c \in DOMAIN r
  BY <1>3, <1>4, <1>8, FindIs
<1> QED BY <1>9, <1>10, <1>11

\* SetHostPrivateKey(), the failed copy for the certificate's slot included.
LEMMA LoadPrivateKeyKeeps ==
    ASSUME IInv, NEW k \in Keys, NEW format, LoadPrivateKey(k, format)
    PROVE  IInv'
<1> DEFINE s == privateKey
           f == k.fam
           id == IdentifyAsn1Key(k)
           slots == WithPrivateKey(s, k)
           dest == FindPvtKeyIdx(slots, id)
           certIdx == FindPvtKeyIdx(slots, CertTypeForId(id))
           u == UpdateHostCertificates(slots, dest, certIdx)
           a == asked[f]
<1>1. f \in Families /\ id = PlainId(f) /\ Slots(s)
      /\ a \in [key : MaybeKey, cert : MaybeKey] /\ Serves(s, f, a)
  BY KeysAreKeys, FormatOf DEF IInv
<1>2. \/ Refused
      \/ /\ ~CertStoreSlotConflict(s, id) /\ ~(Len(slots) > MaxPvtKeys)
         /\ \/ Install(u) /\ asked' = [asked EXCEPT ![f].key = k]
            \/ /\ privateKey' = slots
               /\ asked' = [asked EXCEPT ![f].key = None]
               /\ UNCHANGED publicKeyAlgo
  BY DEF LoadPrivateKey
<1>3. CASE Refused
  BY <1>3, RefusedKeeps
<1>4. CASE ~CertStoreSlotConflict(s, id) /\ ~(Len(slots) > MaxPvtKeys)
  <2>1. ~FromStore(s, PlainId(f))
    BY <1>1, <1>4 DEF CertStoreSlotConflict
  <2>2. KeyAt(s, slots, dest, k)
    BY <1>1, <2>1, WithPrivateKeyIs
  <2> HIDE DEF slots, dest, certIdx
  <2>5. Slots(slots)
    BY <2>2 DEF KeyAt, Loads
  <2>6. Len(slots) <= MaxPvtKeys
    <3>1. Len(slots) \in Nat /\ MaxPvtKeys \in Nat
      BY <2>5, HostKeysAssumption DEF Slots
    <3> QED BY <1>4, <3>1
  <2>3. CASE Install(u) /\ asked' = [asked EXCEPT ![f].key = k]
    <3> DEFINE want == [a EXCEPT !.key = k]
    <3>1. want \in [key : MaybeKey, cert : MaybeKey]
      BY <1>1 DEF MaybeKey
    <3>2. certIdx = FindPvtKeyIdx(slots, CertTypeForId(PlainId(f)))
      BY <1>1 DEF certIdx
    <3> HIDE DEF u
    <3>3. /\ Loads(s, u, f) /\ DOMAIN u = DOMAIN slots
          /\ \A i \in DOMAIN u : u[i].publicKeyFmt \in Mine(f) => Filled(u[i])
          /\ Serves(u, f, want)
      BY <2>2, <3>2, CopyServes DEF u
    <3>4. asked' = [asked EXCEPT ![f] = want]
      BY <2>3
    <3>5. privateKey' = u /\ publicKeyAlgo' = RefreshPublicKeyAlgo(u)
      BY <2>3 DEF Install
    <3> HIDE DEF want
    <3>6. Len(u) <= MaxPvtKeys
      BY <2>5, <2>6, <3>3, SameLength DEF Loads
    <3> QED BY <1>1, <3>1, <3>3, <3>4, <3>5, <3>6, LoadKeeps
  <2>4. CASE /\ privateKey' = slots
             /\ asked' = [asked EXCEPT ![f].key = None]
             /\ UNCHANGED publicKeyAlgo
    <3> DEFINE want == [a EXCEPT !.key = None]
    <3>1. /\ want \in [key : MaybeKey, cert : MaybeKey]
          /\ want.key = None /\ want.cert = a.cert
      BY <1>1 DEF MaybeKey
    <3>2. asked' = [asked EXCEPT ![f] = want]
      BY <2>4
    <3> HIDE DEF want
    <3>3. /\ Loads(s, slots, f)
          /\ dest \in DOMAIN slots /\ slots[dest].publicKeyFmt = PlainId(f)
          /\ slots[dest].key = k /\ slots[dest].isTpm = FALSE /\ ~slots[dest].useCertStore
          /\ f = "mldsa" => slots[dest].mldsaPub = k
          /\ \A i \in DOMAIN slots : i # dest => i \in DOMAIN s /\ slots[i] = s[i]
      BY <2>2 DEF KeyAt
    <3>4. Filled(slots[dest])
      <4>1. PlainId(f).x509 = FALSE
        BY <1>1, FormatsDiffer
      <4>2. PlainId(f) = PlainId("mldsa") => f = "mldsa"
        BY <1>1, FormatsDiffer DEF Families
      <4> QED BY <3>3, <4>1, <4>2 DEF Filled
    <3>5. \A i \in DOMAIN slots : Filled(slots[i])
      BY <3>3, <3>4 DEF IInv
    <3>6. Serves(slots, f, want)
      <4>1. ASSUME NEW i \in DOMAIN slots, slots[i].publicKeyFmt = CertId(f)
            PROVE  slots[i].cert = want.cert
        <5>1. PlainId(f) # CertId(f)
          BY <1>1, FormatsDiffer
        <5>2. i \in DOMAIN s /\ slots[i] = s[i]
          BY <3>3, <4>1, <5>1
        <5> QED BY <1>1, <3>1, <4>1, <5>2 DEF Serves
      <4> QED BY <3>1, <4>1 DEF Serves
    <3>7. \A i \in DOMAIN s : SigningKey(s[i]) # None => SigningKey(slots[i]) # None
      <4>1. SigningKey(slots[dest]) = k /\ k # None
        BY <3>3, KeysAreKeys DEF SigningKey
      <4>2. \A i \in DOMAIN s : i \in DOMAIN slots
        BY <3>3 DEF Loads
      <4> QED BY <3>3, <4>1, <4>2
    <3> QED BY <1>1, <2>4, <2>6, <3>1, <3>2, <3>3, <3>5, <3>6, <3>7, LoadKeeps
  <2> QED BY <1>2, <1>3, <2>3, <2>4
<1> QED BY <1>2, <1>3, <1>4

\* A slot that got its key from a file or the TPM, not from the store.
Copied(x, slot) ==
    /\ slot.useCertStore = FALSE
    /\ IF x.isTpm THEN slot.isTpm = TRUE ELSE slot.isTpm = FALSE /\ slot.key = x.key

\* UpdateHostCertificates() changes the certificate's slot alone, and leaves
\* it as it is only if there is nothing to copy.
LEMMA UpdateIs ==
    ASSUME NEW s, Slots(s), NEW p, NEW c \in DOMAIN s, p \in DOMAIN s \/ p = 0,
           NEW u, u = UpdateHostCertificates(s, p, c)
    PROVE  /\ Slots(u) /\ DOMAIN u = DOMAIN s
           /\ \A i \in DOMAIN s : i # c => u[i] = s[i]
           /\ u[c].publicKeyFmt = s[c].publicKeyFmt
           /\ u[c] = s[c] \/ (p # 0 /\ Copied(s[p], u[c]))
           /\ (p # 0 /\ (s[p].isTpm \/ s[p].key # None)) => Copied(s[p], u[c])
<1> DEFINE no == FALSE
           yes == TRUE
           x == s[c]
<1>1. \A i \in DOMAIN s : s[i] \in Slot
  BY DEF Slots
<1>2. c # 0
  BY FindIs
<1>3. CASE p = 0
  BY <1>3 DEF UpdateHostCertificates
<1>4. CASE p # 0 /\ ~s[p].isTpm /\ s[p].key = None
  BY <1>4 DEF UpdateHostCertificates
<1>5. CASE p # 0 /\ s[p].isTpm
  <2> DEFINE v == [x EXCEPT !.key = None, !.useCertStore = no, !.isTpm = yes]
  <2>1. u = [s EXCEPT ![c].key = None, ![c].useCertStore = no, ![c].isTpm = yes]
    BY <1>2, <1>5 DEF UpdateHostCertificates
  <2>2. no \in BOOLEAN /\ yes \in BOOLEAN /\ None \in MaybeKey /\ x \in Slot
    BY <1>1 DEF MaybeKey
  <2> HIDE DEF no, yes
  <2>3. /\ DOMAIN u = DOMAIN s /\ u = [i \in DOMAIN u |-> u[i]]
        /\ u[c] = v /\ \A i \in DOMAIN s : i # c => u[i] = s[i]
    BY <2>1
  <2>4. v \in Slot /\ v.publicKeyFmt = x.publicKeyFmt /\ v.useCertStore = no /\ v.isTpm = yes
    <3> HIDE DEF x
    <3> QED BY <2>2 DEF Slot
  <2> HIDE DEF v
  <2>5. Slots(u)
    BY <1>1, <2>3, <2>4, SlotsFrom
  <2>6. Copied(s[p], u[c])
    BY <1>5, <2>3, <2>4 DEF Copied, no, yes
  <2> QED BY <1>5, <2>3, <2>4, <2>5, <2>6
<1>6. CASE p # 0 /\ ~s[p].isTpm /\ s[p].key # None
  <2> DEFINE k == s[p].key
             v == [x EXCEPT !.key = k, !.useCertStore = no, !.isTpm = no]
  <2>1. u = [s EXCEPT ![c].key = k, ![c].useCertStore = no, ![c].isTpm = no]
    BY <1>2, <1>6 DEF UpdateHostCertificates
  <2>2. no \in BOOLEAN /\ k \in MaybeKey /\ x \in Slot
    <3>1. s[p] \in Slot
      BY <1>1, <1>6
    <3> QED BY <1>1, <3>1 DEF Slot
  <2> HIDE DEF no, k
  <2>3. /\ DOMAIN u = DOMAIN s /\ u = [i \in DOMAIN u |-> u[i]]
        /\ u[c] = v /\ \A i \in DOMAIN s : i # c => u[i] = s[i]
    BY <2>1
  <2>4. /\ v \in Slot /\ v.publicKeyFmt = x.publicKeyFmt /\ v.useCertStore = no /\ v.isTpm = no
        /\ v.key = k
    <3> HIDE DEF x
    <3> QED BY <2>2 DEF Slot
  <2> HIDE DEF v
  <2>5. Slots(u)
    BY <1>1, <2>3, <2>4, SlotsFrom
  <2>6. Copied(s[p], u[c])
    BY <1>6, <2>3, <2>4 DEF Copied, no, k
  <2> QED BY <1>6, <2>3, <2>4, <2>5, <2>6
<1> QED BY <1>3, <1>4, <1>5, <1>6

\* SetHostCertificate() keeps the invariant.
LEMMA LoadCertificateKeeps ==
    ASSUME IInv, NEW k \in Keys, LoadCertificate(k)
    PROVE  IInv'
<1> DEFINE s == privateKey
           f == k.fam
           id == CertId(f)
           slots == Claimed(s, id)
           dest == FindPvtKeyIdx(slots, id)
           p == FindPvtKeyIdx(s, PlainId(f))
           u == UpdateHostCertificates(slots, p, dest)
           t == [u EXCEPT ![dest].cert = k]
           a == asked[f]
           want == [a EXCEPT !.cert = k]
<1>1. f \in Families /\ k # None /\ IdentifyAsn1Key(k) = PlainId(f) /\ Slots(s)
      /\ a \in [key : MaybeKey, cert : MaybeKey] /\ Serves(s, f, a)
  BY KeysAreKeys, FormatOf DEF IInv
<1>2. f \in Certified /\
      \/ Refused
      \/ /\ ~FromStore(s, PlainId(f)) /\ Len(slots) <= MaxPvtKeys
         /\ Install(t) /\ asked' = [asked EXCEPT ![f].cert = k]
  <2>1. IdentifyCert(k) = IF f \in Certified THEN {CertId(f)} ELSE {}
    BY <1>1, FormatOf
  <2> QED BY <1>1, <2>1 DEF LoadCertificate
<1>3. CASE Refused
  BY <1>3, RefusedKeeps
<1>4. CASE /\ ~FromStore(s, PlainId(f)) /\ Len(slots) <= MaxPvtKeys
           /\ Install(t) /\ asked' = [asked EXCEPT ![f].cert = k]
  <2>1. id \in SlotIds /\ PlainId(f) # id /\ id.x509 = TRUE /\ id # PlainId("mldsa")
    BY <1>1, <1>2, FormatsDiffer DEF Families
  <2>2. IsClaimed(s, slots, id, dest)
    <3> HIDE DEF id
    <3> QED BY <1>1, <2>1, ClaimedIs
  <2>3. /\ Slots(slots) /\ dest \in DOMAIN slots /\ slots[dest].publicKeyFmt = id
        /\ \A i \in DOMAIN s : i \in DOMAIN slots /\ slots[i] = s[i]
        /\ \A i \in DOMAIN slots : i # dest => i \in DOMAIN s
    BY <2>2 DEF IsClaimed
  <2>4. p \in DOMAIN s \/ p = 0
    BY <1>1, FindIs
  <2>5. /\ want \in [key : MaybeKey, cert : MaybeKey] /\ want.cert = k /\ want.key = a.key
    BY <1>1 DEF MaybeKey
  <2>6. asked' = [asked EXCEPT ![f] = want]
    BY <1>4
  <2>7. privateKey' = t /\ publicKeyAlgo' = RefreshPublicKeyAlgo(t)
    BY <1>4 DEF Install
  <2> HIDE DEF slots, dest, p, want
  <2>8. /\ Slots(u) /\ DOMAIN u = DOMAIN slots
        /\ \A i \in DOMAIN slots : i # dest => u[i] = slots[i]
        /\ u[dest].publicKeyFmt = slots[dest].publicKeyFmt
        /\ (p # 0 /\ (slots[p].isTpm \/ slots[p].key # None)) => Copied(slots[p], u[dest])
    <3>1. p \in DOMAIN slots \/ p = 0
      BY <2>3, <2>4
    <3> HIDE DEF u
    <3> QED BY <2>3, <3>1, UpdateIs DEF u
  <2> HIDE DEF u
  <2> DEFINE x == u[dest]
             v == [x EXCEPT !.cert = k]
  <2>9. x \in Slot /\ x.publicKeyFmt = id
    BY <2>3, <2>8 DEF Slots
  <2>10. /\ DOMAIN t = DOMAIN u /\ t = [i \in DOMAIN t |-> t[i]]
         /\ t[dest] = v /\ \A i \in DOMAIN u : i # dest => t[i] = u[i]
    BY <2>3, <2>8
  <2>11. /\ v \in Slot /\ v.publicKeyFmt = id /\ v.cert = k
         /\ v.key = x.key /\ v.isTpm = x.isTpm /\ v.useCertStore = x.useCertStore
    <3>1. k \in MaybeKey
      BY DEF MaybeKey
    <3> HIDE DEF x, id
    <3> QED BY <2>9, <3>1 DEF Slot
  <2> HIDE DEF v, t, x
  <2>12. Slots(t)
    <3>1. \A i \in DOMAIN u : u[i] \in Slot
      BY <2>8 DEF Slots
    <3>2. \A i \in DOMAIN u : t[i] \in Slot /\ t[i].publicKeyFmt = u[i].publicKeyFmt
      BY <2>8, <2>9, <2>10, <2>11, <3>1 DEF x
    <3> QED BY <2>8, <2>10, <3>2, SlotsFrom
  <2>13. \A i \in DOMAIN t : i # dest => i \in DOMAIN s /\ t[i] = s[i]
    BY <2>3, <2>8, <2>10
  <2>14. id \in Mine(f)
    BY DEF Mine
  <2>15. Loads(s, t, f)
    <3>1. ASSUME NEW i \in DOMAIN s
          PROVE  /\ i \in DOMAIN t /\ t[i].publicKeyFmt = s[i].publicKeyFmt
                 /\ s[i].publicKeyFmt \notin Mine(f) => t[i] = s[i]
      <4>1. i \in DOMAIN t /\ slots[i] = s[i]
        BY <2>3, <2>8, <2>10
      <4> HIDE DEF id
      <4> QED BY <2>3, <2>10, <2>11, <2>13, <2>14, <4>1
    <3>2. ASSUME NEW i \in DOMAIN t PROVE t[i].publicKeyFmt \in Mine(f) \/ i \in DOMAIN s
      BY <2>10, <2>11, <2>13, <2>14
    <3> QED BY <2>12, <3>1, <3>2 DEF Loads
  <2>16. ASSUME NEW i \in DOMAIN t PROVE Filled(t[i])
    <3>1. Filled(v)
      BY <1>1, <2>1, <2>11 DEF Filled
    <3> QED BY <2>10, <2>13, <3>1 DEF IInv
  <2>17. Serves(t, f, want)
    <3>1. ASSUME want.key # None
          PROVE  /\ \E i \in DOMAIN t : t[i].publicKeyFmt = PlainId(f) /\ SigningKey(t[i]) = want.key
                 /\ SigningKey(v) = want.key
      <4>1. PICK i \in DOMAIN s : s[i].publicKeyFmt = PlainId(f) /\ SigningKey(s[i]) = a.key
        BY <1>1, <2>5, <3>1 DEF Serves
      <4>2. p = i /\ p # 0
        BY <1>1, <4>1, FindIs DEF p
      <4>3. ~s[i].useCertStore
        BY <1>1, <1>4, <4>1, NotFromStore
      <4>4. i # dest /\ slots[i] = s[i]
        BY <2>1, <2>3, <4>1
      <4>5. i \in DOMAIN t /\ t[i] = s[i]
        BY <2>3, <2>8, <2>10, <2>13, <4>4
      <4>6. s[i].isTpm \/ s[i].key # None
        BY <2>5, <3>1, <4>1, <4>3 DEF SigningKey
      <4>7. Copied(s[i], x)
        BY <2>8, <4>2, <4>4, <4>6 DEF x
      <4>8. SigningKey(v) = SigningKey(s[i])
        BY <2>11, <4>3, <4>7 DEF Copied, SigningKey
      <4> QED BY <2>5, <4>1, <4>5, <4>8
    <3>2. ASSUME NEW i \in DOMAIN t, t[i].publicKeyFmt = CertId(f)
          PROVE  i = dest
      BY <2>3, <2>8, <2>10, <2>11, <2>12, <3>2 DEF Slots, Apart
    <3>3. t[dest] = v /\ v.cert = want.cert
      BY <2>5, <2>10, <2>11
    <3> QED BY <3>1, <3>2, <3>3 DEF Serves
  <2>18. Len(t) <= MaxPvtKeys
    BY <1>4, <2>3, <2>8, <2>10, <2>12, SameLength
  <2> QED BY <1>1, <2>5, <2>6, <2>7, <2>15, <2>16, <2>17, <2>18, LoadKeeps
<1> QED BY <1>2, <1>3, <1>4

\* wolfSSH_SetHostTpmKey() keeps the invariant.
LEMMA SetHostTpmKeyKeeps ==
    ASSUME IInv, SetHostTpmKey
    PROVE  IInv'
<1> DEFINE s == privateKey
           f == TpmKey.fam
           id == PlainId(f)
           slots == Claimed(s, id)
           dest == FindPvtKeyIdx(slots, id)
           c == FindPvtKeyIdx(slots, CertTypeForId(id))
           mine == {dest, c}
           yes == TRUE
           t == [i \in DOMAIN slots |->
                    IF i \in mine
                    THEN [slots[i] EXCEPT !.key = None, !.isTpm = yes, !.mldsaPub = None]
                    ELSE slots[i]]
           a == asked[f]
           want == [a EXCEPT !.key = TpmKey]
<1>1. f \in Families /\ TpmKey # None /\ TpmKey \in Keys /\ IdentifyAsn1Key(TpmKey) = id /\ Slots(s)
      /\ a \in [key : MaybeKey, cert : MaybeKey] /\ Serves(s, f, a)
  BY KeysAreKeys, FormatOf DEF IInv
<1>2. \/ Refused
      \/ /\ ~CertStoreSlotConflict(s, id) /\ ~(Len(slots) > MaxPvtKeys)
         /\ Install(t) /\ asked' = [asked EXCEPT ![f].key = TpmKey]
  BY <1>1 DEF SetHostTpmKey
<1>3. CASE Refused
  BY <1>3, RefusedKeeps
<1>4. CASE /\ ~CertStoreSlotConflict(s, id) /\ ~(Len(slots) > MaxPvtKeys)
           /\ Install(t) /\ asked' = [asked EXCEPT ![f].key = TpmKey]
  <2>1. id \in SlotIds /\ CertId(f) # id /\ id.x509 = FALSE /\ CertId(f) # PlainId("mldsa")
        /\ id \in Mine(f) /\ CertId(f) \in Mine(f)
    BY <1>1, FormatsDiffer DEF Families, Mine
  <2>2. IsClaimed(s, slots, id, dest)
    <3> HIDE DEF id
    <3> QED BY <1>1, <2>1, ClaimedIs
  <2>3. /\ Slots(slots) /\ dest \in DOMAIN slots /\ slots[dest].publicKeyFmt = id
        /\ \A i \in DOMAIN s : i \in DOMAIN slots /\ slots[i] = s[i]
        /\ \A i \in DOMAIN slots : i # dest => i \in DOMAIN s
        /\ dest \notin DOMAIN s => slots[dest] = EmptySlot(id)
    BY <2>2 DEF IsClaimed
  <2>4. /\ want \in [key : MaybeKey, cert : MaybeKey] /\ want.cert = a.cert /\ want.key = TpmKey
    BY <1>1 DEF MaybeKey
  <2>5. asked' = [asked EXCEPT ![f] = want]
    BY <1>4
  <2>6. privateKey' = t /\ publicKeyAlgo' = RefreshPublicKeyAlgo(t)
    BY <1>4 DEF Install
  <2> HIDE DEF want
  <2>7. CertTypeForId(id) = IF f \in Certified THEN CertId(f) ELSE id
    BY <1>1, FormatOf
  <2>8. ASSUME NEW i \in DOMAIN slots
        PROVE  i \in mine <=> slots[i].publicKeyFmt \in Mine(f)
    <3>1. (i = dest) <=> slots[i].publicKeyFmt = id
      BY <2>3 DEF Slots, Apart
    <3>2. (i = c) <=> slots[i].publicKeyFmt = CertTypeForId(id)
      BY <2>3, FindIs
    <3>3. f \notin Certified => slots[i].publicKeyFmt # CertId(f)
      BY <1>1, <2>3, NoCertSlot
    <3> QED BY <2>7, <3>1, <3>2, <3>3 DEF Mine
  <2>9. ASSUME NEW i \in DOMAIN slots, slots[i].publicKeyFmt \in Mine(f)
        PROVE  ~slots[i].useCertStore
    <3>1. CASE i \in DOMAIN s
      <4>1. slots[i] = s[i] /\ ~FromStore(s, id) /\ ~FromStore(s, CertTypeForId(id))
        BY <1>4, <2>3, <3>1 DEF CertStoreSlotConflict
      <4>2. slots[i].publicKeyFmt = id \/ slots[i].publicKeyFmt = CertTypeForId(id)
        <5>1. f \notin Certified => slots[i].publicKeyFmt # CertId(f)
          BY <1>1, <2>3, NoCertSlot
        <5> QED BY <2>7, <2>9, <5>1 DEF Mine
      <4> QED BY <1>1, <3>1, <4>1, <4>2, NotFromStore
    <3>2. CASE i \notin DOMAIN s
      BY <2>1, <2>3, <3>2, EmptyIs
    <3> QED BY <3>1, <3>2
  <2> HIDE DEF mine, slots, dest, c
  <2>10. /\ DOMAIN t = DOMAIN slots /\ t = [i \in DOMAIN t |-> t[i]]
    OBVIOUS
  <2>11. ASSUME NEW i \in DOMAIN slots
         PROVE  IF slots[i].publicKeyFmt \in Mine(f)
                THEN /\ t[i] \in Slot /\ t[i].publicKeyFmt = slots[i].publicKeyFmt
                     /\ t[i].cert = slots[i].cert /\ t[i].useCertStore = FALSE
                     /\ t[i].isTpm = TRUE /\ t[i].key = None /\ t[i].mldsaPub = None
                ELSE t[i] = slots[i]
    <3>1. CASE slots[i].publicKeyFmt \notin Mine(f)
      BY <2>8, <3>1
    <3>2. CASE slots[i].publicKeyFmt \in Mine(f)
      <4> DEFINE x == slots[i]
                 y == [x EXCEPT !.key = None, !.isTpm = yes, !.mldsaPub = None]
      <4>1. x \in Slot /\ x.useCertStore = FALSE
        <5>1. x \in Slot
          BY <2>3 DEF Slots
        <5>2. x.useCertStore \in BOOLEAN
          BY <5>1 DEF Slot
        <5> QED BY <2>9, <3>2, <5>1, <5>2
      <4>2. t[i] = y
        BY <2>8, <3>2
      <4>3. None \in MaybeKey /\ yes \in BOOLEAN
        BY DEF MaybeKey
      <4> HIDE DEF x, yes
      <4>4. /\ y \in Slot /\ y.publicKeyFmt = x.publicKeyFmt /\ y.cert = x.cert
            /\ y.useCertStore = x.useCertStore /\ y.isTpm = yes /\ y.key = None
            /\ y.mldsaPub = None
        BY <4>1, <4>3 DEF Slot
      <4> HIDE DEF y
      <4> QED BY <3>2, <4>1, <4>2, <4>4 DEF x, yes
    <3> QED BY <3>1, <3>2
  <2> HIDE DEF t
  <2>12. Slots(t)
    <3>1. \A i \in DOMAIN slots : slots[i] \in Slot
      BY <2>3 DEF Slots
    <3>2. \A i \in DOMAIN slots : t[i] \in Slot /\ t[i].publicKeyFmt = slots[i].publicKeyFmt
      BY <2>11, <3>1
    <3> QED BY <2>3, <2>10, <3>2, SlotsFrom
  <2>13. Loads(s, t, f)
    <3>1. ASSUME NEW i \in DOMAIN s
          PROVE  /\ i \in DOMAIN t /\ t[i].publicKeyFmt = s[i].publicKeyFmt
                 /\ s[i].publicKeyFmt \notin Mine(f) => t[i] = s[i]
      BY <2>3, <2>10, <2>11
    <3>2. ASSUME NEW i \in DOMAIN t PROVE t[i].publicKeyFmt \in Mine(f) \/ i \in DOMAIN s
      BY <2>1, <2>3, <2>10, <2>11
    <3> QED BY <2>12, <3>1, <3>2 DEF Loads
  <2>14. ASSUME NEW i \in DOMAIN t, t[i].publicKeyFmt \in Mine(f) PROVE Filled(t[i])
    <3>1. /\ t[i].publicKeyFmt = slots[i].publicKeyFmt /\ slots[i].publicKeyFmt \in Mine(f)
          /\ t[i].cert = slots[i].cert /\ t[i].useCertStore = FALSE
          /\ t[i].key = None /\ t[i].mldsaPub = None
      BY <2>10, <2>11, <2>14
    <3>2. CASE i \in DOMAIN s
      BY <2>3, <3>1, <3>2 DEF IInv, Filled
    <3>3. CASE i \notin DOMAIN s
      BY <2>1, <2>3, <2>10, <3>1, <3>3 DEF Filled
    <3> QED BY <3>2, <3>3
  <2>15. Serves(t, f, want)
    <3>1. dest \in DOMAIN t /\ t[dest].publicKeyFmt = id /\ SigningKey(t[dest]) = want.key
      BY <2>1, <2>3, <2>4, <2>10, <2>11 DEF SigningKey
    <3>2. ASSUME NEW i \in DOMAIN t, t[i].publicKeyFmt = CertId(f)
          PROVE  t[i].cert = want.cert /\ SigningKey(t[i]) = want.key
      <4>1. i # dest /\ slots[i].publicKeyFmt = CertId(f)
        BY <2>1, <2>3, <2>10, <2>11, <3>2
      <4>2. i \in DOMAIN s /\ slots[i] = s[i] /\ s[i].cert = a.cert
        BY <1>1, <2>3, <2>10, <4>1 DEF Serves
      <4>3. t[i].cert = slots[i].cert /\ t[i].useCertStore = FALSE /\ t[i].isTpm = TRUE
        BY <2>1, <2>10, <2>11, <4>1
      <4> QED BY <2>4, <4>2, <4>3 DEF SigningKey
    <3> QED BY <3>1, <3>2 DEF Serves
  <2>16. Len(t) <= MaxPvtKeys
    <3>1. Len(t) = Len(slots)
      BY <2>3, <2>10, <2>12, SameLength
    <3>2. Len(slots) \in Nat /\ MaxPvtKeys \in Nat
      BY <2>3, HostKeysAssumption DEF Slots
    <3> QED BY <1>4, <3>1, <3>2
  <2> QED BY <1>1, <2>4, <2>5, <2>6, <2>13, <2>14, <2>15, <2>16, LoadKeeps
<1> QED BY <1>2, <1>3, <1>4

\* t is s with the store's key k alone in the slot of format id, at d.
StoreAt(s, t, d, id, k) ==
    /\ Slots(t)
    /\ d \in DOMAIN t /\ t[d].publicKeyFmt = id
    /\ t[d].cert = k /\ t[d].useCertStore = TRUE /\ t[d].key = None /\ t[d].mldsaPub = None
    /\ \A i \in DOMAIN s : i \in DOMAIN t /\ t[i].publicKeyFmt = s[i].publicKeyFmt
    /\ \A i \in DOMAIN t : i # d => i \in DOMAIN s /\ t[i] = s[i]

\* CommitCertStoreSlot() replaces one slot, or adds it.
LEMMA CommitIs ==
    ASSUME NEW s, Slots(s), NEW id \in SlotIds, NEW k \in Keys
    PROVE  \E d : StoreAt(s, CommitCertStoreSlot(s, id, k), d, id, k)
<1> DEFINE c == Claimed(s, id)
           d == FindPvtKeyIdx(c, id)
           e == EmptySlot(id)
           yes == TRUE
           v == [e EXCEPT !.useCertStore = yes, !.cert = k]
           t == CommitCertStoreSlot(s, id, k)
<1>1. IsClaimed(s, c, id, d)
  BY ClaimedIs
<1>2. /\ Slots(c) /\ d \in DOMAIN c /\ c[d].publicKeyFmt = id
      /\ \A i \in DOMAIN s : i \in DOMAIN c /\ c[i] = s[i]
      /\ \A i \in DOMAIN c : i # d => i \in DOMAIN s
  BY <1>1 DEF IsClaimed
<1>3. t = [c EXCEPT ![d] = v]
  BY DEF CommitCertStoreSlot
<1> HIDE DEF c, d
<1>4. e \in Slot /\ e.publicKeyFmt = id /\ e.key = None /\ e.mldsaPub = None
  BY EmptyIs DEF EmptySlot
<1>5. yes \in BOOLEAN /\ k \in MaybeKey
  BY DEF MaybeKey
<1> HIDE DEF e, yes
<1>6. /\ v \in Slot /\ v.publicKeyFmt = id /\ v.cert = k /\ v.useCertStore = yes
      /\ v.key = None /\ v.mldsaPub = None
  BY <1>4, <1>5 DEF Slot
<1> HIDE DEF v, t
<1>7. /\ DOMAIN t = DOMAIN c /\ t = [i \in DOMAIN t |-> t[i]]
      /\ t[d] = v /\ \A i \in DOMAIN c : i # d => t[i] = c[i]
  BY <1>2, <1>3
<1>8. Slots(t)
  <2>1. \A i \in DOMAIN c : c[i] \in Slot
    BY <1>2 DEF Slots
  <2>2. \A i \in DOMAIN c : t[i] \in Slot /\ t[i].publicKeyFmt = c[i].publicKeyFmt
    BY <1>2, <1>6, <1>7, <2>1
  <2> QED BY <1>2, <1>7, <2>2, SlotsFrom
<1>9. \A i \in DOMAIN s : i \in DOMAIN t /\ t[i].publicKeyFmt = s[i].publicKeyFmt
  BY <1>2, <1>6, <1>7
<1>10. \A i \in DOMAIN t : i # d => i \in DOMAIN s /\ t[i] = s[i]
  BY <1>2, <1>7
<1>11. StoreAt(s, t, d, id, k)
  BY <1>2, <1>6, <1>7, <1>8, <1>9, <1>10 DEF StoreAt, yes
<1> QED BY <1>11 DEF t

\* wolfSSH_CTX_UsePrivateKey_fromStore() keeps the invariant.
LEMMA StoreKeeps ==
    ASSUME IInv, NEW k \in StoreKeys, UsePrivateKey_fromStore(k)
    PROVE  IInv'
<1> DEFINE s == privateKey
           f == k.fam
           id == PlainId(f)
           cid == CertId(f)
           r == CommitCertStoreSlot(s, id, k)
           t == IF f = "rsa" \/ f \notin Certified THEN r
                ELSE CommitCertStoreSlot(r, cid, k)
           want == [key |-> k, cert |-> k]
<1>1. f \in Families /\ k \in Keys /\ k # None /\ IdentifyAsn1Key(k) = id /\ Slots(s)
      /\ CertTypeForId(id) = IF f \in Certified THEN cid ELSE id
  <2>1. k \in Keys
    BY HostKeysAssumption
  <2>2. f \in Families /\ k # None
    BY <2>1, KeysAreKeys
  <2> QED BY <2>1, <2>2, FormatOf DEF IInv
<1>2. id \in SlotIds /\ cid # id /\ (f \in Certified => cid \in SlotIds)
      /\ id \in Mine(f) /\ cid \in Mine(f)
  BY <1>1, FormatsDiffer DEF Mine
<1> HIDE DEF id, cid
<1>3. \/ Refused
      \/ /\ f = "rsa" => FindPvtKeyIdx(s, cid) = 0
         /\ Install(t) /\ asked' = [asked EXCEPT ![f] = want] /\ Len(t) <= MaxPvtKeys
  <2>1. f = "rsa" => f \in Certified
    BY DEF Certified
  <2>2. CertTypeForId(id) = id <=> f \notin Certified
    BY <1>1, <1>2
  <2>3. \/ Refused
        \/ /\ f = "rsa" => FindPvtKeyIdx(s, CertTypeForId(id)) = 0
           /\ Len(IF f = "rsa" \/ CertTypeForId(id) = id THEN r
                  ELSE CommitCertStoreSlot(r, CertTypeForId(id), k)) <= MaxPvtKeys
           /\ Install(IF f = "rsa" \/ CertTypeForId(id) = id THEN r
                      ELSE CommitCertStoreSlot(r, CertTypeForId(id), k))
           /\ asked' = [asked EXCEPT ![f] = want]
    BY <1>1 DEF UsePrivateKey_fromStore
  <2>4. (IF f = "rsa" \/ CertTypeForId(id) = id THEN r
         ELSE CommitCertStoreSlot(r, CertTypeForId(id), k)) = t
    BY <1>1, <2>2
  <2> HIDE DEF t, r, want
  <2> QED BY <1>1, <2>1, <2>3, <2>4
<1>4. CASE Refused
  BY <1>4, RefusedKeeps
<1>5. CASE /\ f = "rsa" => FindPvtKeyIdx(s, cid) = 0
           /\ Install(t) /\ asked' = [asked EXCEPT ![f] = want] /\ Len(t) <= MaxPvtKeys
  <2>1. want \in [key : MaybeKey, cert : MaybeKey] /\ want.key = k /\ want.cert = k
    BY <1>1 DEF MaybeKey
  <2>2. privateKey' = t /\ publicKeyAlgo' = RefreshPublicKeyAlgo(t)
    BY <1>5 DEF Install
  <2>3. asked' = [asked EXCEPT ![f] = want]
    BY <1>5
  <2>4. PICK d : StoreAt(s, r, d, id, k)
    BY <1>1, <1>2, CommitIs
  <2> HIDE DEF r, want
  \* Both slots, where there are two, hold the store's key and nothing else.
  <2>5. /\ Slots(t)
        /\ \A i \in DOMAIN s : i \in DOMAIN t /\ t[i].publicKeyFmt = s[i].publicKeyFmt
        /\ d \in DOMAIN t /\ t[d].publicKeyFmt = id
        /\ \A i \in DOMAIN t :
              IF t[i].publicKeyFmt \in Mine(f)
              THEN t[i].cert = k /\ t[i].useCertStore = TRUE /\ t[i].key = None
                   /\ t[i].mldsaPub = None
              ELSE i \in DOMAIN s /\ t[i] = s[i]
    <3>1. /\ Slots(r)
          /\ \A i \in DOMAIN s : i \in DOMAIN r /\ r[i].publicKeyFmt = s[i].publicKeyFmt
          /\ d \in DOMAIN r /\ r[d].publicKeyFmt = id
          /\ r[d].cert = k /\ r[d].useCertStore = TRUE /\ r[d].key = None /\ r[d].mldsaPub = None
          /\ \A i \in DOMAIN r : i # d => i \in DOMAIN s /\ r[i] = s[i]
      BY <2>4 DEF StoreAt
    <3>2. \A i \in DOMAIN r : r[i].publicKeyFmt = id => i = d
      BY <3>1 DEF Slots, Apart
    <3>3. CASE f = "rsa" \/ f \notin Certified
      <4>1. t = r
        BY <3>3
      <4>2. \A i \in DOMAIN r : r[i].publicKeyFmt # cid
        <5>1. CASE f = "rsa"
          <6>1. \A i \in DOMAIN s : s[i].publicKeyFmt # cid
            BY <1>1, <1>5, <5>1, FindIs
          <6> QED BY <1>2, <3>1, <6>1
        <5>2. CASE f \notin Certified
          BY <1>1, <3>1, <5>2, NoCertSlot DEF cid
        <5> QED BY <3>3, <5>1, <5>2
      <4>3. \A i \in DOMAIN r : r[i].publicKeyFmt \in Mine(f) => i = d
        BY <3>2, <4>2 DEF Mine, id, cid
      <4> QED BY <1>2, <3>1, <4>1, <4>3
    <3>4. CASE ~(f = "rsa" \/ f \notin Certified)
      <4>1. t = CommitCertStoreSlot(r, cid, k)
        BY <3>4
      <4>2. PICK e : StoreAt(r, t, e, cid, k)
        BY <1>1, <1>2, <3>1, <3>4, <4>1, CommitIs
      <4> HIDE DEF t
      <4>3. /\ Slots(t)
            /\ \A i \in DOMAIN r : i \in DOMAIN t /\ t[i].publicKeyFmt = r[i].publicKeyFmt
            /\ e \in DOMAIN t /\ t[e].publicKeyFmt = cid
            /\ t[e].cert = k /\ t[e].useCertStore = TRUE /\ t[e].key = None /\ t[e].mldsaPub = None
            /\ \A i \in DOMAIN t : i # e => i \in DOMAIN r /\ t[i] = r[i]
        BY <4>2 DEF StoreAt
      <4>4. d # e /\ d \in DOMAIN t /\ t[d] = r[d]
        BY <1>2, <3>1, <4>3
      <4>5. \A i \in DOMAIN t : t[i].publicKeyFmt = cid => i = e
        BY <4>3 DEF Slots, Apart
      <4>6. ASSUME NEW i \in DOMAIN t
            PROVE  IF t[i].publicKeyFmt \in Mine(f)
                   THEN t[i].cert = k /\ t[i].useCertStore = TRUE /\ t[i].key = None
                        /\ t[i].mldsaPub = None
                   ELSE i \in DOMAIN s /\ t[i] = s[i]
        <5>1. t[i].publicKeyFmt \in Mine(f) <=> i \in {d, e}
          BY <1>2, <3>1, <3>2, <4>3, <4>4, <4>5 DEF Mine, id, cid
        <5> QED BY <3>1, <4>3, <4>4, <5>1
      <4> QED BY <3>1, <4>3, <4>4, <4>6
    <3> QED BY <3>3, <3>4
  <2> HIDE DEF t
  <2>6. Loads(s, t, f)
    <3>1. ASSUME NEW i \in DOMAIN s
          PROVE  /\ i \in DOMAIN t /\ t[i].publicKeyFmt = s[i].publicKeyFmt
                 /\ s[i].publicKeyFmt \notin Mine(f) => t[i] = s[i]
      BY <2>5
    <3> QED BY <2>5, <3>1 DEF Loads
  <2>7. ASSUME NEW i \in DOMAIN t, t[i].publicKeyFmt \in Mine(f) PROVE Filled(t[i])
    BY <1>1, <2>5, <2>7 DEF Filled
  <2>8. Serves(t, f, want)
    <3>1. ASSUME NEW i \in DOMAIN t, t[i].publicKeyFmt \in Mine(f)
          PROVE  t[i].cert = want.cert /\ SigningKey(t[i]) = want.key
      BY <2>1, <2>5, <3>1 DEF SigningKey
    <3> QED BY <1>2, <2>5, <3>1 DEF Serves, id, cid
  <2> QED BY <1>1, <1>5, <2>1, <2>2, <2>3, <2>6, <2>7, <2>8, LoadKeeps
<1> QED BY <1>3, <1>4, <1>5

----------------------------------------------------------------------------
(* The theorems.                                                           *)

\* A loading call keeps the invariant, whichever it is and however it ends.
LEMMA LoadNextKeeps ==
    ASSUME IInv, LoadNext
    PROVE  IInv'
<1>1. CASE \E k \in Keys \ ({TpmKey} \union StoreKeys), format \in {"asn1", "pem", "openssh"} :
              LoadPrivateKey(k, format)
  BY <1>1, LoadPrivateKeyKeeps
<1>2. CASE \E k \in Keys \ StoreKeys : LoadCertificate(k)
  BY <1>2, LoadCertificateKeeps
<1>3. CASE SetHostTpmKey
  BY <1>3, SetHostTpmKeyKeeps
<1>4. CASE \E k \in StoreKeys : UsePrivateKey_fromStore(k)
  BY <1>4, StoreKeeps
<1> QED BY <1>1, <1>2, <1>3, <1>4 DEF LoadNext

\* Once the connection has started the host keys stay as they are.
LEMMA NextKeeps ==
    ASSUME IInv, [Next]_vars
    PROVE  IInv'
<1>1. CASE Load
  BY <1>1, LoadNextKeeps DEF Load
<1>2. CASE UNCHANGED <<privateKey, publicKeyAlgo, asked>>
  BY <1>2 DEF IInv
<1>3. CASE \E scenario \in Scenarios : Start(scenario)
  BY <1>2, <1>3 DEF Start
<1>4. CASE UNCHANGED vars
  BY <1>2, <1>4 DEF vars
<1>5. CASE Unloading
  BY <1>2, <1>5 DEF Unloading
<1>6. CASE ServerDoKexInit \/ ClientDoKexInit \/ SkipGuessedKexMsg \/ ServerRefuses
  BY <1>5, <1>6 DEF ServerDoKexInit, ClientDoKexInit, SkipGuessedKexMsg, ServerRefuses
<1>7. CASE DoKexDhGexRequest \/ DoKexDhGexGroup
  BY <1>5, <1>7 DEF DoKexDhGexRequest, DoKexDhGexGroup
<1>8. CASE \E short \in BOOLEAN : SendKexDhReply(short)
  BY <1>5, <1>8 DEF SendKexDhReply
<1>9. CASE DoKexDhReply \/ DoExtInfo \/ SendUserAuthRequest \/ DoUserAuthRequest
  BY <1>5, <1>9 DEF DoKexDhReply, DoExtInfo, SendUserAuthRequest, DoUserAuthRequest
<1> QED BY <1>1, <1>3, <1>4, <1>6, <1>7, <1>8, <1>9 DEF Next

\* A new context has no host keys.
LEMMA InitKeeps ==
    ASSUME Init
    PROVE  IInv
<1>1. privateKey = <<>> /\ publicKeyAlgo = <<>>
      /\ asked = [f \in Families |-> [key |-> None, cert |-> None]]
  BY DEF Init, HostInit
<1>2. Slots(privateKey) /\ DOMAIN privateKey = {}
  BY <1>1 DEF Slots, Apart
<1>3. Range(publicKeyAlgo) = {}
  BY <1>1 DEF Range
<1>4. [key |-> None, cert |-> None] \in [key : MaybeKey, cert : MaybeKey]
  BY DEF MaybeKey
<1>5. ASSUME NEW f \in Families PROVE Serves(privateKey, f, asked[f])
  <2>1. asked[f].key = None
    BY <1>1
  <2> QED BY <1>2, <2>1 DEF Serves
<1>6. Len(privateKey) <= MaxPvtKeys /\ Len(publicKeyAlgo) <= MaxPubKeyAlgo
  BY <1>1, HostKeysAssumption DEF MaxPubKeyAlgo
<1> QED BY <1>1, <1>2, <1>3, <1>4, <1>5, <1>6 DEF IInv

\* In every reachable state, for any host keys and any number of loading
\* calls: one slot per format, every certificate's slot filled, everything
\* advertised with a slot that signs, and the slots of each family those of
\* the key and certificate the application last loaded for it.
THEOREM HostKeysInvariant == Spec => []IInv
<1>1. Init => IInv
  BY InitKeeps
<1>2. IInv /\ [Next]_vars => IInv'
  BY NextKeeps
<1> QED BY <1>1, <1>2, PTL DEF Spec

\* SendKexDhReply() finds a slot it can sign with for whatever the server
\* advertised, no format has two slots, and a certificate signs with the key
\* that was loaded for it.
THEOREM SlotsConsistentAlways == Spec => []SlotsConsistent
<1>1. ASSUME IInv PROVE SlotsConsistent
  <2> DEFINE s == privateKey
  <2>1. Slots(s) /\ \A i \in DOMAIN s : s[i] \in Slot /\ Filled(s[i])
    BY <1>1 DEF IInv, Slots
  <2>2. ASSUME NEW x \in Range(publicKeyAlgo), NEW i, i = FindPvtKeyIdx(s, PubKeyFmtId(x))
        PROVE  /\ i # 0
               /\ SigningKey(s[i]) # None
               /\ x.x509 => s[i].cert # None
               /\ x.fam = "mldsa" /\ ~x.x509 => s[i].mldsaPub = s[i].key
    <3>1. PICK j \in DOMAIN s : s[j].publicKeyFmt = PubKeyFmtId(x) /\ SigningKey(s[j]) # None
      BY <1>1 DEF IInv, Signs
    <3>2. i = j /\ i # 0
      BY <2>1, <2>2, <3>1, FindIs
    <3>3. Filled(s[j]) /\ s[j].publicKeyFmt \in SlotIds
      BY <2>1 DEF Slot
    <3>4. x.x509 => s[j].cert # None
      BY <3>1, <3>3 DEF Filled, PubKeyFmtId
    <3>5. ASSUME x.fam = "mldsa", ~x.x509 PROVE s[j].mldsaPub = s[j].key
      <4>1. s[j].publicKeyFmt = x
        BY <3>1, <3>5 DEF PubKeyFmtId
      <4>2. x = PlainId("mldsa")
        <5>1. CASE \E f \in Families : x = PlainId(f)
          BY <3>5, <5>1, FormatsDiffer
        <5>2. CASE \E f \in Certified : x = CertId(f)
          BY <3>5, <5>2, CertifiedFamilies, FormatsDiffer
        <5> QED BY <3>3, <4>1, <5>1, <5>2, FormatCases
      <4> QED BY <3>3, <4>1, <4>2 DEF Filled
    <3> QED BY <3>1, <3>2, <3>4, <3>5
  <2>3. ASSUME NEW i \in DOMAIN s, NEW want, want = asked[s[i].publicKeyFmt.fam],
               s[i].publicKeyFmt.x509, want.key = want.cert, want.key # None
        PROVE  s[i].cert = want.cert /\ SigningKey(s[i]) = want.key
    <3>1. s[i].publicKeyFmt \in SlotIds
      BY <2>1 DEF Slot
    <3>2. \A f \in Families : s[i].publicKeyFmt # PlainId(f)
      BY <2>3, FormatsDiffer
    <3>3. PICK f \in Certified : s[i].publicKeyFmt = CertId(f)
      BY <3>1, <3>2, FormatCases
    <3>4. f \in Families /\ s[i].publicKeyFmt.fam = f
      BY <3>3, CertifiedFamilies, FormatsDiffer
    <3>5. Serves(s, f, want)
      BY <1>1, <2>3, <3>4 DEF IInv
    <3> QED BY <2>3, <3>3, <3>5 DEF Serves
  <2>4. \A i, j \in DOMAIN s : s[i].publicKeyFmt = s[j].publicKeyFmt => i = j
    BY <2>1 DEF Slots, Apart
  <2> QED BY <2>2, <2>3, <2>4 DEF SlotsConsistent
<1> QED BY <1>1, HostKeysInvariant, PTL

\* No load puts more into ctx->privateKey or ctx->publicKeyAlgo than the
\* arrays hold, and what a slot has is a key of the application's or none.
THEOREM SlotsFit == Spec => []HostTypeOK
<1> DEFINE Counted == loads \in 0 .. MaxLoads
<1>1. Init => Counted
  BY HostKeysAssumption DEF Init, HostInit
<1>2. Counted /\ [Next]_vars => Counted'
  <2> SUFFICES ASSUME Counted, [Next]_vars PROVE Counted'
    OBVIOUS
  <2>1. CASE Loading
    BY <2>1, HostKeysAssumption DEF Loading
  <2>2. CASE UNCHANGED loads
    BY <2>2
  <2>3. CASE Load
    BY <2>1, <2>3
       DEF Load, LoadNext, LoadPrivateKey, LoadCertificate, SetHostTpmKey, UsePrivateKey_fromStore
  <2>4. CASE \E scenario \in Scenarios : Start(scenario)
    BY <2>2, <2>4 DEF Start
  <2>5. CASE UNCHANGED vars
    BY <2>2, <2>5 DEF vars
  <2>6. CASE ServerDoKexInit \/ ClientDoKexInit \/ SkipGuessedKexMsg \/ ServerRefuses
    BY <2>2, <2>6 DEF ServerDoKexInit, ClientDoKexInit, SkipGuessedKexMsg, ServerRefuses, Unloading
  <2>7. CASE DoKexDhGexRequest \/ DoKexDhGexGroup
    BY <2>2, <2>7 DEF DoKexDhGexRequest, DoKexDhGexGroup, Unloading
  <2>8. CASE \E short \in BOOLEAN : SendKexDhReply(short)
    BY <2>2, <2>8 DEF SendKexDhReply, Unloading
  <2>9. CASE DoKexDhReply \/ DoExtInfo \/ SendUserAuthRequest \/ DoUserAuthRequest
    BY <2>2, <2>9 DEF DoKexDhReply, DoExtInfo, SendUserAuthRequest, DoUserAuthRequest, Unloading
  <2> QED BY <2>3, <2>4, <2>5, <2>6, <2>7, <2>8, <2>9 DEF Next
<1>3. ASSUME IInv, Counted PROVE HostTypeOK
  <2>1. \A i \in DOMAIN privateKey : privateKey[i] \in Slot
    BY <1>3 DEF IInv, Slots
  <2>2. \A slot \in Slot : /\ slot.key \in Keys \union {None} /\ slot.cert \in Keys \union {None}
                           /\ slot.isTpm \in BOOLEAN /\ slot.useCertStore \in BOOLEAN
    BY DEF Slot, MaybeKey
  <2> QED BY <1>3, <2>1, <2>2 DEF HostTypeOK, IInv
<1> QED BY <1>1, <1>2, <1>3, HostKeysInvariant, PTL DEF Spec

=============================================================================
