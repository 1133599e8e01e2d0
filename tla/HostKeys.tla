------------------------------ MODULE HostKeys ------------------------------
(***************************************************************************)
(* The host keys of a server's WOLFSSH_CTX: the slots of ctx->privateKey,  *)
(* the calls an application loads them with, in any order and number, and  *)
(* the algorithms the slots let the server advertise.                      *)
(*                                                                         *)
(* A certificate has a slot of its own, next to the slot of its plain key, *)
(* with a copy of the private key.  The copy is what can go wrong: a key   *)
(* and its certificate may come in either order, from a file, a TPM or the *)
(* Windows store, and either may be replaced later.                        *)
(***************************************************************************)
EXTENDS Naturals, Sequences, SequencesExt

CONSTANTS
    Keys,        \* host keys: records [fam, n]; a certificate is named by its key
    TpmKey,      \* the key the TPM holds (ctx->tpmKey)
    StoreKeys,   \* the keys of the Windows certificate store
    MaxPvtKeys,  \* WOLFSSH_MAX_PVT_KEYS
    MaxLoads     \* bound: loading calls of one behaviour

Families == {"rsa", "ecdsa", "ed25519", "mldsa", "composite"}

ASSUME HostKeysAssumption ==
    /\ Keys \subseteq [fam : Families, n : Nat]
    /\ TpmKey \in Keys
    /\ StoreKeys \subseteq Keys
    /\ MaxPvtKeys \in Nat
    /\ MaxLoads \in Nat

VARIABLES
    privateKey,     \* the used slots of ctx->privateKey
    publicKeyAlgo,  \* ctx->publicKeyAlgo: what KEXINIT advertises
    asked,          \* history: per family, the key and certificate last loaded
    loads           \* loading calls so far

hostVars == <<privateKey, publicKeyAlgo, asked, loads>>

None == [fam |-> "none", n |-> 0]

(* An algorithm id: the key family, whether it names a certificate, and    *)
(* the digest where one key format has several (rsa-sha2-512, rsa-sha2-256 *)
(* and ssh-rsa); 0 where the name fixes the digest.                        *)
Id(fam, x509, sha) == [fam |-> fam, x509 |-> x509, sha |-> sha]

MaxPubKeyAlgo == MaxPvtKeys + 2

-----------------------------------------------------------------------------

IsCertKeyId(id) == id.x509

(* The id of the certificate whose key has format id, or id itself.        *)
CertTypeForId(id) ==
    IF id \in {Id("rsa", FALSE, 1), Id("ecdsa", FALSE, 0), Id("mldsa", FALSE, 0)}
    THEN [id EXCEPT !.x509 = TRUE]
    ELSE id

(* The format of a plain private key.  Composite keys come only in the     *)
(* OpenSSH container, and the container brings no others.                  *)
IdentifyAsn1Key(k) == Id(k.fam, FALSE, IF k.fam = "rsa" THEN 1 ELSE 0)

Formats(k) == IF k.fam = "composite" THEN {"openssh"} ELSE {"asn1", "pem"}

(* The id a certificate goes under; no id where its key has none.          *)
IdentifyCert(k) ==
    LET id == IdentifyAsn1Key(k)
    IN  IF CertTypeForId(id) = id THEN {} ELSE {CertTypeForId(id)}

IdsOfSlot(slot) ==
    IF \/ IsCertKeyId(slot.publicKeyFmt) /\ slot.cert = None
       \/ slot.key = None /\ ~slot.isTpm /\ ~slot.useCertStore
    THEN <<>>
    ELSE IF slot.publicKeyFmt = Id("rsa", FALSE, 1)
         THEN <<Id("rsa", FALSE, 512), Id("rsa", FALSE, 256)>>
         ELSE <<slot.publicKeyFmt>>

RefreshPublicKeyAlgo(slots) ==
    LET listed[n \in 0 .. Len(slots)] ==
            IF n = 0 THEN <<>> ELSE listed[n - 1] \o IdsOfSlot(slots[n])
        all == listed[Len(slots)]
    IN  IF Len(all) > MaxPubKeyAlgo THEN SubSeq(all, 1, MaxPubKeyAlgo) ELSE all

(* FindPvtKeyIdx(): the slot of a format, 0 when there is none.            *)
FindPvtKeyIdx(slots, id) ==
    LET at == {i \in DOMAIN slots : slots[i].publicKeyFmt = id}
    IN  IF at = {} THEN 0 ELSE CHOOSE i \in at : \A j \in at : i <= j

EmptySlot(id) ==
    [publicKeyFmt |-> id, key |-> None, cert |-> None, isTpm |-> FALSE,
     useCertStore |-> FALSE, mldsaPub |-> None]

(* The slots with one for id at the end when there was none.               *)
Claimed(slots, id) ==
    IF FindPvtKeyIdx(slots, id) = 0 THEN Append(slots, EmptySlot(id)) ELSE slots

FromStore(slots, id) ==
    LET i == FindPvtKeyIdx(slots, id) IN i # 0 /\ slots[i].useCertStore

(* A slot of the store is never overwritten by a file or a TPM key, nor    *)
(* its certificate's slot.                                                 *)
CertStoreSlotConflict(slots, id) ==
    FromStore(slots, id) \/ FromStore(slots, CertTypeForId(id))

(* Mutant: the certificate's slot keeps signing with the TPM.              *)
UpdateHostCertificatesKeepsTpm(slots, keyIdx, certIdx) ==
    IF keyIdx = 0 \/ certIdx = 0 \/ slots[keyIdx].key = None THEN slots
    ELSE [slots EXCEPT ![certIdx].key = slots[keyIdx].key,
                       ![certIdx].useCertStore = FALSE]

(* The private key of slot i copied to the slot of its certificate.        *)
UpdateHostCertificates(slots, keyIdx, certIdx) ==
    IF keyIdx = 0 \/ certIdx = 0 THEN slots
    ELSE IF slots[keyIdx].isTpm
         THEN [slots EXCEPT ![certIdx].key = None,
                            ![certIdx].useCertStore = FALSE,
                            ![certIdx].isTpm = TRUE]
         ELSE IF slots[keyIdx].key # None
              THEN [slots EXCEPT ![certIdx].key = slots[keyIdx].key,
                                 ![certIdx].useCertStore = FALSE,
                                 ![certIdx].isTpm = FALSE]
              ELSE slots

(* Whether UpdateHostCertificates() allocates, and so can fail.            *)
Copies(slots, keyIdx, certIdx) ==
    keyIdx # 0 /\ certIdx # 0 /\ ~slots[keyIdx].isTpm /\ slots[keyIdx].key # None

-----------------------------------------------------------------------------

Loading == loads < MaxLoads /\ loads' = loads + 1

Install(slots) ==
    /\ privateKey' = slots
    /\ publicKeyAlgo' = RefreshPublicKeyAlgo(slots)

Refused == UNCHANGED <<privateKey, publicKeyAlgo, asked>>

(* SetHostPrivateKey(): the slots once the new key is in its own slot.     *)
WithPrivateKey(slots, k) ==
    LET id == IdentifyAsn1Key(k)
        claimed == Claimed(slots, id)
        dest == FindPvtKeyIdx(claimed, id)
    IN  [claimed EXCEPT ![dest].key = k,
                        ![dest].isTpm = FALSE,
                        ![dest].mldsaPub = IF k.fam = "mldsa" THEN k ELSE None]

(* When the copy for the certificate's slot cannot be allocated the new    *)
(* key stays in its own slot, and the advertised list is not refreshed.    *)
LoadPrivateKey(k, format) ==
    LET id == IdentifyAsn1Key(k)
        slots == WithPrivateKey(privateKey, k)
        dest == FindPvtKeyIdx(slots, id)
        certIdx == FindPvtKeyIdx(slots, CertTypeForId(id))
    IN  /\ Loading
        /\ format \in Formats(k)
        /\ IF Len(slots) > MaxPvtKeys \/ CertStoreSlotConflict(privateKey, id)
           THEN Refused
           ELSE \/ /\ Install(UpdateHostCertificates(slots, dest, certIdx))
                   /\ asked' = [asked EXCEPT ![k.fam].key = k]
                \/ /\ Copies(slots, dest, certIdx)
                   /\ privateKey' = slots
                   /\ asked' = [asked EXCEPT ![k.fam].key = None]
                   /\ UNCHANGED publicKeyAlgo

(* SetHostCertificate(): the key is copied before the certificate is put   *)
(* in, so a copy that fails leaves the slots as they were.                 *)
LoadCertificate(k) ==
    \E certId \in IdentifyCert(k) :
        LET slots == Claimed(privateKey, certId)
            dest == FindPvtKeyIdx(slots, certId)
            keyIdx == FindPvtKeyIdx(privateKey, IdentifyAsn1Key(k))
        IN  /\ Loading
            /\ \/ /\ \/ Len(slots) > MaxPvtKeys
                     \/ FromStore(privateKey, certId)
                     \/ FromStore(privateKey, IdentifyAsn1Key(k))
                     \/ Copies(slots, keyIdx, dest)
                  /\ Refused
               \/ /\ Len(slots) <= MaxPvtKeys
                  /\ ~FromStore(privateKey, certId)
                  /\ ~FromStore(privateKey, IdentifyAsn1Key(k))
                  /\ Install([UpdateHostCertificates(slots, keyIdx, dest)
                                EXCEPT ![dest].cert = k])
                  /\ asked' = [asked EXCEPT ![k.fam].cert = k]

(* wolfSSH_SetHostTpmKey(): the slot, and its certificate's, sign with the *)
(* TPM's key from now on.                                                  *)
SetHostTpmKey ==
    LET id == IdentifyAsn1Key(TpmKey)
        slots == Claimed(privateKey, id)
        mine == {FindPvtKeyIdx(slots, id), FindPvtKeyIdx(slots, CertTypeForId(id))}
    IN  /\ Loading
        /\ IF Len(slots) > MaxPvtKeys \/ CertStoreSlotConflict(privateKey, id)
           THEN Refused
           ELSE /\ Install([i \in DOMAIN slots |->
                              IF i \in mine
                              THEN [slots[i] EXCEPT !.key = None, !.isTpm = TRUE,
                                                    !.mldsaPub = None]
                              ELSE slots[i]])
                /\ asked' = [asked EXCEPT ![TpmKey.fam].key = TpmKey]

(* CommitCertStoreSlot(): everything the slot held is replaced.            *)
CommitCertStoreSlot(slots, id, k) ==
    LET claimed == Claimed(slots, id)
    IN  [claimed EXCEPT ![FindPvtKeyIdx(claimed, id)] =
            [EmptySlot(id) EXCEPT !.useCertStore = TRUE, !.cert = k]]

(* wolfSSH_CTX_UsePrivateKey_fromStore(): both slots are prepared before   *)
(* either is committed; a file or TPM key of the format refuses the call,  *)
(* and RSA gets no certificate slot while SHA-1 signatures are disabled.   *)
UsePrivateKey_fromStore(k) ==
    LET id == IdentifyAsn1Key(k)
        certId == CertTypeForId(id)
        Foreign(i) == FindPvtKeyIdx(privateKey, i) # 0 /\ ~FromStore(privateKey, i)
        withKey == CommitCertStoreSlot(privateKey, id, k)
        withBoth == IF k.fam = "rsa" \/ certId = id THEN withKey
                    ELSE CommitCertStoreSlot(withKey, certId, k)
    IN  /\ Loading
        /\ \/ Refused    \* the store has no such key, or memory runs out
           \/ /\ ~Foreign(id)
              /\ IF k.fam = "rsa" THEN FindPvtKeyIdx(privateKey, certId) = 0
                 ELSE ~Foreign(certId)
              /\ Len(withBoth) <= MaxPvtKeys
              /\ Install(withBoth)
              /\ asked' = [asked EXCEPT ![k.fam] = [key |-> k, cert |-> k]]

HostInit ==
    /\ privateKey = <<>>
    /\ publicKeyAlgo = <<>>
    /\ asked = [f \in Families |-> [key |-> None, cert |-> None]]
    /\ loads = 0

LoadNext ==
    \/ \E k \in Keys \ ({TpmKey} \union StoreKeys), format \in {"asn1", "pem", "openssh"} :
            LoadPrivateKey(k, format)
    \/ \E k \in Keys \ StoreKeys : LoadCertificate(k)
    \/ SetHostTpmKey
    \/ \E k \in StoreKeys : UsePrivateKey_fromStore(k)

-----------------------------------------------------------------------------

(* The key a slot signs with: the store's, the TPM's, or the one in it.    *)
SigningKey(slot) ==
    IF slot.useCertStore THEN slot.cert
    ELSE IF slot.isTpm THEN TpmKey ELSE slot.key

(* The slot SendKexDhReply() looks up for a negotiated algorithm: the      *)
(* rsa-sha2 names have the slot of ssh-rsa.                                *)
PubKeyFmtId(id) == IF id.fam = "rsa" /\ ~id.x509 THEN Id("rsa", FALSE, 1) ELSE id

HostTypeOK ==
    /\ \A i \in DOMAIN privateKey :
          /\ privateKey[i].key \in Keys \union {None}
          /\ privateKey[i].cert \in Keys \union {None}
          /\ privateKey[i].isTpm \in BOOLEAN
          /\ privateKey[i].useCertStore \in BOOLEAN
    /\ Len(privateKey) <= MaxPvtKeys
    /\ Len(publicKeyAlgo) <= MaxPubKeyAlgo
    /\ loads \in 0 .. MaxLoads

(* Whatever the order of the loading calls, and whichever of them failed   *)
(* half way: every algorithm the server advertises has a slot it can sign  *)
(* with, and where the application's last key and last certificate of a    *)
(* family belong together, the certificate's slot signs with that key.     *)
SlotsConsistent ==
    /\ \A a \in Range(publicKeyAlgo) :
          LET i == FindPvtKeyIdx(privateKey, PubKeyFmtId(a))
          IN  /\ i # 0
              /\ SigningKey(privateKey[i]) # None
              /\ a.x509 => privateKey[i].cert # None
              /\ a.fam = "mldsa" /\ ~a.x509 => privateKey[i].mldsaPub = privateKey[i].key
    /\ \A i, j \in DOMAIN privateKey :
          privateKey[i].publicKeyFmt = privateKey[j].publicKeyFmt => i = j
    /\ \A i \in DOMAIN privateKey :
          LET slot == privateKey[i]
              want == asked[slot.publicKeyFmt.fam]
          IN  slot.publicKeyFmt.x509 /\ want.key = want.cert /\ want.key # None
                => slot.cert = want.cert /\ SigningKey(slot) = want.key
=============================================================================
