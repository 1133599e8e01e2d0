---------------------------- MODULE KeyExchange ----------------------------
(***************************************************************************)
(* One key exchange and one public-key login between a client and a server *)
(* whose host keys were loaded by HostKeys: what the two ends negotiate,   *)
(* which bytes each hashes, what the server signs and the client verifies, *)
(* the keys each derives, and the algorithm the user's key signs with.     *)
(*                                                                         *)
(* The two ends run different code for the same values: each builds the    *)
(* transcript from its own variables, and the server hashes its host key   *)
(* and its f in one place and writes them to the packet in another.        *)
(*                                                                         *)
(* Cryptography is symbolic (a digest is the sequence it is taken of, a    *)
(* signature names its key, digest and data), except for what the code     *)
(* does to bytes: a number is a sequence of byte classes, 0 for a zero     *)
(* byte, 2 for a byte with its top bit set and 1 for any other.            *)
(***************************************************************************)
EXTENDS HostKeys

CONSTANTS
    ServerLists,       \* the server's own lists, but for the host keys
    AcceptedKeyAlgos,  \* algoListKeyAccepted, what server-sig-algs announces
    CannedKeyAlgos,    \* cannedKeyAlgoClient
    Scenarios          \* [offer, number, alter, user] of a connection

VARIABLES
    phase,  \* "loading", then "kex", then "auth"
    case,   \* the scenario of the connection
    hs,     \* per side, ssh->handshake and what it leads to
    net,    \* per receiving side, the packets under way
    auth    \* what became of the login

vars == <<privateKey, publicKeyAlgo, asked, loads, phase, case, hs, net, auth>>

Sides == {"client", "server"}

-----------------------------------------------------------------------------
(* Numbers and strings.                                                    *)

FirstNonZero(b) ==
    LET at == {i \in DOMAIN b : b[i] # 0}
    IN  IF at = {} THEN Len(b) + 1 ELSE CHOOSE i \in at : \A j \in at : i <= j

(* CreateMpint(): leading zeros are stripped, but one stays in front of a  *)
(* top bit, and where there is none to keep the caller must pad.           *)
CreateMpint(b) ==
    LET i == FirstNonZero(b)
        top == i <= Len(b) /\ b[i] = 2
        back == top /\ i > 1
    IN  [bytes |-> SubSeq(b, IF back THEN i - 1 ELSE i, Len(b)),
         pad |-> top /\ ~back]

Padded(m) == IF m.pad THEN <<0>> \o m.bytes ELSE m.bytes

Unpadded(b) == [bytes |-> b, pad |-> FALSE]

Value(b) == SubSeq(b, FirstNonZero(b), Len(b))

-----------------------------------------------------------------------------
(* The key exchange methods.                                               *)

UseDh(kex) == kex \in {"dh", "gex"}

UseMlKem(kex) == kex \in {"ecdh-mlkem", "x25519-mlkem"}

UseCurve25519(kex) == kex \in {"x25519", "x25519-mlkem"}

UseEcdh(kex) == kex \in {"ecdh", "ecdh-mlkem"}

HashForId(id) ==
    CASE id = "ecdh" -> "sha384"
      [] id = "dh" -> "sha512"
      [] OTHER -> "sha256"

AeadModeForId(enc) == enc = "gcm"

(* The digest of a signature under a host or user key algorithm.           *)
SigHash(id) == IF id.fam = "rsa" THEN id.sha ELSE 0

(* The name a signature carries: a certificate's is its plain key's.       *)
SigTypeForId(id) == [id EXCEPT !.x509 = FALSE]

-----------------------------------------------------------------------------
(* Negotiation.                                                            *)

KnownStr(names) == {name \in Range(names) : name # "unknown"}

KnownId(ids) == {id \in Range(ids) : id.fam # "unknown"}

(* GetNameListRaw(): names that are not known are dropped, except a first  *)
(* one, which the guess is compared with.                                  *)
GetNameList(names, known) ==
    IF names = <<>> THEN <<>>
    ELSE <<Head(names)>> \o SelectSeq(Tail(names), LAMBDA name : name \in known)

(* MatchIdLists(): the first id of the client's list the server's has, in  *)
(* a sequence of its own; empty when there is none.                        *)
MatchIdLists(side, peer, own) ==
    LET left == IF side = "client" THEN own ELSE peer
        right == IF side = "client" THEN peer ELSE own
        both == SelectSeq(left, LAMBDA id : id \in Range(right))
    IN  IF both = <<>> THEN <<>> ELSE <<Head(both)>>

(* DoKexInit(): the five choices, or the error of the first without one.   *)
Negotiate(side, own, peer) ==
    LET kex == MatchIdLists(side, GetNameList(peer.kex, KnownStr(peer.kex)), own.kex)
        key == MatchIdLists(side, GetNameList(peer.key, KnownId(peer.key)), own.key)
        encC2S == MatchIdLists(side, GetNameList(peer.encC2S, KnownStr(peer.encC2S)), own.encC2S)
        encS2C == MatchIdLists(side, GetNameList(peer.encS2C, KnownStr(peer.encS2C)), own.encS2C)
        Mac(enc, peers, mine) ==
            IF AeadModeForId(enc) THEN <<"none">>
            ELSE MatchIdLists(side, GetNameList(peers, KnownStr(peers)), mine)
    IN  IF kex = <<>> THEN [why |-> "match_kex"]
        ELSE IF key = <<>> THEN [why |-> "match_key"]
        ELSE IF encC2S = <<>> \/ encS2C = <<>> THEN [why |-> "match_enc"]
        ELSE LET macC2S == Mac(encC2S[1], peer.macC2S, own.macC2S)
                 macS2C == Mac(encS2C[1], peer.macS2C, own.macS2C)
             IN  IF macC2S = <<>> \/ macS2C = <<>> THEN [why |-> "match_mac"]
                 ELSE [why |-> "ok", kexId |-> kex[1], pubKeyId |-> key[1],
                       c2s |-> [enc |-> encC2S[1], mac |-> macC2S[1]],
                       s2c |-> [enc |-> encS2C[1], mac |-> macS2C[1]]]

(* first_kex_packet_follows with a guess that is not both ends' first      *)
(* choice and the negotiated one: the packet after KEXINIT is dropped.     *)
WrongGuess(own, peer, kexId, pubKeyId) ==
    \/ Head(peer.kex) # Head(own.kex) \/ Head(peer.key) # Head(own.key)
    \/ Head(peer.kex) # kexId \/ Head(peer.key) # pubKeyId

NoSide == [enc |-> "none", mac |-> "none"]

NoKeys == [iv |-> <<>>, enc |-> <<>>, mac |-> <<>>]

NoGex == [min |-> 0, preferred |-> 0, max |-> 0]

NoGroup == [bits |-> 0, safe |-> TRUE]

HandshakeInfoNew(init) ==
    [st |-> "idle", why |-> "ok", init |-> init, peerInit |-> init,
     kexId |-> "none", pubKeyId |-> Id("none", FALSE, 0), c2s |-> NoSide,
     s2c |-> NoSide, ignoreNextKexMsg |-> FALSE, sendExtInfo |-> FALSE,
     gex |-> NoGex, group |-> NoGroup, e |-> <<>>, h |-> <<>>,
     blob |-> [fmt |-> Id("none", FALSE, 0), key |-> None],
     sessionId |-> <<>>, keys |-> NoKeys, peerKeys |-> NoKeys,
     peerSigAlgsSeen |-> FALSE, peerSigId |-> <<>>]

Fail(h, why) == [h EXCEPT !.st = "failed", !.why = why]

DoKexInit(side, h, peer) ==
    LET n == Negotiate(side, h.init, peer)
    IN  IF n.why # "ok" THEN Fail(h, n.why)
        ELSE [h EXCEPT !.st = "keying", !.peerInit = peer, !.kexId = n.kexId,
                       !.pubKeyId = n.pubKeyId, !.c2s = n.c2s, !.s2c = n.s2c,
                       !.sendExtInfo = peer.ext,
                       !.ignoreNextKexMsg =
                            /\ side = "server"
                            /\ peer.follows
                            /\ WrongGuess(h.init, peer, n.kexId, n.pubKeyId)]

-----------------------------------------------------------------------------
(* Group exchange: sizes in kilobits.                                      *)

GexMinBits == 2      \* WOLFSSH_DH_GEX_MIN_BITS

Candidates == <<1, 2, 4>>

AtLeast(a, b) == IF a < b THEN b ELSE a

(* SelectKexDhGexGroup(): the smallest candidate in the range that reaches *)
(* the preferred size, else the largest in the range, else none.           *)
SelectKexDhGexGroup(gex) ==
    LET fits == {i \in DOMAIN Candidates :
                    Candidates[i] >= AtLeast(gex.min, GexMinBits)
                      /\ Candidates[i] <= gex.max}
        enough == {i \in fits : Candidates[i] >= gex.preferred}
    IN  IF fits = {} THEN {}
        ELSE IF enough # {} THEN {Candidates[CHOOSE i \in enough : \A j \in enough : i <= j]}
        ELSE {Candidates[CHOOSE i \in fits : \A j \in fits : j <= i]}

(* ValidateKexDhGexGroup(): a safe prime of a size the client asked for.   *)
ValidateKexDhGexGroup(group, gex) ==
    /\ group.bits >= AtLeast(gex.min, GexMinBits)
    /\ group.bits <= gex.max
    /\ group.safe

(* GetDHPrimeGroup(): the bytes of a group's prime begin with a top bit.   *)
PrimeBytes(group) == <<2, group.bits>>

-----------------------------------------------------------------------------
(* Public values and the shared secret.                                    *)

(* SendKexDhInit(): an mpint for DH and for a plain ECDH point, and the    *)
(* raw string for Curve25519 and the hybrids.                              *)
PublicE(kex, raw) ==
    IF ~UseMlKem(kex) /\ ~UseCurve25519(kex) THEN Padded(CreateMpint(raw)) ELSE raw

(* SendKexDhReply(): the same for f, under the server's condition.         *)
PublicF(kex, raw) ==
    IF UseDh(kex) \/ (UseEcdh(kex) /\ ~UseMlKem(kex))
    THEN CreateMpint(raw) ELSE Unpadded(raw)

(* The raw public value of a method: a hybrid's is the KEM part, then the  *)
(* curve's; an ECDH point begins with 0x04.                                *)
RawPublic(kex, number) ==
    (IF UseMlKem(kex) THEN number ELSE <<>>)
      \o (IF UseEcdh(kex) THEN <<1>> ELSE <<>>) \o number

(* A secret the two ends do not share.                                     *)
Garbled == <<1, 0, 0>>

EccCheckPeerKey(q, number) == q = <<1>> \o number

(* The secret, in a set that is empty when the peer's value is refused: a  *)
(* negative number, a point off the curve, a string of another length.     *)
KeyAgreeDh_client(f, number) ==
    IF f[1] = 2 THEN {}
    ELSE {IF Value(f) = Value(number) THEN number ELSE Garbled}

KeyAgreeDh_server(e, number) ==
    IF e[1] = 2 THEN {}
    ELSE {IF Value(e) = Value(number) THEN number ELSE Garbled}

KeyAgreeEcdh_client(f, number) == IF EccCheckPeerKey(f, number) THEN {number} ELSE {}

KeyAgreeEcdh_server(e, number) == IF EccCheckPeerKey(e, number) THEN {number} ELSE {}

KeyAgreeCurve25519_client(f, number) == IF f = number THEN {number} ELSE {}

KeyAgreeCurve25519_server(e, number) == IF e = number THEN {number} ELSE {}

CurvePart(kex, q, number) ==
    IF UseEcdh(kex) THEN EccCheckPeerKey(q, number) ELSE q = number

(* A hybrid's secret is the digest of the KEM's and the curve's.  A KEM    *)
(* ciphertext that was altered decapsulates to another secret.             *)
HybridSecret(kex, kem, curve) == <<HashForId(kex), kem, curve>>

KeyAgreeEcdhMlKem_client(kex, f, number) ==
    LET n == Len(number)
        kem == IF SubSeq(f, 1, n) = number THEN number ELSE Garbled
    IN  IF Len(f) < n \/ ~CurvePart(kex, SubSeq(f, n + 1, Len(f)), number) THEN {}
        ELSE {HybridSecret(kex, kem, number)}

KeyAgreeEcdhMlKem_server(kex, e, number) ==
    LET n == Len(number)
    IN  IF \/ Len(e) <= n
           \/ SubSeq(e, 1, n) # number
           \/ ~CurvePart(kex, SubSeq(e, n + 1, Len(e)), number)
        THEN {}
        ELSE {HybridSecret(kex, number, number)}

KeyAgree_client(kex, f, number) ==
    IF UseDh(kex) THEN KeyAgreeDh_client(f, number)
    ELSE IF UseMlKem(kex) THEN KeyAgreeEcdhMlKem_client(kex, f, number)
    ELSE IF UseEcdh(kex) THEN KeyAgreeEcdh_client(f, number)
    ELSE KeyAgreeCurve25519_client(f, number)

KeyAgree_server(kex, e, number) ==
    IF UseDh(kex) THEN KeyAgreeDh_server(e, number)
    ELSE IF UseMlKem(kex) THEN KeyAgreeEcdhMlKem_server(kex, e, number)
    ELSE IF UseEcdh(kex) THEN KeyAgreeEcdh_server(e, number)
    ELSE KeyAgreeCurve25519_server(e, number)

(* What is hashed of K, and the bytes GenerateKey() starts from.           *)
KForHash(kex, k) == IF UseMlKem(kex) THEN Unpadded(k) ELSE CreateMpint(k)

KForKeys(kex, k) ==
    [bytes |-> KForHash(kex, k).bytes,
     pad |-> ~UseMlKem(kex) /\ KForHash(kex, k).bytes[1] = 2]

-----------------------------------------------------------------------------
(* The transcript.                                                         *)

VersionOf(side) == <<"SSH-2.0", side>>

(* DoKexInit(): V_C, V_S, I_C and I_S from this side's variables.          *)
HashPrologue(side, h) ==
    IF side = "server"
    THEN <<VersionOf("client"), VersionOf("server"), h.peerInit, h.init>>
    ELSE <<VersionOf("client"), VersionOf("server"), h.init, h.peerInit>>

(* SendKexGetSigningKey(): the key block as hashed.                        *)
Block(id, key) == [fmt |-> PubKeyFmtId(id), key |-> key]

HashedRsa(id, slot) == Block(id, SigningKey(slot))

HashedEcc(id, slot) == Block(id, SigningKey(slot))

HashedEd25519(id, slot) == Block(id, SigningKey(slot))

HashedMlDsa(id, slot) == Block(id, slot.mldsaPub)

HashedComposite(id, slot) == Block(id, SigningKey(slot))

BuildRFC6187Info(id, slot) == Block(id, slot.cert)

HashedKeyBlock(id, slot) ==
    CASE id.x509 -> BuildRFC6187Info(id, slot)
      [] ~id.x509 /\ id.fam = "rsa" -> HashedRsa(id, slot)
      [] ~id.x509 /\ id.fam = "ecdsa" -> HashedEcc(id, slot)
      [] ~id.x509 /\ id.fam = "ed25519" -> HashedEd25519(id, slot)
      [] ~id.x509 /\ id.fam = "mldsa" -> HashedMlDsa(id, slot)
      [] ~id.x509 /\ id.fam = "composite" -> HashedComposite(id, slot)

(* SendKexDhReply(): the key block as written to the packet.               *)
SentKeyBlock(id, slot) ==
    Block(id, IF id.x509 THEN slot.cert
              ELSE IF id.fam = "mldsa" THEN slot.mldsaPub ELSE SigningKey(slot))

(* The client pads p and g by their first byte, the server by CreateMpint. *)
HashGexClient(h) ==
    IF h.kexId # "gex" THEN <<>>
    ELSE <<h.gex.min, h.gex.preferred, h.gex.max,
           Padded([bytes |-> PrimeBytes(h.group), pad |-> PrimeBytes(h.group)[1] = 2])>>

(* Mutant: the server hashes its own least size instead of the client's.   *)
HashGexServerOwnMin(h) ==
    IF h.kexId # "gex" THEN <<>>
    ELSE <<GexMinBits, h.gex.preferred, h.gex.max, Padded(CreateMpint(PrimeBytes(h.group)))>>

HashGexServer(h) ==
    IF h.kexId # "gex" THEN <<>>
    ELSE <<h.gex.min, h.gex.preferred, h.gex.max,
           Padded(CreateMpint(PrimeBytes(h.group)))>>

ClientHash(h, blob, f, k) ==
    <<HashForId(h.kexId)>> \o HashPrologue("client", h) \o <<blob>>
      \o HashGexClient(h) \o <<h.e, f, Padded(KForHash(h.kexId, k))>>

ServerHash(h, slot, f, k) ==
    <<HashForId(h.kexId)>> \o HashPrologue("server", h)
      \o <<HashedKeyBlock(h.pubKeyId, slot)>>
      \o HashGexServer(h) \o <<h.e, f, Padded(KForHash(h.kexId, k))>>

GenerateKey(letter, h, k, H, sessionId) ==
    <<letter, HashForId(h.kexId), Padded(KForKeys(h.kexId, k)), H, sessionId>>

(* GenerateKeys(): the letters of a direction; an AEAD cipher has no MAC   *)
(* key.                                                                    *)
Direction(letters, algs, h, k, H, sessionId) ==
    [iv |-> GenerateKey(letters[1], h, k, H, sessionId),
     enc |-> GenerateKey(letters[2], h, k, H, sessionId),
     mac |-> IF AeadModeForId(algs.enc) THEN <<>>
             ELSE GenerateKey(letters[3], h, k, H, sessionId)]

(* H becomes the session id of a connection that has none.                 *)
GenerateKeys(side, h, k, H) ==
    LET sessionId == IF h.sessionId = <<>> THEN H ELSE h.sessionId
        cK == Direction(<<"A", "C", "E">>, h.c2s, h, k, H, sessionId)
        sK == Direction(<<"B", "D", "F">>, h.s2c, h, k, H, sessionId)
    IN  [h EXCEPT !.h = H, !.sessionId = sessionId,
                  !.keys = IF side = "server" THEN sK ELSE cK,
                  !.peerKeys = IF side = "server" THEN cK ELSE sK]

(* A signature is a set of values made with a key.  A composite key makes  *)
(* two, over the digest behind a prefix and a label.                       *)
Made(part, key, sha, data) == [part |-> part, key |-> key, sha |-> sha, data |-> data]

BuildCompositeMPrime(data) == <<"CompositeAlgorithmSignatures", data>>

CompositeParts == {"mldsa", "trad"}

SignHRsa(id, slot, H) == {Made("rsa", SigningKey(slot), id.sha, H)}

SignHEcdsa(slot, H) == {Made("ecdsa", SigningKey(slot), 0, H)}

SignHEd25519(slot, H) == {Made("ed25519", SigningKey(slot), 0, H)}

SignHMlDsa(slot, H) == {Made("mldsa", SigningKey(slot), 0, H)}

SignHMlDsaComposite(slot, H) ==
    {Made(part, SigningKey(slot), 0, BuildCompositeMPrime(H)) : part \in CompositeParts}

SignH(id, slot, H) ==
    [name |-> SigTypeForId(id),
     value |-> CASE id.fam = "rsa" -> SignHRsa(id, slot, H)
                 [] id.fam = "ecdsa" -> SignHEcdsa(slot, H)
                 [] id.fam = "ed25519" -> SignHEd25519(slot, H)
                 [] id.fam = "mldsa" -> SignHMlDsa(slot, H)
                 [] id.fam = "composite" -> SignHMlDsaComposite(slot, H)]

VerifyMlDsaComposite(key, value, data) ==
    \A part \in CompositeParts : Made(part, key, 0, BuildCompositeMPrime(data)) \in value

(* Mutant: any signature of the key will do.                               *)
VerifyHAnyData(id, blob, sig, H) ==
    sig.name = SigTypeForId(id) /\ \E v \in sig.value : v.key = blob.key

(* DoKexDhReply(): the name of the signature, then the signature.          *)
VerifyH(id, blob, sig, H) ==
    /\ sig.name = SigTypeForId(id)
    /\ IF id.fam = "composite" THEN VerifyMlDsaComposite(blob.key, sig.value, H)
       ELSE Made(id.fam, blob.key, SigHash(id), H) \in sig.value

(* Host key blocks, by family.  A certificate's block is read without a    *)
(* look at its name; its chain must lead to a CA of the client.            *)
ParseRSAPubKey(blob) == blob.fmt = Id("rsa", FALSE, 1) /\ blob.key.fam = "rsa"

ParseECCPubKey(id, blob) == blob.fmt = id /\ blob.key.fam = "ecdsa"

ParseEd25519PubKey(blob) == blob.fmt = Id("ed25519", FALSE, 0) /\ blob.key.fam = "ed25519"

ParseMlDsaPubKey(id, blob) == blob.fmt = id /\ blob.key.fam = "mldsa"

ParseMlDsaCompositePubKey(id, blob) == blob.fmt = id /\ blob.key.fam = "composite"

ParseCertChainVerify(hasCa) == hasCa

ParseECCPubKeyCert(blob, hasCa) == ParseCertChainVerify(hasCa) /\ blob.key.fam = "ecdsa"

ParseRSAPubKeyCert(blob, hasCa) == ParseCertChainVerify(hasCa) /\ blob.key.fam = "rsa"

ParseMlDsaPubKeyCert(blob, hasCa) == ParseCertChainVerify(hasCa) /\ blob.key.fam = "mldsa"

ParsePubKey(id, blob, hasCa) ==
    CASE id.fam = "rsa" /\ id.x509 -> ParseRSAPubKeyCert(blob, hasCa)
      [] id.fam = "rsa" /\ ~id.x509 -> ParseRSAPubKey(blob)
      [] id.fam = "ecdsa" /\ id.x509 -> ParseECCPubKeyCert(blob, hasCa)
      [] id.fam = "ecdsa" /\ ~id.x509 -> ParseECCPubKey(id, blob)
      [] id.fam = "ed25519" -> ParseEd25519PubKey(blob)
      [] id.fam = "mldsa" /\ id.x509 -> ParseMlDsaPubKeyCert(blob, hasCa)
      [] id.fam = "mldsa" /\ ~id.x509 -> ParseMlDsaPubKey(id, blob)
      [] id.fam = "composite" -> ParseMlDsaCompositePubKey(id, blob)

-----------------------------------------------------------------------------
(* The user's key.                                                         *)

Sha(id) == Id("rsa", FALSE, id)

(* The plain key of an OpenSSH certificate.                                *)
OsshBase(id) ==
    CASE id.fam = "ossh-rsa" -> Id("rsa", FALSE, 1)
      [] id.fam = "ossh-ecdsa" -> Id("ecdsa", FALSE, 0)
      [] OTHER -> Id("ed25519", FALSE, 0)

IsOsshCert(id) == id.fam \in {"ossh-rsa", "ossh-ecdsa", "ossh-ed25519"}

SignatureIds(user) == IF user = Id("rsa", FALSE, 1) THEN <<Sha(512), Sha(256)>> ELSE <<user>>

PeerList(h) == IF h.peerSigAlgsSeen THEN h.peerSigId ELSE CannedKeyAlgos

(* Mutant: SHA-1 for a peer that sent no list.                             *)
ClientOsshRsaCertSigIdSha1(h) ==
    IF h.peerSigAlgsSeen /\ Sha(512) \in Range(h.peerSigId) THEN Sha(512)
    ELSE IF h.peerSigAlgsSeen THEN Sha(256) ELSE Sha(1)

ClientOsshRsaCertSigId(h) ==
    IF Sha(512) \in Range(PeerList(h)) THEN Sha(512) ELSE Sha(256)

(* The signature by family: its name, and what is signed with which        *)
(* digest.  A certificate's signature has its own name except the OpenSSH  *)
(* ones', which have their plain key's.                                    *)
BuildUserAuthRequestRsa(h, user, sigId, data) ==
    LET eff == IF user.fam = "ossh-rsa" THEN ClientOsshRsaCertSigId(h) ELSE sigId
    IN  [name |-> eff, value |-> {Made("rsa", user, eff.sha, data)}]

BuildUserAuthRequestEcc(user, data) ==
    [name |-> Id("ecdsa", FALSE, 0), value |-> {Made("ecdsa", user, 0, data)}]

BuildUserAuthRequestEccCert(user, data) ==
    [name |-> user, value |-> {Made("ecdsa", user, 0, data)}]

BuildUserAuthRequestEd25519(user, data) ==
    [name |-> Id("ed25519", FALSE, 0), value |-> {Made("ed25519", user, 0, data)}]

BuildUserAuthRequestMlDsa(user, data) ==
    [name |-> user, value |-> {Made("mldsa", user, 0, data)}]

BuildUserAuthRequestMlDsaComposite(user, data) ==
    [name |-> user,
     value |-> {Made(part, user, 0, BuildCompositeMPrime(data)) : part \in CompositeParts}]

(* BuildUserAuthRequestPublicKey(): the declared algorithm and the         *)
(* signature over the session id and the request before it.                *)
BuildUserAuthRequestPublicKey(h, user, sigId) ==
    LET declared == IF user.fam = "rsa" THEN sigId ELSE user
        data == <<h.sessionId, declared, user>>
    IN  [type |-> "USERAUTH", declared |-> declared, user |-> user,
         sig |->
            CASE user.fam \in {"rsa", "ossh-rsa"} -> BuildUserAuthRequestRsa(h, user, sigId, data)
              [] user.fam = "ecdsa" /\ user.x509 -> BuildUserAuthRequestEccCert(user, data)
              [] user = Id("ecdsa", FALSE, 0) \/ user.fam = "ossh-ecdsa"
                   -> BuildUserAuthRequestEcc(user, data)
              [] user.fam \in {"ed25519", "ossh-ed25519"} -> BuildUserAuthRequestEd25519(user, data)
              [] user.fam = "mldsa" -> BuildUserAuthRequestMlDsa(user, data)
              [] user.fam = "composite" -> BuildUserAuthRequestMlDsaComposite(user, data)]

(* PrepareUserAuthRequestPublicKey(): the empty set when the lists have no *)
(* algorithm for the key.                                                  *)
BuildUserAuthRequest(h, user) ==
    {BuildUserAuthRequestPublicKey(h, user, sigId)
       : sigId \in Range(MatchIdLists("client", SignatureIds(user), PeerList(h)))}

(* The server's verification by family: the signature carries the name of  *)
(* the key's type, but for an X.509 ECDSA certificate's, which is not      *)
(* looked at.                                                              *)
DoUserAuthRequestRsa(m, pkTypeId, data) ==
    m.sig.name = pkTypeId /\ Made("rsa", m.user, pkTypeId.sha, data) \in m.sig.value

DoUserAuthRequestEcc(m, pkTypeId, data) ==
    m.sig.name = pkTypeId /\ Made("ecdsa", m.user, 0, data) \in m.sig.value

DoUserAuthRequestEccCert(m, data) == Made("ecdsa", m.user, 0, data) \in m.sig.value

DoUserAuthRequestEd25519(m, pkTypeId, data) ==
    m.sig.name = pkTypeId /\ Made("ed25519", m.user, 0, data) \in m.sig.value

DoUserAuthRequestMlDsa(m, pkTypeId, data) ==
    m.sig.name = pkTypeId /\ Made("mldsa", m.user, 0, data) \in m.sig.value

DoUserAuthRequestMlDsaComposite(m, pkTypeId, data) ==
    m.sig.name = pkTypeId /\ VerifyMlDsaComposite(m.user, m.sig.value, data)

(* The type an OpenSSH certificate's request is verified under: the        *)
(* signature's name, when that fits the plain key.                         *)
OsshSigFits(m) ==
    IF OsshBase(m.declared).fam = "rsa" THEN m.sig.name \in {Sha(256), Sha(512)}
    ELSE m.sig.name = OsshBase(m.declared)

(* DoUserAuthRequestPublicKey() for a key the application accepts.         *)
DoUserAuthRequestPublicKey(h, m) ==
    LET ossh == IsOsshCert(m.declared)
        pkTypeId == IF ossh THEN m.sig.name ELSE m.declared
        data == <<h.sessionId, m.declared, m.user>>
    IN  /\ m.declared \in Range(CannedKeyAlgos)
        /\ ossh => OsshSigFits(m)
        /\ CASE pkTypeId.fam = "ed25519" -> DoUserAuthRequestEd25519(m, pkTypeId, data)
             [] pkTypeId.fam = "mldsa" -> DoUserAuthRequestMlDsa(m, pkTypeId, data)
             [] pkTypeId.fam = "composite" -> DoUserAuthRequestMlDsaComposite(m, pkTypeId, data)
             [] pkTypeId.fam = "rsa" -> DoUserAuthRequestRsa(m, pkTypeId, data)
             [] pkTypeId.fam = "ecdsa" /\ pkTypeId.x509 -> DoUserAuthRequestEccCert(m, data)
             [] pkTypeId.fam = "ecdsa" /\ ~pkTypeId.x509 -> DoUserAuthRequestEcc(m, pkTypeId, data)

-----------------------------------------------------------------------------

ServerInit == ServerLists @@ [key |-> publicKeyAlgo]

(* What opens an exchange for a client: the request of a group, or e.      *)
FirstKexMsg(kex, scenario) ==
    IF kex = "gex" THEN [type |-> "GEX_REQUEST", gex |-> scenario.offer.gex]
    ELSE [type |-> "KEXDH_INIT", e |-> PublicE(kex, RawPublic(kex, scenario.number))]

(* A KEXINIT that lost its first key exchange method on the way.           *)
Altered(init) == [init EXCEPT !.kex = IF Len(@) > 1 THEN Tail(@) ELSE @]

(* Both ends send KEXINIT; a client that guesses sends its first packet    *)
(* right behind.                                                           *)
Start(scenario) ==
    LET offer == scenario.offer
        init == offer.init
    IN  /\ phase = "loading"
        /\ phase' = "kex"
        /\ case' = scenario
        /\ hs' = [side \in Sides |->
                     IF side = "client" THEN HandshakeInfoNew(init)
                     ELSE HandshakeInfoNew(ServerInit)]
        /\ net' = [side \in Sides |->
                      IF side = "client" THEN <<[type |-> "KEXINIT", init |-> ServerInit]>>
                      ELSE <<[type |-> "KEXINIT",
                              init |-> IF scenario.alter = "init" THEN Altered(init) ELSE init]>>
                           \o IF init.follows THEN <<FirstKexMsg(Head(init.kex), scenario)>>
                              ELSE <<>>]
        /\ UNCHANGED <<privateKey, publicKeyAlgo, asked, loads, auth>>

Took(side) == [net EXCEPT ![side] = Tail(@)]

Reply(side, msgs) ==
    [net EXCEPT ![side] = Tail(@),
                ![IF side = "client" THEN "server" ELSE "client"] = @ \o msgs]

Gets(side, types) ==
    /\ phase = "kex"
    /\ hs[side].st # "failed"
    /\ net[side] # <<>>
    /\ Head(net[side]).type \in types

Unloading == UNCHANGED <<privateKey, publicKeyAlgo, asked, loads>>

ServerDoKexInit ==
    /\ Gets("server", {"KEXINIT"})
    /\ hs' = [hs EXCEPT !["server"] = DoKexInit("server", @, Head(net["server"]).init)]
    /\ net' = Took("server")
    /\ Unloading /\ UNCHANGED <<phase, case, auth>>

(* The client's first packet goes out now, unless it already did and both  *)
(* ends agree that the guess was right.                                    *)
ClientDoKexInit ==
    LET peer == Head(net["client"]).init
        h == DoKexInit("client", hs["client"], peer)
        guessed == /\ h.init.follows
                   /\ Head(h.init.kex) = Head(peer.kex)
                   /\ Head(h.init.key) = Head(peer.key)
        first == FirstKexMsg(h.kexId, case)
    IN  /\ Gets("client", {"KEXINIT"})
        /\ IF h.st = "failed"
           THEN hs' = [hs EXCEPT !["client"] = h] /\ net' = Took("client")
           ELSE /\ hs' = [hs EXCEPT !["client"] =
                            [h EXCEPT !.gex = IF h.kexId = "gex" THEN case.offer.gex ELSE NoGex,
                                      !.e = IF h.kexId = "gex" THEN <<>> ELSE first.e]]
                /\ net' = Reply("client", IF guessed THEN <<>> ELSE <<first>>)
        /\ Unloading /\ UNCHANGED <<phase, case, auth>>

KexMsgs == {"KEXDH_INIT", "GEX_REQUEST", "GEX_INIT"}

(* ExpectClientKexMsg(), and GEX_INIT once a group is out.                 *)
Expected(h) ==
    IF h.kexId # "gex" THEN "KEXDH_INIT"
    ELSE IF h.group = NoGroup THEN "GEX_REQUEST" ELSE "GEX_INIT"

SkipGuessedKexMsg ==
    /\ Gets("server", KexMsgs)
    /\ hs["server"].ignoreNextKexMsg
    /\ hs' = [hs EXCEPT !["server"].ignoreNextKexMsg = FALSE]
    /\ net' = Took("server")
    /\ Unloading /\ UNCHANGED <<phase, case, auth>>

DoKexDhGexRequest ==
    LET m == Head(net["server"])
        groups == SelectKexDhGexGroup(m.gex)
    IN  /\ Gets("server", {"GEX_REQUEST"})
        /\ ~hs["server"].ignoreNextKexMsg
        /\ Expected(hs["server"]) = "GEX_REQUEST"
        /\ IF groups = {}
           THEN /\ hs' = [hs EXCEPT !["server"] = Fail(@, "dh_size")]
                /\ net' = Took("server")
           ELSE \E bits \in groups :
                  LET group == [bits |-> bits, safe |-> TRUE]
                  IN  /\ hs' = [hs EXCEPT !["server"].gex = m.gex, !["server"].group = group]
                      /\ net' = Reply("server",
                            <<[type |-> "GEX_GROUP",
                               group |-> IF case.alter = "group"
                                         THEN [group EXCEPT !.safe = FALSE] ELSE group]>>)
        /\ Unloading /\ UNCHANGED <<phase, case, auth>>

DoKexDhGexGroup ==
    LET group == Head(net["client"]).group
        h == hs["client"]
        e == PublicE("gex", case.number)
    IN  /\ Gets("client", {"GEX_GROUP"})
        /\ IF ValidateKexDhGexGroup(group, h.gex)
           THEN /\ hs' = [hs EXCEPT !["client"].group = group, !["client"].e = e]
                /\ net' = Reply("client", <<[type |-> "GEX_INIT", e |-> e]>>)
           ELSE /\ hs' = [hs EXCEPT !["client"] = Fail(@, "group")]
                /\ net' = Took("client")
        /\ Unloading /\ UNCHANGED <<phase, case, auth>>

(* DoKexDhInit() and SendKexDhReply(): the slot of the negotiated          *)
(* algorithm, the transcript, the signature, the keys, the reply and       *)
(* NEWKEYS; EXT_INFO follows only when NEWKEYS went out whole.             *)
SendKexDhReply(short) ==
    LET m == Head(net["server"])
        e == IF case.alter = "e" THEN <<1, 1, 1>> ELSE m.e
        h == [hs["server"] EXCEPT !.e = e]
        i == FindPvtKeyIdx(privateKey, PubKeyFmtId(h.pubKeyId))
        f == Padded(PublicF(h.kexId, RawPublic(h.kexId, case.number)))
        secrets == KeyAgree_server(h.kexId, e, case.number)
        slot == privateKey[i]
        ext == [type |-> "EXT_INFO", names |-> AcceptedKeyAlgos]
    IN  /\ Gets("server", {"KEXDH_INIT", "GEX_INIT"})
        /\ ~h.ignoreNextKexMsg
        /\ Expected(h) = m.type
        /\ IF i = 0 \/ secrets = {}
           THEN /\ hs' = [hs EXCEPT !["server"] = Fail(h, "refused")]
                /\ net' = Took("server")
           ELSE \E k \in secrets :
                  LET H == ServerHash(h, slot, f, k)
                      reply == [type |-> "KEXDH_REPLY", blob |-> SentKeyBlock(h.pubKeyId, slot),
                                f |-> IF case.alter = "f" THEN <<1, 1, 1>> ELSE f,
                                sig |-> SignH(h.pubKeyId, slot, H)]
                  IN  /\ hs' = [hs EXCEPT !["server"] =
                                  [GenerateKeys("server", h, k, H) EXCEPT !.st = "done",
                                      !.blob = HashedKeyBlock(h.pubKeyId, slot)]]
                      /\ net' = Reply("server", <<reply>> \o IF h.sendExtInfo /\ ~short
                                                              THEN <<ext>> ELSE <<>>)
        /\ Unloading /\ UNCHANGED <<phase, case, auth>>

(* A packet the server does not wait for ends the connection.              *)
ServerRefuses ==
    /\ Gets("server", KexMsgs)
    /\ ~hs["server"].ignoreNextKexMsg
    /\ Expected(hs["server"]) # Head(net["server"]).type
    /\ hs' = [hs EXCEPT !["server"] = Fail(@, "msgid")]
    /\ net' = Took("server")
    /\ Unloading /\ UNCHANGED <<phase, case, auth>>

(* DoKexDhReply(): the application's check of the key comes first, the     *)
(* session id is set before the signature is verified, the keys after.     *)
DoKexDhReply ==
    LET m == Head(net["client"])
        h == hs["client"]
        secrets == KeyAgree_client(h.kexId, m.f, case.number)
        End(next) == hs' = [hs EXCEPT !["client"] = next]
    IN  /\ Gets("client", {"KEXDH_REPLY"})
        /\ IF m.blob.key \notin case.offer.known THEN End(Fail(h, "rejected"))
           ELSE IF ~ParsePubKey(h.pubKeyId, m.blob, case.offer.ca) \/ secrets = {}
                THEN End(Fail(h, "crypto"))
           ELSE \E k \in secrets :
                  LET H == ClientHash(h, m.blob, m.f, k)
                      keyed == [GenerateKeys("client", h, k, H) EXCEPT !.st = "done",
                                                                      !.blob = m.blob]
                  IN  IF VerifyH(h.pubKeyId, m.blob, m.sig, H) THEN End(keyed)
                      ELSE End(Fail([h EXCEPT !.sessionId = keyed.sessionId], "signature"))
        /\ net' = Took("client")
        /\ Unloading /\ UNCHANGED <<phase, case, auth>>

(* DoExtInfoServerSigAlgs(): a list with nothing for us counts as seen.    *)
DoExtInfo ==
    LET names == Head(net["client"]).names
    IN  /\ Gets("client", {"EXT_INFO"})
        /\ hs["client"].st = "done"
        /\ hs' = [hs EXCEPT !["client"].peerSigAlgsSeen = TRUE,
                            !["client"].peerSigId =
                                IF MatchIdLists("client", names, CannedKeyAlgos) = <<>>
                                THEN <<>> ELSE GetNameList(names, KnownId(names))]
        /\ net' = Took("client")
        /\ Unloading /\ UNCHANGED <<phase, case, auth>>

SendUserAuthRequest ==
    LET requests == BuildUserAuthRequest(hs["client"], case.user)
    IN  /\ phase = "kex"
        /\ \A side \in Sides : hs[side].st = "done" /\ net[side] = <<>>
        /\ phase' = "auth"
        /\ IF requests = {} THEN auth' = "no_algorithm" /\ UNCHANGED net
           ELSE \E m \in requests :
                  auth' = "asked" /\ net' = [net EXCEPT !["server"] = <<m>>]
        /\ Unloading /\ UNCHANGED <<case, hs>>

DoUserAuthRequest ==
    /\ phase = "auth"
    /\ net["server"] # <<>>
    /\ auth' = IF DoUserAuthRequestPublicKey(hs["server"], Head(net["server"]))
               THEN "accepted" ELSE "refused"
    /\ net' = Took("server")
    /\ Unloading /\ UNCHANGED <<phase, case, hs>>

Init ==
    /\ HostInit
    /\ phase = "loading"
    /\ case \in {CHOOSE x \in Scenarios : TRUE}
    /\ hs = [side \in Sides |-> HandshakeInfoNew(ServerInit)]
    /\ net = [side \in Sides |-> <<>>]
    /\ auth = "none"

Load ==
    /\ phase = "loading"
    /\ LoadNext
    /\ UNCHANGED <<phase, case, hs, net, auth>>

Next ==
    \/ Load
    \/ \E scenario \in Scenarios : Start(scenario)
    \/ ServerDoKexInit \/ ClientDoKexInit
    \/ SkipGuessedKexMsg \/ ServerRefuses
    \/ DoKexDhGexRequest \/ DoKexDhGexGroup
    \/ \E short \in BOOLEAN : SendKexDhReply(short)
    \/ DoKexDhReply \/ DoExtInfo
    \/ SendUserAuthRequest \/ DoUserAuthRequest

Spec == Init /\ [][Next]_vars

-----------------------------------------------------------------------------

TypeOK ==
    /\ HostTypeOK
    /\ phase \in {"loading", "kex", "auth"}
    /\ case \in Scenarios
    /\ \A side \in Sides : hs[side].st \in {"idle", "keying", "done", "failed"}
    /\ auth \in {"none", "asked", "no_algorithm", "accepted", "refused"}

(* RFC 4253, section 5: an mpint is minimal and never negative.            *)
RfcMpint(b) == IF Value(b) # <<>> /\ Value(b)[1] = 2 THEN <<0>> \o Value(b) ELSE Value(b)

SlotOf(id) == privateKey[FindPvtKeyIdx(privateKey, PubKeyFmtId(id))]

(* The exchange hash of RFC 4253, 4419, 5656 and 8731, from what the two   *)
(* ends really sent.                                                       *)
RfcHash ==
    LET c == hs["client"]
        kex == c.kexId
        public == IF UseDh(kex) THEN RfcMpint(case.number) ELSE RawPublic(kex, case.number)
    IN  <<HashForId(kex), VersionOf("client"), VersionOf("server"),
          case.offer.init, hs["server"].init, SentKeyBlock(c.pubKeyId, SlotOf(c.pubKeyId))>>
        \o (IF kex = "gex"
            THEN <<case.offer.gex.min, case.offer.gex.preferred, case.offer.gex.max,
                   RfcMpint(PrimeBytes(hs["server"].group))>>
            ELSE <<>>)
        \o <<public, public,
             IF UseMlKem(kex) THEN <<HashForId(kex), case.number, case.number>>
             ELSE RfcMpint(case.number)>>

(* When both ends finish they agree on the algorithms, on H and on the     *)
(* session id, each one's receiving keys are the other's sending keys, and *)
(* the directions share no key.                                            *)
KeysAgree ==
    LET c == hs["client"]
        s == hs["server"]
    IN  /\ s.st = "done"
        /\ <<c.kexId, c.pubKeyId, c.c2s, c.s2c>> = <<s.kexId, s.pubKeyId, s.c2s, s.s2c>>
        /\ c.keys = s.peerKeys /\ s.keys = c.peerKeys
        /\ c.keys.enc # c.peerKeys.enc /\ c.keys.iv # c.peerKeys.iv
        /\ c.sessionId = s.sessionId
        /\ \A x \in {<<c.keys, c.c2s>>, <<c.peerKeys, c.s2c>>} :
              (x[1].mac = <<>>) <=> AeadModeForId(x[2].enc)

(* The server owns the key it presented, and signed the exchange hash the  *)
(* standard defines for what both ends sent.                               *)
HostKeyProven ==
    LET c == hs["client"]
    IN  /\ c.h = RfcHash
        /\ c.blob.key \in case.offer.known
        /\ c.blob.key = SigningKey(SlotOf(c.pubKeyId))

(* The client finishes only with a server that shares its keys and proved  *)
(* its host key: a message altered on the way never goes unnoticed.        *)
ExchangeSound == hs["client"].st = "done" => KeysAgree /\ HostKeyProven

Disjoint(field) ==
    Range(hs["client"].init[field]) \intersect Range(hs["server"].init[field]) = {}

FirstCommon(field) ==
    Head(SelectSeq(hs["client"].init[field],
                   LAMBDA id : id \in Range(hs["server"].init[field])))

(* The reasons for which an exchange may fail: a message was altered, the  *)
(* lists have nothing in common, no group is of the asked size, or the     *)
(* client does not know the key, or the application loaded a certificate   *)
(* of another key.                                                         *)
Excused ==
    \/ case.alter # "none"
    \/ \E field \in {"kex", "key", "encC2S", "encS2C"} : Disjoint(field)
    \/ ~AeadModeForId(FirstCommon("encC2S")) /\ Disjoint("macC2S")
    \/ ~AeadModeForId(FirstCommon("encS2C")) /\ Disjoint("macS2C")
    \/ /\ FirstCommon("kex") = "gex"
       /\ \A bits \in {2, 4} : bits < case.offer.gex.min \/ bits > case.offer.gex.max
    \/ LET id == FirstCommon("key")
       IN  \/ SentKeyBlock(id, SlotOf(id)).key \notin case.offer.known
           \/ id.x509 /\ ~case.offer.ca
           \/ id.x509 /\ asked[id.fam].key # asked[id.fam].cert

(* An exchange between ends with a common choice for everything succeeds,  *)
(* whatever the host keys' history, the shape of the numbers and a wrong   *)
(* or right guess.                                                         *)
NoFalseAlarm ==
    phase # "loading" => \A side \in Sides : hs[side].st = "failed" => Excused

(* The server accepts an authorised user key under the algorithm the       *)
(* client chose for it, whether EXT_INFO came or was lost with a short     *)
(* write of NEWKEYS; and the client gives up only on a key none of the     *)
(* algorithms it was told of fits.                                         *)
UserKeyAccepted ==
    /\ auth # "refused"
    /\ auth = "no_algorithm" =>
          Range(SignatureIds(case.user))
            \intersect Range(IF hs["client"].peerSigAlgsSeen THEN AcceptedKeyAlgos
                             ELSE CannedKeyAlgos) = {}
=============================================================================
