-------------------------- MODULE TransportProofs --------------------------
(***************************************************************************)
(* The two ends of a connection stay in step, for every high water mark,   *)
(* method and strict KEX choice and for any number of exchanges and of     *)
(* calls by the applications: no nonce is used twice under one key         *)
(* (FreshNonces), the next packet on the wire opens at its receiver and no *)
(* channel data crosses an exchange (InSync), and both ends name the same  *)
(* session and end up with the same keys (SessionAgreement).  Without      *)
(* marks no session ends by itself either (Healthy).                       *)
(*                                                                         *)
(* A handler is a chain of small steps of one session: a packet sealed and *)
(* sent, a KEXINIT, a switch of keys, a change of a field, a packet taken  *)
(* from the peer's stream.  The invariant has a part, InStep, that each of *)
(* these small steps keeps, so that it holds throughout a handler, and a   *)
(* part, AtRest, that holds when the handler returns.  The small steps     *)
(* come first, then the handlers as chains of them, then the theorems.     *)
(* Healthy has an invariant of its own, HealthInv, after them: where the   *)
(* two ends are in an exchange says which of its messages are under way.   *)
(***************************************************************************)
EXTENDS Transport, TLAPS, ProofBasics

Fields ==
    {"state", "round", "peerRound", "isKeying", "handshake", "keys", "peerKeys", "seq",
     "peerSeq", "txCount", "rxCount", "rxMsgCount", "mark", "highwaterFlag",
     "msgHighwaterFlag", "sendStrictKex", "useStrictKex", "initialKexDone", "sessionId",
     "kexCount", "kexId", "match", "extInfoSent", "pendingWindowAdjust", "unread",
     "disconnected", "error", "out"}

\* A session, with the types the proofs need.
IsSession(s) ==
    /\ DOMAIN s = Fields
    /\ s.isKeying \subseteq {"SELF", "PEER"}
    /\ s.handshake \in Handshake
    /\ s.keys \in Keys /\ s.peerKeys \in Keys /\ s.sessionId \in Keys
    /\ s.seq \in Nat /\ s.kexCount \in Nat
    /\ s.sendStrictKex \in BOOLEAN /\ s.useStrictKex \in BOOLEAN
    /\ s.kexId \in {"DH", "GEX"}
    /\ s.out \in Seq(Packets)

----------------------------------------------------------------------------
(* The invariant.                                                          *)

\* Where endpoint e's KEXINIT, and its peer's, stand in the name of a key.
Own(e) == IF e = "client" THEN 1 ELSE 2
Other(e) == IF e = "client" THEN 2 ELSE 1

\* A key that neither KEXINIT of the other contributed to.
Newer(k, l) == k[1] > l[1] /\ k[2] > l[2]

Alive(s) == ~s.disconnected /\ ~s.error

\* The peer's KEXINIT has been taken into the exchange hash.
Hashed(s) == s.handshake.hash # NoKeys

\* The keys and the number of the packet that follows the j-th one of a
\* stream, sent already or not.
NextKeys(s, j) == IF j < Len(s.out) THEN s.out[j + 1].keys ELSE s.keys
NextSeq(s, j) == IF j < Len(s.out) THEN s.out[j + 1].seq ELSE s.seq

\* Packets are sealed in sequence, and the keys change after NEWKEYS only.
Linked(s) ==
    \A j \in 1..Len(s.out) :
        IF s.out[j].id = "NEWKEYS"
        THEN NextSeq(s, j) = IF s.out[j].strict THEN 0 ELSE s.out[j].seq + 1
        ELSE NextSeq(s, j) = s.out[j].seq + 1 /\ NextKeys(s, j) = s.out[j].keys

\* The KEXINITs of a stream are numbered in order.
Rising(s) ==
    \A i \in 1..Len(s.out) :
        s.out[i].id = "KEXINIT" =>
            /\ s.out[i].kexInit <= s.kexCount
            /\ \A j \in 1..Len(s.out) :
                  (s.out[j].id = "KEXINIT" /\ i < j) => s.out[i].kexInit < s.out[j].kexInit

\* What is named after an endpoint's KEXINIT was sent by it.
Counted(e, s) ==
    /\ s.keys[Own(e)] <= s.kexCount
    /\ s.handshake.hash[Own(e)] <= s.kexCount
    /\ s.handshake.kexInit <= s.kexCount

\* The exchange hash names new keys, until the session has moved to them.
Exchanging(s) ==
    /\ (Alive(s) /\ Hashed(s)) =>
          /\ s.handshake.live
          /\ \/ Newer(s.handshake.hash, s.keys)
             \/ s.handshake.expectMsgId = "NEWKEYS" /\ s.keys = s.handshake.keys
    /\ (Alive(s) /\ ~Hashed(s)) => s.handshake.expectMsgId = "NONE"
    /\ s.handshake.expectMsgId = "GEX_REQUEST" => s.kexId = "GEX"

\* The strict KEX marker is in the KEXINITs of the initial exchange.
MarkerSent(s) ==
    s.sessionId = NoKeys =>
        \A j \in 1..Len(s.out) :
            s.out[j].id = "KEXINIT" => s.out[j].strict = s.sendStrictKex

\* What holds of one session by itself.
Mine(e, s) ==
    /\ IsSession(s)
    /\ Linked(s)
    /\ Rising(s)
    /\ Counted(e, s)
    /\ Exchanging(s)
    /\ MarkerSent(s)

\* s opens the packets of r's stream, the first of them at number n.
Opens(s, r, n) ==
    Alive(s) => s.peerKeys = NextKeys(r, 0) /\ n = NextSeq(r, 0)

\* The KEXINITs under way to s are newer than any that s has keys from.
Later(e, s, r) ==
    /\ s.keys[Other(e)] <= r.kexCount
    /\ s.handshake.hash[Other(e)] <= r.kexCount
    /\ \A j \in 1..Len(r.out) :
          r.out[j].id = "KEXINIT" =>
              /\ r.out[j].kexInit > s.keys[Other(e)]
              /\ r.out[j].kexInit > s.handshake.hash[Other(e)]

\* Strict KEX is what both asked for, and resets the numbers at both ends.
StrictAgreed(s, r) ==
    /\ (Alive(s) /\ (Hashed(s) \/ s.sessionId # NoKeys))
          => s.useStrictKex = (s.sendStrictKex /\ r.sendStrictKex)
    /\ \A j \in 1..Len(r.out) :
          r.out[j].id = "NEWKEYS" =>
              r.out[j].strict = (s.sendStrictKex /\ r.sendStrictKex)

\* r, which has no marks, sends s no channel data during an exchange, and
\* may do so whenever it is not keying itself.
Quiet(s, r) ==
    (Unmarked(r) /\ Alive(s)) =>
        /\ \A j \in 1..Len(r.out) :
              r.out[j].id \in Conn => ~Between(r.out, j, Hashed(s))
        /\ (Alive(r) /\ "SELF" \notin r.isKeying)
              => ~Between(r.out, Len(r.out), Hashed(s))

\* What holds of s and the stream from r, whose next packet has number n.
Hears(e, s, r, n) ==
    /\ Opens(s, r, n)
    /\ Later(e, s, r)
    /\ StrictAgreed(s, r)
    /\ Quiet(s, r)

Requests == {"KEXDH_INIT", "GEX_REQUEST", "GEX_INIT"}
Answers == {"KEXDH_REPLY", "GEX_REPLY"}

\* Sends(s, S): a packet of s's stream is one of S.
Sends(s, S) == \E j \in 1..Len(s.out) : s.out[j].id \in S

\* The client is waiting for an answer of the server.
Awaiting(c) ==
    Hashed(c) /\ c.handshake.live /\ c.handshake.expectMsgId \in Answers

\* An endpoint that has made keys and waits for the peer's NEWKEYS.
Expecting(s, keys) ==
    /\ Hashed(s) /\ s.handshake.live
    /\ s.handshake.expectMsgId = "NEWKEYS"
    /\ s.handshake.keys = keys

\* A request under way is the only one, is not answered yet, and its client
\* is waiting.
Asked(c, v) ==
    \A i \in 1..Len(c.out) :
        c.out[i].id \in Requests =>
            /\ \A j \in 1..Len(c.out) : c.out[j].id \in Requests => j = i
            /\ \A j \in 1..Len(c.out) : c.out[j].id = "NEWKEYS" => j < i
            /\ ~Sends(v, Answers)
            /\ Alive(c) => Awaiting(c)

\* So is an answer.
Answered(c, v) ==
    \A i \in 1..Len(v.out) :
        v.out[i].id \in Answers =>
            /\ \A j \in 1..Len(v.out) : v.out[j].id \in Answers => j = i
            /\ ~Sends(c, Requests \cup {"NEWKEYS"})
            /\ Alive(c) => Awaiting(c)

\* The answer that carries the signature over H, KEXDH_REPLY or GEX_REPLY.
IsReply(p, kexId) == p.id = "GEX_REPLY" \/ (p.id = "KEXDH_REPLY" /\ kexId = "DH")

Replies(v) == \E j \in 1..Len(v.out) : IsReply(v.out[j], v.kexId)

\* The server is waiting for the client's NEWKEYS that is under way.
ClientSwitches(c, v) ==
    \A j \in 1..Len(c.out) :
        c.out[j].id = "NEWKEYS" =>
            /\ \A i \in 1..Len(c.out) : c.out[i].id = "NEWKEYS" => i = j
            /\ c.sessionId # NoKeys
            /\ Alive(v) => Expecting(v, NextKeys(c, j))

\* The server's NEWKEYS follows its reply, and moves to the keys of the
\* hash that the reply carries.
ServerSwitches(c, v) ==
    \A j \in 1..Len(v.out) :
        v.out[j].id = "NEWKEYS" =>
            IF j > 1
            THEN IsReply(v.out[j - 1], v.kexId) /\ v.out[j - 1].hash = NextKeys(v, j)
            ELSE Alive(c) => Expecting(c, NextKeys(v, 1))

\* The server has made the keys its reply is about.
ReplyMade(c, v) ==
    \A j \in 1..Len(v.out) :
        IsReply(v.out[j], v.kexId) =>
            /\ v.sessionId # NoKeys
            /\ c.sessionId = NoKeys => v.out[j].hash = v.sessionId
            /\ Alive(v) => Expecting(v, v.out[j].hash)

\* The session identifier is made by the server and learnt by the client.
Identified(c, v) ==
    /\ c.sessionId # NoKeys => c.sessionId = v.sessionId
    /\ (v.sessionId # NoKeys /\ c.sessionId = NoKeys) =>
          /\ Alive(v) => Hashed(v) /\ v.handshake.expectMsgId = "NEWKEYS"
          /\ Alive(c) => Replies(v)

\* A client without a session identifier is still to get the marker.
MarkerDue(c, v) ==
    (Alive(c) /\ c.sessionId = NoKeys) =>
        \A i \in 1..Len(v.out) :
            (v.out[i].id = "KEXINIT" /\ \A j \in 1..i : ~IsReply(v.out[j], v.kexId))
                => v.out[i].strict = v.sendStrictKex

\* What holds of the client and the server together.
Paired(c, v) ==
    /\ c.kexId = v.kexId
    /\ Asked(c, v)
    /\ Answered(c, v)
    /\ ClientSwitches(c, v)
    /\ ServerSwitches(c, v)
    /\ ReplyMade(c, v)
    /\ Identified(c, v)
    /\ MarkerDue(c, v)

\* Throughout a handler of endpoint e, whose session is s and whose peer's
\* is r: n is the number s will next open a packet of r at.
InStep(e, s, r, n) ==
    /\ Mine(e, s)
    /\ Mine(Peer(e), r)
    /\ Hears(e, s, r, n)
    /\ Hears(Peer(e), r, s, r.peerSeq)
    /\ IF e = "client" THEN Paired(s, r) ELSE Paired(r, s)

\* A KEXINIT that is out is in the handshake and no key is made from it yet.
Begun(e, s) ==
    "SELF" \in s.isKeying => s.handshake.live /\ s.handshake.kexInit > s.keys[Own(e)]

\* wolfSSH_connect() expects nothing before it has sent a request.
Early(e, s) ==
    (e = "client" /\ s.state \in {"VERSION_DONE", "KEXINIT_SENT"})
        => s.handshake.expectMsgId = "NONE"

\* Between the handlers of endpoint e.
AtRest(e, s) ==
    /\ Begun(e, s)
    /\ Alive(s) => ("PEER" \in s.isKeying <=> Hashed(s))
    /\ (Alive(s) /\ ~Hashed(s)) => s.keys = s.peerKeys
    /\ (Alive(s) /\ Hashed(s) /\ s.handshake.expectMsgId = "NEWKEYS")
          => s.keys = s.handshake.keys
    /\ (Alive(s) /\ Hashed(s) /\ e = "server") => s.handshake.expectMsgId # "NONE"
    /\ ("SELF" \notin s.isKeying /\ s.state # "VERSION_DONE") \/ s.state \in {"KEYED", "DONE"}
          => s.sessionId # NoKeys

IInv ==
    /\ DOMAIN ssh = Endpoints
    /\ \A e \in Endpoints :
          /\ InStep(e, ssh[e], ssh[Peer(e)], ssh[e].peerSeq)
          /\ AtRest(e, ssh[e])
          /\ Early(e, ssh[e])

----------------------------------------------------------------------------
(* The small steps.                                                        *)

\* What no step but the receipt of a NEWKEYS changes.
Kept(s, t) ==
    /\ IsSession(t)
    /\ t.peerKeys = s.peerKeys
    /\ t.sendStrictKex = s.sendStrictKex
    /\ t.kexId = s.kexId
    /\ t.mark = s.mark
    /\ t.match = s.match

\* What no send changes either.
Frame(s, t) ==
    /\ Kept(s, t)
    /\ t.useStrictKex = s.useStrictKex
    /\ t.sessionId = s.sessionId
    /\ t.disconnected = s.disconnected /\ t.error = s.error
    /\ t.state = s.state

\* A packet sealed under the keys and the number of s is put on the wire.
Sealed(s, t, p) ==
    /\ t.out = Append(s.out, p)
    /\ p \in Packets
    /\ p.keys = s.keys /\ p.seq = s.seq

\* A change of fields that InStep does not look at.
Tweaked(s, t) ==
    /\ Frame(s, t)
    /\ t.out = s.out /\ t.seq = s.seq /\ t.keys = s.keys
    /\ t.kexCount = s.kexCount /\ t.handshake = s.handshake /\ t.isKeying = s.isKeying

\* A packet that is no part of a key exchange.
Plain(s, t, p) ==
    /\ Frame(s, t) /\ t.peerSeq = s.peerSeq
    /\ Sealed(s, t, p) /\ t.seq = s.seq + 1 /\ t.keys = s.keys
    /\ t.kexCount = s.kexCount /\ t.handshake = s.handshake /\ t.isKeying = s.isKeying
    /\ p.id \notin Trans
    /\ p.id \in Conn => Alive(s) /\ "SELF" \notin s.isKeying

\* What SendKexInit() makes of the handshake.
Refreshed(g, h, n) ==
    /\ h.live /\ h.kexInit = n
    /\ h.expectMsgId = IF g.live THEN g.expectMsgId ELSE "NONE"
    /\ h.hash = IF g.live THEN g.hash ELSE NoKeys
    /\ h.keys = IF g.live THEN g.keys ELSE NoKeys

\* A KEXINIT.
Keying(s, t, p) ==
    /\ Frame(s, t) /\ t.peerSeq = s.peerSeq
    /\ Sealed(s, t, p) /\ t.seq = s.seq + 1 /\ t.keys = s.keys
    /\ t.kexCount = s.kexCount + 1
    /\ Refreshed(s.handshake, t.handshake, s.kexCount + 1)
    /\ t.isKeying = s.isKeying \cup {"SELF"}
    /\ p.id = "KEXINIT" /\ p.kexInit = s.kexCount + 1
    /\ p.strict = (s.sessionId = NoKeys /\ s.sendStrictKex)

----------------------------------------------------------------------------
(* Streams that grow.                                                      *)

LEMMA StringsDiffer ==
    /\ "NEWKEYS" \notin Requests \cup Answers \cup Conn \cup {"KEXINIT"}
    /\ "KEXINIT" \notin Requests \cup Answers \cup Conn
    /\ \A x \in Requests \cup Answers \cup {"KEXINIT", "NEWKEYS"} : x \in Trans /\ x \notin Conn
    /\ \A x \in Requests : x \notin Answers
  BY DEF Requests, Answers, Conn, Trans, TransKex

LEMMA Extended ==
    ASSUME NEW s, NEW t, NEW p, IsSession(s), Sealed(s, t, p)
    PROVE  /\ Len(s.out) \in Nat /\ Len(t.out) = Len(s.out) + 1
           /\ \A j \in 1..Len(s.out) : t.out[j] = s.out[j] /\ s.out[j] \in Packets
           /\ t.out[Len(t.out)] = p
           /\ \A j \in 0..Len(s.out) : NextKeys(t, j) = NextKeys(s, j) /\ NextSeq(t, j) = NextSeq(s, j)
           /\ NextKeys(t, Len(t.out)) = t.keys /\ NextSeq(t, Len(t.out)) = t.seq
<1>1. /\ Len(s.out) \in Nat /\ Len(t.out) = Len(s.out) + 1
      /\ \A j \in 1..Len(s.out) : t.out[j] = s.out[j] /\ s.out[j] \in Packets
      /\ t.out[Len(t.out)] = p
  BY DEF IsSession, Sealed
<1>2. ASSUME NEW j \in 0..Len(s.out)
      PROVE  NextKeys(t, j) = NextKeys(s, j) /\ NextSeq(t, j) = NextSeq(s, j)
  <2>1. CASE j < Len(s.out)
    <3>1. j + 1 \in 1..Len(s.out) /\ j < Len(t.out)
      BY <1>1, <2>1
    <3> QED BY <3>1, <2>1, <1>1 DEF NextKeys, NextSeq
  <2>2. CASE j = Len(s.out)
    <3>1. j < Len(t.out) /\ t.out[j + 1] = p /\ ~(j < Len(s.out))
      BY <1>1, <2>2
    <3> QED BY <3>1 DEF NextKeys, NextSeq, Sealed
  <2> QED BY <2>1, <2>2, <1>1
<1>3. NextKeys(t, Len(t.out)) = t.keys /\ NextSeq(t, Len(t.out)) = t.seq
  <2>1. ~(Len(t.out) < Len(t.out))
    BY <1>1
  <2> QED BY <2>1 DEF NextKeys, NextSeq
<1> QED BY <1>1, <1>2, <1>3

\* What each part of the invariant says of a stream with one packet more.
LEMMA LinkedExtended ==
    ASSUME NEW s, NEW t, NEW p, IsSession(s), Sealed(s, t, p), Linked(s),
           IF p.id = "NEWKEYS" THEN t.seq = IF p.strict THEN 0 ELSE p.seq + 1
                               ELSE t.seq = p.seq + 1 /\ t.keys = p.keys
    PROVE  Linked(t)
<1> SUFFICES ASSUME NEW j \in 1..Len(t.out)
             PROVE  IF t.out[j].id = "NEWKEYS"
                    THEN NextSeq(t, j) = IF t.out[j].strict THEN 0 ELSE t.out[j].seq + 1
                    ELSE NextSeq(t, j) = t.out[j].seq + 1 /\ NextKeys(t, j) = t.out[j].keys
  BY DEF Linked
<1>1. CASE j = Len(t.out)
  BY <1>1, Extended
<1>2. CASE j # Len(t.out)
  <2>1. j \in 1..Len(s.out) /\ j \in 0..Len(s.out)
    BY <1>2, Extended
  <2> QED BY <2>1, Extended DEF Linked
<1> QED BY <1>1, <1>2

LEMMA RisingExtended ==
    ASSUME NEW s, NEW t, NEW p, IsSession(s), IsSession(t), Sealed(s, t, p), Rising(s),
           t.kexCount >= s.kexCount,
           p.id = "KEXINIT" => p.kexInit > s.kexCount /\ p.kexInit <= t.kexCount
    PROVE  Rising(t)
<1> SUFFICES ASSUME NEW i \in 1..Len(t.out), t.out[i].id = "KEXINIT"
             PROVE  /\ t.out[i].kexInit <= t.kexCount
                    /\ \A j \in 1..Len(t.out) :
                          (t.out[j].id = "KEXINIT" /\ i < j) => t.out[i].kexInit < t.out[j].kexInit
  BY DEF Rising
<1>0. s.kexCount \in Nat /\ t.kexCount \in Nat /\ p.kexInit \in Nat
  BY DEF IsSession, Sealed, Packets
<1>1. CASE i = Len(t.out)
  BY <1>0, <1>1, Extended
<1>2. CASE i # Len(t.out)
  <2>1. i \in 1..Len(s.out) /\ s.out[i].kexInit \in Nat
    BY <1>2, Extended DEF Packets
  <2>2. s.out[i].id = "KEXINIT" /\ t.out[i] = s.out[i] /\ s.out[i].kexInit <= s.kexCount
    BY <2>1, Extended DEF Rising
  <2>3. ASSUME NEW j \in 1..Len(t.out), t.out[j].id = "KEXINIT", i < j
        PROVE  t.out[i].kexInit < t.out[j].kexInit
    <3>1. CASE j = Len(t.out)
      BY <3>1, <2>1, <2>2, <2>3, <1>0, Extended
    <3>2. CASE j # Len(t.out)
      <4>1. j \in 1..Len(s.out) /\ t.out[j] = s.out[j]
        BY <3>2, Extended
      <4> QED BY <4>1, <2>1, <2>2, <2>3 DEF Rising
    <3> QED BY <3>1, <3>2
  <2> QED BY <2>1, <2>2, <2>3, <1>0
<1> QED BY <1>1, <1>2

LEMMA OpensExtended ==
    ASSUME NEW s, NEW t, NEW p, NEW r, NEW n, IsSession(s), Sealed(s, t, p), Opens(r, s, n)
    PROVE  Opens(r, t, n)
<1>1. 0 \in 0..Len(s.out)
  BY Extended
<1> QED BY <1>1, Extended DEF Opens

LEMMA LaterExtended ==
    ASSUME NEW s, NEW t, NEW p, NEW r, NEW e, IsSession(s), IsSession(t), IsSession(r),
           Sealed(s, t, p), Later(e, r, s), e \in Endpoints,
           t.kexCount >= s.kexCount,
           p.id = "KEXINIT" => p.kexInit > s.kexCount
    PROVE  Later(e, r, t)
<1>0. s.kexCount \in Nat /\ t.kexCount \in Nat /\ p.kexInit \in Nat
  BY DEF IsSession, Sealed, Packets
<1>1. r.keys[Other(e)] \in Nat /\ r.handshake.hash[Other(e)] \in Nat
  BY DEF IsSession, Handshake, Keys, Other
<1>2. ASSUME NEW j \in 1..Len(t.out), t.out[j].id = "KEXINIT"
      PROVE  t.out[j].kexInit > r.keys[Other(e)] /\ t.out[j].kexInit > r.handshake.hash[Other(e)]
  <2>1. CASE j = Len(t.out)
    BY <2>1, <1>0, <1>1, <1>2, Extended DEF Later
  <2>2. CASE j # Len(t.out)
    <3>1. j \in 1..Len(s.out) /\ t.out[j] = s.out[j]
      BY <2>2, Extended
    <3> QED BY <3>1, <1>2 DEF Later
  <2> QED BY <2>1, <2>2
<1> QED BY <1>0, <1>1, <1>2 DEF Later

\* t's stream is s's with packets that are no request, no answer and no
\* NEWKEYS added to it.
Grows(s, t) ==
    /\ Len(s.out) \in Nat /\ Len(t.out) \in Nat /\ Len(t.out) >= Len(s.out)
    /\ \A j \in 1..Len(s.out) : t.out[j] = s.out[j]
    /\ \A j \in 0..Len(s.out) : NextKeys(t, j) = NextKeys(s, j) /\ NextSeq(t, j) = NextSeq(s, j)
    /\ \A j \in 1..Len(t.out) :
          j > Len(s.out) =>
              /\ t.out[j].id \notin Requests \cup Answers \cup {"NEWKEYS"}
              /\ t.out[j].id = "KEXINIT" =>
                    /\ t.out[j].kexInit > s.kexCount
                    /\ t.out[j].strict = (s.sessionId = NoKeys /\ s.sendStrictKex)

\* The handshake goes on as it is, or there was none and it is new.
GoesOn(s, t) ==
    \/ /\ s.handshake.live => t.handshake.live
       /\ t.handshake.hash = s.handshake.hash
       /\ t.handshake.keys = s.handshake.keys
       /\ \/ t.handshake.expectMsgId = s.handshake.expectMsgId
          \/ ~Alive(t) /\ t.handshake.expectMsgId = "NONE"
    \/ /\ ~s.handshake.live
       /\ t.handshake.hash = NoKeys
       /\ t.handshake.expectMsgId = "NONE"

\* A step of s that neither moves the exchange on nor takes a packet.
Neutral(s, t) ==
    /\ Kept(s, t)
    /\ t.keys = s.keys /\ t.sessionId = s.sessionId
    /\ t.useStrictKex = s.useStrictKex \/ (s.sessionId = NoKeys /\ ~Hashed(s))
    /\ Alive(t) => Alive(s)
    /\ t.kexCount >= s.kexCount /\ t.handshake.kexInit <= t.kexCount
    /\ GoesOn(s, t)
    /\ Grows(s, t)

LEMMA KeysOK ==
    /\ NoKeys \in Keys /\ NoKeys[1] = 0 /\ NoKeys[2] = 0
    /\ \A e \in Endpoints : \A k \in Keys :
          k[Own(e)] \in Nat /\ k[Other(e)] \in Nat /\ NoKeys[Own(e)] = 0 /\ NoKeys[Other(e)] = 0
    /\ \A k \in Keys : k[1] \in Nat /\ k[2] \in Nat
    /\ \A k, l \in Keys : Newer(k, l) => k # NoKeys
  BY DEF Keys, NoKeys, Own, Other, Newer

LEMMA SessionKeys ==
    ASSUME NEW s, IsSession(s)
    PROVE  /\ s.keys \in Keys /\ s.peerKeys \in Keys /\ s.sessionId \in Keys
           /\ s.handshake.hash \in Keys /\ s.handshake.keys \in Keys
           /\ s.handshake.kexInit \in Nat /\ s.handshake.live \in BOOLEAN
           /\ s.kexCount \in Nat /\ s.seq \in Nat
           /\ s.sendStrictKex \in BOOLEAN /\ s.useStrictKex \in BOOLEAN
           /\ Len(s.out) \in Nat /\ \A j \in 1..Len(s.out) : s.out[j] \in Packets
  BY DEF IsSession, Handshake

\* What an endpoint that goes on is waiting for.
LEMMA NeutralWaits ==
    ASSUME NEW e, NEW s, NEW t, Neutral(s, t), Exchanging(s), Alive(t)
    PROVE  /\ Alive(s)
           /\ Hashed(t) <=> Hashed(s)
           /\ Hashed(s) => s.handshake.live /\ t.handshake.live
           /\ Hashed(s) => /\ t.handshake.hash = s.handshake.hash
                           /\ t.handshake.keys = s.handshake.keys
                           /\ t.handshake.expectMsgId = s.handshake.expectMsgId
           /\ Awaiting(s) => Awaiting(t)
           /\ \A k : Expecting(s, k) => Expecting(t, k)
  BY DEF Neutral, GoesOn, Exchanging, Hashed, Awaiting, Expecting

LEMMA NeutralMine ==
    ASSUME NEW e \in Endpoints, NEW s, NEW t, Neutral(s, t), Mine(e, s)
    PROVE  Counted(e, t) /\ Exchanging(t) /\ MarkerSent(t)
<1>1. IsSession(s) /\ IsSession(t)
  BY DEF Mine, Neutral, Kept
<1>2. Counted(e, t)
  <2>1. t.keys[Own(e)] <= t.kexCount
    BY <1>1, SessionKeys, KeysOK DEF Mine, Counted, Neutral
  <2>2. t.handshake.hash[Own(e)] <= t.kexCount
    BY <1>1, SessionKeys, KeysOK DEF Mine, Counted, Neutral, GoesOn
  <2> QED BY <2>1, <2>2 DEF Counted, Neutral
<1>3. Exchanging(t)
  <2>1. (Alive(t) /\ Hashed(t)) =>
           /\ t.handshake.live
           /\ \/ Newer(t.handshake.hash, t.keys)
              \/ t.handshake.expectMsgId = "NEWKEYS" /\ t.keys = t.handshake.keys
    <3> SUFFICES ASSUME Alive(t), Hashed(t)
                 PROVE /\ t.handshake.live
                       /\ \/ Newer(t.handshake.hash, t.keys)
                          \/ t.handshake.expectMsgId = "NEWKEYS" /\ t.keys = t.handshake.keys
      OBVIOUS
    <3>1. /\ Alive(s) /\ Hashed(s) /\ t.handshake.live
          /\ t.handshake.hash = s.handshake.hash
          /\ t.handshake.keys = s.handshake.keys
          /\ t.handshake.expectMsgId = s.handshake.expectMsgId
      BY NeutralWaits DEF Mine
    <3> QED BY <3>1 DEF Mine, Exchanging, Neutral
  <2>2. (Alive(t) /\ ~Hashed(t)) => t.handshake.expectMsgId = "NONE"
    BY NeutralWaits DEF Mine, Exchanging, Neutral, GoesOn
  <2>3. t.handshake.expectMsgId = "GEX_REQUEST" => t.kexId = "GEX"
    BY DEF Mine, Exchanging, Neutral, Kept, GoesOn
  <2> QED BY <2>1, <2>2, <2>3 DEF Exchanging
<1>4. MarkerSent(t)
  <2> SUFFICES ASSUME t.sessionId = NoKeys, NEW j \in 1..Len(t.out), t.out[j].id = "KEXINIT"
               PROVE  t.out[j].strict = t.sendStrictKex
    BY DEF MarkerSent
  <2>1. s.sessionId = NoKeys /\ t.sendStrictKex = s.sendStrictKex /\ s.sendStrictKex \in BOOLEAN
    BY <1>1, SessionKeys DEF Neutral, Kept
  <2>2. CASE j > Len(s.out)
    BY <2>1, <2>2 DEF Neutral, Grows
  <2>3. CASE ~(j > Len(s.out))
    <3>1. j \in 1..Len(s.out) /\ t.out[j] = s.out[j]
      BY <2>3 DEF Neutral, Grows
    <3> QED BY <3>1, <2>1 DEF Mine, MarkerSent
  <2> QED BY <2>2, <2>3
<1> QED BY <1>2, <1>3, <1>4

\* s as the receiver of r's stream.
LEMMA NeutralHears ==
    ASSUME NEW e \in Endpoints, NEW s, NEW t, NEW r, NEW n,
           Neutral(s, t), Mine(e, s), IsSession(r), Hears(e, s, r, n)
    PROVE  Hears(e, t, r, n)
<1>1. IsSession(s) /\ IsSession(t)
  BY DEF Mine, Neutral, Kept
<1>2. Opens(t, r, n)
  BY DEF Hears, Opens, Neutral, Kept
<1>3. Later(e, t, r)
  <2>0. r.kexCount \in Nat /\ \A j \in 1..Len(r.out) : r.out[j].kexInit \in Nat
    BY SessionKeys DEF Packets
  <2>1. t.keys = s.keys /\ t.handshake.hash \in {s.handshake.hash, NoKeys}
    BY DEF Neutral, GoesOn
  <2>2. s.handshake.hash[Other(e)] \in Nat /\ NoKeys[Other(e)] = 0
    BY <1>1, SessionKeys, KeysOK
  <2> QED BY <2>0, <2>1, <2>2 DEF Hears, Later
<1>4. StrictAgreed(t, r)
  <2>1. (Alive(t) /\ (Hashed(t) \/ t.sessionId # NoKeys))
          => t.useStrictKex = (t.sendStrictKex /\ r.sendStrictKex)
    <3> SUFFICES ASSUME Alive(t), Hashed(t) \/ t.sessionId # NoKeys
                 PROVE  t.useStrictKex = (t.sendStrictKex /\ r.sendStrictKex)
      OBVIOUS
    <3>1. Alive(s) /\ (Hashed(s) \/ s.sessionId # NoKeys)
      BY NeutralWaits DEF Mine, Neutral
    <3>2. t.useStrictKex = s.useStrictKex /\ t.sendStrictKex = s.sendStrictKex
      BY <3>1 DEF Neutral, Kept
    <3> QED BY <3>1, <3>2 DEF Hears, StrictAgreed
  <2>2. t.sendStrictKex = s.sendStrictKex
    BY DEF Neutral, Kept
  <2> QED BY <2>1, <2>2 DEF Hears, StrictAgreed
<1>5. Quiet(t, r)
  <2> SUFFICES ASSUME Unmarked(r), Alive(t)
               PROVE  /\ \A j \in 1..Len(r.out) :
                             r.out[j].id \in Conn => ~Between(r.out, j, Hashed(t))
                      /\ (Alive(r) /\ "SELF" \notin r.isKeying)
                             => ~Between(r.out, Len(r.out), Hashed(t))
    BY DEF Quiet
  <2>1. Alive(s) /\ (Hashed(t) <=> Hashed(s))
    BY NeutralWaits DEF Mine
  <2>2. CASE Hashed(s)
    <3>1. Hashed(t) = TRUE /\ Hashed(s) = TRUE
      BY <2>1, <2>2 DEF Hashed
    <3> QED BY <2>1, <3>1 DEF Hears, Quiet
  <2>3. CASE ~Hashed(s)
    <3>1. Hashed(t) = FALSE /\ Hashed(s) = FALSE
      BY <2>1, <2>3 DEF Hashed
    <3> QED BY <2>1, <3>1 DEF Hears, Quiet
  <2> QED BY <2>2, <2>3
<1> QED BY <1>2, <1>3, <1>4, <1>5 DEF Hears

\* s as the sender of the stream r receives.
LEMMA NeutralHeard ==
    ASSUME NEW e \in Endpoints, NEW s, NEW t, NEW r, NEW n,
           Neutral(s, t), Mine(Peer(e), s), IsSession(r), Hears(e, r, s, n), Quiet(r, t)
    PROVE  Hears(e, r, t, n)
<1>1. IsSession(s) /\ IsSession(t)
  BY DEF Mine, Neutral, Kept
<1>2. Opens(r, t, n)
  <2>1. NextKeys(t, 0) = NextKeys(s, 0) /\ NextSeq(t, 0) = NextSeq(s, 0)
    BY DEF Neutral, Grows
  <2> QED BY <2>1 DEF Hears, Opens
<1>3. Later(e, r, t)
  <2>0. /\ s.kexCount \in Nat /\ t.kexCount \in Nat /\ t.kexCount >= s.kexCount
        /\ \A j \in 1..Len(t.out) : t.out[j].kexInit \in Nat
    BY <1>1, SessionKeys DEF Packets, Neutral
  <2>1. r.keys[Other(e)] \in Nat /\ r.handshake.hash[Other(e)] \in Nat
    BY SessionKeys, KeysOK
  <2>2. ASSUME NEW j \in 1..Len(t.out), t.out[j].id = "KEXINIT"
        PROVE  t.out[j].kexInit > r.keys[Other(e)] /\ t.out[j].kexInit > r.handshake.hash[Other(e)]
    <3>1. CASE j > Len(s.out)
      <4>1. t.out[j].kexInit > s.kexCount
        BY <3>1, <2>2 DEF Neutral, Grows
      <4> QED BY <4>1, <2>0, <2>1 DEF Hears, Later
    <3>2. CASE ~(j > Len(s.out))
      <4>1. j \in 1..Len(s.out) /\ t.out[j] = s.out[j]
        BY <3>2 DEF Neutral, Grows
      <4> QED BY <4>1, <2>2 DEF Hears, Later
    <3> QED BY <3>1, <3>2
  <2> QED BY <2>0, <2>1, <2>2 DEF Hears, Later
<1>4. StrictAgreed(r, t)
  <2>1. t.sendStrictKex = s.sendStrictKex
    BY DEF Neutral, Kept
  <2>2. ASSUME NEW j \in 1..Len(t.out), t.out[j].id = "NEWKEYS"
        PROVE  t.out[j].strict = (r.sendStrictKex /\ t.sendStrictKex)
    <3>1. j \in 1..Len(s.out) /\ t.out[j] = s.out[j]
      BY <2>2 DEF Neutral, Grows
    <3> QED BY <3>1, <2>1, <2>2 DEF Hears, StrictAgreed
  <2> QED BY <2>1, <2>2 DEF Hears, StrictAgreed
<1> QED BY <1>2, <1>3, <1>4 DEF Hears

\* Which of the packets that matter to an exchange are in t's stream.
LEMMA GrowsSends ==
    ASSUME NEW s, NEW t, Grows(s, t)
    PROVE  /\ \A j \in 1..Len(t.out) :
                 t.out[j].id \in Requests \cup Answers \cup {"NEWKEYS"}
                    => j \in 1..Len(s.out) /\ t.out[j] = s.out[j]
           /\ ~Sends(s, Answers) => ~Sends(t, Answers)
           /\ ~Sends(s, Requests \cup {"NEWKEYS"}) => ~Sends(t, Requests \cup {"NEWKEYS"})
<1>1. ASSUME NEW j \in 1..Len(t.out), t.out[j].id \in Requests \cup Answers \cup {"NEWKEYS"}
      PROVE  j \in 1..Len(s.out) /\ t.out[j] = s.out[j]
  BY <1>1 DEF Grows
<1> QED BY <1>1 DEF Sends

LEMMA ReplyIsAnswer ==
    ASSUME NEW p, NEW k, IsReply(p, k)
    PROVE  p.id \in Answers
  BY DEF IsReply, Answers

LEMMA NeutralClient ==
    ASSUME NEW c, NEW d, NEW v, Neutral(c, d), Mine("client", c), Paired(c, v)
    PROVE  Paired(d, v)
<1>0. Exchanging(c) /\ d.sessionId = c.sessionId /\ Grows(c, d) /\ d.kexId = c.kexId
  BY DEF Mine, Neutral, Kept
<1>1. Alive(d) => /\ Alive(c)
                  /\ Awaiting(c) => Awaiting(d)
                  /\ \A k : Expecting(c, k) => Expecting(d, k)
  BY <1>0, NeutralWaits
<1>2. Asked(d, v)
  <2> SUFFICES ASSUME NEW i \in 1..Len(d.out), d.out[i].id \in Requests
               PROVE  /\ \A j \in 1..Len(d.out) : d.out[j].id \in Requests => j = i
                      /\ \A j \in 1..Len(d.out) : d.out[j].id = "NEWKEYS" => j < i
                      /\ ~Sends(v, Answers)
                      /\ Alive(d) => Awaiting(d)
    BY DEF Asked
  <2>1. i \in 1..Len(c.out) /\ c.out[i].id \in Requests
    BY <1>0, GrowsSends
  <2>2. /\ \A j \in 1..Len(c.out) : c.out[j].id \in Requests => j = i
        /\ \A j \in 1..Len(c.out) : c.out[j].id = "NEWKEYS" => j < i
        /\ ~Sends(v, Answers)
        /\ Alive(c) => Awaiting(c)
    BY <2>1 DEF Paired, Asked
  <2> QED BY <2>2, <1>0, <1>1, GrowsSends
<1>3. Answered(d, v)
  BY <1>0, <1>1, GrowsSends DEF Paired, Answered
<1>4. ClientSwitches(d, v)
  <2> SUFFICES ASSUME NEW j \in 1..Len(d.out), d.out[j].id = "NEWKEYS"
               PROVE  /\ \A i \in 1..Len(d.out) : d.out[i].id = "NEWKEYS" => i = j
                      /\ d.sessionId # NoKeys
                      /\ Alive(v) => Expecting(v, NextKeys(d, j))
    BY DEF ClientSwitches
  <2>1. j \in 1..Len(c.out) /\ c.out[j].id = "NEWKEYS"
    BY <1>0, GrowsSends
  <2>2. NextKeys(d, j) = NextKeys(c, j)
    <3>1. j \in 0..Len(c.out)
      BY <2>1
    <3> QED BY <3>1, <1>0 DEF Grows
  <2>3. /\ \A i \in 1..Len(c.out) : c.out[i].id = "NEWKEYS" => i = j
        /\ c.sessionId # NoKeys
        /\ Alive(v) => Expecting(v, NextKeys(c, j))
    BY <2>1 DEF Paired, ClientSwitches
  <2> QED BY <2>2, <2>3, <1>0, GrowsSends
<1>5. ServerSwitches(d, v)
  BY <1>1 DEF Paired, ServerSwitches
<1>6. ReplyMade(d, v)
  BY <1>0 DEF Paired, ReplyMade
<1>7. Identified(d, v)
  BY <1>0, <1>1 DEF Paired, Identified
<1>8. MarkerDue(d, v)
  BY <1>0, <1>1 DEF Paired, MarkerDue
<1> QED BY <1>0, <1>2, <1>3, <1>4, <1>5, <1>6, <1>7, <1>8 DEF Paired

LEMMA NeutralServer ==
    ASSUME NEW c, NEW v, NEW w, Neutral(v, w), Mine("server", v), Paired(c, v)
    PROVE  Paired(c, w)
<1>0. /\ Exchanging(v) /\ w.sessionId = v.sessionId /\ Grows(v, w)
      /\ w.kexId = v.kexId /\ w.sendStrictKex = v.sendStrictKex /\ v.sendStrictKex \in BOOLEAN
  BY SessionKeys DEF Mine, Neutral, Kept
<1>1. Alive(w) => /\ Alive(v)
                  /\ \A k : Expecting(v, k) => Expecting(w, k)
                  /\ Hashed(v) /\ v.handshake.expectMsgId = "NEWKEYS"
                       => Hashed(w) /\ w.handshake.expectMsgId = "NEWKEYS"
  BY <1>0, NeutralWaits
<1>2. Asked(c, w)
  BY <1>0, GrowsSends DEF Paired, Asked
<1>3. Answered(c, w)
  <2> SUFFICES ASSUME NEW i \in 1..Len(w.out), w.out[i].id \in Answers
               PROVE  /\ \A j \in 1..Len(w.out) : w.out[j].id \in Answers => j = i
                      /\ ~Sends(c, Requests \cup {"NEWKEYS"})
                      /\ Alive(c) => Awaiting(c)
    BY DEF Answered
  <2>1. i \in 1..Len(v.out) /\ v.out[i].id \in Answers
    BY <1>0, GrowsSends
  <2>2. /\ \A j \in 1..Len(v.out) : v.out[j].id \in Answers => j = i
        /\ ~Sends(c, Requests \cup {"NEWKEYS"})
        /\ Alive(c) => Awaiting(c)
    BY <2>1 DEF Paired, Answered
  <2> QED BY <2>2, <1>0, GrowsSends
<1>4. ClientSwitches(c, w)
  BY <1>1 DEF Paired, ClientSwitches
<1>5. ServerSwitches(c, w)
  <2> SUFFICES ASSUME NEW j \in 1..Len(w.out), w.out[j].id = "NEWKEYS"
               PROVE  IF j > 1
                      THEN IsReply(w.out[j - 1], w.kexId) /\ w.out[j - 1].hash = NextKeys(w, j)
                      ELSE Alive(c) => Expecting(c, NextKeys(w, 1))
    BY DEF ServerSwitches
  <2>1. j \in 1..Len(v.out) /\ v.out[j].id = "NEWKEYS"
    BY <1>0, GrowsSends
  <2>2. NextKeys(w, j) = NextKeys(v, j)
    <3>1. j \in 0..Len(v.out)
      BY <2>1
    <3> QED BY <3>1, <1>0 DEF Grows
  <2>3. IF j > 1
        THEN IsReply(v.out[j - 1], v.kexId) /\ v.out[j - 1].hash = NextKeys(v, j)
        ELSE Alive(c) => Expecting(c, NextKeys(v, 1))
    BY <2>1 DEF Paired, ServerSwitches
  <2>4. CASE j > 1
    <3>1. j - 1 \in 1..Len(v.out) /\ w.out[j - 1] = v.out[j - 1]
      BY <2>1, <2>4, <1>0 DEF Grows
    <3> QED BY <3>1, <2>2, <2>3, <2>4, <1>0
  <2>5. CASE ~(j > 1)
    <3>1. j = 1
      BY <2>5, <2>1
    <3> QED BY <3>1, <2>2, <2>3
  <2> QED BY <2>4, <2>5
<1>6. ReplyMade(c, w)
  <2> SUFFICES ASSUME NEW j \in 1..Len(w.out), IsReply(w.out[j], w.kexId)
               PROVE  /\ w.sessionId # NoKeys
                      /\ c.sessionId = NoKeys => w.out[j].hash = w.sessionId
                      /\ Alive(w) => Expecting(w, w.out[j].hash)
    BY DEF ReplyMade
  <2>1. j \in 1..Len(v.out) /\ w.out[j] = v.out[j]
    BY <1>0, GrowsSends, ReplyIsAnswer
  <2> QED BY <2>1, <1>0, <1>1 DEF Paired, ReplyMade
<1>7. Replies(v) => Replies(w)
  <2>1. \A j \in 1..Len(v.out) : j \in 1..Len(w.out) /\ w.out[j] = v.out[j]
    BY <1>0 DEF Grows
  <2> QED BY <2>1, <1>0 DEF Replies
<1>8. Identified(c, w)
  BY <1>0, <1>1, <1>7 DEF Paired, Identified
<1>9. MarkerDue(c, w)
  <2> SUFFICES ASSUME Alive(c), c.sessionId = NoKeys, NEW i \in 1..Len(w.out),
                      w.out[i].id = "KEXINIT", \A j \in 1..i : ~IsReply(w.out[j], w.kexId)
               PROVE  w.out[i].strict = w.sendStrictKex
    BY DEF MarkerDue
  <2>1. CASE i > Len(v.out)
    <3>1. ~Replies(v)
      <4>1. \A j \in 1..Len(v.out) : j \in 1..i /\ w.out[j] = v.out[j]
        BY <2>1, <1>0 DEF Grows
      <4> QED BY <4>1, <1>0 DEF Replies
    <3>2. v.sessionId = NoKeys
      BY <3>1 DEF Paired, Identified
    <3> QED BY <3>2, <2>1, <1>0 DEF Grows
  <2>2. CASE ~(i > Len(v.out))
    <3>1. i \in 1..Len(v.out) /\ w.out[i] = v.out[i]
      BY <2>2, <1>0 DEF Grows
    <3>2. \A j \in 1..i : w.out[j] = v.out[j]
      BY <2>2, <1>0 DEF Grows
    <3> QED BY <3>1, <3>2, <1>0 DEF Paired, MarkerDue
  <2> QED BY <2>1, <2>2
<1> QED BY <1>0, <1>2, <1>3, <1>4, <1>5, <1>6, <1>8, <1>9 DEF Paired

LEMMA PeerPeer ==
    ASSUME NEW e \in Endpoints
    PROVE  Peer(e) \in Endpoints /\ Peer(Peer(e)) = e /\ Peer(e) # e
  BY DEF Endpoints, Peer

\* A neutral step keeps the ends in step.
LEMMA NeutralInStep ==
    ASSUME NEW e \in Endpoints, NEW s, NEW t, NEW r, NEW n,
           InStep(e, s, r, n), Neutral(s, t), Linked(t), Rising(t), Quiet(r, t)
    PROVE  InStep(e, t, r, n)
<1>1. Mine(e, s) /\ Mine(Peer(e), r) /\ IsSession(r) /\ IsSession(t)
  BY DEF InStep, Mine, Neutral, Kept
<1>2. Mine(e, t)
  BY <1>1, NeutralMine DEF Mine
<1>3. Hears(e, t, r, n)
  BY <1>1, NeutralHears DEF InStep
<1>4. Hears(Peer(e), r, t, r.peerSeq)
  BY <1>1, NeutralHeard, PeerPeer DEF InStep
<1>5. IF e = "client" THEN Paired(t, r) ELSE Paired(r, t)
  <2>1. CASE e = "client"
    BY <2>1, <1>1, NeutralClient DEF InStep
  <2>2. CASE e # "client"
    <3>1. e = "server"
      BY <2>2 DEF Endpoints
    <3> QED BY <3>1, <1>1, NeutralServer DEF InStep
  <2> QED BY <2>1, <2>2
<1> QED BY <1>1, <1>2, <1>3, <1>4, <1>5 DEF InStep

LEMMA BetweenExtended ==
    ASSUME NEW s, NEW t, NEW p, NEW h, IsSession(s), Sealed(s, t, p)
    PROVE  /\ \A j \in 0..Len(s.out) : Between(t.out, j, h) <=> Between(s.out, j, h)
           /\ p.id = "NEWKEYS" => ~Between(t.out, Len(t.out), h)
           /\ p.id \notin {"KEXINIT", "NEWKEYS"}
                 => (Between(t.out, Len(t.out), h) <=> Between(s.out, Len(s.out), h))
<1> DEFINE n == Len(s.out)
<1>1. /\ n \in Nat /\ Len(t.out) = n + 1 /\ t.out[n + 1] = p
      /\ \A j \in 1..n : t.out[j] = s.out[j]
  BY Extended
<1> HIDE DEF n
<1>2. ASSUME NEW j \in 0..n
      PROVE  Between(t.out, j, h) <=> Between(s.out, j, h)
  <2>1. \A k \in 1..j : t.out[k] = s.out[k]
    BY <1>1
  <2>2. \A i \in 1..j : \A k \in (i + 1)..j : t.out[k] = s.out[k]
    BY <1>1
  <2> QED BY <2>1, <2>2 DEF Between
<1>3. ASSUME p.id = "NEWKEYS"
      PROVE  ~Between(t.out, n + 1, h)
  <2>1. n + 1 \in 1..(n + 1) /\ t.out[n + 1].id = "NEWKEYS"
    BY <1>1, <1>3
  <2>2. ASSUME NEW i \in 1..(n + 1), t.out[i].id = "KEXINIT"
        PROVE  n + 1 \in (i + 1)..(n + 1)
    BY <1>1, <2>1, <2>2
  <2> QED BY <2>1, <2>2 DEF Between
<1>4. ASSUME p.id \notin {"KEXINIT", "NEWKEYS"}
      PROVE  Between(t.out, n + 1, h) <=> Between(s.out, n, h)
  <2>1. /\ t.out[n + 1].id # "NEWKEYS" /\ t.out[n + 1].id # "KEXINIT"
        /\ \A k \in 1..(n + 1) : k = n + 1 \/ (k \in 1..n /\ t.out[k] = s.out[k])
        /\ \A k \in 1..n : k \in 1..(n + 1)
    BY <1>1, <1>4
  <2>2. (\A k \in 1..(n + 1) : t.out[k].id # "NEWKEYS") <=> (\A k \in 1..n : s.out[k].id # "NEWKEYS")
    BY <2>1, <1>1
  <2>3. ASSUME NEW i \in 1..n
        PROVE  (\A k \in (i + 1)..(n + 1) : t.out[k].id # "NEWKEYS")
                 <=> (\A k \in (i + 1)..n : s.out[k].id # "NEWKEYS")
    <3>1. /\ \A k \in (i + 1)..(n + 1) : k = n + 1 \/ (k \in (i + 1)..n /\ t.out[k] = s.out[k])
          /\ \A k \in (i + 1)..n : k \in (i + 1)..(n + 1) /\ t.out[k] = s.out[k]
      BY <1>1
    <3> QED BY <3>1, <2>1
  <2>4. ASSUME Between(t.out, n + 1, h) PROVE Between(s.out, n, h)
    <3>1. CASE h /\ \A k \in 1..(n + 1) : t.out[k].id # "NEWKEYS"
      BY <3>1, <2>2 DEF Between
    <3>2. CASE \E i \in 1..(n + 1) : t.out[i].id = "KEXINIT"
                  /\ \A k \in (i + 1)..(n + 1) : t.out[k].id # "NEWKEYS"
      <4>1. PICK i \in 1..(n + 1) : t.out[i].id = "KEXINIT"
                  /\ \A k \in (i + 1)..(n + 1) : t.out[k].id # "NEWKEYS"
        BY <3>2
      <4>2. i \in 1..n /\ s.out[i].id = "KEXINIT"
        BY <4>1, <2>1
      <4> QED BY <4>1, <4>2, <2>3 DEF Between
    <3> QED BY <3>1, <3>2, <2>4 DEF Between
  <2>5. ASSUME Between(s.out, n, h) PROVE Between(t.out, n + 1, h)
    <3>1. CASE h /\ \A k \in 1..n : s.out[k].id # "NEWKEYS"
      BY <3>1, <2>2 DEF Between
    <3>2. CASE \E i \in 1..n : s.out[i].id = "KEXINIT"
                  /\ \A k \in (i + 1)..n : s.out[k].id # "NEWKEYS"
      <4>1. PICK i \in 1..n : s.out[i].id = "KEXINIT"
                  /\ \A k \in (i + 1)..n : s.out[k].id # "NEWKEYS"
        BY <3>2
      <4>2. i \in 1..(n + 1) /\ t.out[i].id = "KEXINIT"
        BY <4>1, <2>1, <1>1
      <4> QED BY <4>1, <4>2, <2>3 DEF Between
    <3> QED BY <3>1, <3>2, <2>5 DEF Between
  <2> QED BY <2>4, <2>5
<1> QED BY <1>1, <1>2, <1>3, <1>4 DEF n

LEMMA QuietExtended ==
    ASSUME NEW r, NEW s, NEW t, NEW p, IsSession(s), Sealed(s, t, p), Quiet(r, s),
           t.mark = s.mark, Alive(t) => Alive(s),
           \/ p.id = "NEWKEYS"
           \/ p.id = "KEXINIT" /\ "SELF" \in t.isKeying
           \/ /\ p.id \notin {"KEXINIT", "NEWKEYS"}
              /\ "SELF" \notin t.isKeying => "SELF" \notin s.isKeying
              /\ p.id \in Conn => Alive(s) /\ "SELF" \notin s.isKeying
    PROVE  Quiet(r, t)
<1> SUFFICES ASSUME Unmarked(t), Alive(r)
             PROVE  /\ \A j \in 1..Len(t.out) :
                          t.out[j].id \in Conn => ~Between(t.out, j, Hashed(r))
                    /\ (Alive(t) /\ "SELF" \notin t.isKeying)
                          => ~Between(t.out, Len(t.out), Hashed(r))
  BY DEF Quiet
<1>1. /\ \A j \in 1..Len(s.out) : s.out[j].id \in Conn => ~Between(s.out, j, Hashed(r))
      /\ (Alive(s) /\ "SELF" \notin s.isKeying) => ~Between(s.out, Len(s.out), Hashed(r))
  BY DEF Quiet, Unmarked
<1>2. ASSUME NEW j \in 1..Len(t.out), t.out[j].id \in Conn
      PROVE  ~Between(t.out, j, Hashed(r))
  <2>1. CASE j = Len(t.out)
    <3>1. p.id \in Conn
      BY <1>2, <2>1, Extended
    <3> QED BY <3>1, <2>1, <1>1, BetweenExtended, StringsDiffer
  <2>2. CASE j # Len(t.out)
    <3>1. j \in 1..Len(s.out) /\ j \in 0..Len(s.out) /\ t.out[j] = s.out[j]
      BY <2>2, Extended
    <3> QED BY <3>1, <1>1, <1>2, BetweenExtended
  <2> QED BY <2>1, <2>2
<1>3. (Alive(t) /\ "SELF" \notin t.isKeying) => ~Between(t.out, Len(t.out), Hashed(r))
  BY <1>1, BetweenExtended
<1> QED BY <1>2, <1>3

LEMMA QuietSame ==
    ASSUME NEW r, NEW s, NEW t, Quiet(r, s),
           t.mark = s.mark, t.out = s.out, Alive(t) => Alive(s),
           "SELF" \notin t.isKeying => "SELF" \notin s.isKeying
    PROVE  Quiet(r, t)
  BY DEF Quiet, Unmarked

LEMMA StreamSame ==
    ASSUME NEW s, NEW t, IsSession(s), t.out = s.out, t.keys = s.keys, t.seq = s.seq
    PROVE  /\ Linked(s) => Linked(t)
           /\ t.kexCount = s.kexCount /\ Rising(s) => Rising(t)
           /\ Grows(s, t)
<1>1. \A j : NextKeys(t, j) = NextKeys(s, j) /\ NextSeq(t, j) = NextSeq(s, j)
  BY DEF NextKeys, NextSeq
<1>2. Len(s.out) \in Nat
  BY SessionKeys
<1> QED BY <1>1, <1>2 DEF Linked, Rising, Grows

LEMMA GrowsExtended ==
    ASSUME NEW s, NEW t, NEW p, IsSession(s), Sealed(s, t, p),
           p.id \notin Requests \cup Answers \cup {"NEWKEYS"},
           p.id = "KEXINIT" => /\ p.kexInit > s.kexCount
                               /\ p.strict = (s.sessionId = NoKeys /\ s.sendStrictKex)
    PROVE  Grows(s, t)
<1>1. \A j \in 1..Len(t.out) : j > Len(s.out) => j = Len(t.out)
  BY Extended
<1> QED BY <1>1, Extended DEF Grows

----------------------------------------------------------------------------
(* The sends.                                                              *)

\* What every send leaves as it is.
Keeps(s, t) ==
    /\ Frame(s, t) /\ t.peerSeq = s.peerSeq
    /\ t.keys = s.keys /\ t.seq >= s.seq
    /\ t.kexCount >= s.kexCount
    /\ t.handshake.expectMsgId \in {s.handshake.expectMsgId, "NONE"}
    /\ "SELF" \in s.isKeying => "SELF" \in t.isKeying
    /\ "PEER" \in t.isKeying <=> "PEER" \in s.isKeying
    /\ s.handshake.live =>
          /\ t.handshake.live
          /\ t.handshake.hash = s.handshake.hash
          /\ t.handshake.keys = s.handshake.keys
          /\ t.handshake.expectMsgId = s.handshake.expectMsgId

\* t is where s comes to by sending.
Follows(e, s, t, r, n) ==
    /\ InStep(e, t, r, n)
    /\ AtRest(e, s) => AtRest(e, t)
    /\ Begun(e, s) => Begun(e, t)
    /\ Keeps(s, t)

LEMMA InStepTypes ==
    ASSUME NEW e \in Endpoints, NEW s, NEW r, NEW n, InStep(e, s, r, n)
    PROVE  /\ IsSession(s) /\ IsSession(r) /\ Linked(s) /\ Rising(s) /\ Counted(e, s)
           /\ Exchanging(s) /\ Quiet(r, s) /\ Mine(e, s)
  BY DEF InStep, Mine, Hears

LEMMA NeutralRest ==
    ASSUME NEW e \in Endpoints, NEW s, NEW t, Neutral(s, t), Exchanging(s), AtRest(e, s),
           t.state = s.state, "SELF" \notin t.isKeying => "SELF" \notin s.isKeying,
           Alive(t) => ("PEER" \in t.isKeying <=> "PEER" \in s.isKeying),
           Begun(e, t)
    PROVE  AtRest(e, t)
<1>1. /\ t.keys = s.keys /\ t.peerKeys = s.peerKeys /\ t.sessionId = s.sessionId
  BY DEF Neutral, Kept
<1>2. Alive(t) =>
         /\ Alive(s)
         /\ Hashed(t) <=> Hashed(s)
         /\ Hashed(s) => /\ t.handshake.keys = s.handshake.keys
                         /\ t.handshake.expectMsgId = s.handshake.expectMsgId
  BY NeutralWaits
<1>3. Alive(t) => ("PEER" \in t.isKeying <=> Hashed(t))
  BY <1>2 DEF AtRest
<1>4. (Alive(t) /\ ~Hashed(t)) => t.keys = t.peerKeys
  BY <1>1, <1>2 DEF AtRest
<1>5. (Alive(t) /\ Hashed(t) /\ t.handshake.expectMsgId = "NEWKEYS") => t.keys = t.handshake.keys
  BY <1>1, <1>2 DEF AtRest
<1>6. (Alive(t) /\ Hashed(t) /\ e = "server") => t.handshake.expectMsgId # "NONE"
  BY <1>2 DEF AtRest
<1>7. ("SELF" \notin t.isKeying /\ t.state # "VERSION_DONE") \/ t.state \in {"KEYED", "DONE"}
        => t.sessionId # NoKeys
  BY <1>1 DEF AtRest
<1> QED BY <1>3, <1>4, <1>5, <1>6, <1>7 DEF AtRest

LEMMA FollowsTrans ==
    ASSUME NEW e, NEW s, NEW t, NEW u, NEW r, NEW n, IsSession(s), IsSession(t), IsSession(u),
           Follows(e, s, t, r, n), Follows(e, t, u, r, n)
    PROVE  Follows(e, s, u, r, n)
<1>1. Keeps(s, u)
  <2>1. s.seq \in Nat /\ t.seq \in Nat /\ u.seq \in Nat
        /\ s.kexCount \in Nat /\ t.kexCount \in Nat /\ u.kexCount \in Nat
    BY SessionKeys
  <2> QED BY <2>1 DEF Follows, Keeps, Frame, Kept
<1> QED BY <1>1 DEF Follows

LEMMA TweakedInStep ==
    ASSUME NEW e \in Endpoints, NEW s, NEW t, NEW r, NEW n, InStep(e, s, r, n), Tweaked(s, t)
    PROVE  /\ InStep(e, t, r, n)
           /\ AtRest(e, s) => AtRest(e, t)
           /\ Begun(e, s) => Begun(e, t)
<1>1. IsSession(s) /\ IsSession(r) /\ Linked(s) /\ Rising(s) /\ Counted(e, s)
      /\ Exchanging(s) /\ Quiet(r, s)
  BY InStepTypes
<1>2. Linked(t) /\ Rising(t) /\ Grows(s, t)
  BY <1>1, StreamSame DEF Tweaked
<1>3. Alive(t) <=> Alive(s)
  BY DEF Tweaked, Frame, Alive
<1>4. Quiet(r, t)
  BY <1>1, <1>3, QuietSame DEF Tweaked, Frame, Kept
<1>5. Neutral(s, t)
  <2>1. s.kexCount \in Nat /\ s.handshake.kexInit <= s.kexCount
    BY <1>1, SessionKeys DEF Counted
  <2> QED BY <2>1, <1>2, <1>3 DEF Tweaked, Frame, Neutral, GoesOn
<1>6. InStep(e, t, r, n)
  BY <1>2, <1>4, <1>5, NeutralInStep
<1>7. (AtRest(e, s) => AtRest(e, t)) /\ (Begun(e, s) => Begun(e, t))
  BY <1>3 DEF AtRest, Begun, Tweaked, Frame, Kept, Hashed
<1> QED BY <1>6, <1>7

LEMMA TweakedFollows ==
    ASSUME NEW e \in Endpoints, NEW s, NEW t, NEW r, NEW n, InStep(e, s, r, n), Tweaked(s, t),
           t.peerSeq = s.peerSeq
    PROVE  Follows(e, s, t, r, n)
<1>1. IsSession(s)
  BY InStepTypes
<1>2. Keeps(s, t)
  BY <1>1, SessionKeys DEF Keeps, Tweaked
<1> QED BY <1>2, TweakedInStep DEF Follows

LEMMA PlainFollows ==
    ASSUME NEW e \in Endpoints, NEW s, NEW t, NEW p, NEW r, NEW n,
           InStep(e, s, r, n), Plain(s, t, p)
    PROVE  Follows(e, s, t, r, n)
<1>1. IsSession(s) /\ IsSession(r) /\ IsSession(t) /\ Linked(s) /\ Rising(s) /\ Counted(e, s)
      /\ Exchanging(s) /\ Quiet(r, s) /\ Sealed(s, t, p)
  BY InStepTypes DEF Plain, Frame, Kept
<1>2. p.id \notin Requests \cup Answers \cup {"KEXINIT", "NEWKEYS"}
  BY StringsDiffer DEF Plain
<1>3. t.kexCount = s.kexCount /\ s.kexCount \in Nat /\ t.mark = s.mark /\ t.isKeying = s.isKeying
  BY <1>1, SessionKeys DEF Plain, Frame, Kept
<1>4. Linked(t) /\ Rising(t) /\ Grows(s, t)
  <2>1. Linked(t)
    BY <1>1, <1>2, LinkedExtended DEF Plain, Sealed
  <2>2. Rising(t)
    BY <1>1, <1>2, <1>3, RisingExtended
  <2>3. Grows(s, t)
    BY <1>1, <1>2, GrowsExtended
  <2> QED BY <2>1, <2>2, <2>3
<1>5. Alive(t) <=> Alive(s)
  BY DEF Plain, Frame, Alive
<1>6. Quiet(r, t)
  BY <1>1, <1>2, <1>3, <1>5, QuietExtended DEF Plain
<1>7. Neutral(s, t)
  BY <1>1, <1>3, <1>4, <1>5 DEF Plain, Frame, Neutral, GoesOn, Counted
<1>8. InStep(e, t, r, n)
  BY <1>4, <1>6, <1>7, NeutralInStep
<1>9. (AtRest(e, s) => AtRest(e, t)) /\ (Begun(e, s) => Begun(e, t))
  BY <1>5 DEF AtRest, Begun, Plain, Frame, Kept, Hashed
<1>10. Keeps(s, t)
  BY <1>1, SessionKeys DEF Keeps, Plain
<1> QED BY <1>8, <1>9, <1>10 DEF Follows

LEMMA KeyingFollows ==
    ASSUME NEW e \in Endpoints, NEW s, NEW t, NEW p, NEW r, NEW n,
           InStep(e, s, r, n), Keying(s, t, p)
    PROVE  Follows(e, s, t, r, n) /\ Begun(e, t)
<1>1. IsSession(s) /\ IsSession(r) /\ IsSession(t) /\ Linked(s) /\ Rising(s) /\ Counted(e, s)
      /\ Exchanging(s) /\ Quiet(r, s) /\ Sealed(s, t, p)
  BY InStepTypes DEF Keying, Frame, Kept
<1>2. p.id = "KEXINIT" /\ p.id \notin Requests \cup Answers \cup Conn \cup {"NEWKEYS"}
  BY StringsDiffer DEF Keying
<1>3. /\ s.kexCount \in Nat /\ t.kexCount = s.kexCount + 1 /\ t.mark = s.mark
      /\ "SELF" \in t.isKeying /\ p.kexInit = s.kexCount + 1
      /\ "PEER" \in t.isKeying <=> "PEER" \in s.isKeying
  BY <1>1, SessionKeys DEF Keying, Frame, Kept
<1>4. Linked(t) /\ Rising(t) /\ Grows(s, t)
  <2>1. Linked(t)
    BY <1>1, <1>2, LinkedExtended DEF Keying, Sealed
  <2>2. Rising(t)
    BY <1>1, <1>2, <1>3, RisingExtended
  <2>3. p.strict = (s.sessionId = NoKeys /\ s.sendStrictKex)
    BY DEF Keying
  <2>4. Grows(s, t)
    BY <1>1, <1>2, <1>3, <2>3, GrowsExtended
  <2> QED BY <2>1, <2>2, <2>4
<1>5. Alive(t) <=> Alive(s)
  BY DEF Keying, Frame, Alive
<1>6. Quiet(r, t)
  BY <1>1, <1>2, <1>3, <1>5, QuietExtended
<1>7. GoesOn(s, t) /\ t.handshake.live /\ t.handshake.kexInit = t.kexCount
  BY <1>1, <1>3, SessionKeys DEF Keying, Refreshed, GoesOn
<1>8. Neutral(s, t)
  BY <1>1, <1>3, <1>4, <1>5, <1>7 DEF Keying, Frame, Neutral
<1>9. InStep(e, t, r, n)
  BY <1>4, <1>6, <1>8, NeutralInStep
<1>10. t.handshake.kexInit > t.keys[Own(e)] /\ t.state = s.state
  <2>1. t.keys = s.keys /\ s.keys[Own(e)] <= s.kexCount /\ s.keys[Own(e)] \in Nat /\ t.state = s.state
    BY <1>1, SessionKeys, KeysOK DEF Keying, Counted, Frame
  <2> QED BY <2>1, <1>3, <1>7
<1>11. Begun(e, t) /\ (AtRest(e, s) => AtRest(e, t))
  <2>1. Begun(e, t)
    BY <1>7, <1>10 DEF Begun
  <2> QED BY <2>1, <1>1, <1>3, <1>5, <1>8, <1>10, NeutralRest
<1>12. Keeps(s, t)
  BY <1>1, <1>3, SessionKeys DEF Keeps, Keying, Refreshed
<1> QED BY <1>9, <1>11, <1>12 DEF Follows

LEMMA PacketOK ==
    ASSUME NEW id \in MsgIds
    PROVE  /\ Packet(id) \in Packets
           /\ Packet(id).id = id /\ Packet(id).hash = NoKeys
  BY KeysOK DEF Packet, Packets

\* A packet with its seal.
Seal(s, p) == [p EXCEPT !.keys = s.keys, !.seq = s.seq]

LEMMA SealOK ==
    ASSUME NEW s, NEW p \in Packets, IsSession(s)
    PROVE  /\ Seal(s, p) \in Packets
           /\ Seal(s, p).keys = s.keys /\ Seal(s, p).seq = s.seq
           /\ Seal(s, p).id = p.id /\ Seal(s, p).kexInit = p.kexInit
           /\ Seal(s, p).strict = p.strict /\ Seal(s, p).hash = p.hash
  BY DEF Seal, IsSession, Packets

LEMMA BundlePacketFields ==
    ASSUME NEW s, NEW p \in Packets, IsSession(s)
    PROVE  LET t == BundlePacket(s, p) IN
           /\ Frame(s, t) /\ t.peerSeq = s.peerSeq
           /\ Sealed(s, t, Seal(s, p)) /\ t.seq = s.seq + 1 /\ t.keys = s.keys
           /\ t.kexCount = s.kexCount /\ t.handshake = s.handshake /\ t.isKeying = s.isKeying
<1> DEFINE q == Seal(s, p)
           t == BundlePacket(s, p)
<1>1. q \in Packets /\ q.keys = s.keys /\ q.seq = s.seq
  BY SealOK
<1>2. t = [s EXCEPT !.out = Append(@, q), !.seq = @ + 1, !.txCount = @ + 1]
  BY DEF BundlePacket, Seal
<1> HIDE DEF q, t
<1>3. /\ DOMAIN t = Fields
      /\ t.out = Append(s.out, q) /\ t.seq = s.seq + 1 /\ t.keys = s.keys
      /\ t.kexCount = s.kexCount /\ t.handshake = s.handshake /\ t.isKeying = s.isKeying
      /\ t.peerKeys = s.peerKeys /\ t.sendStrictKex = s.sendStrictKex
      /\ t.kexId = s.kexId /\ t.mark = s.mark /\ t.match = s.match
      /\ t.useStrictKex = s.useStrictKex
      /\ t.sessionId = s.sessionId /\ t.disconnected = s.disconnected
      /\ t.error = s.error /\ t.state = s.state /\ t.peerSeq = s.peerSeq
  BY <1>2 DEF IsSession, Fields
<1>4. t.out \in Seq(Packets) /\ t.seq \in Nat
  BY <1>1, <1>3 DEF IsSession
<1>5. IsSession(t)
  BY <1>3, <1>4 DEF IsSession
<1>6. Frame(s, t)
  BY <1>3, <1>5 DEF Frame, Kept
<1> QED BY <1>1, <1>3, <1>6 DEF Sealed, q, t

LEMMA SendKexInitPacketKeying ==
    ASSUME NEW s, IsSession(s)
    PROVE  \E p : Keying(s, SendKexInitPacket(s), p)
<1> DEFINE m == s.kexCount + 1
           h == IF s.handshake.live THEN s.handshake ELSE HandshakeInfoNew
           g == [h EXCEPT !.kexInit = m]
           k == [s EXCEPT !.handshake = g, !.kexCount = m, !.isKeying = @ \cup {"SELF"}]
           p == [Packet("KEXINIT") EXCEPT !.kexInit = m,
                     !.strict = s.sessionId = NoKeys /\ s.sendStrictKex]
           t == SendKexInitPacket(s)
<1>1. t = BundlePacket(k, p)
  BY DEF SendKexInitPacket
<1>2. m \in Nat /\ s.handshake \in Handshake /\ HandshakeInfoNew \in Handshake
  BY KeysOK DEF IsSession, Handshake, HandshakeInfoNew
<1>3. h \in Handshake
  BY <1>2
<1>4. g \in Handshake /\ Refreshed(s.handshake, g, m)
  <2>1. g \in Handshake /\ g.kexInit = m /\ g.live = h.live /\ g.hash = h.hash
        /\ g.keys = h.keys /\ g.expectMsgId = h.expectMsgId
    <3> HIDE DEF h, m
    <3> QED BY <1>2, <1>3 DEF Handshake
  <2>2. s.handshake.live \in BOOLEAN
    BY SessionKeys
  <2>3. /\ h.live /\ h.expectMsgId = IF s.handshake.live THEN s.handshake.expectMsgId ELSE "NONE"
        /\ h.hash = IF s.handshake.live THEN s.handshake.hash ELSE NoKeys
        /\ h.keys = IF s.handshake.live THEN s.handshake.keys ELSE NoKeys
    BY <2>2 DEF HandshakeInfoNew
  <2> HIDE DEF h, m, g
  <2> QED BY <2>1, <2>3 DEF Refreshed
<1>5. /\ p \in Packets /\ p.id = "KEXINIT" /\ p.kexInit = m
      /\ p.strict = (s.sessionId = NoKeys /\ s.sendStrictKex)
  <2>1. "KEXINIT" \in MsgIds
    BY DEF MsgIds, Trans
  <2>2. (s.sessionId = NoKeys /\ s.sendStrictKex) \in BOOLEAN
    OBVIOUS
  <2>3. Packet("KEXINIT") \in Packets /\ Packet("KEXINIT").id = "KEXINIT"
    BY <2>1, PacketOK
  <2> QED BY <1>2, <2>2, <2>3 DEF Packets
<1> HIDE DEF m, h, g, p
<1>6. /\ DOMAIN k = Fields
      /\ k.out = s.out /\ k.seq = s.seq /\ k.keys = s.keys
      /\ k.kexCount = m /\ k.handshake = g /\ k.isKeying = s.isKeying \cup {"SELF"}
      /\ k.peerKeys = s.peerKeys /\ k.sendStrictKex = s.sendStrictKex
      /\ k.kexId = s.kexId /\ k.mark = s.mark /\ k.match = s.match
      /\ k.useStrictKex = s.useStrictKex
      /\ k.sessionId = s.sessionId /\ k.disconnected = s.disconnected
      /\ k.error = s.error /\ k.state = s.state /\ k.peerSeq = s.peerSeq
  BY DEF IsSession, Fields
<1> HIDE DEF k, t
<1>7. IsSession(k)
  BY <1>2, <1>4, <1>6 DEF IsSession
<1>8. /\ Frame(k, t) /\ t.peerSeq = k.peerSeq
      /\ Sealed(k, t, Seal(k, p)) /\ t.seq = k.seq + 1 /\ t.keys = k.keys
      /\ t.kexCount = k.kexCount /\ t.handshake = k.handshake /\ t.isKeying = k.isKeying
  BY <1>1, <1>5, <1>7, BundlePacketFields
<1>9. Frame(s, t) /\ Sealed(s, t, Seal(k, p))
  BY <1>6, <1>8 DEF Frame, Kept, Sealed
<1>10. Seal(k, p).id = "KEXINIT" /\ Seal(k, p).kexInit = m
       /\ Seal(k, p).strict = (s.sessionId = NoKeys /\ s.sendStrictKex)
  BY <1>5, <1>7, SealOK
<1>11. Keying(s, t, Seal(k, p))
  BY <1>4, <1>6, <1>8, <1>9, <1>10 DEF Keying, m
<1> QED BY <1>11 DEF t

\* SendKexInit() up to its high water check.
LEMMA SendKexInitPacketFollows ==
    ASSUME NEW e \in Endpoints, NEW s, NEW r, NEW n, InStep(e, s, r, n)
    PROVE  LET t == SendKexInitPacket(s) IN
           Follows(e, s, t, r, n) /\ Begun(e, t) /\ IsSession(t) /\ "SELF" \in t.isKeying
<1> DEFINE t == SendKexInitPacket(s)
<1>1. IsSession(s)
  BY InStepTypes
<1>2. PICK p : Keying(s, t, p)
  BY <1>1, SendKexInitPacketKeying
<1> HIDE DEF t
<1>3. Follows(e, s, t, r, n) /\ Begun(e, t)
  BY <1>2, KeyingFollows
<1>4. IsSession(t) /\ "SELF" \in t.isKeying
  BY <1>2 DEF Keying, Frame, Kept
<1> QED BY <1>3, <1>4 DEF t

LEMMA MarkedTweaked ==
    ASSUME NEW s, IsSession(s)
    PROVE  Tweaked(s, Marked(s)) /\ Marked(s).peerSeq = s.peerSeq
<1> DEFINE t == Marked(s)
<1>1. t = [s EXCEPT !.highwaterFlag = @ \/ OverByteMark(s),
                    !.msgHighwaterFlag = @ \/ OverMsgMark(s)]
  BY DEF Marked
<1> HIDE DEF t
<1>2. /\ DOMAIN t = Fields
      /\ t.out = s.out /\ t.seq = s.seq /\ t.keys = s.keys
      /\ t.kexCount = s.kexCount /\ t.handshake = s.handshake /\ t.isKeying = s.isKeying
      /\ t.peerKeys = s.peerKeys /\ t.sendStrictKex = s.sendStrictKex
      /\ t.kexId = s.kexId /\ t.mark = s.mark /\ t.match = s.match
      /\ t.useStrictKex = s.useStrictKex
      /\ t.sessionId = s.sessionId /\ t.disconnected = s.disconnected
      /\ t.error = s.error /\ t.state = s.state /\ t.peerSeq = s.peerSeq
  BY <1>1 DEF IsSession, Fields
<1>3. IsSession(t)
  BY <1>2 DEF IsSession
<1> QED BY <1>2, <1>3 DEF Tweaked, Frame, Kept, t

LEMMA FollowsTypes ==
    ASSUME NEW e \in Endpoints, NEW s, NEW t, NEW r, NEW n, Follows(e, s, t, r, n)
    PROVE  IsSession(t) /\ InStep(e, t, r, n) /\ IsSession(r)
  BY InStepTypes DEF Follows

LEMMA HighwaterCheckNestedFollows ==
    ASSUME NEW e \in Endpoints, NEW s, NEW r, NEW n, InStep(e, s, r, n)
    PROVE  Follows(e, s, HighwaterCheckNested(s), r, n)
<1>1. IsSession(s) /\ IsSession(Marked(s)) /\ Follows(e, s, Marked(s), r, n)
  BY InStepTypes, MarkedTweaked, TweakedFollows, FollowsTypes
<1>2. CASE Fires(s)
  <2>1. HighwaterCheckNested(s) = SendKexInitPacket(Marked(s))
    BY <1>2 DEF HighwaterCheckNested
  <2>2. Follows(e, Marked(s), SendKexInitPacket(Marked(s)), r, n)
        /\ IsSession(SendKexInitPacket(Marked(s)))
    BY <1>1, SendKexInitPacketFollows DEF Follows
  <2> QED BY <1>1, <2>1, <2>2, FollowsTrans
<1>3. CASE ~Fires(s)
  BY <1>1, <1>3 DEF HighwaterCheckNested
<1> QED BY <1>2, <1>3

\* HighwaterCheck(), whatever it sends.
LEMMA HighwaterCheckFollows ==
    ASSUME NEW e \in Endpoints, NEW s, NEW r, NEW n, InStep(e, s, r, n)
    PROVE  Follows(e, s, HighwaterCheck(s), r, n)
<1>1. IsSession(s) /\ IsSession(Marked(s)) /\ Follows(e, s, Marked(s), r, n)
  BY InStepTypes, MarkedTweaked, TweakedFollows, FollowsTypes
<1>2. CASE Fires(s)
  <2> DEFINE k == SendKexInitPacket(Marked(s))
             t == HighwaterCheckNested(k)
  <2>1. HighwaterCheck(s) = t
    BY <1>2 DEF HighwaterCheck
  <2>2. Follows(e, Marked(s), k, r, n) /\ IsSession(k)
    BY <1>1, SendKexInitPacketFollows DEF Follows
  <2> HIDE DEF k
  <2>3. Follows(e, k, t, r, n)
    BY <2>2, HighwaterCheckNestedFollows DEF Follows
  <2> HIDE DEF t
  <2>4. IsSession(t) /\ Follows(e, s, k, r, n)
    BY <1>1, <2>2, <2>3, FollowsTypes, FollowsTrans
  <2> QED BY <1>1, <2>1, <2>2, <2>3, <2>4, FollowsTrans
<1>3. CASE ~Fires(s)
  BY <1>1, <1>3 DEF HighwaterCheck
<1> QED BY <1>2, <1>3

\* A session without marks sends nothing there.
LEMMA HighwaterCheckUnmarked ==
    ASSUME NEW s, IsSession(s), Unmarked(s) \/ s.disconnected
    PROVE  Tweaked(s, HighwaterCheck(s))
<1>1. ~Fires(s)
  BY DEF Fires, OverByteMark, OverMsgMark, Unmarked
<1> QED BY <1>1, MarkedTweaked DEF HighwaterCheck

LEMMA SendPacketFollows ==
    ASSUME NEW e \in Endpoints, NEW s, NEW r, NEW n, NEW p \in Packets, InStep(e, s, r, n),
           p.id \notin Trans, p.id \in Conn => Alive(s) /\ "SELF" \notin s.isKeying
    PROVE  Follows(e, s, SendPacket(s, p), r, n)
<1> DEFINE b == BundlePacket(s, p)
<1>1. IsSession(s)
  BY InStepTypes
<1>2. /\ Frame(s, b) /\ b.peerSeq = s.peerSeq
      /\ Sealed(s, b, Seal(s, p)) /\ b.seq = s.seq + 1 /\ b.keys = s.keys
      /\ b.kexCount = s.kexCount /\ b.handshake = s.handshake /\ b.isKeying = s.isKeying
  BY <1>1, BundlePacketFields
<1>3. Seal(s, p).id = p.id
  BY <1>1, SealOK
<1> HIDE DEF b
<1>4. Plain(s, b, Seal(s, p))
  BY <1>2, <1>3 DEF Plain
<1>5. Follows(e, s, b, r, n)
  BY <1>4, PlainFollows
<1>6. Follows(e, b, HighwaterCheck(b), r, n)
  BY <1>5, HighwaterCheckFollows DEF Follows
<1>7. Follows(e, s, HighwaterCheck(b), r, n)
  BY <1>1, <1>5, <1>6, FollowsTypes, FollowsTrans
<1> QED BY <1>7 DEF SendPacket, b

LEMMA SendKexInitFollows ==
    ASSUME NEW e \in Endpoints, NEW s, NEW r, NEW n, InStep(e, s, r, n)
    PROVE  LET t == SendKexInit(s) IN
           Follows(e, s, t, r, n) /\ Begun(e, t) /\ "SELF" \in t.isKeying
<1> DEFINE k == SendKexInitPacket(s)
           t == HighwaterCheck(k)
<1>1. IsSession(s)
  BY InStepTypes
<1>2. Follows(e, s, k, r, n) /\ Begun(e, k) /\ IsSession(k) /\ "SELF" \in k.isKeying
  BY SendKexInitPacketFollows
<1> HIDE DEF k
<1>3. Follows(e, k, t, r, n)
  BY <1>2, HighwaterCheckFollows DEF Follows
<1> HIDE DEF t
<1>4. Begun(e, t) /\ "SELF" \in t.isKeying
  BY <1>2, <1>3 DEF Follows, Keeps
<1>5. Follows(e, s, t, r, n)
  BY <1>1, <1>2, <1>3, FollowsTypes, FollowsTrans
<1> QED BY <1>4, <1>5 DEF SendKexInit, t, k

\* The keys move on to newer ones or the number does not go back, and
\* whether the algorithm lists match is settled.
Mono(s, t) ==
    /\ t.match = s.match
    /\ IF t.keys = s.keys THEN t.seq >= s.seq ELSE Newer(t.keys, s.keys)

\* t is where s comes to by the steps of a handler.
Leads(e, s, t, r, n) ==
    /\ InStep(e, t, r, n)
    /\ AtRest(e, s) => AtRest(e, t)
    /\ Early(e, s) => Early(e, t)
    /\ Mono(s, t)

LEMMA MonoTrans ==
    ASSUME NEW s, NEW t, NEW u, IsSession(s), IsSession(t), IsSession(u), Mono(s, t), Mono(t, u)
    PROVE  Mono(s, u)
<1>1. /\ s.keys \in Keys /\ t.keys \in Keys /\ u.keys \in Keys
      /\ s.seq \in Nat /\ t.seq \in Nat /\ u.seq \in Nat
  BY SessionKeys
<1>2. /\ s.keys[1] \in Nat /\ t.keys[1] \in Nat /\ u.keys[1] \in Nat
      /\ s.keys[2] \in Nat /\ t.keys[2] \in Nat /\ u.keys[2] \in Nat
  BY <1>1, KeysOK
<1> QED BY <1>1, <1>2 DEF Mono, Newer

LEMMA LeadsTypes ==
    ASSUME NEW e \in Endpoints, NEW s, NEW t, NEW r, NEW n, Leads(e, s, t, r, n)
    PROVE  IsSession(t) /\ InStep(e, t, r, n) /\ IsSession(r)
  BY InStepTypes DEF Leads

LEMMA LeadsTrans ==
    ASSUME NEW e \in Endpoints, NEW s, NEW t, NEW u, NEW r, NEW n, IsSession(s),
           Leads(e, s, t, r, n), Leads(e, t, u, r, n)
    PROVE  Leads(e, s, u, r, n)
<1>1. IsSession(t) /\ IsSession(u)
  BY LeadsTypes
<1>2. Mono(s, u)
  BY <1>1, MonoTrans DEF Leads
<1> QED BY <1>2 DEF Leads

LEMMA FollowsLeads ==
    ASSUME NEW e \in Endpoints, NEW s, NEW t, NEW r, NEW n, Follows(e, s, t, r, n)
    PROVE  Leads(e, s, t, r, n)
  BY DEF Follows, Leads, Keeps, Frame, Kept, Early, Mono

LEMMA LeadsThenFollows ==
    ASSUME NEW e \in Endpoints, NEW s, NEW t, NEW u, NEW r, NEW n, IsSession(s),
           Leads(e, s, t, r, n), Follows(e, t, u, r, n)
    PROVE  Leads(e, s, u, r, n)
  BY FollowsLeads, LeadsTrans

\* The end of a session.
Ending(s, t) ==
    /\ Kept(s, t)
    /\ ~Alive(t)
    /\ t.out = s.out /\ t.seq = s.seq /\ t.keys = s.keys
    /\ t.kexCount = s.kexCount /\ t.isKeying = s.isKeying
    /\ t.sessionId = s.sessionId /\ t.useStrictKex = s.useStrictKex /\ t.state = s.state
    /\ \/ t.handshake = s.handshake
       \/ t.handshake = [s.handshake EXCEPT !.expectMsgId = "NONE"]

LEMMA ExpectFields ==
    ASSUME NEW h \in Handshake, NEW x \in MsgIds \cup {"NONE"}
    PROVE  LET g == [h EXCEPT !.expectMsgId = x] IN
           /\ g \in Handshake
           /\ g.live = h.live /\ g.hash = h.hash /\ g.keys = h.keys /\ g.kexInit = h.kexInit
           /\ g.expectMsgId = x
  BY DEF Handshake

LEMMA EndingLeads ==
    ASSUME NEW e \in Endpoints, NEW s, NEW t, NEW r, NEW n, InStep(e, s, r, n), Ending(s, t)
    PROVE  Leads(e, s, t, r, n)
<1>1. IsSession(s) /\ IsSession(r) /\ IsSession(t) /\ Linked(s) /\ Rising(s) /\ Counted(e, s)
      /\ Exchanging(s) /\ Quiet(r, s)
  BY InStepTypes DEF Ending, Kept
<1>2. Linked(t) /\ Rising(t) /\ Grows(s, t)
  BY <1>1, StreamSame DEF Ending
<1>3. ~Alive(t) /\ t.mark = s.mark
  BY DEF Ending, Kept
<1>4. Quiet(r, t)
  BY <1>1, <1>3, QuietSame DEF Ending
<1>5. /\ t.handshake.live = s.handshake.live /\ t.handshake.hash = s.handshake.hash
      /\ t.handshake.keys = s.handshake.keys /\ t.handshake.kexInit = s.handshake.kexInit
      /\ t.handshake.expectMsgId \in {s.handshake.expectMsgId, "NONE"}
  <2> DEFINE g == [s.handshake EXCEPT !.expectMsgId = "NONE"]
  <2>1. s.handshake \in Handshake /\ "NONE" \in MsgIds \cup {"NONE"}
    BY <1>1 DEF IsSession
  <2>2. /\ g.live = s.handshake.live /\ g.hash = s.handshake.hash /\ g.keys = s.handshake.keys
        /\ g.kexInit = s.handshake.kexInit /\ g.expectMsgId = "NONE"
    BY <2>1, ExpectFields
  <2>3. t.handshake = s.handshake \/ t.handshake = g
    BY DEF Ending
  <2> HIDE DEF g
  <2> QED BY <2>2, <2>3
<1>6. Neutral(s, t)
  <2>1. s.kexCount \in Nat /\ s.handshake.kexInit <= s.kexCount
    BY <1>1, SessionKeys DEF Counted
  <2>2. GoesOn(s, t)
    BY <1>3, <1>5 DEF GoesOn
  <2> QED BY <2>1, <2>2, <1>2, <1>3, <1>5 DEF Ending, Neutral
<1>7. InStep(e, t, r, n)
  BY <1>2, <1>4, <1>6, NeutralInStep
<1>8. AtRest(e, s) => AtRest(e, t)
  BY <1>3, <1>5 DEF AtRest, Begun, Ending
<1>9. Mono(s, t)
  BY <1>1, SessionKeys DEF Mono, Ending, Kept
<1>10. Early(e, s) => Early(e, t)
  BY <1>5 DEF Early, Ending
<1> QED BY <1>7, <1>8, <1>9, <1>10 DEF Leads

LEMMA FailedEnding ==
    ASSUME NEW s, IsSession(s)
    PROVE  Ending(s, Failed(s))
  BY DEF Ending, Kept, IsSession, Fields, Failed, Alive

LEMMA FailedLeads ==
    ASSUME NEW e \in Endpoints, NEW s, NEW t, NEW r, NEW n, IsSession(s), Leads(e, s, t, r, n)
    PROVE  Leads(e, s, Failed(t), r, n)
<1>1. IsSession(t) /\ InStep(e, t, r, n)
  BY LeadsTypes
<1> QED BY <1>1, FailedEnding, EndingLeads, LeadsTrans

LEMMA SendDisconnectLeads ==
    ASSUME NEW e \in Endpoints, NEW s, NEW r, NEW n, InStep(e, s, r, n)
    PROVE  Leads(e, s, SendDisconnect(s), r, n) /\ ~Alive(SendDisconnect(s))
<1> DEFINE d == [s EXCEPT !.disconnected = TRUE]
           p == Packet("DISCONNECT")
<1>1. IsSession(s)
  BY InStepTypes
<1>2. Ending(s, d)
  BY <1>1 DEF Ending, Kept, IsSession, Fields, Alive
<1> HIDE DEF d
<1>3. Leads(e, s, d, r, n) /\ InStep(e, d, r, n)
  BY <1>2, EndingLeads DEF Leads
<1>4. p \in Packets /\ p.id \notin Trans /\ p.id \notin Conn
  <2>1. "DISCONNECT" \in MsgIds /\ "DISCONNECT" \notin Trans /\ "DISCONNECT" \notin Conn
    BY DEF MsgIds, TransGen, Trans, TransKex, Conn
  <2> QED BY <2>1, PacketOK
<1> HIDE DEF p
<1>5. Follows(e, d, SendPacket(d, p), r, n)
  BY <1>3, <1>4, SendPacketFollows
<1>6. Leads(e, s, SendPacket(d, p), r, n)
  BY <1>1, <1>3, <1>5, LeadsThenFollows
<1>7. ~Alive(SendPacket(d, p))
  BY <1>2, <1>5 DEF Follows, Keeps, Frame, Alive, Ending
<1> QED BY <1>6, <1>7 DEF SendDisconnect, d, p

LEMMA InStepFollows ==
    ASSUME NEW e \in Endpoints, NEW s, NEW r, NEW n, InStep(e, s, r, n)
    PROVE  Follows(e, s, s, r, n)
<1>1. IsSession(s)
  BY InStepTypes
<1> QED BY <1>1, SessionKeys DEF Follows, Keeps, Frame, Kept

\* ChannelCreditWindow(), on a session that has not failed.
LEMMA ChannelCreditWindowFollows ==
    ASSUME NEW e \in Endpoints, NEW s, NEW r, NEW n, NEW a, InStep(e, s, r, n), ~s.error
    PROVE  Follows(e, s, ChannelCreditWindow(s, a), r, n)
<1> DEFINE total == s.pendingWindowAdjust + a
           k == [s EXCEPT !.pendingWindowAdjust = total]
           z == [s EXCEPT !.pendingWindowAdjust = 0]
           p == Packet("WINDOW_ADJUST")
<1>1. IsSession(s)
  BY InStepTypes
<1>2. Tweaked(s, k) /\ Tweaked(s, z) /\ k.peerSeq = s.peerSeq /\ z.peerSeq = s.peerSeq
  BY <1>1 DEF Tweaked, Frame, Kept, IsSession, Fields
<1>3. CASE total = 0
  BY <1>3, InStepFollows DEF ChannelCreditWindow
<1>4. CASE total # 0 /\ (s.isKeying # {} \/ s.disconnected)
  BY <1>2, <1>4, TweakedFollows DEF ChannelCreditWindow
<1>5. CASE total # 0 /\ s.isKeying = {} /\ ~s.disconnected
  <2>1. ChannelCreditWindow(s, a) = SendPacket(z, p)
    BY <1>5 DEF ChannelCreditWindow
  <2>2. p \in Packets /\ p.id \notin Trans
    <3>1. "WINDOW_ADJUST" \in MsgIds /\ "WINDOW_ADJUST" \notin Trans
      BY DEF MsgIds, Conn, Trans, TransKex
    <3> QED BY <3>1, PacketOK
  <2> HIDE DEF z, p
  <2>3. Follows(e, s, z, r, n) /\ InStep(e, z, r, n) /\ IsSession(z)
    BY <1>2, TweakedFollows, FollowsTypes
  <2>4. Alive(z) /\ "SELF" \notin z.isKeying
    BY <1>2, <1>5 DEF Tweaked, Frame, Alive
  <2>5. Follows(e, z, SendPacket(z, p), r, n)
    BY <2>2, <2>3, <2>4, SendPacketFollows
  <2> QED BY <1>1, <2>1, <2>3, <2>5, FollowsTypes, FollowsTrans
<1> QED BY <1>3, <1>4, <1>5

LEMMA SendPendingChannelWindowAdjustFollows ==
    ASSUME NEW e \in Endpoints, NEW s, NEW r, NEW n, InStep(e, s, r, n), ~s.error
    PROVE  Follows(e, s, SendPendingChannelWindowAdjust(s), r, n)
  BY InStepFollows, ChannelCreditWindowFollows DEF SendPendingChannelWindowAdjust

LEMMA SendExtInfoFollows ==
    ASSUME NEW e \in Endpoints, NEW s, NEW r, NEW n, InStep(e, s, r, n)
    PROVE  Follows(e, s, SendExtInfo(s), r, n)
<1> DEFINE x == [s EXCEPT !.extInfoSent = TRUE]
           p == Packet("EXT_INFO")
<1>1. IsSession(s)
  BY InStepTypes
<1>2. Tweaked(s, x) /\ x.peerSeq = s.peerSeq
  BY <1>1 DEF Tweaked, Frame, Kept, IsSession, Fields
<1>3. p \in Packets /\ p.id \notin Trans /\ p.id \notin Conn
  <2>1. "EXT_INFO" \in MsgIds /\ "EXT_INFO" \notin Trans /\ "EXT_INFO" \notin Conn
    BY DEF MsgIds, TransGen, Conn, Trans, TransKex
  <2> QED BY <2>1, PacketOK
<1> HIDE DEF x, p
<1>4. Follows(e, s, x, r, n) /\ InStep(e, x, r, n) /\ IsSession(x)
  BY <1>2, TweakedFollows, FollowsTypes
<1>5. Follows(e, x, SendPacket(x, p), r, n)
  BY <1>3, <1>4, SendPacketFollows
<1>6. Follows(e, s, SendPacket(x, p), r, n)
  BY <1>1, <1>4, <1>5, FollowsTypes, FollowsTrans
<1> QED BY <1>6, InStepFollows DEF SendExtInfo, x, p

----------------------------------------------------------------------------
(* A packet is taken from the stream.                                      *)

\* q is r after its first packet is taken by the peer.
Taken(r, q) ==
    /\ IsSession(q)
    /\ q.keys = r.keys /\ q.peerKeys = r.peerKeys /\ q.seq = r.seq /\ q.peerSeq = r.peerSeq
    /\ q.handshake = r.handshake /\ q.isKeying = r.isKeying /\ q.sessionId = r.sessionId
    /\ q.kexCount = r.kexCount /\ q.kexId = r.kexId /\ q.mark = r.mark /\ q.match = r.match
    /\ q.state = r.state
    /\ q.sendStrictKex = r.sendStrictKex /\ q.useStrictKex = r.useStrictKex
    /\ q.disconnected = r.disconnected /\ q.error = r.error
    /\ Len(r.out) \in Nat /\ Len(q.out) \in Nat /\ Len(r.out) = Len(q.out) + 1
    /\ \A j \in 1..Len(q.out) : q.out[j] = r.out[j + 1] /\ j + 1 \in 1..Len(r.out)
    /\ \A j \in 1..Len(r.out) : j = 1 \/ (j - 1 \in 1..Len(q.out) /\ q.out[j - 1] = r.out[j])
    /\ \A j \in 0..Len(q.out) : NextKeys(q, j) = NextKeys(r, j + 1) /\ NextSeq(q, j) = NextSeq(r, j + 1)
    /\ NextKeys(r, 0) = r.out[1].keys /\ NextSeq(r, 0) = r.out[1].seq
    /\ 1 \in 1..Len(r.out) /\ r.out[1] \in Packets

LEMMA TailTaken ==
    ASSUME NEW r, IsSession(r), r.out # <<>>
    PROVE  Taken(r, [r EXCEPT !.out = Tail(@)]) /\ Head(r.out) = r.out[1]
<1> DEFINE q == [r EXCEPT !.out = Tail(@)]
<1>1. r.out \in Seq(Packets) /\ Tail(r.out) \in Seq(Packets)
  BY DEF IsSession
<1>2. /\ DOMAIN q = Fields /\ q.out = Tail(r.out)
      /\ q.keys = r.keys /\ q.peerKeys = r.peerKeys /\ q.seq = r.seq /\ q.peerSeq = r.peerSeq
      /\ q.handshake = r.handshake /\ q.isKeying = r.isKeying /\ q.sessionId = r.sessionId
      /\ q.kexCount = r.kexCount /\ q.kexId = r.kexId /\ q.mark = r.mark /\ q.match = r.match
      /\ q.state = r.state
      /\ q.sendStrictKex = r.sendStrictKex /\ q.useStrictKex = r.useStrictKex
      /\ q.disconnected = r.disconnected /\ q.error = r.error
  BY DEF IsSession, Fields
<1> HIDE DEF q
<1>3. IsSession(q)
  BY <1>1, <1>2 DEF IsSession
<1>4. /\ Len(r.out) \in Nat /\ Len(q.out) \in Nat /\ Len(r.out) = Len(q.out) + 1
      /\ \A j \in 1..Len(q.out) : q.out[j] = r.out[j + 1]
      /\ Head(r.out) = r.out[1]
  BY <1>1, <1>2
<1>5. /\ \A j \in 1..Len(q.out) : j + 1 \in 1..Len(r.out)
      /\ \A j \in 1..Len(r.out) : j = 1 \/ (j - 1 \in 1..Len(q.out) /\ q.out[j - 1] = r.out[j])
      /\ 1 \in 1..Len(r.out) /\ r.out[1] \in Packets
  BY <1>1, <1>4
<1>6. ASSUME NEW j \in 0..Len(q.out)
      PROVE  NextKeys(q, j) = NextKeys(r, j + 1) /\ NextSeq(q, j) = NextSeq(r, j + 1)
  <2>1. j < Len(q.out) <=> j + 1 < Len(r.out)
    BY <1>4
  <2>2. CASE j < Len(q.out)
    <3>1. j + 1 \in 1..Len(q.out)
      BY <1>4, <2>2
    <3>2. q.out[j + 1] = r.out[(j + 1) + 1]
      BY <3>1, <1>4
    <3> QED BY <2>1, <2>2, <3>2 DEF NextKeys, NextSeq
  <2>3. CASE ~(j < Len(q.out))
    BY <2>1, <2>3, <1>2 DEF NextKeys, NextSeq
  <2> QED BY <2>2, <2>3
<1>7. NextKeys(r, 0) = r.out[1].keys /\ NextSeq(r, 0) = r.out[1].seq
  <2>1. 0 < Len(r.out) /\ 0 + 1 = 1
    BY <1>4
  <2> QED BY <2>1 DEF NextKeys, NextSeq
<1> QED BY <1>2, <1>3, <1>4, <1>5, <1>6, <1>7 DEF Taken, q

LEMMA TakenMine ==
    ASSUME NEW e \in Endpoints, NEW r, NEW q, Taken(r, q), Mine(e, r)
    PROVE  Mine(e, q)
<1>1. Linked(q)
  <2> SUFFICES ASSUME NEW j \in 1..Len(q.out)
               PROVE  IF q.out[j].id = "NEWKEYS"
                      THEN NextSeq(q, j) = IF q.out[j].strict THEN 0 ELSE q.out[j].seq + 1
                      ELSE NextSeq(q, j) = q.out[j].seq + 1 /\ NextKeys(q, j) = q.out[j].keys
    BY DEF Linked
  <2>1. j \in 0..Len(q.out) /\ q.out[j] = r.out[j + 1] /\ j + 1 \in 1..Len(r.out)
    BY DEF Taken
  <2>2. NextKeys(q, j) = NextKeys(r, j + 1) /\ NextSeq(q, j) = NextSeq(r, j + 1)
    BY <2>1 DEF Taken
  <2> QED BY <2>1, <2>2 DEF Mine, Linked
<1>2. Rising(q)
  <2> SUFFICES ASSUME NEW i \in 1..Len(q.out), q.out[i].id = "KEXINIT"
               PROVE  /\ q.out[i].kexInit <= q.kexCount
                      /\ \A j \in 1..Len(q.out) :
                            (q.out[j].id = "KEXINIT" /\ i < j) => q.out[i].kexInit < q.out[j].kexInit
    BY DEF Rising
  <2>1. /\ \A j \in 1..Len(q.out) : q.out[j] = r.out[j + 1] /\ j + 1 \in 1..Len(r.out)
        /\ q.kexCount = r.kexCount
    BY DEF Taken
  <2>2. q.out[i].kexInit <= q.kexCount
    BY <2>1 DEF Mine, Rising
  <2>3. ASSUME NEW j \in 1..Len(q.out), q.out[j].id = "KEXINIT", i < j
        PROVE  q.out[i].kexInit < q.out[j].kexInit
    <3>1. i + 1 < j + 1
      BY <2>3
    <3> QED BY <2>1, <2>3, <3>1 DEF Mine, Rising
  <2> QED BY <2>2, <2>3
<1>3. Counted(e, q) /\ Exchanging(q)
  BY DEF Mine, Counted, Exchanging, Hashed, Alive, Taken
<1>4. MarkerSent(q)
  BY DEF Mine, MarkerSent, Taken
<1> QED BY <1>1, <1>2, <1>3, <1>4 DEF Mine, Taken

\* r listens as before.
LEMMA TakenHears ==
    ASSUME NEW e, NEW r, NEW q, NEW s, NEW n, Taken(r, q), Hears(e, r, s, n)
    PROVE  Hears(e, q, s, n)
<1>1. (Alive(q) <=> Alive(r)) /\ Hashed(q) = Hashed(r)
  BY DEF Alive, Hashed, Taken
<1>2. Opens(q, s, n) /\ Later(e, q, s) /\ StrictAgreed(q, s)
  BY <1>1 DEF Hears, Opens, Later, StrictAgreed, Taken
<1>3. Quiet(q, s)
  BY <1>1 DEF Hears, Quiet
<1> QED BY <1>2, <1>3 DEF Hears

LEMMA BetweenTaken ==
    ASSUME NEW r, NEW q, NEW j, NEW h, NEW g, Taken(r, q), j \in 0..Len(q.out),
           Between(q.out, j, g),
           \/ r.out[1].id \notin {"KEXINIT", "NEWKEYS"} /\ (g => h)
           \/ r.out[1].id = "KEXINIT"
           \/ r.out[1].id = "NEWKEYS" /\ ~g
    PROVE  Between(r.out, j + 1, h)
<1>0. /\ Len(q.out) \in Nat /\ j \in Nat /\ j <= Len(q.out)
      /\ \A k \in 1..(j + 1) : k = 1 \/ (k - 1 \in 1..j /\ r.out[k] = q.out[k - 1])
      /\ 1 \in 1..(j + 1)
  BY DEF Taken
<1>1. CASE g /\ \A k \in 1..j : q.out[k].id # "NEWKEYS"
  <2>1. \A k \in 1..(j + 1) : k # 1 => r.out[k].id # "NEWKEYS"
    BY <1>0, <1>1
  <2>2. CASE r.out[1].id = "KEXINIT"
    <3>1. \A k \in (1 + 1)..(j + 1) : k \in 1..(j + 1) /\ k # 1
      BY <1>0
    <3>2. \A k \in (1 + 1)..(j + 1) : r.out[k].id # "NEWKEYS"
      BY <2>1, <3>1
    <3> QED BY <2>2, <3>2, <1>0 DEF Between
  <2>3. CASE r.out[1].id # "KEXINIT"
    <3>1. h /\ r.out[1].id # "NEWKEYS"
      BY <1>1, <2>3
    <3> QED BY <2>1, <3>1 DEF Between
  <2> QED BY <2>2, <2>3
<1>2. CASE \E i \in 1..j : q.out[i].id = "KEXINIT" /\ \A k \in (i + 1)..j : q.out[k].id # "NEWKEYS"
  <2>1. PICK i \in 1..j : q.out[i].id = "KEXINIT" /\ \A k \in (i + 1)..j : q.out[k].id # "NEWKEYS"
    BY <1>2
  <2>2. i + 1 \in 1..(j + 1) /\ r.out[i + 1] = q.out[i]
    BY <1>0, <2>1 DEF Taken
  <2>3. ASSUME NEW k \in ((i + 1) + 1)..(j + 1)
        PROVE  r.out[k].id # "NEWKEYS"
    <3>1. k - 1 \in (i + 1)..j /\ k \in 1..(j + 1) /\ k # 1
      BY <1>0, <2>1
    <3> QED BY <3>1, <2>1, <1>0
  <2> QED BY <2>1, <2>2, <2>3 DEF Between
<1> QED BY <1>1, <1>2 DEF Between

\* g: whether the peer's KEXINIT is in the hash after the packet.
LEMMA QuietTaken ==
    ASSUME NEW r, NEW q, NEW s, NEW t, Taken(r, q), Quiet(s, r), Alive(t) => Alive(s),
           \/ r.out[1].id \notin {"KEXINIT", "NEWKEYS"} /\ (Alive(t) /\ Hashed(t) => Hashed(s))
           \/ r.out[1].id = "KEXINIT"
           \/ r.out[1].id = "NEWKEYS" /\ (Alive(t) => ~Hashed(t))
    PROVE  Quiet(t, q)
<1> SUFFICES ASSUME Unmarked(q), Alive(t)
             PROVE  /\ \A j \in 1..Len(q.out) :
                          q.out[j].id \in Conn => ~Between(q.out, j, Hashed(t))
                    /\ (Alive(q) /\ "SELF" \notin q.isKeying)
                          => ~Between(q.out, Len(q.out), Hashed(t))
  BY DEF Quiet
<1>1. /\ \A j \in 1..Len(r.out) : r.out[j].id \in Conn => ~Between(r.out, j, Hashed(s))
      /\ (Alive(r) /\ "SELF" \notin r.isKeying) => ~Between(r.out, Len(r.out), Hashed(s))
  BY DEF Quiet, Unmarked, Taken
<1>2. \A j \in 0..Len(q.out) : Between(q.out, j, Hashed(t)) => Between(r.out, j + 1, Hashed(s))
  BY BetweenTaken
<1>3. ASSUME NEW j \in 1..Len(q.out), q.out[j].id \in Conn
      PROVE  ~Between(q.out, j, Hashed(t))
  <2>1. j \in 0..Len(q.out) /\ j + 1 \in 1..Len(r.out) /\ r.out[j + 1] = q.out[j]
    BY DEF Taken
  <2> QED BY <2>1, <1>1, <1>2, <1>3
<1>4. ASSUME Alive(q), "SELF" \notin q.isKeying
      PROVE  ~Between(q.out, Len(q.out), Hashed(t))
  <2>1. Len(q.out) \in 0..Len(q.out) /\ Len(r.out) = Len(q.out) + 1
        /\ Alive(r) /\ "SELF" \notin r.isKeying
    BY <1>4 DEF Taken, Alive
  <2> QED BY <2>1, <1>1, <1>2
<1> QED BY <1>3, <1>4

LEMMA LaterTaken ==
    ASSUME NEW e, NEW s, NEW r, NEW q, Taken(r, q), Later(e, s, r)
    PROVE  Later(e, s, q)
<1>1. /\ \A j \in 1..Len(q.out) : q.out[j] = r.out[j + 1] /\ j + 1 \in 1..Len(r.out)
      /\ q.kexCount = r.kexCount
  BY DEF Taken
<1> QED BY <1>1 DEF Later

LEMMA StrictAgreedTaken ==
    ASSUME NEW s, NEW r, NEW q, Taken(r, q), StrictAgreed(s, r)
    PROVE  StrictAgreed(s, q)
<1>1. /\ \A j \in 1..Len(q.out) : q.out[j] = r.out[j + 1] /\ j + 1 \in 1..Len(r.out)
      /\ q.sendStrictKex = r.sendStrictKex
  BY DEF Taken
<1> QED BY <1>1 DEF StrictAgreed

\* The server takes a packet of the client's.
LEMMA ClientStreamTaken ==
    ASSUME NEW c, NEW d, NEW v, Taken(c, d), Paired(c, v)
    PROVE  Paired(d, v)
<1>0. /\ d.kexId = c.kexId /\ d.sessionId = c.sessionId
      /\ \A j \in 1..Len(d.out) : d.out[j] = c.out[j + 1] /\ j + 1 \in 1..Len(c.out)
      /\ \A j \in 1..Len(d.out) : NextKeys(d, j) = NextKeys(c, j + 1)
      /\ \A i, j \in 1..Len(d.out) : (i + 1 = j + 1 => i = j) /\ (j + 1 < i + 1 => j < i)
  <2>1. \A j \in 1..Len(d.out) : j \in 0..Len(d.out)
    OBVIOUS
  <2> QED BY <2>1 DEF Taken
<1>1. /\ Alive(d) <=> Alive(c)
      /\ Awaiting(c) => Awaiting(d)
      /\ \A k : Expecting(c, k) => Expecting(d, k)
  BY DEF Alive, Awaiting, Expecting, Hashed, Taken
<1>2. ~Sends(c, Requests \cup {"NEWKEYS"}) => ~Sends(d, Requests \cup {"NEWKEYS"})
  BY <1>0 DEF Sends
<1>3. Asked(d, v)
  <2> SUFFICES ASSUME NEW i \in 1..Len(d.out), d.out[i].id \in Requests
               PROVE  /\ \A j \in 1..Len(d.out) : d.out[j].id \in Requests => j = i
                      /\ \A j \in 1..Len(d.out) : d.out[j].id = "NEWKEYS" => j < i
                      /\ ~Sends(v, Answers)
                      /\ Alive(d) => Awaiting(d)
    BY DEF Asked
  <2>1. /\ \A j \in 1..Len(c.out) : c.out[j].id \in Requests => j = i + 1
        /\ \A j \in 1..Len(c.out) : c.out[j].id = "NEWKEYS" => j < i + 1
        /\ ~Sends(v, Answers)
        /\ Alive(c) => Awaiting(c)
    BY <1>0 DEF Paired, Asked
  <2> QED BY <2>1, <1>0, <1>1
<1>4. Answered(d, v)
  BY <1>1, <1>2 DEF Paired, Answered
<1>5. ClientSwitches(d, v)
  <2> SUFFICES ASSUME NEW j \in 1..Len(d.out), d.out[j].id = "NEWKEYS"
               PROVE  /\ \A i \in 1..Len(d.out) : d.out[i].id = "NEWKEYS" => i = j
                      /\ d.sessionId # NoKeys
                      /\ Alive(v) => Expecting(v, NextKeys(d, j))
    BY DEF ClientSwitches
  <2>1. /\ \A i \in 1..Len(c.out) : c.out[i].id = "NEWKEYS" => i = j + 1
        /\ c.sessionId # NoKeys
        /\ Alive(v) => Expecting(v, NextKeys(c, j + 1))
    BY <1>0 DEF Paired, ClientSwitches
  <2> QED BY <2>1, <1>0
<1>6. ServerSwitches(d, v)
  BY <1>1 DEF Paired, ServerSwitches
<1>7. ReplyMade(d, v) /\ Identified(d, v) /\ MarkerDue(d, v)
  BY <1>0, <1>1 DEF Paired, ReplyMade, Identified, MarkerDue
<1> QED BY <1>0, <1>3, <1>4, <1>5, <1>6, <1>7 DEF Paired

\* The client takes a packet of the server's that carries no signature.
LEMMA ServerStreamTaken ==
    ASSUME NEW c, NEW v, NEW w, Taken(v, w), Paired(c, v),
           Alive(c) => ~IsReply(v.out[1], v.kexId)
    PROVE  Paired(c, w)
<1>0. /\ w.kexId = v.kexId /\ w.sessionId = v.sessionId /\ w.sendStrictKex = v.sendStrictKex
      /\ Len(w.out) \in Nat
      /\ \A j \in 1..Len(w.out) : w.out[j] = v.out[j + 1] /\ j + 1 \in 1..Len(v.out)
      /\ \A j \in 1..Len(w.out) : NextKeys(w, j) = NextKeys(v, j + 1)
      /\ \A i, j \in 1..Len(w.out) : i + 1 = j + 1 => i = j
      /\ \A j \in 1..Len(v.out) : j = 1 \/ (j - 1 \in 1..Len(w.out) /\ w.out[j - 1] = v.out[j])
  <2>1. \A j \in 1..Len(w.out) : j \in 0..Len(w.out)
    OBVIOUS
  <2> QED BY <2>1 DEF Taken
<1>1. /\ Alive(w) <=> Alive(v)
      /\ \A k : Expecting(v, k) => Expecting(w, k)
      /\ w.handshake = v.handshake
  BY DEF Alive, Expecting, Hashed, Taken
<1>2. ~Sends(v, Answers) => ~Sends(w, Answers)
  BY <1>0 DEF Sends
<1>3. Asked(c, w)
  BY <1>2 DEF Paired, Asked
<1>4. Answered(c, w)
  <2> SUFFICES ASSUME NEW i \in 1..Len(w.out), w.out[i].id \in Answers
               PROVE  /\ \A j \in 1..Len(w.out) : w.out[j].id \in Answers => j = i
                      /\ ~Sends(c, Requests \cup {"NEWKEYS"})
                      /\ Alive(c) => Awaiting(c)
    BY DEF Answered
  <2>1. /\ \A j \in 1..Len(v.out) : v.out[j].id \in Answers => j = i + 1
        /\ ~Sends(c, Requests \cup {"NEWKEYS"})
        /\ Alive(c) => Awaiting(c)
    BY <1>0 DEF Paired, Answered
  <2> QED BY <2>1, <1>0
<1>5. ClientSwitches(c, w)
  BY <1>1 DEF Paired, ClientSwitches
<1>6. ServerSwitches(c, w)
  <2> SUFFICES ASSUME NEW j \in 1..Len(w.out), w.out[j].id = "NEWKEYS"
               PROVE  IF j > 1
                      THEN IsReply(w.out[j - 1], w.kexId) /\ w.out[j - 1].hash = NextKeys(w, j)
                      ELSE Alive(c) => Expecting(c, NextKeys(w, 1))
    BY DEF ServerSwitches
  <2>1. IsReply(v.out[j], v.kexId) /\ v.out[j].hash = NextKeys(v, j + 1)
    <3>1. j + 1 \in 1..Len(v.out) /\ v.out[j + 1].id = "NEWKEYS" /\ j + 1 > 1 /\ (j + 1) - 1 = j
      BY <1>0
    <3> QED BY <3>1 DEF Paired, ServerSwitches
  <2>2. CASE j > 1
    <3>1. j \in 1..Len(v.out) /\ j # 1
      BY <2>2, <1>0
    <3>2. w.out[j - 1] = v.out[j]
      BY <3>1, <1>0
    <3> QED BY <2>1, <2>2, <3>2, <1>0
  <2>3. CASE ~(j > 1)
    <3>1. j = 1
      BY <2>3
    <3> QED BY <2>1, <3>1
  <2> QED BY <2>2, <2>3
<1>7. ReplyMade(c, w)
  <2> SUFFICES ASSUME NEW j \in 1..Len(w.out), IsReply(w.out[j], w.kexId)
               PROVE  /\ w.sessionId # NoKeys
                      /\ c.sessionId = NoKeys => w.out[j].hash = w.sessionId
                      /\ Alive(w) => Expecting(w, w.out[j].hash)
    BY DEF ReplyMade
  <2>1. j + 1 \in 1..Len(v.out) /\ IsReply(v.out[j + 1], v.kexId) /\ w.out[j] = v.out[j + 1]
    BY <1>0
  <2> QED BY <2>1, <1>0, <1>1 DEF Paired, ReplyMade
<1>8. Alive(c) /\ Replies(v) => Replies(w)
  <2> SUFFICES ASSUME Alive(c), Replies(v) PROVE Replies(w)
    OBVIOUS
  <2>1. PICK j \in 1..Len(v.out) : IsReply(v.out[j], v.kexId)
    BY DEF Replies
  <2>2. j - 1 \in 1..Len(w.out) /\ IsReply(w.out[j - 1], w.kexId)
    BY <2>1, <1>0
  <2> QED BY <2>2 DEF Replies
<1>9. Identified(c, w)
  BY <1>0, <1>1, <1>8 DEF Paired, Identified, Hashed
<1>10. MarkerDue(c, w)
  <2> SUFFICES ASSUME Alive(c), c.sessionId = NoKeys, NEW i \in 1..Len(w.out),
                      w.out[i].id = "KEXINIT", \A j \in 1..i : ~IsReply(w.out[j], w.kexId)
               PROVE  w.out[i].strict = w.sendStrictKex
    BY DEF MarkerDue
  <2>1. ASSUME NEW j \in 1..(i + 1)
        PROVE  ~IsReply(v.out[j], v.kexId)
    <3>1. j = 1 \/ (j - 1 \in 1..i /\ j \in 1..Len(v.out))
      BY <1>0
    <3> QED BY <3>1, <1>0
  <2>2. i + 1 \in 1..Len(v.out) /\ v.out[i + 1] = w.out[i]
    BY <1>0
  <2> QED BY <2>1, <2>2, <1>0 DEF Paired, MarkerDue
<1> QED BY <1>0, <1>3, <1>4, <1>5, <1>6, <1>7, <1>9, <1>10 DEF Paired

LEMMA TakeInStep ==
    ASSUME NEW e \in Endpoints, NEW s, NEW r, NEW q, NEW n, NEW m,
           InStep(e, s, r, n), Taken(r, q), Opens(s, q, m), Quiet(s, q),
           (e = "client" /\ Alive(s)) => ~IsReply(r.out[1], r.kexId)
    PROVE  InStep(e, s, q, m)
<1>1. Mine(e, s) /\ Mine(Peer(e), q)
  BY TakenMine, PeerPeer DEF InStep
<1>2. Hears(e, s, q, m)
  BY LaterTaken, StrictAgreedTaken DEF InStep, Hears
<1>3. Hears(Peer(e), q, s, q.peerSeq)
  <2>1. q.peerSeq = r.peerSeq
    BY DEF Taken
  <2> QED BY <2>1, TakenHears DEF InStep
<1>4. IF e = "client" THEN Paired(s, q) ELSE Paired(q, s)
  BY ServerStreamTaken, ClientStreamTaken DEF InStep
<1> QED BY <1>1, <1>2, <1>3, <1>4 DEF InStep

\* A session that is over takes anything.
LEMMA TakeDead ==
    ASSUME NEW e \in Endpoints, NEW s, NEW r, NEW q, NEW n, NEW m,
           InStep(e, s, r, n), Taken(r, q), ~Alive(s)
    PROVE  InStep(e, s, q, m)
<1>1. Opens(s, q, m) /\ Quiet(s, q)
  BY DEF Opens, Quiet
<1> QED BY <1>1, TakeInStep

LEMMA TakeOpens ==
    ASSUME NEW e \in Endpoints, NEW s, NEW t, NEW r, NEW q, NEW n,
           InStep(e, s, r, n), Taken(r, q), Alive(s), t.peerKeys = s.peerKeys,
           r.out[1].id # "NEWKEYS"
    PROVE  Opens(t, q, n + 1)
<1>1. /\ s.peerKeys = r.out[1].keys /\ n = r.out[1].seq
  BY DEF InStep, Hears, Opens, Taken
<1>2. NextSeq(r, 1) = r.out[1].seq + 1 /\ NextKeys(r, 1) = r.out[1].keys
  <2>1. 1 \in 1..Len(r.out) /\ Linked(r)
    BY DEF InStep, Mine, Taken
  <2> QED BY <2>1 DEF Linked
<1>3. NextSeq(q, 0) = NextSeq(r, 1) /\ NextKeys(q, 0) = NextKeys(r, 1)
  <2>1. 0 \in 0..Len(q.out) /\ 0 + 1 = 1
    BY DEF Taken
  <2> QED BY <2>1 DEF Taken
<1> QED BY <1>1, <1>2, <1>3 DEF Opens

\* A packet that is no KEXINIT, NEWKEYS or signed reply.
LEMMA TakePlain ==
    ASSUME NEW e \in Endpoints, NEW s, NEW r, NEW q, NEW n,
           InStep(e, s, r, n), Taken(r, q), Alive(s),
           r.out[1].id \notin {"KEXINIT", "NEWKEYS"},
           e = "client" => ~IsReply(r.out[1], r.kexId)
    PROVE  InStep(e, s, q, n + 1)
<1>1. Opens(s, q, n + 1)
  BY TakeOpens
<1>2. Quiet(s, q)
  BY QuietTaken DEF InStep, Hears
<1> QED BY <1>1, <1>2, TakeInStep

----------------------------------------------------------------------------
(* The steps of an exchange.                                               *)

\* What they share: nothing is sent, and the session lives on.
Body(s, t) ==
    /\ Kept(s, t)
    /\ t.out = s.out /\ t.seq = s.seq /\ t.keys = s.keys /\ t.kexCount = s.kexCount
    /\ t.isKeying = s.isKeying /\ t.state = s.state
    /\ t.disconnected = s.disconnected /\ t.error = s.error

LEMMA HeardSame ==
    ASSUME NEW e, NEW r, NEW s, NEW t, NEW n, IsSession(s), Hears(e, r, s, n),
           t.out = s.out, t.seq = s.seq, t.keys = s.keys, t.kexCount = s.kexCount,
           t.sendStrictKex = s.sendStrictKex, t.mark = s.mark, Alive(t) => Alive(s),
           "SELF" \notin t.isKeying => "SELF" \notin s.isKeying
    PROVE  Hears(e, r, t, n)
<1>1. Opens(r, t, n)
  BY DEF Hears, Opens, NextKeys, NextSeq
<1>2. Later(e, r, t) /\ StrictAgreed(r, t)
  BY DEF Hears, Later, StrictAgreed
<1>3. Quiet(r, t)
  BY QuietSame DEF Hears
<1> QED BY <1>1, <1>2, <1>3 DEF Hears

\* The peer's KEXINIT arrives: PEER_IS_KEYING, a handshake, strict KEX.
Opening(s, t) ==
    /\ Kept(s, t)
    /\ t.out = s.out /\ t.seq = s.seq /\ t.keys = s.keys /\ t.kexCount = s.kexCount
    /\ t.isKeying = s.isKeying \cup {"PEER"} /\ t.state = s.state
    /\ t.disconnected = s.disconnected /\ t.error = s.error
    /\ t.sessionId = s.sessionId
    /\ t.handshake = IF s.handshake.live THEN s.handshake ELSE HandshakeInfoNew
    /\ s.sessionId # NoKeys => t.useStrictKex = s.useStrictKex

LEMMA OpeningInStep ==
    ASSUME NEW e \in Endpoints, NEW s, NEW t, NEW r, NEW n,
           InStep(e, s, r, n), Opening(s, t), Alive(s), ~Hashed(s)
    PROVE  /\ InStep(e, t, r, n) /\ Alive(t) /\ ~Hashed(t) /\ t.handshake.live
           /\ t.handshake.expectMsgId = "NONE"
           /\ Begun(e, s) => Begun(e, t)
           /\ Mono(s, t)
<1>1. IsSession(s) /\ IsSession(r) /\ IsSession(t) /\ Linked(s) /\ Rising(s) /\ Counted(e, s)
      /\ Exchanging(s) /\ Quiet(r, s)
  BY InStepTypes DEF Opening, Kept
<1>2. Linked(t) /\ Rising(t) /\ Grows(s, t)
  BY <1>1, StreamSame DEF Opening
<1>3. /\ Alive(t) /\ t.mark = s.mark /\ s.handshake.live \in BOOLEAN
      /\ "SELF" \notin t.isKeying => "SELF" \notin s.isKeying
      /\ "SELF" \in t.isKeying => "SELF" \in s.isKeying
  BY <1>1, SessionKeys DEF Opening, Kept, Alive
<1>4. Quiet(r, t)
  BY <1>1, <1>3, QuietSame DEF Opening
<1>5. /\ t.handshake.live /\ t.handshake.hash = NoKeys /\ t.handshake.expectMsgId = "NONE"
      /\ s.handshake.live => t.handshake = s.handshake
      /\ ~s.handshake.live => t.handshake.kexInit = 0
  BY <1>1, <1>3 DEF Opening, HandshakeInfoNew, Hashed, Exchanging
<1>6. Neutral(s, t)
  <2>1. s.kexCount \in Nat /\ t.kexCount = s.kexCount /\ t.handshake.kexInit <= t.kexCount
    BY <1>1, <1>3, <1>5, SessionKeys DEF Counted, Opening
  <2>2. GoesOn(s, t)
    BY <1>5, <1>1 DEF GoesOn
  <2> QED BY <2>1, <2>2, <1>2, <1>3 DEF Opening, Neutral
<1>7. InStep(e, t, r, n)
  BY <1>2, <1>4, <1>6, NeutralInStep
<1>8. Begun(e, s) => Begun(e, t)
  BY <1>3, <1>5 DEF Begun, Opening
<1>9. Mono(s, t)
  BY <1>1, SessionKeys DEF Mono, Opening, Kept
<1> QED BY <1>3, <1>5, <1>7, <1>8, <1>9 DEF Hashed

\* The exchange hash is started, and the KEXINIT is taken.
Hashing(e, s, t, p) ==
    /\ Body(s, t)
    /\ t.sessionId = s.sessionId /\ t.useStrictKex = s.useStrictKex
    /\ t.handshake.live
    /\ t.handshake.kexInit = s.handshake.kexInit
    /\ t.handshake.hash = Transcript(e, s.handshake.kexInit, p.kexInit)
    /\ t.handshake.expectMsgId # "NEWKEYS"
    /\ t.handshake.expectMsgId = "GEX_REQUEST" => t.kexId = "GEX"

\* The strict KEX marker of a KEXINIT that is first in the stream.
LEMMA MarkerHeard ==
    ASSUME NEW e \in Endpoints, NEW s, NEW r, NEW n, InStep(e, s, r, n), Alive(s),
           s.sessionId = NoKeys, 1 \in 1..Len(r.out), r.out[1].id = "KEXINIT"
    PROVE  r.out[1].strict = r.sendStrictKex
<1>1. CASE e = "client"
  <2>1. MarkerDue(s, r)
    BY <1>1 DEF InStep, Paired
  <2>2. \A j \in 1..1 : ~IsReply(r.out[j], r.kexId)
    BY DEF IsReply
  <2> QED BY <2>1, <2>2 DEF MarkerDue
<1>2. CASE e = "server"
  <2>1. r.sessionId = NoKeys
    BY <1>2 DEF InStep, Paired, Identified
  <2> QED BY <2>1 DEF InStep, Mine, MarkerSent
<1> QED BY <1>1, <1>2 DEF Endpoints

LEMMA TranscriptOK ==
    ASSUME NEW e \in Endpoints, NEW a \in Nat, NEW b \in Nat
    PROVE  LET h == Transcript(e, a, b) IN h \in Keys /\ h[Own(e)] = a /\ h[Other(e)] = b
  BY DEF Transcript, Keys, Own, Other

LEMMA NewerByEnds ==
    ASSUME NEW e \in Endpoints, NEW k, NEW l, k[Own(e)] > l[Own(e)], k[Other(e)] > l[Other(e)]
    PROVE  Newer(k, l)
  BY DEF Newer, Own, Other, Endpoints

LEMMA HashingInStep ==
    ASSUME NEW e \in Endpoints, NEW s, NEW t, NEW r, NEW q, NEW n,
           InStep(e, s, r, n), Taken(r, q), Alive(s), ~Hashed(s),
           r.out[1].id = "KEXINIT", Hashing(e, s, t, r.out[1]),
           s.handshake.kexInit > s.keys[Own(e)],
           s.sessionId = NoKeys => s.useStrictKex = (r.out[1].strict /\ s.sendStrictKex)
    PROVE  InStep(e, t, q, n + 1) /\ Hashed(t) /\ Alive(t)
<1> DEFINE p == r.out[1]
           h == t.handshake.hash
<1>1. /\ IsSession(s) /\ IsSession(r) /\ IsSession(t) /\ IsSession(q) /\ Linked(s) /\ Rising(s)
      /\ Counted(e, s) /\ Exchanging(s) /\ Mine(e, s)
  BY InStepTypes DEF Hashing, Body, Kept, Taken
<1>2. /\ Alive(t) /\ t.keys = s.keys /\ t.sessionId = s.sessionId /\ t.kexCount = s.kexCount
      /\ t.useStrictKex = s.useStrictKex /\ t.sendStrictKex = s.sendStrictKex
      /\ t.peerKeys = s.peerKeys /\ t.kexId = s.kexId /\ t.out = s.out
  BY DEF Hashing, Body, Kept, Alive
<1>3. p \in Packets /\ p.kexInit \in Nat /\ s.handshake.kexInit \in Nat /\ 1 \in 1..Len(r.out)
      /\ s.keys[Own(e)] \in Nat /\ s.keys[Other(e)] \in Nat /\ r.kexCount \in Nat
      /\ s.kexCount \in Nat
  BY <1>1, SessionKeys, KeysOK DEF Taken, Packets
<1>4. h[Own(e)] = s.handshake.kexInit /\ h[Other(e)] = p.kexInit /\ h \in Keys
  BY <1>3, TranscriptOK DEF Hashing
<1>5. /\ p.kexInit > s.keys[Other(e)] /\ p.kexInit <= r.kexCount
      /\ \A j \in 1..Len(r.out) : j # 1 /\ r.out[j].id = "KEXINIT" => r.out[j].kexInit > p.kexInit
  <2>1. Later(e, s, r) /\ Rising(r)
    BY DEF InStep, Hears, Mine
  <2>2. p.kexInit > s.keys[Other(e)] /\ p.kexInit <= r.kexCount
    BY <2>1, <1>3 DEF Later, Rising
  <2>3. ASSUME NEW j \in 1..Len(r.out), j # 1, r.out[j].id = "KEXINIT"
        PROVE  r.out[j].kexInit > p.kexInit
    <3>1. 1 < j /\ r.out[j].kexInit \in Nat
      BY <1>1, <2>3, SessionKeys DEF Packets
    <3> QED BY <2>1, <2>3, <3>1, <1>3 DEF Rising
  <2> QED BY <2>2, <2>3
<1>6. Newer(h, s.keys) /\ Hashed(t)
  <2>1. Newer(h, s.keys)
    BY <1>4, <1>5, NewerByEnds
  <2> QED BY <2>1, <1>1, <1>4, SessionKeys, KeysOK DEF Hashed
<1>7. Mine(e, t)
  <2>1. Linked(t) /\ Rising(t)
    BY <1>1, StreamSame DEF Hashing, Body
  <2>2. Counted(e, t)
    BY <1>1, <1>2, <1>4 DEF Counted, Hashing
  <2>3. Exchanging(t)
    BY <1>2, <1>6 DEF Exchanging, Hashing
  <2>4. MarkerSent(t)
    BY <1>1, <1>2 DEF Mine, MarkerSent
  <2> QED BY <2>1, <2>2, <2>3, <2>4, <1>1 DEF Mine
<1>8. Mine(Peer(e), q)
  BY TakenMine, PeerPeer DEF InStep
<1>9. Hears(e, t, q, n + 1)
  <2>1. Opens(t, q, n + 1)
    BY <1>2, TakeOpens
  <2>2. Later(e, t, q)
    <3>1. Later(e, s, q) /\ q.kexCount = r.kexCount
      BY LaterTaken DEF InStep, Hears, Taken
    <3>2. ASSUME NEW j \in 1..Len(q.out), q.out[j].id = "KEXINIT"
          PROVE  q.out[j].kexInit > p.kexInit
      <4>1. q.out[j] = r.out[j + 1] /\ j + 1 \in 1..Len(r.out) /\ j + 1 # 1
        BY DEF Taken
      <4> QED BY <3>2, <4>1, <1>5
    <3> QED BY <3>1, <3>2, <1>2, <1>4, <1>5 DEF Later
  <2>3. StrictAgreed(t, q)
    <3>1. StrictAgreed(s, q) /\ q.sendStrictKex = r.sendStrictKex
      BY StrictAgreedTaken DEF InStep, Hears, Taken
    <3>2. CASE s.sessionId = NoKeys
      <4>1. p.strict = r.sendStrictKex
        BY <3>2, <1>3, MarkerHeard
      <4>2. t.useStrictKex = (t.sendStrictKex /\ q.sendStrictKex)
        BY <4>1, <3>1, <3>2, <1>2
      <4> QED BY <4>2, <3>1, <1>2 DEF StrictAgreed
    <3>3. CASE s.sessionId # NoKeys
      BY <3>1, <3>3, <1>2 DEF StrictAgreed
    <3> QED BY <3>2, <3>3
  <2>4. Quiet(t, q)
    BY QuietTaken DEF InStep, Hears
  <2> QED BY <2>1, <2>2, <2>3, <2>4 DEF Hears
<1>10. Hears(Peer(e), q, t, q.peerSeq)
  <2>1. Hears(Peer(e), q, s, q.peerSeq)
    <3>1. q.peerSeq = r.peerSeq
      BY DEF Taken
    <3> QED BY <3>1, TakenHears DEF InStep
  <2> QED BY <2>1, <1>1, HeardSame DEF Hashing, Body, Kept
<1>11. CASE e = "client"
  <2>1. ~IsReply(r.out[1], r.kexId)
    BY DEF IsReply
  <2>2. Paired(s, q)
    BY <1>11, <2>1, ServerStreamTaken DEF InStep
  <2>3. ~Awaiting(s) /\ \A k : ~Expecting(s, k)
    BY DEF Awaiting, Expecting
  <2>4. Asked(t, q)
    BY <2>2, <2>3, <1>2 DEF Paired, Asked
  <2>5. Answered(t, q)
    BY <2>2, <2>3, <1>2 DEF Paired, Answered
  <2>6. ClientSwitches(t, q)
    <3>1. \A j : NextKeys(t, j) = NextKeys(s, j)
      BY <1>2 DEF NextKeys
    <3> QED BY <2>2, <3>1, <1>2 DEF Paired, ClientSwitches
  <2>7. ServerSwitches(t, q)
    BY <2>2, <2>3 DEF Paired, ServerSwitches
  <2>8. ReplyMade(t, q) /\ Identified(t, q) /\ MarkerDue(t, q)
    BY <2>2, <1>2 DEF Paired, ReplyMade, Identified, MarkerDue
  <2>9. Paired(t, q)
    BY <2>2, <2>4, <2>5, <2>6, <2>7, <2>8, <1>2 DEF Paired
  <2> QED BY <2>9, <1>2, <1>6, <1>7, <1>8, <1>9, <1>10, <1>11 DEF InStep
<1>12. CASE e = "server"
  <2>1. Paired(q, s)
    BY <1>12, ClientStreamTaken DEF InStep
  <2>2. \A k : ~Expecting(s, k)
    BY DEF Expecting
  <2>3. Asked(q, t) /\ Answered(q, t)
    BY <2>1, <1>2 DEF Paired, Asked, Answered, Sends
  <2>4. ClientSwitches(q, t)
    BY <2>1, <2>2 DEF Paired, ClientSwitches
  <2>5. ServerSwitches(q, t)
    <3>1. \A j : NextKeys(t, j) = NextKeys(s, j)
      BY <1>2 DEF NextKeys
    <3> QED BY <2>1, <3>1, <1>2 DEF Paired, ServerSwitches
  <2>6. ReplyMade(q, t)
    BY <2>1, <2>2, <1>2 DEF Paired, ReplyMade
  <2>7. Identified(q, t) /\ MarkerDue(q, t)
    BY <2>1, <1>2 DEF Paired, Identified, MarkerDue
  <2>8. Paired(q, t)
    BY <2>1, <2>3, <2>4, <2>5, <2>6, <2>7, <1>2 DEF Paired
  <2> QED BY <2>8, <1>2, <1>6, <1>7, <1>8, <1>9, <1>10, <1>12 DEF InStep
<1> QED BY <1>11, <1>12 DEF Endpoints

\* The session sends a message of the exchange.
Advancing(s, t, p) ==
    /\ Kept(s, t)
    /\ Sealed(s, t, p) /\ p.id \in Requests \cup Answers \cup {"NEWKEYS"}
    /\ t.kexCount = s.kexCount /\ t.isKeying = s.isKeying /\ t.state = s.state
    /\ t.disconnected = s.disconnected /\ t.error = s.error
    /\ t.useStrictKex = s.useStrictKex
    /\ t.sessionId = s.sessionId \/ (s.sessionId = NoKeys /\ t.sessionId # NoKeys)
    /\ t.handshake.live = s.handshake.live /\ t.handshake.hash = s.handshake.hash
    /\ t.handshake.kexInit = s.handshake.kexInit
    /\ IF p.id = "NEWKEYS"
       THEN /\ t.keys = s.handshake.hash /\ p.strict = s.useStrictKex
            /\ t.seq = IF s.useStrictKex THEN 0 ELSE s.seq + 1
       ELSE t.keys = s.keys /\ t.seq = s.seq + 1

LEMMA AdvancingHears ==
    ASSUME NEW e \in Endpoints, NEW s, NEW t, NEW p, NEW r, NEW n,
           InStep(e, s, r, n), Advancing(s, t, p), Alive(s), Hashed(s), Exchanging(t)
    PROVE  /\ Mine(e, t) /\ Mine(Peer(e), r)
           /\ Hears(e, t, r, n) /\ Hears(Peer(e), r, t, r.peerSeq)
<1>1. /\ IsSession(s) /\ IsSession(r) /\ IsSession(t) /\ Linked(s) /\ Rising(s) /\ Counted(e, s)
      /\ Quiet(r, s) /\ Mine(e, s) /\ Mine(Peer(e), r) /\ Sealed(s, t, p)
  BY InStepTypes DEF Advancing, Kept, InStep
<1>2. /\ (Alive(t) <=> Alive(s)) /\ (Hashed(t) <=> Hashed(s)) /\ Alive(t) /\ Hashed(t) = Hashed(s)
      /\ t.mark = s.mark /\ t.peerKeys = s.peerKeys /\ t.sendStrictKex = s.sendStrictKex
      /\ t.handshake.hash = s.handshake.hash /\ t.kexCount = s.kexCount
      /\ t.keys \in {s.keys, s.handshake.hash} /\ s.kexCount \in Nat
      /\ t.isKeying = s.isKeying /\ t.useStrictKex = s.useStrictKex
  BY <1>1, SessionKeys DEF Advancing, Kept, Alive, Hashed
<1>3. p.id # "KEXINIT" /\ p.id \notin Conn
  BY StringsDiffer DEF Advancing
<1>4. Mine(e, t)
  <2>1. Linked(t)
    BY <1>1, LinkedExtended DEF Advancing, Sealed
  <2>2. Rising(t)
    BY <1>1, <1>2, <1>3, RisingExtended
  <2>3. Counted(e, t)
    BY <1>1, <1>2 DEF Counted, Advancing
  <2>4. MarkerSent(t)
    <3> SUFFICES ASSUME t.sessionId = NoKeys, NEW j \in 1..Len(t.out), t.out[j].id = "KEXINIT"
                 PROVE  t.out[j].strict = t.sendStrictKex
      BY DEF MarkerSent
    <3>1. s.sessionId = NoKeys
      BY DEF Advancing
    <3>2. j \in 1..Len(s.out) /\ t.out[j] = s.out[j]
      BY <1>1, <1>3, Extended
    <3> QED BY <3>1, <3>2, <1>1, <1>2 DEF Mine, MarkerSent
  <2> QED BY <2>1, <2>2, <2>3, <2>4, <1>1 DEF Mine
<1>5. Hears(e, t, r, n)
  <2>1. Opens(t, r, n)
    BY <1>2 DEF InStep, Hears, Opens
  <2>2. Later(e, t, r)
    BY <1>2 DEF InStep, Hears, Later
  <2>3. StrictAgreed(t, r)
    BY <1>2 DEF InStep, Hears, StrictAgreed
  <2>4. Quiet(t, r)
    BY <1>2 DEF InStep, Hears, Quiet
  <2> QED BY <2>1, <2>2, <2>3, <2>4 DEF Hears
<1>6. Hears(Peer(e), r, t, r.peerSeq)
  <2>0. Hears(Peer(e), r, s, r.peerSeq)
    BY DEF InStep
  <2>1. Opens(r, t, r.peerSeq)
    BY <2>0, <1>1, OpensExtended DEF Hears
  <2>2. Later(Peer(e), r, t)
    BY <2>0, <1>1, <1>2, <1>3, LaterExtended, PeerPeer DEF Hears
  <2>3. StrictAgreed(r, t)
    <3>1. ASSUME NEW j \in 1..Len(t.out), t.out[j].id = "NEWKEYS"
          PROVE  t.out[j].strict = (r.sendStrictKex /\ t.sendStrictKex)
      <4>1. CASE j = Len(t.out)
        <5>1. p.id = "NEWKEYS" /\ t.out[j] = p
          BY <1>1, <3>1, <4>1, Extended
        <5>2. p.strict = s.useStrictKex
          BY <5>1 DEF Advancing
        <5>3. s.useStrictKex = (s.sendStrictKex /\ r.sendStrictKex)
          BY DEF InStep, Hears, StrictAgreed
        <5> QED BY <5>1, <5>2, <5>3, <1>2
      <4>2. CASE j # Len(t.out)
        <5>1. j \in 1..Len(s.out) /\ t.out[j] = s.out[j]
          BY <1>1, <4>2, Extended
        <5> QED BY <5>1, <3>1, <2>0, <1>2 DEF Hears, StrictAgreed
      <4> QED BY <4>1, <4>2
    <3> QED BY <3>1, <2>0, <1>2 DEF Hears, StrictAgreed
  <2>4. Quiet(r, t)
    BY <1>1, <1>2, <1>3, QuietExtended
  <2> QED BY <2>1, <2>2, <2>3, <2>4 DEF Hears
<1> QED BY <1>1, <1>4, <1>5, <1>6

\* A request of the client's: KEXDH_INIT, GEX_REQUEST or GEX_INIT.
Requesting(s, t, p) ==
    /\ Advancing(s, t, p)
    /\ p.id \in Requests
    /\ t.sessionId = s.sessionId
    /\ t.handshake.expectMsgId \in Answers

LEMMA RequestingInStep ==
    ASSUME NEW s, NEW t, NEW p, NEW r, NEW n,
           InStep("client", s, r, n), Requesting(s, t, p), Alive(s), Hashed(s),
           s.handshake.expectMsgId # "NEWKEYS", ~Sends(s, Requests), ~Sends(r, Answers)
    PROVE  InStep("client", t, r, n)
<1> DEFINE e == "client"
<1>0. e \in Endpoints
  BY DEF Endpoints
<1>1. /\ IsSession(s) /\ Exchanging(s) /\ Sealed(s, t, p) /\ Paired(s, r) /\ p.id # "NEWKEYS"
      /\ Advancing(s, t, p)
  BY <1>0, InStepTypes, StringsDiffer DEF InStep, Requesting, Advancing
<1>2. /\ Alive(t) /\ Hashed(t) /\ t.handshake.live = s.handshake.live /\ s.handshake.live
      /\ t.keys = s.keys /\ t.handshake.hash = s.handshake.hash /\ t.kexId = s.kexId
      /\ t.sessionId = s.sessionId
  BY <1>1 DEF Requesting, Advancing, Kept, Alive, Hashed, Exchanging
<1>3. Exchanging(t)
  <2>1. Newer(t.handshake.hash, t.keys) /\ t.handshake.expectMsgId # "GEX_REQUEST"
    BY <1>1, <1>2 DEF Exchanging, Requesting, Answers
  <2> QED BY <2>1, <1>2 DEF Exchanging
<1>4. Mine(e, t) /\ Mine(Peer(e), r) /\ Hears(e, t, r, n) /\ Hears(Peer(e), r, t, r.peerSeq)
  BY <1>0, <1>1, <1>3, AdvancingHears
<1>5. Awaiting(t)
  BY <1>2 DEF Awaiting, Requesting
<1>6. Asked(t, r)
  <2> SUFFICES ASSUME NEW i \in 1..Len(t.out), t.out[i].id \in Requests
               PROVE  /\ \A j \in 1..Len(t.out) : t.out[j].id \in Requests => j = i
                      /\ \A j \in 1..Len(t.out) : t.out[j].id = "NEWKEYS" => j < i
    BY <1>5 DEF Asked
  <2>1. \A j \in 1..Len(t.out) : t.out[j].id \in Requests => j = Len(t.out)
    BY <1>1, Extended, SMTT(30) DEF Sends
  <2>2. \A j \in 1..Len(t.out) : t.out[j].id = "NEWKEYS" => j < Len(t.out)
    BY <1>1, Extended, SMTT(30)
  <2> QED BY <2>1, <2>2
<1>7. Answered(t, r)
  BY DEF Answered, Sends
<1>8. ClientSwitches(t, r)
  <2> SUFFICES ASSUME NEW j \in 1..Len(t.out), t.out[j].id = "NEWKEYS"
               PROVE  /\ \A i \in 1..Len(t.out) : t.out[i].id = "NEWKEYS" => i = j
                      /\ t.sessionId # NoKeys
                      /\ Alive(r) => Expecting(r, NextKeys(t, j))
    BY DEF ClientSwitches
  <2>1. \A i \in 1..Len(t.out) : t.out[i].id = "NEWKEYS" =>
            i \in 1..Len(s.out) /\ s.out[i].id = "NEWKEYS"
    BY <1>1, Extended
  <2>2. j \in 1..Len(s.out) /\ s.out[j].id = "NEWKEYS" /\ j \in 0..Len(s.out)
    BY <2>1
  <2>3. NextKeys(t, j) = NextKeys(s, j)
    BY <1>1, <2>2, Extended
  <2> QED BY <2>1, <2>2, <2>3, <1>1, <1>2 DEF Paired, ClientSwitches
<1>9. ServerSwitches(t, r)
  <2>1. \A k : ~Expecting(s, k)
    BY DEF Expecting
  <2> QED BY <2>1, <1>1 DEF Paired, ServerSwitches
<1>10. ReplyMade(t, r) /\ Identified(t, r) /\ MarkerDue(t, r)
  BY <1>1, <1>2 DEF Paired, ReplyMade, Identified, MarkerDue
<1>11. Paired(t, r)
  BY <1>1, <1>2, <1>6, <1>7, <1>8, <1>9, <1>10 DEF Paired
<1> QED BY <1>4, <1>11 DEF InStep

\* An answer of the server's: the group of GEX_REQUEST, or the reply that
\* is signed over H, for which the keys have been made.
Answering(s, t, p) ==
    /\ Advancing(s, t, p)
    /\ p.id \in Answers
    /\ IF IsReply(p, s.kexId)
       THEN /\ p.hash = s.handshake.hash /\ t.handshake.keys = s.handshake.hash
            /\ t.handshake.expectMsgId = "NEWKEYS"
            /\ t.sessionId = IF s.sessionId = NoKeys THEN s.handshake.hash ELSE s.sessionId
       ELSE /\ t.handshake.expectMsgId = "GEX_INIT"
            /\ t.sessionId = s.sessionId

LEMMA AnsweringInStep ==
    ASSUME NEW s, NEW t, NEW p, NEW r, NEW n,
           InStep("server", s, r, n), Answering(s, t, p), Alive(s), Hashed(s),
           s.handshake.expectMsgId # "NEWKEYS", ~Sends(s, Answers),
           ~Sends(r, Requests \cup {"NEWKEYS"}), Alive(r) => Awaiting(r)
    PROVE  InStep("server", t, r, n)
<1> DEFINE e == "server"
<1>0. e \in Endpoints
  BY DEF Endpoints
<1>1. /\ IsSession(s) /\ IsSession(t) /\ Exchanging(s) /\ Sealed(s, t, p) /\ Paired(r, s)
      /\ p.id # "NEWKEYS" /\ p.id # "KEXINIT" /\ Advancing(s, t, p)
  BY <1>0, InStepTypes, StringsDiffer DEF InStep, Answering, Advancing, Kept
<1>2. /\ Alive(t) /\ Hashed(t) /\ t.handshake.live = s.handshake.live /\ s.handshake.live
      /\ t.keys = s.keys /\ t.handshake.hash = s.handshake.hash /\ t.kexId = s.kexId
      /\ t.sendStrictKex = s.sendStrictKex /\ Newer(s.handshake.hash, s.keys)
  BY <1>1 DEF Advancing, Kept, Alive, Hashed, Exchanging
<1>3. Exchanging(t)
  BY <1>1, <1>2 DEF Exchanging, Answering
<1>4. Mine(e, t) /\ Mine(Peer(e), r) /\ Hears(e, t, r, n) /\ Hears(Peer(e), r, t, r.peerSeq)
  BY <1>0, <1>1, <1>3, AdvancingHears
<1>5. /\ Len(s.out) \in Nat /\ Len(t.out) = Len(s.out) + 1 /\ t.out[Len(t.out)] = p
      /\ \A j \in 1..Len(t.out) : j # Len(t.out) => j \in 1..Len(s.out) /\ t.out[j] = s.out[j]
      /\ \A j \in 1..Len(s.out) : t.out[j] = s.out[j] /\ j \in 1..Len(t.out) /\ j # Len(t.out)
      /\ \A j \in 0..Len(s.out) : NextKeys(t, j) = NextKeys(s, j)
  BY <1>1, Extended
<1>6. s.sessionId # NoKeys => r.sessionId # NoKeys
  BY <1>1 DEF Paired, Identified
<1>7. Asked(r, t)
  BY DEF Asked, Sends
<1>8. Answered(r, t)
  <2>1. \A j \in 1..Len(t.out) : t.out[j].id \in Answers => j = Len(t.out)
    BY <1>5 DEF Sends
  <2> QED BY <2>1 DEF Answered
<1>9. ClientSwitches(r, t)
  BY DEF ClientSwitches, Sends
<1>10. ServerSwitches(r, t)
  <2> SUFFICES ASSUME NEW j \in 1..Len(t.out), t.out[j].id = "NEWKEYS"
               PROVE  IF j > 1
                      THEN IsReply(t.out[j - 1], t.kexId) /\ t.out[j - 1].hash = NextKeys(t, j)
                      ELSE Alive(r) => Expecting(r, NextKeys(t, 1))
    BY DEF ServerSwitches
  <2>1. j \in 1..Len(s.out) /\ s.out[j].id = "NEWKEYS" /\ j \in 0..Len(s.out)
    BY <1>1, <1>5
  <2>2. IF j > 1
        THEN IsReply(s.out[j - 1], s.kexId) /\ s.out[j - 1].hash = NextKeys(s, j)
        ELSE Alive(r) => Expecting(r, NextKeys(s, 1))
    BY <2>1, <1>1 DEF Paired, ServerSwitches
  <2>3. CASE j > 1
    <3>1. j - 1 \in 1..Len(s.out)
      BY <2>1, <2>3
    <3> QED BY <3>1, <2>1, <2>2, <2>3, <1>2, <1>5
  <2>4. CASE ~(j > 1)
    <3>1. j = 1
      BY <2>4
    <3> QED BY <3>1, <2>1, <2>2, <1>5
  <2> QED BY <2>3, <2>4
<1>11. ReplyMade(r, t)
  <2> SUFFICES ASSUME NEW j \in 1..Len(t.out), IsReply(t.out[j], t.kexId)
               PROVE  /\ t.sessionId # NoKeys
                      /\ r.sessionId = NoKeys => t.out[j].hash = t.sessionId
                      /\ Alive(t) => Expecting(t, t.out[j].hash)
    BY DEF ReplyMade
  <2>1. j = Len(t.out)
    BY <1>5, ReplyIsAnswer DEF Sends
  <2>2. t.out[j] = p /\ IsReply(p, s.kexId)
    BY <2>1, <1>2, <1>5
  <2>3. /\ p.hash = s.handshake.hash /\ t.handshake.keys = s.handshake.hash
        /\ t.handshake.expectMsgId = "NEWKEYS"
        /\ t.sessionId = IF s.sessionId = NoKeys THEN s.handshake.hash ELSE s.sessionId
    BY <2>2 DEF Answering
  <2>4. t.sessionId # NoKeys
    BY <2>3 DEF Hashed
  <2>5. Expecting(t, p.hash)
    BY <2>3, <1>2 DEF Expecting
  <2> QED BY <2>2, <2>3, <2>4, <2>5, <1>6
<1>12. Identified(r, t)
  <2>1. CASE IsReply(p, s.kexId)
    <3>1. /\ t.handshake.expectMsgId = "NEWKEYS"
          /\ t.sessionId = IF s.sessionId = NoKeys THEN s.handshake.hash ELSE s.sessionId
      BY <2>1 DEF Answering
    <3>2. Replies(t)
      <4>1. Len(t.out) \in 1..Len(t.out) /\ IsReply(t.out[Len(t.out)], t.kexId)
        BY <1>2, <1>5, <2>1
      <4> QED BY <4>1 DEF Replies
    <3>3. r.sessionId # NoKeys => r.sessionId = s.sessionId
      BY <1>1 DEF Paired, Identified
    <3> QED BY <3>1, <3>2, <3>3, <1>2 DEF Identified
  <2>2. CASE ~IsReply(p, s.kexId)
    <3>1. t.sessionId = s.sessionId
      BY <2>2 DEF Answering
    <3> QED BY <3>1, <1>1, <1>6 DEF Paired, Identified
  <2> QED BY <2>1, <2>2
<1>13. MarkerDue(r, t)
  <2> SUFFICES ASSUME Alive(r), r.sessionId = NoKeys, NEW i \in 1..Len(t.out),
                      t.out[i].id = "KEXINIT", \A j \in 1..i : ~IsReply(t.out[j], t.kexId)
               PROVE  t.out[i].strict = t.sendStrictKex
    BY DEF MarkerDue
  <2>1. i \in 1..Len(s.out) /\ t.out[i] = s.out[i]
    BY <1>1, <1>5
  <2>2. \A j \in 1..i : j \in 1..Len(s.out) /\ t.out[j] = s.out[j]
    BY <2>1, <1>5
  <2> QED BY <2>1, <2>2, <1>1, <1>2 DEF Paired, MarkerDue
<1>14. Paired(r, t)
  BY <1>1, <1>2, <1>7, <1>8, <1>9, <1>10, <1>11, <1>12, <1>13 DEF Paired
<1> QED BY <1>4, <1>14 DEF InStep

\* NEWKEYS is sent and the keys made by GenerateKeys() take over.
Switching(s, t, p) ==
    /\ Advancing(s, t, p)
    /\ p.id = "NEWKEYS"
    /\ t.handshake = s.handshake
    /\ t.sessionId = s.sessionId

\* What the session is waiting for as it switches.
Made(s) ==
    /\ Alive(s) /\ Hashed(s)
    /\ s.handshake.expectMsgId = "NEWKEYS" /\ s.handshake.keys = s.handshake.hash
    /\ s.sessionId # NoKeys

LEMMA SwitchingMine ==
    ASSUME NEW e \in Endpoints, NEW s, NEW t, NEW p, NEW r, NEW n,
           InStep(e, s, r, n), Switching(s, t, p), Made(s)
    PROVE  /\ Mine(e, t) /\ Mine(Peer(e), r) /\ Hears(e, t, r, n) /\ Hears(Peer(e), r, t, r.peerSeq)
           /\ Alive(t) /\ Made(t) /\ t.keys = t.handshake.keys
           /\ \A k : Expecting(s, k) => Expecting(t, k)
           /\ t.kexId = s.kexId /\ t.sendStrictKex = s.sendStrictKex
<1>1. Exchanging(s) /\ Advancing(s, t, p)
  BY InStepTypes DEF Switching
<1>2. /\ Alive(t) /\ t.handshake = s.handshake /\ t.keys = s.handshake.keys /\ s.handshake.live
      /\ t.kexId = s.kexId /\ t.sendStrictKex = s.sendStrictKex /\ t.sessionId = s.sessionId
  BY <1>1 DEF Switching, Advancing, Kept, Alive, Made, Exchanging
<1>3. Exchanging(t)
  BY <1>1, <1>2 DEF Exchanging, Hashed, Made
<1>4. Made(t) /\ \A k : Expecting(s, k) => Expecting(t, k)
  BY <1>2 DEF Made, Hashed, Expecting
<1> QED BY <1>1, <1>2, <1>3, <1>4, AdvancingHears DEF Made

LEMMA ClientSwitching ==
    ASSUME NEW s, NEW t, NEW p, NEW r, NEW n,
           InStep("client", s, r, n), Switching(s, t, p), Made(s),
           ~Sends(s, Requests \cup {"NEWKEYS"}), ~Sends(r, Answers),
           Alive(r) => Expecting(r, s.handshake.keys)
    PROVE  InStep("client", t, r, n)
<1> DEFINE e == "client"
<1>0. e \in Endpoints
  BY DEF Endpoints
<1>1. /\ IsSession(s) /\ Sealed(s, t, p) /\ Paired(s, r) /\ p.id = "NEWKEYS" /\ p.id \notin Requests
      /\ t.sessionId = s.sessionId /\ t.sessionId # NoKeys /\ t.keys = s.handshake.keys
  BY <1>0, InStepTypes, StringsDiffer DEF InStep, Switching, Advancing, Made
<1>2. /\ Mine(e, t) /\ Mine(Peer(e), r) /\ Hears(e, t, r, n) /\ Hears(Peer(e), r, t, r.peerSeq)
      /\ Alive(t) /\ Alive(s) /\ \A k : Expecting(s, k) => Expecting(t, k)
      /\ t.kexId = s.kexId
  BY <1>0, SwitchingMine DEF Made
<1>3. \A j \in 1..Len(t.out) : j = Len(t.out) \/ t.out[j].id \notin Requests \cup {"NEWKEYS"}
  BY <1>1, Extended DEF Sends
<1>4. Asked(t, r)
  BY <1>1, <1>3, Extended DEF Asked
<1>5. Answered(t, r)
  BY DEF Answered, Sends
<1>6. ClientSwitches(t, r)
  BY <1>1, <1>3, Extended DEF ClientSwitches
<1>7. ServerSwitches(t, r)
  BY <1>1, <1>2 DEF Paired, ServerSwitches
<1>8. ReplyMade(t, r) /\ Identified(t, r) /\ MarkerDue(t, r)
  BY <1>1, <1>2 DEF Paired, ReplyMade, Identified, MarkerDue
<1>9. Paired(t, r)
  BY <1>1, <1>2, <1>4, <1>5, <1>6, <1>7, <1>8 DEF Paired
<1> QED BY <1>2, <1>9 DEF InStep

LEMMA ServerSwitching ==
    ASSUME NEW s, NEW t, NEW p, NEW r, NEW n,
           InStep("server", s, r, n), Switching(s, t, p), Made(s),
           Len(s.out) >= 1, IsReply(s.out[Len(s.out)], s.kexId),
           s.out[Len(s.out)].hash = s.handshake.keys
    PROVE  InStep("server", t, r, n)
<1> DEFINE e == "server"
<1>0. e \in Endpoints
  BY DEF Endpoints
<1>1. /\ IsSession(s) /\ Sealed(s, t, p) /\ Paired(r, s) /\ p.id = "NEWKEYS" /\ p.id \notin Answers
      /\ t.sessionId = s.sessionId /\ t.keys = s.handshake.keys /\ t.handshake = s.handshake
  BY <1>0, InStepTypes, StringsDiffer DEF InStep, Switching, Advancing, Made
<1>2. /\ Mine(e, t) /\ Mine(Peer(e), r) /\ Hears(e, t, r, n) /\ Hears(Peer(e), r, t, r.peerSeq)
      /\ Alive(t) /\ Alive(s) /\ \A k : Expecting(s, k) => Expecting(t, k)
      /\ t.kexId = s.kexId /\ t.sendStrictKex = s.sendStrictKex
  BY <1>0, SwitchingMine DEF Made
<1>5. /\ Len(s.out) \in Nat /\ Len(t.out) = Len(s.out) + 1 /\ t.out[Len(t.out)] = p
      /\ \A j \in 1..Len(t.out) : j # Len(t.out) => j \in 1..Len(s.out) /\ t.out[j] = s.out[j]
      /\ \A j \in 1..Len(s.out) : t.out[j] = s.out[j] /\ j \in 1..Len(t.out) /\ j # Len(t.out)
      /\ \A j \in 0..Len(s.out) : NextKeys(t, j) = NextKeys(s, j)
      /\ NextKeys(t, Len(t.out)) = t.keys
  BY <1>1, Extended
<1>6. \A j \in 1..Len(t.out) : t.out[j].id \in Answers => j \in 1..Len(s.out) /\ t.out[j] = s.out[j]
  BY <1>1, <1>5
<1>7. Asked(r, t)
  <2>1. ~Sends(s, Answers) => ~Sends(t, Answers)
    BY <1>6 DEF Sends
  <2> QED BY <2>1, <1>1 DEF Paired, Asked
<1>8. Answered(r, t)
  <2> SUFFICES ASSUME NEW i \in 1..Len(t.out), t.out[i].id \in Answers
               PROVE  /\ \A j \in 1..Len(t.out) : t.out[j].id \in Answers => j = i
                      /\ ~Sends(r, Requests \cup {"NEWKEYS"})
                      /\ Alive(r) => Awaiting(r)
    BY DEF Answered
  <2>1. i \in 1..Len(s.out) /\ s.out[i].id \in Answers
    BY <1>6
  <2> QED BY <2>1, <1>1, <1>6 DEF Paired, Answered
<1>9. ClientSwitches(r, t)
  BY <1>1, <1>2 DEF Paired, ClientSwitches
<1>10. ServerSwitches(r, t)
  <2> SUFFICES ASSUME NEW j \in 1..Len(t.out), t.out[j].id = "NEWKEYS"
               PROVE  IF j > 1
                      THEN IsReply(t.out[j - 1], t.kexId) /\ t.out[j - 1].hash = NextKeys(t, j)
                      ELSE Alive(r) => Expecting(r, NextKeys(t, 1))
    BY DEF ServerSwitches
  <2>1. CASE j = Len(t.out)
    <3>1. j > 1 /\ j - 1 = Len(s.out) /\ j - 1 \in 1..Len(s.out)
      BY <2>1, <1>5
    <3> QED BY <3>1, <2>1, <1>1, <1>2, <1>5
  <2>2. CASE j # Len(t.out)
    <3>1. j \in 1..Len(s.out) /\ s.out[j].id = "NEWKEYS" /\ j \in 0..Len(s.out)
      BY <2>2, <1>5
    <3>2. IF j > 1
          THEN IsReply(s.out[j - 1], s.kexId) /\ s.out[j - 1].hash = NextKeys(s, j)
          ELSE Alive(r) => Expecting(r, NextKeys(s, 1))
      BY <3>1, <1>1 DEF Paired, ServerSwitches
    <3>3. CASE j > 1
      <4>1. j - 1 \in 1..Len(s.out)
        BY <3>1, <3>3
      <4> QED BY <4>1, <3>1, <3>2, <3>3, <1>2, <1>5
    <3>4. CASE ~(j > 1)
      <4>1. j = 1
        BY <3>4
      <4> QED BY <4>1, <3>1, <3>2, <1>5
    <3> QED BY <3>3, <3>4
  <2> QED BY <2>1, <2>2
<1>11. ReplyMade(r, t)
  <2> SUFFICES ASSUME NEW j \in 1..Len(t.out), IsReply(t.out[j], t.kexId)
               PROVE  /\ t.sessionId # NoKeys
                      /\ r.sessionId = NoKeys => t.out[j].hash = t.sessionId
                      /\ Alive(t) => Expecting(t, t.out[j].hash)
    BY DEF ReplyMade
  <2>1. j \in 1..Len(s.out) /\ t.out[j] = s.out[j]
    BY <1>6, ReplyIsAnswer
  <2> QED BY <2>1, <1>1, <1>2 DEF Paired, ReplyMade
<1>12. Identified(r, t)
  <2>1. Replies(s) => Replies(t)
    BY <1>2, <1>5 DEF Replies
  <2> QED BY <2>1, <1>1, <1>2 DEF Paired, Identified, Hashed
<1>13. MarkerDue(r, t)
  <2> SUFFICES ASSUME Alive(r), r.sessionId = NoKeys, NEW i \in 1..Len(t.out),
                      t.out[i].id = "KEXINIT", \A j \in 1..i : ~IsReply(t.out[j], t.kexId)
               PROVE  t.out[i].strict = t.sendStrictKex
    BY DEF MarkerDue
  <2>1. i \in 1..Len(s.out) /\ t.out[i] = s.out[i]
    BY <1>1, <1>5
  <2>2. \A j \in 1..i : j \in 1..Len(s.out) /\ t.out[j] = s.out[j]
    BY <2>1, <1>5
  <2> QED BY <2>1, <2>2, <1>1, <1>2 DEF Paired, MarkerDue
<1>14. Paired(r, t)
  BY <1>1, <1>2, <1>7, <1>8, <1>9, <1>10, <1>11, <1>12, <1>13 DEF Paired
<1> QED BY <1>2, <1>14 DEF InStep

\* The client verifies the server's reply and makes the keys.
Verifying(s, t) ==
    /\ Body(s, t)
    /\ t.useStrictKex = s.useStrictKex
    /\ t.sessionId = IF s.sessionId = NoKeys THEN s.handshake.hash ELSE s.sessionId
    /\ t.handshake.live = s.handshake.live /\ t.handshake.hash = s.handshake.hash
    /\ t.handshake.kexInit = s.handshake.kexInit
    /\ t.handshake.keys = s.handshake.hash
    /\ t.handshake.expectMsgId = "NEWKEYS"

LEMMA VerifyingInStep ==
    ASSUME NEW s, NEW t, NEW r, NEW q, NEW n,
           InStep("client", s, r, n), Taken(r, q), Verifying(s, t), Alive(s), Hashed(s),
           s.handshake.expectMsgId # "NEWKEYS",
           IsReply(r.out[1], r.kexId), r.out[1].hash = s.handshake.hash
    PROVE  /\ InStep("client", t, q, n + 1) /\ Made(t)
           /\ ~Sends(t, Requests \cup {"NEWKEYS"}) /\ ~Sends(q, Answers)
           /\ Alive(q) => Expecting(q, t.handshake.keys)
           /\ Newer(t.handshake.hash, s.keys)
<1> DEFINE e == "client"
           p == r.out[1]
<1>0. e \in Endpoints /\ Peer(e) \in Endpoints
  BY DEF Endpoints, Peer
<1>1. /\ IsSession(s) /\ IsSession(t) /\ IsSession(q) /\ IsSession(r) /\ Linked(s) /\ Rising(s)
      /\ Counted(e, s) /\ Exchanging(s) /\ Mine(e, s) /\ Paired(s, r)
  BY <1>0, InStepTypes DEF Verifying, Body, Kept, Taken, InStep
<1>2. /\ Alive(t) /\ Hashed(t) /\ t.keys = s.keys /\ t.kexCount = s.kexCount
      /\ t.useStrictKex = s.useStrictKex /\ t.sendStrictKex = s.sendStrictKex
      /\ t.peerKeys = s.peerKeys /\ t.kexId = s.kexId /\ t.out = s.out
      /\ t.handshake.hash = s.handshake.hash /\ t.handshake.live
      /\ Newer(s.handshake.hash, s.keys)
  BY <1>1 DEF Verifying, Body, Kept, Alive, Hashed, Exchanging
<1>3. p.id \in Answers /\ p.id \notin {"KEXINIT", "NEWKEYS"} /\ 1 \in 1..Len(r.out)
  BY ReplyIsAnswer, StringsDiffer DEF Taken
<1>4. Made(t)
  BY <1>2 DEF Made, Verifying, Hashed
<1>5. ~Sends(t, Requests \cup {"NEWKEYS"})
  BY <1>1, <1>2, <1>3 DEF Paired, Answered, Sends
<1>6. /\ \A j \in 1..Len(q.out) : q.out[j] = r.out[j + 1] /\ j + 1 \in 1..Len(r.out) /\ j + 1 # 1
      /\ \A j \in 1..Len(q.out) : NextKeys(q, j) = NextKeys(r, j + 1)
      /\ q.kexId = r.kexId /\ q.sessionId = r.sessionId /\ Len(q.out) \in Nat
      /\ \A j \in 1..Len(r.out) : j = 1 \/ (j - 1 \in 1..Len(q.out) /\ q.out[j - 1] = r.out[j])
  <2>1. \A j \in 1..Len(q.out) : j \in 0..Len(q.out) /\ j + 1 # 1
    OBVIOUS
  <2> QED BY <2>1 DEF Taken
<1>7. ~Sends(q, Answers)
  <2>1. \A j \in 1..Len(r.out) : r.out[j].id \in Answers => j = 1
    BY <1>1, <1>3 DEF Paired, Answered
  <2> QED BY <2>1, <1>6 DEF Sends
<1>8. r.sessionId # NoKeys /\ (s.sessionId = NoKeys => p.hash = r.sessionId)
      /\ (Alive(r) => Expecting(r, p.hash))
  BY <1>1, <1>3 DEF Paired, ReplyMade
<1>9. Alive(q) => Expecting(q, t.handshake.keys)
  <2>1. t.handshake.keys = p.hash
    BY DEF Verifying
  <2> QED BY <2>1, <1>8 DEF Expecting, Alive, Hashed, Taken
<1>10. Mine(e, t)
  <2>1. Linked(t) /\ Rising(t)
    BY <1>1, StreamSame DEF Verifying, Body
  <2>2. Counted(e, t)
    BY <1>1, <1>2 DEF Counted, Verifying
  <2>3. Exchanging(t)
    BY <1>2 DEF Exchanging, Verifying
  <2>4. MarkerSent(t)
    BY <1>4 DEF Made, MarkerSent
  <2> QED BY <2>1, <2>2, <2>3, <2>4, <1>1 DEF Mine
<1>11. Mine(Peer(e), q)
  BY <1>0, TakenMine DEF InStep
<1>12. Hears(e, t, q, n + 1)
  <2>1. Opens(t, q, n + 1)
    BY <1>0, <1>2, <1>3, TakeOpens
  <2>2. Later(e, t, q)
    <3>1. Later(e, s, q)
      BY LaterTaken DEF InStep, Hears
    <3> QED BY <3>1, <1>2 DEF Later
  <2>3. StrictAgreed(t, q)
    <3>1. StrictAgreed(s, q)
      BY StrictAgreedTaken DEF InStep, Hears
    <3> QED BY <3>1, <1>2 DEF StrictAgreed
  <2>4. Quiet(t, q)
    BY <1>3, QuietTaken DEF InStep, Hears
  <2> QED BY <2>1, <2>2, <2>3, <2>4 DEF Hears
<1>13. Hears(Peer(e), q, t, q.peerSeq)
  <2>1. Hears(Peer(e), q, s, q.peerSeq)
    <3>1. q.peerSeq = r.peerSeq
      BY DEF Taken
    <3> QED BY <3>1, TakenHears DEF InStep
  <2> QED BY <2>1, <1>1, HeardSame DEF Verifying, Body, Kept, Alive
<1>14. Asked(t, q) /\ ClientSwitches(t, q)
  BY <1>5 DEF Asked, ClientSwitches, Sends
<1>15. Answered(t, q)
  BY <1>7 DEF Answered, Sends
<1>16. ServerSwitches(t, q)
  <2> SUFFICES ASSUME NEW j \in 1..Len(q.out), q.out[j].id = "NEWKEYS"
               PROVE  IF j > 1
                      THEN IsReply(q.out[j - 1], q.kexId) /\ q.out[j - 1].hash = NextKeys(q, j)
                      ELSE Alive(t) => Expecting(t, NextKeys(q, 1))
    BY DEF ServerSwitches
  <2>1. IsReply(r.out[j], r.kexId) /\ r.out[j].hash = NextKeys(r, j + 1)
    <3>0. j + 1 \in 1..Len(r.out) /\ q.out[j] = r.out[j + 1] /\ j \in Nat /\ j >= 1
      BY <1>6
    <3>1. j + 1 \in 1..Len(r.out) /\ r.out[j + 1].id = "NEWKEYS" /\ j + 1 > 1 /\ (j + 1) - 1 = j
      BY <3>0
    <3> QED BY <3>1, <1>1 DEF Paired, ServerSwitches
  <2>2. CASE j > 1
    <3>1. j \in 1..Len(r.out) /\ j # 1
      BY <2>2, <1>6
    <3>2. q.out[j - 1] = r.out[j]
      BY <3>1, <1>6
    <3> QED BY <2>1, <2>2, <3>2, <1>6
  <2>3. CASE ~(j > 1)
    <3>1. j = 1
      BY <2>3
    <3>2. s.handshake.hash = NextKeys(q, 1)
      BY <3>1, <2>1, <1>6
    <3>3. Expecting(t, NextKeys(q, 1))
      BY <3>2, <1>2 DEF Expecting, Verifying
    <3> QED BY <3>1, <3>3
  <2> QED BY <2>2, <2>3
<1>17. ReplyMade(t, q)
  BY <1>7, ReplyIsAnswer DEF ReplyMade, Sends
<1>18. Identified(t, q)
  <2>1. t.sessionId # NoKeys /\ t.sessionId = q.sessionId
    <3>1. s.sessionId # NoKeys => s.sessionId = r.sessionId
      BY <1>1 DEF Paired, Identified
    <3> QED BY <3>1, <1>4, <1>6, <1>8 DEF Verifying, Made
  <2> QED BY <2>1 DEF Identified
<1>19. MarkerDue(t, q)
  BY <1>4 DEF MarkerDue, Made
<1>20. Paired(t, q)
  BY <1>1, <1>2, <1>6, <1>14, <1>15, <1>16, <1>17, <1>18, <1>19 DEF Paired
<1>21. InStep(e, t, q, n + 1)
  BY <1>10, <1>11, <1>12, <1>13, <1>20 DEF InStep
<1> QED BY <1>2, <1>4, <1>5, <1>7, <1>9, <1>21

\* The peer's NEWKEYS is accepted and the exchange is done with.
Accepting(s, t) ==
    /\ IsSession(t)
    /\ t.sendStrictKex = s.sendStrictKex /\ t.useStrictKex = s.useStrictKex
    /\ t.kexId = s.kexId /\ t.mark = s.mark /\ t.match = s.match /\ t.sessionId = s.sessionId
    /\ t.out = s.out /\ t.seq = s.seq /\ t.keys = s.keys /\ t.kexCount = s.kexCount
    /\ t.state = s.state /\ t.disconnected = s.disconnected /\ t.error = s.error
    /\ t.peerKeys = s.handshake.keys
    /\ t.isKeying = s.isKeying \ {"PEER"}
    /\ t.handshake = NoHandshake

LEMMA AcceptingInStep ==
    ASSUME NEW e \in Endpoints, NEW s, NEW t, NEW r, NEW q, NEW n,
           InStep(e, s, r, n), Taken(r, q), Accepting(s, t), Alive(s), Hashed(s),
           s.handshake.expectMsgId = "NEWKEYS", r.out[1].id = "NEWKEYS"
    PROVE  InStep(e, t, q, IF s.useStrictKex THEN 0 ELSE n + 1) /\ Alive(t) /\ ~Hashed(t)
<1> DEFINE p == r.out[1]
           m == IF s.useStrictKex THEN 0 ELSE n + 1
<1>1. /\ IsSession(s) /\ IsSession(t) /\ IsSession(q) /\ IsSession(r) /\ Linked(s) /\ Rising(s)
      /\ Counted(e, s) /\ Exchanging(s) /\ Mine(e, s) /\ Linked(r) /\ Peer(e) \in Endpoints
  BY InStepTypes, PeerPeer DEF Accepting, Taken, InStep, Mine
<1>2. /\ t.handshake.hash = NoKeys /\ t.handshake.expectMsgId = "NONE" /\ t.handshake.kexInit = 0
  BY DEF Accepting, NoHandshake, HandshakeInfoNew
<1>3. /\ Alive(t) /\ ~Hashed(t) /\ t.keys = s.keys /\ t.kexCount = s.kexCount
      /\ t.useStrictKex = s.useStrictKex /\ t.sendStrictKex = s.sendStrictKex
      /\ t.sessionId = s.sessionId /\ t.kexId = s.kexId /\ t.out = s.out
      /\ "SELF" \notin t.isKeying => "SELF" \notin s.isKeying
  BY <1>2 DEF Accepting, Alive, Hashed
<1>4. 1 \in 1..Len(r.out) /\ p.seq = n /\ p.id \notin Answers /\ p.id \notin Requests
      /\ ~IsReply(p, r.kexId)
  BY StringsDiffer, ReplyIsAnswer DEF Taken, InStep, Hears, Opens
<1>5. s.handshake.keys = NextKeys(r, 1)
  <2>1. CASE e = "client"
    <3>1. ServerSwitches(s, r)
      BY <2>1 DEF InStep, Paired
    <3>2. Expecting(s, NextKeys(r, 1))
      BY <3>1, <1>4 DEF ServerSwitches
    <3> QED BY <3>2 DEF Expecting
  <2>2. CASE e = "server"
    <3>1. ClientSwitches(r, s)
      BY <2>2 DEF InStep, Paired
    <3>2. Expecting(s, NextKeys(r, 1))
      BY <3>1, <1>4 DEF ClientSwitches
    <3> QED BY <3>2 DEF Expecting
  <2> QED BY <2>1, <2>2 DEF Endpoints
<1>6. m = NextSeq(r, 1)
  <2>1. p.strict = (s.sendStrictKex /\ r.sendStrictKex)
        /\ s.useStrictKex = (s.sendStrictKex /\ r.sendStrictKex)
    BY <1>4 DEF InStep, Hears, StrictAgreed
  <2>2. NextSeq(r, 1) = IF p.strict THEN 0 ELSE p.seq + 1
    BY <1>1, <1>4 DEF Linked
  <2> QED BY <2>1, <2>2, <1>4
<1>7. Mine(e, t)
  <2>1. Linked(t) /\ Rising(t)
    BY <1>1, StreamSame DEF Accepting
  <2>2. Counted(e, t)
    BY <1>1, <1>2, <1>3, SessionKeys, KeysOK DEF Counted
  <2>3. Exchanging(t)
    BY <1>2, <1>3 DEF Exchanging
  <2>4. MarkerSent(t)
    BY <1>1, <1>3 DEF Mine, MarkerSent
  <2> QED BY <2>1, <2>2, <2>3, <2>4, <1>1 DEF Mine
<1>8. Mine(Peer(e), q)
  BY <1>1, TakenMine DEF InStep
<1>9. Hears(e, t, q, m)
  <2>1. Opens(t, q, m)
    <3>1. 0 \in 0..Len(q.out) /\ 0 + 1 = 1
      BY DEF Taken
    <3>2. NextSeq(q, 0) = NextSeq(r, 1) /\ NextKeys(q, 0) = NextKeys(r, 1)
      BY <3>1 DEF Taken
    <3>3. t.peerKeys = s.handshake.keys
      BY DEF Accepting
    <3> QED BY <3>2, <3>3, <1>5, <1>6 DEF Opens
  <2>2. Later(e, t, q)
    <3>1. Later(e, s, q)
      BY LaterTaken DEF InStep, Hears
    <3>2. /\ s.handshake.hash[Other(e)] \in Nat /\ NoKeys[Other(e)] = 0 /\ q.kexCount \in Nat
          /\ \A j \in 1..Len(q.out) : q.out[j].kexInit \in Nat
      BY <1>1, SessionKeys, KeysOK DEF Packets
    <3> QED BY <3>1, <3>2, <1>2, <1>3 DEF Later
  <2>3. StrictAgreed(t, q)
    <3>1. StrictAgreed(s, q)
      BY StrictAgreedTaken DEF InStep, Hears
    <3> QED BY <3>1, <1>3 DEF StrictAgreed
  <2>4. Quiet(t, q)
    BY <1>3, QuietTaken DEF InStep, Hears
  <2> QED BY <2>1, <2>2, <2>3, <2>4 DEF Hears
<1>10. Hears(Peer(e), q, t, q.peerSeq)
  <2>1. Hears(Peer(e), q, s, q.peerSeq)
    <3>1. q.peerSeq = r.peerSeq
      BY DEF Taken
    <3> QED BY <3>1, TakenHears DEF InStep
  <2> QED BY <2>1, <1>1, <1>3, HeardSame DEF Accepting
<1>11. CASE e = "client"
  <2>1. Paired(s, q) /\ Paired(s, r)
    BY <1>4, <1>11, ServerStreamTaken DEF InStep
  <2>2. ~Awaiting(s)
    BY DEF Awaiting, Answers
  <2>3. Asked(t, q)
    BY <2>1, <2>2, <1>3 DEF Paired, Asked
  <2>4. Answered(t, q)
    BY <2>1, <2>2, <1>3 DEF Paired, Answered
  <2>5. ClientSwitches(t, q)
    <3>1. \A j : NextKeys(t, j) = NextKeys(s, j)
      BY <1>3 DEF NextKeys
    <3> QED BY <2>1, <3>1, <1>3 DEF Paired, ClientSwitches
  <2>6. ServerSwitches(t, q)
    <3>1. ASSUME NEW j \in 1..Len(q.out), q.out[j].id = "NEWKEYS" PROVE j > 1
      <4>0. j + 1 \in 1..Len(r.out) /\ q.out[j] = r.out[j + 1] /\ j \in Nat /\ j >= 1
        BY <3>1 DEF Taken
      <4>1. j + 1 \in 1..Len(r.out) /\ r.out[j + 1].id = "NEWKEYS" /\ j + 1 > 1 /\ (j + 1) - 1 = j
        BY <3>1, <4>0
      <4>2. IsReply(r.out[j], r.kexId)
        BY <4>1, <2>1 DEF Paired, ServerSwitches
      <4> QED BY <4>0, <4>2, <1>4
    <3> QED BY <3>1, <2>1 DEF Paired, ServerSwitches
  <2>7. ReplyMade(t, q) /\ Identified(t, q) /\ MarkerDue(t, q)
    BY <2>1, <1>3 DEF Paired, ReplyMade, Identified, MarkerDue
  <2>8. Paired(t, q)
    BY <2>1, <2>3, <2>4, <2>5, <2>6, <2>7, <1>3 DEF Paired
  <2> QED BY <2>8, <1>3, <1>7, <1>8, <1>9, <1>10, <1>11 DEF InStep
<1>12. CASE e = "server"
  <2>1. Paired(q, s) /\ Paired(r, s)
    BY <1>12, ClientStreamTaken DEF InStep
  <2>2. Asked(q, t) /\ Answered(q, t)
    BY <2>1, <1>3 DEF Paired, Asked, Answered, Sends
  <2>3. r.sessionId # NoKeys /\ q.sessionId = r.sessionId
        /\ \A j \in 1..Len(r.out) : r.out[j].id = "NEWKEYS" => j = 1
    BY <2>1, <1>4 DEF Paired, ClientSwitches, Taken
  <2>4. \A j \in 1..Len(q.out) : q.out[j].id # "NEWKEYS"
    <3>1. \A j \in 1..Len(q.out) : q.out[j] = r.out[j + 1] /\ j + 1 \in 1..Len(r.out) /\ j + 1 # 1
      BY DEF Taken
    <3> QED BY <3>1, <2>3
  <2>5. ClientSwitches(q, t)
    BY <2>4 DEF ClientSwitches
  <2>6. ServerSwitches(q, t)
    <3>1. \A j : NextKeys(t, j) = NextKeys(s, j)
      BY <1>3 DEF NextKeys
    <3> QED BY <2>1, <3>1, <1>3 DEF Paired, ServerSwitches
  <2>7. ReplyMade(q, t)
    <3>1. ~Sends(s, Answers)
      <4>1. Sends(r, Requests \cup {"NEWKEYS"})
        BY <1>4 DEF Sends
      <4> QED BY <4>1, <2>1 DEF Paired, Answered, Sends
    <3> QED BY <3>1, <1>3, ReplyIsAnswer DEF ReplyMade, Sends
  <2>8. Identified(q, t) /\ MarkerDue(q, t)
    BY <2>1, <2>3, <1>3 DEF Paired, Identified, MarkerDue
  <2>9. Paired(q, t)
    BY <2>1, <2>2, <2>5, <2>6, <2>7, <2>8, <1>3 DEF Paired
  <2> QED BY <2>9, <1>3, <1>7, <1>8, <1>9, <1>10, <1>12 DEF InStep
<1> QED BY <1>11, <1>12 DEF Endpoints

-----------------------------------------------------------------------------
(* The handlers.                                                           *)

\* The number at which a session that is over would go on does not matter.
LEMMA DeadAnywhere ==
    ASSUME NEW e, NEW s, NEW r, NEW n, NEW m, InStep(e, s, r, n), ~Alive(s)
    PROVE  InStep(e, s, r, m)
  BY DEF InStep, Hears, Opens

LEMMA MonoSame ==
    ASSUME NEW s, NEW t, IsSession(s), t.keys = s.keys, t.seq = s.seq, t.match = s.match
    PROVE  Mono(s, t)
  BY SessionKeys DEF Mono

\* What AtRest says of the session identifier.
Named(s) ==
    ("SELF" \notin s.isKeying /\ s.state # "VERSION_DONE") \/ s.state \in {"KEYED", "DONE"}
        => s.sessionId # NoKeys

LEMMA DeadRest ==
    ASSUME NEW e, NEW s, ~Alive(s), Begun(e, s), Named(s)
    PROVE  AtRest(e, s)
  BY DEF AtRest, Named

LEMMA RestNamed ==
    ASSUME NEW e, NEW s, AtRest(e, s)
    PROVE  Begun(e, s) /\ Named(s)
  BY DEF AtRest, Named

\* A step that takes the session to another state of connect() or accept().
Moved(s, t) ==
    /\ Kept(s, t) /\ t.peerSeq = s.peerSeq
    /\ t.useStrictKex = s.useStrictKex /\ t.sessionId = s.sessionId
    /\ t.disconnected = s.disconnected /\ t.error = s.error
    /\ t.out = s.out /\ t.seq = s.seq /\ t.keys = s.keys
    /\ t.kexCount = s.kexCount /\ t.handshake = s.handshake /\ t.isKeying = s.isKeying

LEMMA MovedInStep ==
    ASSUME NEW e \in Endpoints, NEW s, NEW t, NEW r, NEW n, InStep(e, s, r, n), Moved(s, t)
    PROVE  InStep(e, t, r, n) /\ Mono(s, t)
<1>1. IsSession(s) /\ IsSession(r) /\ Linked(s) /\ Rising(s) /\ Counted(e, s)
      /\ Exchanging(s) /\ Quiet(r, s)
  BY InStepTypes
<1>2. Linked(t) /\ Rising(t) /\ Grows(s, t)
  BY <1>1, StreamSame DEF Moved
<1>3. Alive(t) <=> Alive(s)
  BY DEF Moved, Alive
<1>4. Quiet(r, t)
  BY <1>1, <1>3, QuietSame DEF Moved, Kept
<1>5. Neutral(s, t)
  <2>1. s.kexCount \in Nat /\ s.handshake.kexInit <= s.kexCount
    BY <1>1, SessionKeys DEF Counted
  <2> QED BY <2>1, <1>2, <1>3 DEF Moved, Neutral, GoesOn
<1>6. InStep(e, t, r, n)
  BY <1>2, <1>4, <1>5, NeutralInStep
<1> QED BY <1>1, <1>6, MonoSame DEF Moved, Kept

LEMMA MovedRest ==
    ASSUME NEW e \in Endpoints, NEW s, NEW t, AtRest(e, s), Moved(s, t), Named(t)
    PROVE  AtRest(e, t)
  BY DEF AtRest, Begun, Moved, Kept, Named, Hashed, Alive

\* The switch of DoPacket() leaves the session t, having taken the packet.
Handled(e, s, t, q, m) ==
    /\ InStep(e, t, q, m)
    /\ AtRest(e, t) /\ Early(e, t)
    /\ Mono(s, t)
    /\ Alive(t) => t.peerSeq = s.peerSeq

\* The packet ended the session.
LEMMA DeadHandled ==
    ASSUME NEW e \in Endpoints, NEW s, NEW t, NEW r, NEW q, NEW n, NEW m,
           Leads(e, s, t, r, n), AtRest(e, s), Early(e, s), Taken(r, q), ~Alive(t)
    PROVE  Handled(e, s, t, q, m)
  BY TakeDead DEF Leads, Handled

\* The handler goes on to send.
LEMMA HandledFollows ==
    ASSUME NEW e \in Endpoints, NEW s, NEW t, NEW u, NEW q, NEW m, IsSession(s),
           Handled(e, s, t, q, m), Follows(e, t, u, q, m)
    PROVE  Handled(e, s, u, q, m)
<1>1. Leads(e, t, u, q, m) /\ IsSession(t) /\ IsSession(u)
  BY FollowsLeads, FollowsTypes, InStepTypes DEF Handled
<1>2. Mono(s, u)
  BY <1>1, MonoTrans DEF Leads, Handled
<1>3. Alive(u) => u.peerSeq = s.peerSeq
  BY DEF Follows, Keeps, Frame, Alive, Handled
<1> QED BY <1>1, <1>2, <1>3 DEF Handled, Leads

\* The end of DoPacket().
LEMMA ConsumePacketLeads ==
    ASSUME NEW e \in Endpoints, NEW s, NEW t, NEW q, NEW m, NEW done \in BOOLEAN,
           IsSession(s), Handled(e, s, t, q, m),
           Alive(t) => m = IF done /\ t.useStrictKex THEN 0 ELSE s.peerSeq + 1
    PROVE  LET u == ConsumePacket(t, done) IN
           InStep(e, u, q, u.peerSeq) /\ AtRest(e, u) /\ Early(e, u) /\ Mono(s, u)
<1> DEFINE z == IF done /\ t.useStrictKex THEN 0 ELSE t.peerSeq + 1
           k == [t EXCEPT !.peerSeq = z,
                          !.initialKexDone = @ \/ done,
                          !.rxMsgCount = @ + 1]
           u == HighwaterCheck(k)
<1>1. IsSession(t) /\ IsSession(q) /\ InStep(e, t, q, m)
  BY InStepTypes DEF Handled
<1>2. ConsumePacket(t, done) = u
  BY <1>1 DEF ConsumePacket
<1> HIDE DEF z
<1>3. Tweaked(t, k) /\ k.peerSeq = z
  BY <1>1 DEF Tweaked, Frame, Kept, IsSession, Fields
<1> HIDE DEF k
<1>4. InStep(e, k, q, m) /\ AtRest(e, k) /\ IsSession(k)
  BY <1>1, <1>3, TweakedInStep, InStepTypes DEF Handled
<1>5. Early(e, k)
  BY <1>3 DEF Early, Tweaked, Frame, Handled
<1>6. Mono(s, k)
  BY <1>3 DEF Mono, Handled, Tweaked, Frame, Kept
<1>7. Follows(e, k, u, q, m)
  BY <1>4, HighwaterCheckFollows
<1> HIDE DEF u
<1>8. Leads(e, k, u, q, m) /\ IsSession(u)
  BY <1>7, FollowsLeads, FollowsTypes
<1>9. Mono(s, u)
  BY <1>4, <1>6, <1>8, MonoTrans DEF Leads
<1>10. u.peerSeq = z /\ (Alive(u) => Alive(t))
  BY <1>3, <1>7 DEF Follows, Keeps, Frame, Tweaked, Alive
<1>11. Alive(u) => u.peerSeq = m
  BY <1>10 DEF Handled, z
<1>12. InStep(e, u, q, u.peerSeq)
  <2>1. InStep(e, u, q, m)
    BY <1>8 DEF Leads
  <2>2. CASE Alive(u)
    BY <2>1, <2>2, <1>11
  <2>3. CASE ~Alive(u)
    BY <2>1, <2>3, DeadAnywhere
  <2> QED BY <2>2, <2>3
<1> QED BY <1>2, <1>4, <1>5, <1>8, <1>9, <1>12 DEF Leads

----------------------------------------------------------------------------
(* SendNewKeys().                                                          *)

\* SendNewKeys() up to its high water check.
SendNewKeysPacket(s) ==
    LET b == BundlePacket(s, [Packet("NEWKEYS") EXCEPT !.strict = s.useStrictKex])
    IN  [b EXCEPT !.seq = IF s.useStrictKex THEN 0 ELSE @,
                  !.keys = s.handshake.keys,
                  !.txCount = 0]

LEMMA SendNewKeysPacketSwitches ==
    ASSUME NEW s, IsSession(s), Made(s)
    PROVE  /\ \E p : Switching(s, SendNewKeysPacket(s), p)
           /\ SendNewKeysPacket(s).peerSeq = s.peerSeq
<1> DEFINE p == [Packet("NEWKEYS") EXCEPT !.strict = s.useStrictKex]
           b == BundlePacket(s, p)
           z == IF s.useStrictKex THEN 0 ELSE b.seq
           k == [b EXCEPT !.seq = z, !.keys = s.handshake.keys, !.txCount = 0]
<1>1. SendNewKeysPacket(s) = k
  BY DEF SendNewKeysPacket
<1>2. p \in Packets /\ p.id = "NEWKEYS" /\ p.strict = s.useStrictKex
  <2>1. "NEWKEYS" \in MsgIds
    BY DEF MsgIds, Trans
  <2>2. Packet("NEWKEYS") \in Packets /\ Packet("NEWKEYS").id = "NEWKEYS"
    BY <2>1, PacketOK
  <2>3. s.useStrictKex \in BOOLEAN
    BY SessionKeys
  <2> QED BY <2>2, <2>3 DEF Packets
<1> HIDE DEF p
<1>3. /\ Frame(s, b) /\ b.peerSeq = s.peerSeq
      /\ Sealed(s, b, Seal(s, p)) /\ b.seq = s.seq + 1 /\ b.keys = s.keys
      /\ b.kexCount = s.kexCount /\ b.handshake = s.handshake /\ b.isKeying = s.isKeying
  BY <1>2, BundlePacketFields
<1>4. Seal(s, p).id = "NEWKEYS" /\ Seal(s, p).strict = s.useStrictKex
  BY <1>2, SealOK
<1> HIDE DEF b
<1>5. s.seq \in Nat /\ s.handshake.keys \in Keys /\ z \in Nat
      /\ z = IF s.useStrictKex THEN 0 ELSE s.seq + 1
  BY <1>3, SessionKeys
<1> HIDE DEF z
<1>6. /\ DOMAIN k = Fields
      /\ k.out = b.out /\ k.seq = z /\ k.keys = s.handshake.keys
      /\ k.kexCount = b.kexCount /\ k.handshake = b.handshake /\ k.isKeying = b.isKeying
      /\ k.peerKeys = b.peerKeys /\ k.sendStrictKex = b.sendStrictKex
      /\ k.kexId = b.kexId /\ k.mark = b.mark /\ k.match = b.match
      /\ k.useStrictKex = b.useStrictKex
      /\ k.sessionId = b.sessionId /\ k.disconnected = b.disconnected
      /\ k.error = b.error /\ k.state = b.state /\ k.peerSeq = b.peerSeq
  BY <1>3 DEF Frame, Kept, IsSession, Fields
<1> HIDE DEF k
<1>7. IsSession(b)
  BY <1>3 DEF Frame, Kept
<1>8. IsSession(k)
  BY <1>5, <1>6, <1>7 DEF IsSession
<1>9. Kept(s, k) /\ k.useStrictKex = s.useStrictKex /\ k.sessionId = s.sessionId
      /\ k.disconnected = s.disconnected /\ k.error = s.error /\ k.state = s.state
      /\ k.handshake = s.handshake /\ k.isKeying = s.isKeying /\ k.kexCount = s.kexCount
  BY <1>3, <1>6, <1>8 DEF Frame, Kept
<1>10. Sealed(s, k, Seal(s, p))
  BY <1>3, <1>6 DEF Sealed
<1>11. Advancing(s, k, Seal(s, p))
  BY <1>4, <1>5, <1>6, <1>9, <1>10 DEF Advancing, Made
<1>12. Switching(s, k, Seal(s, p))
  BY <1>4, <1>9, <1>11 DEF Switching
<1> QED BY <1>1, <1>3, <1>6, <1>12

\* SELF_IS_KEYING is cleared when NEWKEYS is out.
LEMMA NotBetweenAtNewKeys ==
    ASSUME NEW s, NEW h, IsSession(s), Len(s.out) >= 1, s.out[Len(s.out)].id = "NEWKEYS"
    PROVE  ~Between(s.out, Len(s.out), h)
<1>1. Len(s.out) \in Nat
  BY SessionKeys
<1> SUFFICES ASSUME Between(s.out, Len(s.out), h) PROVE FALSE
  OBVIOUS
<1>2. CASE \A k \in 1..Len(s.out) : s.out[k].id # "NEWKEYS"
  BY <1>1, <1>2
<1>3. CASE \E i \in 1..Len(s.out) :
              s.out[i].id = "KEXINIT" /\ \A k \in (i + 1)..Len(s.out) : s.out[k].id # "NEWKEYS"
  <2>1. PICK i \in 1..Len(s.out) :
              s.out[i].id = "KEXINIT" /\ \A k \in (i + 1)..Len(s.out) : s.out[k].id # "NEWKEYS"
    BY <1>3
  <2>2. i # Len(s.out)
    BY <2>1
  <2>3. Len(s.out) \in (i + 1)..Len(s.out)
    BY <1>1, <2>2
  <2> QED BY <2>1, <2>3
<1> QED BY <1>2, <1>3 DEF Between

LEMMA ClearSelf ==
    ASSUME NEW e \in Endpoints, NEW k, NEW r, NEW n, InStep(e, k, r, n), Made(k),
           k.keys = k.handshake.keys, "PEER" \in k.isKeying,
           Len(k.out) >= 1, k.out[Len(k.out)].id = "NEWKEYS"
    PROVE  LET f == HighwaterCheck(k)
               w == [f EXCEPT !.isKeying = @ \ {"SELF"}]
           IN  /\ InStep(e, w, r, n) /\ AtRest(e, w) /\ Mono(k, w)
               /\ Alive(w) /\ w.state = k.state /\ w.peerSeq = k.peerSeq
<1> DEFINE f == HighwaterCheck(k)
           w == [f EXCEPT !.isKeying = @ \ {"SELF"}]
<1>1. Follows(e, k, f, r, n) /\ IsSession(f) /\ InStep(e, f, r, n) /\ IsSession(k) /\ IsSession(r)
  BY HighwaterCheckFollows, FollowsTypes, InStepTypes
<1>2. Unmarked(k) => Tweaked(k, f)
  BY <1>1, HighwaterCheckUnmarked
<1> HIDE DEF f
<1>3. /\ DOMAIN w = Fields
      /\ w.out = f.out /\ w.seq = f.seq /\ w.keys = f.keys
      /\ w.kexCount = f.kexCount /\ w.handshake = f.handshake
      /\ w.isKeying = f.isKeying \ {"SELF"}
      /\ w.peerKeys = f.peerKeys /\ w.sendStrictKex = f.sendStrictKex
      /\ w.kexId = f.kexId /\ w.mark = f.mark /\ w.match = f.match
      /\ w.useStrictKex = f.useStrictKex
      /\ w.sessionId = f.sessionId /\ w.disconnected = f.disconnected
      /\ w.error = f.error /\ w.state = f.state /\ w.peerSeq = f.peerSeq
  BY <1>1 DEF IsSession, Fields
<1> HIDE DEF w
<1>4. IsSession(w)
  BY <1>1, <1>3 DEF IsSession
<1>5. /\ Exchanging(k) /\ Linked(f) /\ Rising(f) /\ Counted(e, f) /\ Quiet(r, f)
  BY <1>1, InStepTypes
<1>6. k.handshake.live /\ Alive(k) /\ Hashed(k)
  BY <1>5 DEF Made, Exchanging
<1>7. /\ Alive(w) /\ Hashed(w) /\ w.handshake.live /\ w.state = k.state /\ w.peerSeq = k.peerSeq
      /\ w.handshake.expectMsgId = "NEWKEYS" /\ w.keys = w.handshake.keys
      /\ w.sessionId # NoKeys /\ "PEER" \in w.isKeying /\ "SELF" \notin w.isKeying
      /\ w.keys = k.keys /\ w.seq = f.seq /\ f.seq >= k.seq
  BY <1>1, <1>3, <1>6 DEF Follows, Keeps, Frame, Made, Alive, Hashed
<1>8. Linked(w) /\ Rising(w) /\ Grows(f, w)
  BY <1>1, <1>3, <1>5, StreamSame
<1>9. Quiet(r, w)
  <2>1. Unmarked(w) => f.out = k.out
    BY <1>1, <1>2, <1>3 DEF Tweaked, Follows, Keeps, Frame, Kept, Unmarked
  <2>2. ~Between(k.out, Len(k.out), Hashed(r))
    BY <1>1, NotBetweenAtNewKeys
  <2>3. Unmarked(w) => ~Between(w.out, Len(w.out), Hashed(r))
    BY <2>1, <2>2, <1>3
  <2>4. Unmarked(w) => Unmarked(f)
    BY <1>3 DEF Unmarked
  <2> QED BY <2>3, <2>4, <1>3, <1>5 DEF Quiet
<1>10. Neutral(f, w)
  <2>1. f.kexCount \in Nat /\ f.handshake.kexInit <= f.kexCount
    BY <1>1, <1>5, SessionKeys DEF Counted
  <2> QED BY <2>1, <1>3, <1>4, <1>8 DEF Neutral, Kept, GoesOn, Alive
<1>11. InStep(e, w, r, n)
  BY <1>1, <1>8, <1>9, <1>10, NeutralInStep
<1>12. AtRest(e, w)
  BY <1>7 DEF AtRest, Begun
<1>13. Mono(k, w)
  <2>1. w.match = k.match
    BY <1>1, <1>3 DEF Follows, Keeps, Frame, Kept
  <2> QED BY <2>1, <1>7 DEF Mono
<1> QED BY <1>7, <1>11, <1>12, <1>13 DEF w, f

\* All of SendNewKeys(), from where its packet is out.
LEMMA SendNewKeysHandled ==
    ASSUME NEW e \in Endpoints, NEW s, NEW r, NEW n, NEW p,
           IsSession(s), Made(s), "PEER" \in s.isKeying,
           Switching(s, SendNewKeysPacket(s), p), InStep(e, SendNewKeysPacket(s), r, n)
    PROVE  LET t == SendNewKeys(s) IN
           /\ InStep(e, t, r, n) /\ AtRest(e, t) /\ Mono(SendNewKeysPacket(s), t)
           /\ Alive(t) /\ t.state = s.state /\ t.peerSeq = s.peerSeq
<1> DEFINE k == SendNewKeysPacket(s)
           w == [HighwaterCheck(k) EXCEPT !.isKeying = @ \ {"SELF"}]
           t == SendPendingChannelWindowAdjust(w)
<1>1. SendNewKeys(s) = t
  BY DEF SendNewKeys, SendNewKeysPacket
<1>2. k.peerSeq = s.peerSeq
  BY SendNewKeysPacketSwitches
<1> HIDE DEF k
<1>3. Switching(s, k, p) /\ InStep(e, k, r, n) /\ IsSession(k)
  BY InStepTypes DEF k
<1>4. Made(k) /\ k.keys = k.handshake.keys /\ "PEER" \in k.isKeying /\ k.state = s.state
  BY <1>3 DEF Switching, Advancing, Made, Alive, Hashed
<1>5. Len(k.out) >= 1 /\ k.out[Len(k.out)].id = "NEWKEYS"
  <2>1. Sealed(s, k, p) /\ p.id = "NEWKEYS"
    BY <1>3 DEF Switching, Advancing
  <2> QED BY <2>1, Extended
<1>6. /\ InStep(e, w, r, n) /\ AtRest(e, w) /\ Mono(k, w)
      /\ Alive(w) /\ w.state = k.state /\ w.peerSeq = k.peerSeq
  BY <1>3, <1>4, <1>5, ClearSelf
<1> HIDE DEF w
<1>7. Follows(e, w, t, r, n) /\ IsSession(w)
  BY <1>6, SendPendingChannelWindowAdjustFollows, InStepTypes DEF Alive
<1> HIDE DEF t
<1>8. Leads(e, w, t, r, n) /\ IsSession(t)
  BY <1>7, FollowsLeads, FollowsTypes
<1>9. Mono(k, t)
  BY <1>3, <1>6, <1>7, <1>8, MonoTrans DEF Leads
<1>10. Alive(t) /\ t.state = s.state /\ t.peerSeq = s.peerSeq
  BY <1>2, <1>4, <1>6, <1>7 DEF Follows, Keeps, Frame, Alive
<1> QED BY <1>1, <1>6, <1>8, <1>9, <1>10 DEF Leads, k

----------------------------------------------------------------------------
(* The requests of the client and the answers of the server.               *)

\* Nothing but the expected message changes.
Expects(s, t, x) ==
    /\ Frame(s, t) /\ t.peerSeq = s.peerSeq
    /\ t.out = s.out /\ t.seq = s.seq /\ t.keys = s.keys
    /\ t.kexCount = s.kexCount /\ t.isKeying = s.isKeying
    /\ t.handshake.live = s.handshake.live /\ t.handshake.hash = s.handshake.hash
    /\ t.handshake.kexInit = s.handshake.kexInit /\ t.handshake.keys = s.handshake.keys
    /\ t.handshake.expectMsgId = x

LEMMA SetExpectFields ==
    ASSUME NEW s, NEW x \in MsgIds \cup {"NONE"}, IsSession(s)
    PROVE  Expects(s, SetExpect(s, x), x)
           /\ SetExpect(s, x).handshake = [s.handshake EXCEPT !.expectMsgId = x]
<1> DEFINE h == [s.handshake EXCEPT !.expectMsgId = x]
           t == [s EXCEPT !.handshake = h]
<1>1. SetExpect(s, x) = t
  BY DEF SetExpect
<1>2. /\ h \in Handshake
      /\ h.live = s.handshake.live /\ h.hash = s.handshake.hash /\ h.keys = s.handshake.keys
      /\ h.kexInit = s.handshake.kexInit /\ h.expectMsgId = x
  BY ExpectFields DEF IsSession
<1> HIDE DEF h
<1>3. /\ DOMAIN t = Fields
      /\ t.out = s.out /\ t.seq = s.seq /\ t.keys = s.keys
      /\ t.kexCount = s.kexCount /\ t.handshake = h /\ t.isKeying = s.isKeying
      /\ t.peerKeys = s.peerKeys /\ t.sendStrictKex = s.sendStrictKex
      /\ t.kexId = s.kexId /\ t.mark = s.mark /\ t.match = s.match
      /\ t.useStrictKex = s.useStrictKex
      /\ t.sessionId = s.sessionId /\ t.disconnected = s.disconnected
      /\ t.error = s.error /\ t.state = s.state /\ t.peerSeq = s.peerSeq
  BY DEF IsSession, Fields
<1> HIDE DEF t
<1>4. IsSession(t)
  BY <1>2, <1>3 DEF IsSession
<1> QED BY <1>1, <1>2, <1>3, <1>4 DEF Expects, Frame, Kept, h

LEMMA ExpectsTrans ==
    ASSUME NEW s, NEW t, NEW u, NEW x, NEW y, Expects(s, t, x), Expects(t, u, y)
    PROVE  Expects(s, u, y)
  BY DEF Expects, Frame, Kept

LEMMA IdsOK ==
    /\ Requests \cup Answers \cup {"NEWKEYS", "KEXINIT"} \subseteq MsgIds
    /\ Trans \subseteq MsgIds
    /\ "NONE" \notin Requests \cup Answers \cup {"NEWKEYS"}
  BY DEF Requests, Answers, MsgIds, Trans, TransKex

\* The message is sent, up to the high water check.
LEMMA BundleAdvances ==
    ASSUME NEW s, NEW u, NEW x, NEW p \in Packets, IsSession(s), Expects(s, u, x),
           p.id \in Requests \cup Answers
    PROVE  LET b == BundlePacket(u, p) IN
           /\ Advancing(s, b, Seal(u, p)) /\ Seal(u, p).id = p.id /\ Seal(u, p).hash = p.hash
           /\ b.sessionId = s.sessionId /\ b.peerSeq = s.peerSeq
           /\ b.handshake.expectMsgId = x /\ b.handshake.keys = s.handshake.keys
           /\ Mono(s, b)
<1> DEFINE b == BundlePacket(u, p)
<1>1. IsSession(u)
  BY DEF Expects, Frame, Kept
<1>2. /\ Frame(u, b) /\ b.peerSeq = u.peerSeq
      /\ Sealed(u, b, Seal(u, p)) /\ b.seq = u.seq + 1 /\ b.keys = u.keys
      /\ b.kexCount = u.kexCount /\ b.handshake = u.handshake /\ b.isKeying = u.isKeying
  BY <1>1, BundlePacketFields
<1>3. Seal(u, p).id = p.id /\ Seal(u, p).hash = p.hash
  BY <1>1, SealOK
<1> HIDE DEF b
<1>4. Sealed(s, b, Seal(u, p))
  BY <1>2 DEF Sealed, Expects
<1>5. Kept(s, b)
  BY <1>2 DEF Frame, Kept, Expects
<1>6. Advancing(s, b, Seal(u, p))
  BY <1>2, <1>3, <1>4, <1>5, StringsDiffer DEF Frame, Expects, Advancing
<1>7. Mono(s, b)
  BY <1>2, <1>5, SessionKeys DEF Mono, Expects, Kept
<1> QED BY <1>2, <1>3, <1>6, <1>7 DEF Frame, Expects, b

LEMMA AdvancingRest ==
    ASSUME NEW e \in Endpoints, NEW s, NEW t, NEW p, AtRest(e, s), Alive(s), Hashed(s),
           Advancing(s, t, p), p.id # "NEWKEYS", t.sessionId = s.sessionId,
           t.handshake.expectMsgId \notin {"NONE", "NEWKEYS"}
    PROVE  AtRest(e, t) /\ Alive(t) /\ t.state = s.state
  BY DEF AtRest, Begun, Advancing, Alive, Hashed

\* SendPacket() of a request, and of a group, in a handler of session s.
LEMMA SentOn ==
    ASSUME NEW e \in Endpoints, NEW s, NEW b, NEW r, NEW n, IsSession(s),
           InStep(e, b, r, n), AtRest(e, b), Alive(b), b.state = s.state, Mono(s, b),
           b.peerSeq = s.peerSeq
    PROVE  LET t == HighwaterCheck(b) IN
           /\ InStep(e, t, r, n) /\ AtRest(e, t) /\ Alive(t) /\ t.state = s.state /\ Mono(s, t)
           /\ t.peerSeq = s.peerSeq
<1> DEFINE t == HighwaterCheck(b)
<1>1. Follows(e, b, t, r, n) /\ IsSession(b)
  BY HighwaterCheckFollows, InStepTypes
<1> HIDE DEF t
<1>2. Leads(e, b, t, r, n) /\ IsSession(t)
  BY <1>1, FollowsLeads, FollowsTypes
<1>3. Mono(s, t)
  BY <1>1, <1>2, MonoTrans DEF Leads
<1>4. Alive(t) /\ t.state = s.state /\ t.peerSeq = s.peerSeq
  BY <1>1 DEF Follows, Keeps, Frame, Alive
<1> QED BY <1>2, <1>3, <1>4 DEF Leads, t

LEMMA RequestSent ==
    ASSUME NEW s, NEW u, NEW r, NEW n, NEW x \in Answers, NEW id \in Requests,
           InStep("client", s, r, n), AtRest("client", s), Alive(s), Hashed(s),
           s.handshake.expectMsgId # "NEWKEYS", ~Sends(s, Requests), ~Sends(r, Answers),
           Expects(s, u, x)
    PROVE  LET t == SendPacket(u, Packet(id)) IN
           /\ InStep("client", t, r, n) /\ AtRest("client", t) /\ Alive(t)
           /\ t.state = s.state /\ Mono(s, t) /\ t.peerSeq = s.peerSeq
<1> DEFINE p == Packet(id)
           b == BundlePacket(u, p)
<1>0. "client" \in Endpoints
  BY DEF Endpoints
<1>1. IsSession(s) /\ p \in Packets /\ p.id = id
  BY <1>0, InStepTypes, IdsOK, PacketOK
<1> HIDE DEF p
<1>2. /\ Advancing(s, b, Seal(u, p)) /\ Seal(u, p).id = id
      /\ b.sessionId = s.sessionId /\ b.peerSeq = s.peerSeq
      /\ b.handshake.expectMsgId = x /\ Mono(s, b)
  BY <1>1, BundleAdvances
<1> HIDE DEF b
<1>3. Requesting(s, b, Seal(u, p))
  BY <1>2 DEF Requesting
<1>4. InStep("client", b, r, n)
  BY <1>3, RequestingInStep
<1>5. AtRest("client", b) /\ Alive(b) /\ b.state = s.state
  <2>1. x \notin {"NONE", "NEWKEYS"} /\ id # "NEWKEYS"
    BY IdsOK, StringsDiffer
  <2> QED BY <2>1, <1>0, <1>2, AdvancingRest
<1> QED BY <1>0, <1>1, <1>2, <1>4, <1>5, SentOn DEF SendPacket, b, p

\* StartKexDh(), when the client expects nothing yet.
LEMMA StartKexDhSent ==
    ASSUME NEW s, NEW r, NEW n,
           InStep("client", s, r, n), AtRest("client", s), Alive(s), Hashed(s),
           s.handshake.expectMsgId = "NONE"
    PROVE  LET t == StartKexDh(s) IN
           /\ InStep("client", t, r, n) /\ AtRest("client", t) /\ Alive(t)
           /\ t.state = s.state /\ Mono(s, t) /\ t.peerSeq = s.peerSeq
<1>0. "client" \in Endpoints
  BY DEF Endpoints
<1>1. IsSession(s) /\ Paired(s, r)
  BY <1>0, InStepTypes DEF InStep
<1>2. ~Awaiting(s)
  BY IdsOK DEF Awaiting
<1>3. ~Sends(s, Requests) /\ ~Sends(r, Answers)
  BY <1>1, <1>2 DEF Paired, Asked, Answered, Sends
<1>4. \A x \in Answers : Expects(s, SetExpect(s, x), x)
  BY <1>1, IdsOK, SetExpectFields
<1>5. "KEXDH_REPLY" \in Answers /\ "GEX_REQUEST" \in Requests /\ "KEXDH_INIT" \in Requests
      /\ s.handshake.expectMsgId # "NEWKEYS"
  BY DEF Answers, Requests
<1>6. CASE s.kexId = "GEX"
  <2>1. StartKexDh(s) = SendPacket(SetExpect(s, "KEXDH_REPLY"), Packet("GEX_REQUEST"))
    BY <1>6 DEF StartKexDh, SendKexDhGexRequest
  <2> QED BY <2>1, <1>3, <1>4, <1>5, RequestSent
<1>7. CASE s.kexId # "GEX"
  <2>1. StartKexDh(s) = SendPacket(SetExpect(s, "KEXDH_REPLY"), Packet("KEXDH_INIT"))
    BY <1>7 DEF StartKexDh, SendKexDhInit
  <2> QED BY <2>1, <1>3, <1>4, <1>5, RequestSent
<1> QED BY <1>6, <1>7

----------------------------------------------------------------------------
(* The messages of a key exchange arrive.                                  *)

\* s, which is alive and between handlers, takes the first packet of r.
Takes(e, s, r, q, n) ==
    /\ InStep(e, s, r, n) /\ AtRest(e, s) /\ Early(e, s)
    /\ Alive(s) /\ s.peerSeq = n
    /\ Taken(r, q)

\* The filter lets a message of the exchange through only when it is the
\* one that is expected.
LEMMA ExpectedMessage ==
    ASSUME NEW e \in Endpoints, NEW s, NEW r, NEW q, NEW n, NEW id \in Trans,
           Takes(e, s, r, q, n), IsMessageAllowed(e, s, id), id # "KEXINIT"
    PROVE  /\ Hashed(s) /\ s.handshake.live /\ "PEER" \in s.isKeying
           /\ s.handshake.expectMsgId = id
           /\ ClearExpect(s, id) = SetExpect(s, "NONE")
           /\ Expects(s, ClearExpect(s, id), "NONE") /\ IsSession(s)
           /\ id \notin NeverAllowed(e)
<1>1. IsSession(s) /\ Exchanging(s)
  BY InStepTypes DEF Takes
<1>2. KexMessageAllowed(e, s, id) /\ id \notin NeverAllowed(e)
  BY DEF IsMessageAllowed
<1>3. "PEER" \in s.isKeying
  BY <1>2 DEF KexMessageAllowed
<1>4. Hashed(s)
  BY <1>3 DEF Takes, AtRest
<1>5. s.handshake.live
  BY <1>1, <1>4 DEF Takes, Exchanging
<1>6. s.handshake.expectMsgId # "NONE"
  <2>1. CASE e = "server"
    BY <2>1, <1>4 DEF Takes, AtRest
  <2>2. CASE e = "client"
    BY <2>2, <1>2, <1>3 DEF KexMessageAllowed
  <2> QED BY <2>1, <2>2 DEF Endpoints
<1>7. s.handshake.expectMsgId = id
  BY <1>2, <1>3, <1>5, <1>6 DEF KexMessageAllowed
<1>8. ClearExpect(s, id) = SetExpect(s, "NONE")
  BY <1>5, <1>7 DEF ClearExpect
<1>9. Expects(s, SetExpect(s, "NONE"), "NONE")
  BY <1>1, SetExpectFields
<1> QED BY <1>1, <1>2, <1>3, <1>4, <1>5, <1>7, <1>8, <1>9

\* A request at the server: the only one, and the client is waiting.
LEMMA RequestTaken ==
    ASSUME NEW s, NEW r, NEW q, NEW n, Takes("server", s, r, q, n), r.out[1].id \in Requests
    PROVE  /\ InStep("server", s, q, n + 1)
           /\ ~Sends(s, Answers) /\ ~Sends(q, Requests \cup {"NEWKEYS"})
           /\ Alive(q) => Awaiting(q)
<1>0. "server" \in Endpoints /\ "server" # "client"
  BY DEF Endpoints
<1>1. r.out[1].id \notin {"KEXINIT", "NEWKEYS"}
  BY StringsDiffer
<1>2. InStep("server", s, q, n + 1)
  BY <1>0, <1>1, TakePlain DEF Takes
<1>3. Asked(r, s) /\ 1 \in 1..Len(r.out)
  BY <1>0 DEF Takes, InStep, Paired, Taken
<1>4. /\ \A j \in 1..Len(r.out) : r.out[j].id \in Requests => j = 1
      /\ \A j \in 1..Len(r.out) : r.out[j].id = "NEWKEYS" => j < 1
      /\ ~Sends(s, Answers)
      /\ Alive(r) => Awaiting(r)
  BY <1>3 DEF Asked
<1>5. \A j \in 1..Len(q.out) : q.out[j] = r.out[j + 1] /\ j + 1 \in 1..Len(r.out)
                               /\ j + 1 # 1 /\ ~(j + 1 < 1)
  BY DEF Takes, Taken
<1>6. ~Sends(q, Requests \cup {"NEWKEYS"})
  BY <1>4, <1>5 DEF Sends
<1>7. Alive(q) => Awaiting(q)
  BY <1>4 DEF Takes, Taken, Alive, Awaiting, Hashed
<1> QED BY <1>2, <1>4, <1>6, <1>7

\* SendKexDhGexGroup()
LEMMA GroupHandled ==
    ASSUME NEW s, NEW r, NEW q, NEW n, Takes("server", s, r, q, n),
           r.out[1].id = "GEX_REQUEST", IsMessageAllowed("server", s, "GEX_REQUEST")
    PROVE  Handled("server", s, SendKexDhGexGroup(ClearExpect(s, "GEX_REQUEST")), q, n + 1)
<1> DEFINE e == "server"
           c == ClearExpect(s, "GEX_REQUEST")
           u == SetExpect(c, "GEX_INIT")
           p == Packet("KEXDH_REPLY")
           b == BundlePacket(u, p)
<1>0. e \in Endpoints /\ "GEX_REQUEST" \in Trans /\ "GEX_REQUEST" \in Requests
      /\ "KEXDH_REPLY" \in Answers /\ "GEX_INIT" \in MsgIds
  BY IdsOK DEF Endpoints, Trans, TransKex, Requests, Answers
<1>1. /\ Hashed(s) /\ s.handshake.expectMsgId = "GEX_REQUEST" /\ Expects(s, c, "NONE")
      /\ IsSession(s)
  BY <1>0, ExpectedMessage
<1>2. SendKexDhGexGroup(c) = HighwaterCheck(b)
  BY DEF SendKexDhGexGroup, SendPacket
<1> HIDE DEF c
<1>3. IsSession(c)
  BY <1>1 DEF Expects, Frame, Kept
<1>4. Expects(s, u, "GEX_INIT")
  BY <1>0, <1>1, <1>3, SetExpectFields, ExpectsTrans
<1>5. p \in Packets /\ p.id = "KEXDH_REPLY" /\ p.id \in Answers
  BY <1>0, IdsOK, PacketOK
<1> HIDE DEF u, p
<1>6. /\ Advancing(s, b, Seal(u, p)) /\ Seal(u, p).id = "KEXDH_REPLY"
      /\ b.sessionId = s.sessionId /\ b.peerSeq = s.peerSeq
      /\ b.handshake.expectMsgId = "GEX_INIT" /\ Mono(s, b)
  BY <1>1, <1>4, <1>5, BundleAdvances
<1> HIDE DEF b
<1>7. s.kexId = "GEX"
  BY <1>0, <1>1, InStepTypes DEF Takes, Exchanging
<1>8. Answering(s, b, Seal(u, p))
  <2>1. ~IsReply(Seal(u, p), s.kexId)
    BY <1>6, <1>7 DEF IsReply
  <2> QED BY <2>1, <1>5, <1>6 DEF Answering
<1>9. /\ InStep(e, s, q, n + 1) /\ ~Sends(s, Answers) /\ ~Sends(q, Requests \cup {"NEWKEYS"})
      /\ Alive(q) => Awaiting(q)
  BY <1>0, RequestTaken
<1>10. InStep(e, b, q, n + 1)
  BY <1>1, <1>8, <1>9, AnsweringInStep DEF Takes
<1>11. AtRest(e, b) /\ Alive(b) /\ b.state = s.state
  BY <1>0, <1>1, <1>6, AdvancingRest DEF Takes
<1>12. LET t == HighwaterCheck(b) IN
       InStep(e, t, q, n + 1) /\ AtRest(e, t) /\ Mono(s, t) /\ t.peerSeq = s.peerSeq
  BY <1>0, <1>1, <1>6, <1>10, <1>11, SentOn
<1> QED BY <1>2, <1>12 DEF Handled, Early, e, c

\* SendKexDhReply()
LEMMA ReplyHandled ==
    ASSUME NEW s, NEW r, NEW q, NEW n, NEW id \in {"KEXDH_INIT", "GEX_INIT"},
           Takes("server", s, r, q, n), r.out[1].id = id, IsMessageAllowed("server", s, id)
    PROVE  Handled("server", s, SendKexDhReply(ClearExpect(s, id)), q, n + 1)
<1> DEFINE e == "server"
           c == ClearExpect(s, id)
           i == IF c.kexId = "GEX" THEN "GEX_REPLY" ELSE "KEXDH_REPLY"
           g == GenerateKeys(c)
           p == [Packet(i) EXCEPT !.hash = c.handshake.hash]
           b == BundlePacket(g, p)
           u == SetExpect(b, "NEWKEYS")
           k == SendNewKeysPacket(u)
           w == SendNewKeys(u)
<1>0. e \in Endpoints /\ id \in Trans /\ id \in Requests /\ id # "KEXINIT" /\ id # "NEWKEYS"
  BY DEF Endpoints, Trans, TransKex, Requests
<1>1. /\ Hashed(s) /\ s.handshake.expectMsgId = id /\ Expects(s, c, "NONE")
      /\ IsSession(s) /\ "PEER" \in s.isKeying
  BY <1>0, ExpectedMessage
<1>2. SendKexDhReply(c) = SendExtInfo(w)
  BY DEF SendKexDhReply
<1> HIDE DEF c
<1>3. IsSession(c) /\ c.kexId = s.kexId /\ c.handshake.hash = s.handshake.hash
      /\ c.handshake.hash \in Keys /\ c.kexId \in {"DH", "GEX"}
  BY <1>1, SessionKeys DEF Expects, Frame, Kept, IsSession
<1>4. p \in Packets /\ p.id = i /\ p.hash = s.handshake.hash /\ i \in Answers
      /\ IsReply(p, s.kexId)
  <2>1. i \in Answers
    BY <1>3 DEF Answers
  <2>2. Packet(i) \in Packets /\ Packet(i).id = i
    BY <2>1, IdsOK, PacketOK
  <2> HIDE DEF i
  <2>3. p \in Packets /\ p.id = i /\ p.hash = s.handshake.hash
    BY <2>2, <1>3 DEF Packets
  <2> HIDE DEF p
  <2>4. IsReply(p, s.kexId)
    BY <2>3, <1>3 DEF IsReply, i
  <2> QED BY <2>1, <2>3, <2>4
<1> HIDE DEF i, p
\* GenerateKeys()
<1>5. /\ DOMAIN g = Fields
      /\ g.out = c.out /\ g.seq = c.seq /\ g.keys = c.keys
      /\ g.kexCount = c.kexCount /\ g.isKeying = c.isKeying
      /\ g.handshake = [c.handshake EXCEPT !.keys = c.handshake.hash]
      /\ g.peerKeys = c.peerKeys /\ g.sendStrictKex = c.sendStrictKex
      /\ g.kexId = c.kexId /\ g.mark = c.mark /\ g.match = c.match
      /\ g.useStrictKex = c.useStrictKex
      /\ g.sessionId = (IF c.sessionId = NoKeys THEN c.handshake.hash ELSE c.sessionId)
      /\ g.disconnected = c.disconnected
      /\ g.error = c.error /\ g.state = c.state /\ g.peerSeq = c.peerSeq
  BY <1>3 DEF GenerateKeys, IsSession, Fields
<1>6. /\ g.handshake \in Handshake /\ g.handshake.live = c.handshake.live
      /\ g.handshake.hash = c.handshake.hash /\ g.handshake.kexInit = c.handshake.kexInit
      /\ g.handshake.keys = c.handshake.hash
  BY <1>3, <1>5 DEF IsSession, Handshake
<1> HIDE DEF g
<1>7. IsSession(g)
  <2>1. c.sessionId \in Keys
    BY <1>3, SessionKeys
  <2> QED BY <2>1, <1>3, <1>5, <1>6 DEF IsSession
<1>8. /\ Frame(g, b) /\ b.peerSeq = g.peerSeq
      /\ Sealed(g, b, Seal(g, p)) /\ b.seq = g.seq + 1 /\ b.keys = g.keys
      /\ b.kexCount = g.kexCount /\ b.handshake = g.handshake /\ b.isKeying = g.isKeying
  BY <1>4, <1>7, BundlePacketFields
<1>9. Seal(g, p).id = p.id /\ Seal(g, p).hash = p.hash
  BY <1>4, <1>7, SealOK
<1> HIDE DEF b
<1>10. Expects(b, u, "NEWKEYS")
  <2>1. IsSession(b)
    BY <1>8 DEF Frame, Kept
  <2> QED BY <2>1, IdsOK, SetExpectFields
<1> HIDE DEF u
<1>11. /\ u.out = b.out /\ u.seq = s.seq + 1 /\ u.keys = s.keys /\ u.kexCount = s.kexCount
       /\ u.isKeying = s.isKeying /\ u.state = s.state /\ u.disconnected = s.disconnected
       /\ u.error = s.error /\ u.useStrictKex = s.useStrictKex /\ u.peerSeq = s.peerSeq
       /\ u.sessionId = (IF s.sessionId = NoKeys THEN s.handshake.hash ELSE s.sessionId)
       /\ u.handshake.live = s.handshake.live /\ u.handshake.hash = s.handshake.hash
       /\ u.handshake.kexInit = s.handshake.kexInit /\ u.handshake.keys = s.handshake.hash
       /\ u.handshake.expectMsgId = "NEWKEYS" /\ Kept(s, u)
  BY <1>1, <1>5, <1>6, <1>8, <1>10 DEF Expects, Frame, Kept
<1>12. Sealed(s, u, Seal(g, p))
  BY <1>1, <1>5, <1>8, <1>11 DEF Sealed, Expects
<1>13. Advancing(s, u, Seal(g, p))
  <2>1. p.id \in Requests \cup Answers \cup {"NEWKEYS"} /\ p.id # "NEWKEYS"
    BY <1>4, StringsDiffer
  <2>2. u.sessionId = s.sessionId \/ (s.sessionId = NoKeys /\ u.sessionId # NoKeys)
    BY <1>1, <1>11 DEF Hashed
  <2> QED BY <2>1, <2>2, <1>9, <1>11, <1>12 DEF Advancing
<1>14. Answering(s, u, Seal(g, p)) /\ IsReply(Seal(g, p), s.kexId)
  <2>1. IsReply(Seal(g, p), s.kexId)
    BY <1>4, <1>9 DEF IsReply
  <2> QED BY <2>1, <1>4, <1>9, <1>11, <1>13 DEF Answering
<1>15. /\ InStep(e, s, q, n + 1) /\ ~Sends(s, Answers) /\ ~Sends(q, Requests \cup {"NEWKEYS"})
       /\ Alive(q) => Awaiting(q)
  BY <1>0, RequestTaken
<1>16. InStep(e, u, q, n + 1) /\ IsSession(u)
  BY <1>0, <1>1, <1>14, <1>15, AnsweringInStep, InStepTypes DEF Takes
<1>17. Made(u) /\ "PEER" \in u.isKeying
  BY <1>1, <1>11 DEF Made, Takes, Alive, Hashed
<1>18. PICK x : Switching(u, k, x)
  BY <1>16, <1>17, SendNewKeysPacketSwitches
<1>19. Len(u.out) >= 1 /\ IsReply(u.out[Len(u.out)], u.kexId)
       /\ u.out[Len(u.out)].hash = u.handshake.keys
  <2>1. u.out[Len(u.out)] = Seal(g, p) /\ Len(u.out) >= 1
    BY <1>1, <1>12, Extended
  <2>2. u.kexId = s.kexId
    BY <1>11 DEF Kept
  <2> QED BY <2>1, <2>2, <1>4, <1>9, <1>11, <1>14
<1> HIDE DEF k
<1>20. InStep(e, k, q, n + 1)
  BY <1>16, <1>17, <1>18, <1>19, ServerSwitching
<1>21. /\ InStep(e, w, q, n + 1) /\ AtRest(e, w) /\ Mono(k, w)
       /\ Alive(w) /\ w.state = u.state /\ w.peerSeq = u.peerSeq
  BY <1>0, <1>16, <1>17, <1>18, <1>20, SendNewKeysHandled DEF k
<1> HIDE DEF w
<1>22. Mono(s, w)
  <2>1. k.keys = s.handshake.hash /\ IsSession(k)
    BY <1>11, <1>18 DEF Switching, Advancing, Kept
  <2>2. Newer(s.handshake.hash, s.keys)
    BY <1>0, <1>1, InStepTypes DEF Takes, Exchanging
  <2>3. Mono(s, k)
    <3>1. s.handshake.hash # s.keys
      BY <1>1, <2>2, SessionKeys, KeysOK DEF Newer
    <3>2. k.match = s.match
      BY <1>11, <1>18 DEF Switching, Advancing, Kept
    <3> QED BY <3>1, <3>2, <2>1, <2>2 DEF Mono
  <2>4. IsSession(w)
    BY <1>0, <1>21, InStepTypes
  <2> QED BY <1>1, <1>21, <2>1, <2>3, <2>4, MonoTrans
<1>23. Handled(e, s, w, q, n + 1)
  BY <1>11, <1>21, <1>22 DEF Handled, Early
<1>24. Follows(e, w, SendExtInfo(w), q, n + 1)
  BY <1>0, <1>21, SendExtInfoFollows
<1> QED BY <1>0, <1>1, <1>2, <1>23, <1>24, HandledFollows DEF c

\* The client has left the states in which it expects nothing.
LEMMA ExpectsAnswer ==
    ASSUME NEW s, NEW t, NEW id \in Answers, Early("client", s), t.state = s.state,
           s.handshake.expectMsgId = id
    PROVE  Early("client", t)
<1>1. id # "NONE"
  BY IdsOK
<1> QED BY <1>1 DEF Early

\* A failed exchange ends the session.
LEMMA FailedHandled ==
    ASSUME NEW e \in Endpoints, NEW s, NEW r, NEW q, NEW n, NEW id,
           Takes(e, s, r, q, n), ClearExpect(s, id) = SetExpect(s, "NONE")
    PROVE  Handled(e, s, Failed(ClearExpect(s, id)), q, n + 1)
<1> DEFINE c == ClearExpect(s, id)
           t == Failed(c)
<1>1. IsSession(s)
  BY InStepTypes DEF Takes
<1>2. Expects(s, c, "NONE") /\ c.handshake = [s.handshake EXCEPT !.expectMsgId = "NONE"]
  BY <1>1, SetExpectFields
<1> HIDE DEF c
<1>3. IsSession(c)
  BY <1>2 DEF Expects, Frame, Kept
<1>4. Ending(c, t)
  BY <1>3, FailedEnding
<1>5. t.handshake = c.handshake
  BY <1>3 DEF Failed, IsSession, Fields
<1> HIDE DEF t
<1>6. Ending(s, t)
  BY <1>2, <1>4, <1>5 DEF Ending, Expects, Frame, Kept
<1>7. Leads(e, s, t, r, n) /\ ~Alive(t)
  BY <1>6, EndingLeads DEF Takes, Ending
<1> QED BY <1>7, DeadHandled DEF Takes, t, c

\* The group of a group exchange: SendKexDhInit() answers it.
LEMMA GexGroupHandled ==
    ASSUME NEW s, NEW r, NEW q, NEW n, Takes("client", s, r, q, n),
           r.out[1].id = "KEXDH_REPLY", IsMessageAllowed("client", s, "KEXDH_REPLY"),
           s.kexId = "GEX"
    PROVE  Handled("client", s, SendKexDhInit(ClearExpect(s, "KEXDH_REPLY")), q, n + 1)
<1> DEFINE e == "client"
           c == ClearExpect(s, "KEXDH_REPLY")
           u == SetExpect(c, "GEX_REPLY")
<1>0. e \in Endpoints /\ "KEXDH_REPLY" \in Trans /\ "KEXDH_REPLY" \in Answers
      /\ "GEX_INIT" \in Requests /\ "GEX_REPLY" \in Answers /\ "GEX_REPLY" \in MsgIds
  BY IdsOK DEF Endpoints, Trans, TransKex, Requests, Answers
<1>1. /\ Hashed(s) /\ s.handshake.expectMsgId = "KEXDH_REPLY" /\ Expects(s, c, "NONE")
      /\ IsSession(s)
  BY <1>0, ExpectedMessage
<1> HIDE DEF c
<1>2. IsSession(c) /\ c.kexId = "GEX"
  BY <1>1 DEF Expects, Frame, Kept
<1>3. SendKexDhInit(c) = SendPacket(u, Packet("GEX_INIT"))
  BY <1>2 DEF SendKexDhInit
<1>4. Expects(s, u, "GEX_REPLY")
  BY <1>0, <1>1, <1>2, SetExpectFields, ExpectsTrans
<1> HIDE DEF u
<1>5. Answered(s, r) /\ r.kexId = "GEX" /\ 1 \in 1..Len(r.out)
  BY DEF Takes, InStep, Paired, Taken
<1>6. InStep(e, s, q, n + 1)
  <2>1. r.out[1].id \notin {"KEXINIT", "NEWKEYS"} /\ ~IsReply(r.out[1], r.kexId)
    BY <1>5 DEF IsReply
  <2> QED BY <2>1, <1>0, TakePlain DEF Takes
<1>7. ~Sends(s, Requests)
  BY <1>0, <1>5 DEF Answered, Sends
<1>8. ~Sends(q, Answers)
  <2>1. \A j \in 1..Len(r.out) : r.out[j].id \in Answers => j = 1
    BY <1>0, <1>5 DEF Answered
  <2>2. \A j \in 1..Len(q.out) : q.out[j] = r.out[j + 1] /\ j + 1 \in 1..Len(r.out) /\ j + 1 # 1
    BY DEF Takes, Taken
  <2> QED BY <2>1, <2>2 DEF Sends
<1>9. LET t == SendPacket(u, Packet("GEX_INIT")) IN
      /\ InStep(e, t, q, n + 1) /\ AtRest(e, t) /\ Alive(t)
      /\ t.state = s.state /\ Mono(s, t) /\ t.peerSeq = s.peerSeq
  BY <1>0, <1>1, <1>4, <1>6, <1>7, <1>8, RequestSent DEF Takes
<1>10. Early(e, SendPacket(u, Packet("GEX_INIT")))
  BY <1>0, <1>1, <1>9, ExpectsAnswer DEF Takes
<1> QED BY <1>3, <1>9, <1>10 DEF Handled, e, c

\* DoKexDhReply()
LEMMA DoKexDhReplyHandled ==
    ASSUME NEW s, NEW r, NEW q, NEW n, NEW id \in Answers, Takes("client", s, r, q, n),
           r.out[1].id = id, IsMessageAllowed("client", s, id), IsReply(r.out[1], s.kexId)
    PROVE  Handled("client", s, DoKexDhReply(ClearExpect(s, id), r.out[1]), q, n + 1)
<1> DEFINE e == "client"
           p == r.out[1]
           c == ClearExpect(s, id)
           g == GenerateKeys(c)
           v == SetExpect(g, "NEWKEYS")
           k == SendNewKeysPacket(v)
           w == SendNewKeys(v)
<1>0. e \in Endpoints /\ id \in Trans /\ id # "KEXINIT" /\ id # "NEWKEYS"
  BY StringsDiffer DEF Endpoints, Trans, TransKex, Answers
<1>1. /\ Hashed(s) /\ s.handshake.expectMsgId = id /\ Expects(s, c, "NONE")
      /\ c = SetExpect(s, "NONE") /\ IsSession(s) /\ "PEER" \in s.isKeying
  BY <1>0, ExpectedMessage
<1>2. CASE p.hash # c.handshake.hash
  <2>1. DoKexDhReply(c, p) = Failed(c)
    BY <1>2 DEF DoKexDhReply
  <2> QED BY <2>1, <1>0, <1>1, FailedHandled
<1>3. CASE p.hash = c.handshake.hash
  <2>1. DoKexDhReply(c, p) = w
    BY <1>3 DEF DoKexDhReply
  <2> HIDE DEF c
  <2>2. IsSession(c) /\ c.handshake.hash \in Keys /\ c.sessionId \in Keys
    BY <1>1, SessionKeys DEF Expects, Frame, Kept
  <2>3. /\ DOMAIN g = Fields
        /\ g.out = c.out /\ g.seq = c.seq /\ g.keys = c.keys
        /\ g.kexCount = c.kexCount /\ g.isKeying = c.isKeying
        /\ g.handshake = [c.handshake EXCEPT !.keys = c.handshake.hash]
        /\ g.peerKeys = c.peerKeys /\ g.sendStrictKex = c.sendStrictKex
        /\ g.kexId = c.kexId /\ g.mark = c.mark /\ g.match = c.match
        /\ g.useStrictKex = c.useStrictKex
        /\ g.sessionId = (IF c.sessionId = NoKeys THEN c.handshake.hash ELSE c.sessionId)
        /\ g.disconnected = c.disconnected
        /\ g.error = c.error /\ g.state = c.state /\ g.peerSeq = c.peerSeq
    BY <2>2 DEF GenerateKeys, IsSession, Fields
  <2>4. /\ g.handshake \in Handshake /\ g.handshake.live = c.handshake.live
        /\ g.handshake.hash = c.handshake.hash /\ g.handshake.kexInit = c.handshake.kexInit
        /\ g.handshake.keys = c.handshake.hash
    BY <2>2, <2>3 DEF IsSession, Handshake
  <2> HIDE DEF g
  <2>5. IsSession(g)
    BY <2>2, <2>3, <2>4 DEF IsSession
  <2>6. Expects(g, v, "NEWKEYS")
    BY <2>5, IdsOK, SetExpectFields
  <2> HIDE DEF v
  <2>7. Verifying(s, v) /\ v.peerSeq = s.peerSeq /\ v.state = s.state /\ "PEER" \in v.isKeying
    BY <1>1, <2>3, <2>4, <2>6 DEF Verifying, Body, Expects, Frame, Kept
  <2>8. IsReply(r.out[1], r.kexId) /\ r.out[1].hash = s.handshake.hash
    BY <1>1, <1>3 DEF Takes, InStep, Paired, Expects
  <2>9. /\ InStep(e, v, q, n + 1) /\ Made(v)
        /\ ~Sends(v, Requests \cup {"NEWKEYS"}) /\ ~Sends(q, Answers)
        /\ Alive(q) => Expecting(q, v.handshake.keys)
        /\ Newer(v.handshake.hash, s.keys)
    BY <1>0, <1>1, <2>7, <2>8, VerifyingInStep DEF Takes
  <2>10. IsSession(v)
    BY <1>0, <2>9, InStepTypes
  <2>11. PICK x : Switching(v, k, x)
    BY <2>9, <2>10, SendNewKeysPacketSwitches
  <2> HIDE DEF k
  <2>12. InStep(e, k, q, n + 1)
    BY <2>9, <2>11, ClientSwitching
  <2>13. /\ InStep(e, w, q, n + 1) /\ AtRest(e, w) /\ Mono(k, w)
         /\ Alive(w) /\ w.state = v.state /\ w.peerSeq = v.peerSeq
    BY <1>0, <2>7, <2>9, <2>10, <2>11, <2>12, SendNewKeysHandled DEF k
  <2> HIDE DEF w
  <2>14. Mono(s, w)
    <3>1. k.keys = v.handshake.hash /\ IsSession(k) /\ IsSession(w)
      BY <1>0, <2>11, <2>13, InStepTypes DEF Switching, Advancing, Kept
    <3>2. Mono(s, k)
      <4>1. v.handshake.hash # s.keys
        BY <1>1, <2>9, <2>10, SessionKeys, KeysOK DEF Newer
      <4>2. k.match = s.match
        BY <2>7, <2>11 DEF Switching, Advancing, Verifying, Body, Kept
      <4> QED BY <4>1, <4>2, <3>1, <2>9 DEF Mono
    <3> QED BY <1>1, <2>13, <3>1, <3>2, MonoTrans
  <2>15. Early(e, w)
    BY <1>1, <2>7, <2>13, ExpectsAnswer DEF Takes
  <2> QED BY <2>1, <2>7, <2>13, <2>14, <2>15 DEF Handled, c
<1> QED BY <1>2, <1>3

\* DoNewKeys()
LEMMA DoNewKeysHandled ==
    ASSUME NEW e \in Endpoints, NEW s, NEW r, NEW q, NEW n, Takes(e, s, r, q, n),
           r.out[1].id = "NEWKEYS", IsMessageAllowed(e, s, "NEWKEYS")
    PROVE  LET c == ClearExpect(s, "NEWKEYS")
               t == DoNewKeys(c)
           IN  /\ Handled(e, s, t, q, IF NewKeysAccepted(c) /\ t.useStrictKex THEN 0 ELSE n + 1)
<1> DEFINE c == ClearExpect(s, "NEWKEYS")
           a == [c EXCEPT !.peerKeys = c.handshake.keys,
                          !.rxCount = 0,
                          !.rxMsgCount = 0,
                          !.highwaterFlag = FALSE,
                          !.msgHighwaterFlag = FALSE,
                          !.isKeying = @ \ {"PEER"},
                          !.handshake = NoHandshake]
           t == DoNewKeys(c)
           m == IF NewKeysAccepted(c) /\ t.useStrictKex THEN 0 ELSE n + 1
<1>0. "NEWKEYS" \in Trans
  BY DEF Trans
<1>1. /\ Hashed(s) /\ s.handshake.expectMsgId = "NEWKEYS" /\ Expects(s, c, "NONE")
      /\ c = SetExpect(s, "NONE") /\ IsSession(s) /\ "PEER" \in s.isKeying
  BY <1>0, ExpectedMessage
<1>2. CASE ~NewKeysAccepted(c)
  <2>1. t = Failed(c) /\ m = n + 1
    BY <1>2 DEF DoNewKeys
  <2> QED BY <2>1, <1>1, FailedHandled
<1>3. CASE NewKeysAccepted(c)
  <2>1. t = SendPendingChannelWindowAdjust(a)
    BY <1>3 DEF DoNewKeys
  <2>2. "SELF" \notin c.isKeying
    BY <1>3 DEF NewKeysAccepted
  <2> HIDE DEF c
  <2>3. IsSession(c) /\ c.handshake.keys \in Keys
    BY <1>1, SessionKeys DEF Expects, Frame, Kept
  <2>4. NoHandshake \in Handshake
    BY KeysOK DEF NoHandshake, HandshakeInfoNew, Handshake
  <2>5. /\ DOMAIN a = Fields
        /\ a.out = c.out /\ a.seq = c.seq /\ a.keys = c.keys
        /\ a.kexCount = c.kexCount /\ a.isKeying = c.isKeying \ {"PEER"}
        /\ a.handshake = NoHandshake
        /\ a.peerKeys = c.handshake.keys /\ a.sendStrictKex = c.sendStrictKex
        /\ a.kexId = c.kexId /\ a.mark = c.mark /\ a.match = c.match
        /\ a.useStrictKex = c.useStrictKex
        /\ a.sessionId = c.sessionId /\ a.disconnected = c.disconnected
        /\ a.error = c.error /\ a.state = c.state /\ a.peerSeq = c.peerSeq
    BY <2>3 DEF IsSession, Fields
  <2> HIDE DEF a
  <2>6. IsSession(a)
    BY <2>3, <2>4, <2>5 DEF IsSession
  <2>7. Accepting(s, a) /\ a.peerSeq = s.peerSeq /\ "SELF" \notin s.isKeying
    BY <1>1, <2>2, <2>5, <2>6 DEF Accepting, Expects, Frame, Kept
  <2>8. InStep(e, a, q, IF s.useStrictKex THEN 0 ELSE n + 1) /\ Alive(a) /\ ~Hashed(a)
    BY <1>1, <2>7, AcceptingInStep DEF Takes
  <2>9. Follows(e, a, t, q, IF s.useStrictKex THEN 0 ELSE n + 1)
    BY <2>1, <2>8, SendPendingChannelWindowAdjustFollows DEF Alive
  <2> HIDE DEF t
  <2>10. t.useStrictKex = s.useStrictKex
    BY <2>7, <2>9 DEF Follows, Keeps, Frame, Accepting
  <2>11. m = IF s.useStrictKex THEN 0 ELSE n + 1
    BY <1>3, <2>10
  <2> HIDE DEF m
  <2>12. InStep(e, a, q, m) /\ Follows(e, a, t, q, m)
    BY <2>8, <2>9, <2>11
  <2>13. AtRest(e, a)
    <3>1. /\ "SELF" \notin a.isKeying /\ "PEER" \notin a.isKeying
          /\ a.keys = a.peerKeys /\ a.state = s.state /\ a.sessionId = s.sessionId
      BY <1>1, <2>7 DEF Takes, AtRest, Accepting
    <3>2. Named(a)
      BY <3>1, <2>7, RestNamed DEF Takes, Named
    <3> QED BY <3>1, <3>2, <2>8 DEF AtRest, Begun, Named
  <2>14. Early(e, a)
    BY <2>7 DEF Accepting, Early, NoHandshake, HandshakeInfoNew
  <2>15. Mono(s, a)
    BY <1>1, <2>7, MonoSame DEF Accepting
  <2>16. Handled(e, s, a, q, m)
    BY <2>7, <2>12, <2>13, <2>14, <2>15 DEF Handled
  <2>17. Handled(e, s, t, q, m)
    BY <1>1, <2>12, <2>16, HandledFollows
  <2> QED BY <2>17 DEF m, t, c
<1> QED BY <1>2, <1>3

----------------------------------------------------------------------------
(* A KEXINIT arrives.                                                      *)

LEMMA SendDisconnectRest ==
    ASSUME NEW e \in Endpoints, NEW s, NEW r, NEW n, InStep(e, s, r, n), Begun(e, s), Named(s)
    PROVE  AtRest(e, SendDisconnect(s))
<1> DEFINE d == [s EXCEPT !.disconnected = TRUE]
           p == Packet("DISCONNECT")
<1>1. IsSession(s)
  BY InStepTypes
<1>2. Ending(s, d)
  BY <1>1 DEF Ending, Kept, IsSession, Fields, Alive
<1>3. d.handshake = s.handshake
  BY <1>1 DEF IsSession, Fields
<1> HIDE DEF d
<1>4. InStep(e, d, r, n)
  BY <1>2, EndingLeads DEF Leads
<1>5. AtRest(e, d)
  BY <1>2, <1>3, DeadRest DEF Ending, Begun, Named
<1>6. p \in Packets /\ p.id \notin Trans /\ p.id \notin Conn
  <2>1. "DISCONNECT" \in MsgIds /\ "DISCONNECT" \notin Trans /\ "DISCONNECT" \notin Conn
    BY DEF MsgIds, TransGen, Trans, TransKex, Conn
  <2> QED BY <2>1, PacketOK
<1> HIDE DEF p
<1>7. Follows(e, d, SendPacket(d, p), r, n)
  BY <1>4, <1>6, SendPacketFollows
<1> QED BY <1>5, <1>7 DEF Follows, SendDisconnect, d, p

\* DoKexInit() up to the choice of the algorithms.
OpenKexInit(s, p) ==
    NegotiateStrictKex([s EXCEPT !.isKeying = @ \cup {"PEER"},
                                 !.handshake = IF @.live THEN @ ELSE HandshakeInfoNew], p)

LEMMA OpenKexInitOpening ==
    ASSUME NEW s, NEW p \in Packets, IsSession(s)
    PROVE  LET t == OpenKexInit(s, p) IN
           /\ Opening(s, t) /\ t.peerSeq = s.peerSeq
           /\ s.sessionId = NoKeys => t.useStrictKex = (p.strict /\ s.sendStrictKex)
<1> DEFINE h == IF s.handshake.live THEN s.handshake ELSE HandshakeInfoNew
           k == [s EXCEPT !.isKeying = @ \cup {"PEER"}, !.handshake = h]
           z == IF s.sessionId = NoKeys THEN p.strict /\ s.sendStrictKex ELSE s.useStrictKex
           t == OpenKexInit(s, p)
<1>1. h \in Handshake
  BY KeysOK DEF IsSession, HandshakeInfoNew, Handshake
<1>2. z \in BOOLEAN
  BY SessionKeys DEF Packets
<1>3. t = NegotiateStrictKex(k, p)
  BY DEF OpenKexInit
<1> HIDE DEF h
<1>4. /\ DOMAIN k = Fields
      /\ k.out = s.out /\ k.seq = s.seq /\ k.keys = s.keys
      /\ k.kexCount = s.kexCount /\ k.isKeying = s.isKeying \cup {"PEER"}
      /\ k.handshake = h
      /\ k.peerKeys = s.peerKeys /\ k.sendStrictKex = s.sendStrictKex
      /\ k.kexId = s.kexId /\ k.mark = s.mark /\ k.match = s.match
      /\ k.useStrictKex = s.useStrictKex
      /\ k.sessionId = s.sessionId /\ k.disconnected = s.disconnected
      /\ k.error = s.error /\ k.state = s.state /\ k.peerSeq = s.peerSeq
  BY DEF IsSession, Fields
<1> HIDE DEF k
<1>5. /\ DOMAIN t = Fields
      /\ t.out = k.out /\ t.seq = k.seq /\ t.keys = k.keys
      /\ t.kexCount = k.kexCount /\ t.isKeying = k.isKeying
      /\ t.handshake = k.handshake
      /\ t.peerKeys = k.peerKeys /\ t.sendStrictKex = k.sendStrictKex
      /\ t.kexId = k.kexId /\ t.mark = k.mark /\ t.match = k.match /\ t.useStrictKex = z
      /\ t.sessionId = k.sessionId /\ t.disconnected = k.disconnected
      /\ t.error = k.error /\ t.state = k.state /\ t.peerSeq = k.peerSeq
  <2>1. CASE s.sessionId = NoKeys
    <3>1. t = [k EXCEPT !.useStrictKex = p.strict /\ k.sendStrictKex]
      BY <2>1, <1>3, <1>4 DEF NegotiateStrictKex
    <3>2. z = (p.strict /\ k.sendStrictKex)
      BY <2>1, <1>4
    <3> HIDE DEF t, z
    <3> QED BY <3>1, <3>2, <1>4 DEF Fields
  <2>2. CASE s.sessionId # NoKeys
    <3>1. t = k
      BY <2>2, <1>3, <1>4 DEF NegotiateStrictKex
    <3> QED BY <2>2, <3>1, <1>4
  <2> QED BY <2>1, <2>2
<1> HIDE DEF t
<1>6. IsSession(t)
  BY <1>1, <1>2, <1>4, <1>5 DEF IsSession
<1>7. Opening(s, t) /\ t.peerSeq = s.peerSeq
  BY <1>4, <1>5, <1>6 DEF Opening, Kept, h
<1> QED BY <1>5, <1>7 DEF t

\* The rest of DoKexInit() once the algorithms are chosen: answer unless our
\* KEXINIT is out, and start the hash.
HashKexInit(e, o, p) ==
    LET r == IF "SELF" \in o.isKeying THEN o ELSE SendKexInit(o)
        h == [r EXCEPT !.handshake.hash = Transcript(e, r.handshake.kexInit, p.kexInit)]
    IN  IF e = "server" THEN ExpectClientKexMsg(h) ELSE h

LEMMA DoKexInitParts ==
    ASSUME NEW e, NEW s, NEW p
    PROVE  LET o == OpenKexInit(s, p) IN
           DoKexInit(e, s, p) =
               IF (s.sessionId = NoKeys /\ o.useStrictKex /\ s.peerSeq # 0) \/ ~s.match
               THEN Failed(SendDisconnect(o)) ELSE HashKexInit(e, o, p)
  BY DEF DoKexInit, OpenKexInit, HashKexInit

\* What the filter says of a KEXINIT that it lets through.
LEMMA KexInitTaken ==
    ASSUME NEW e \in Endpoints, NEW s, NEW r, NEW q, NEW n, Takes(e, s, r, q, n),
           r.out[1].id = "KEXINIT", IsMessageAllowed(e, s, "KEXINIT")
    PROVE  /\ IsSession(s) /\ ~Hashed(s) /\ r.out[1] \in Packets
           /\ ClearExpect(s, "KEXINIT") = s
<1>1. IsSession(s) /\ Exchanging(s)
  BY InStepTypes DEF Takes
<1>2. "KEXINIT" \in Trans
  BY DEF Trans
<1>3. "PEER" \notin s.isKeying
  BY <1>2 DEF IsMessageAllowed, KexMessageAllowed
<1>4. ~Hashed(s)
  BY <1>3 DEF Takes, AtRest
<1>5. s.handshake.expectMsgId = "NONE"
  BY <1>1, <1>4 DEF Takes, Exchanging
<1>6. ClearExpect(s, "KEXINIT") = s
  BY <1>5 DEF ClearExpect
<1> QED BY <1>1, <1>4, <1>6 DEF Takes, Taken

LEMMA KexInitRefused ==
    ASSUME NEW e \in Endpoints, NEW s, NEW r, NEW q, NEW n, Takes(e, s, r, q, n),
           r.out[1].id = "KEXINIT", IsMessageAllowed(e, s, "KEXINIT")
    PROVE  Handled(e, s, Failed(SendDisconnect(OpenKexInit(s, r.out[1]))), q, n + 1)
<1> DEFINE p == r.out[1]
           o == OpenKexInit(s, p)
           d == SendDisconnect(o)
           t == Failed(d)
<1>1. IsSession(s) /\ ~Hashed(s) /\ p \in Packets
  BY KexInitTaken
<1>2. Opening(s, o)
  BY <1>1, OpenKexInitOpening
<1> HIDE DEF o
<1>3. /\ InStep(e, o, r, n) /\ o.handshake.expectMsgId = "NONE" /\ Begun(e, o) /\ Mono(s, o)
      /\ IsSession(o)
  BY <1>1, <1>2, OpeningInStep, RestNamed, InStepTypes DEF Takes
<1>4. Named(o) /\ Early(e, o)
  BY <1>2, <1>3, RestNamed DEF Takes, Named, Opening, Early
<1>5. Leads(e, o, d, r, n) /\ ~Alive(d) /\ AtRest(e, d) /\ IsSession(d)
  BY <1>3, <1>4, SendDisconnectLeads, SendDisconnectRest, LeadsTypes
<1> HIDE DEF d
<1>6. Ending(d, t) /\ InStep(e, d, r, n)
  BY <1>5, FailedEnding DEF Leads
<1> HIDE DEF t
<1>7. Leads(e, d, t, r, n) /\ ~Alive(t) /\ IsSession(t)
  BY <1>6, EndingLeads, LeadsTypes DEF Ending
<1>8. InStep(e, t, q, n + 1)
  BY <1>7, TakeDead DEF Leads, Takes
<1>9. Mono(s, t)
  BY <1>1, <1>3, <1>5, <1>7, MonoTrans DEF Leads
<1>10. AtRest(e, t) /\ Early(e, t)
  BY <1>4, <1>5, <1>7 DEF Leads
<1> QED BY <1>7, <1>8, <1>9, <1>10 DEF Handled, t, d, o

LEMMA HashKexInitHandled ==
    ASSUME NEW e \in Endpoints, NEW s, NEW r, NEW q, NEW n, Takes(e, s, r, q, n),
           r.out[1].id = "KEXINIT", IsMessageAllowed(e, s, "KEXINIT")
    PROVE  LET t == HashKexInit(e, OpenKexInit(s, r.out[1]), r.out[1]) IN
           /\ Handled(e, s, t, q, n + 1)
           /\ Alive(t) /\ Hashed(t) /\ t.state = s.state /\ IsSession(t)
           /\ e = "client" => t.handshake.expectMsgId = "NONE"
<1> DEFINE p == r.out[1]
           o == OpenKexInit(s, p)
           a == IF "SELF" \in o.isKeying THEN o ELSE SendKexInit(o)
           x == Transcript(e, a.handshake.kexInit, p.kexInit)
           g == [a.handshake EXCEPT !.hash = x]
           h == [a EXCEPT !.handshake = g]
           y == IF a.kexId = "GEX" THEN "GEX_REQUEST" ELSE "KEXDH_INIT"
           t == IF e = "server" THEN SetExpect(h, y) ELSE h
<1>1. IsSession(s) /\ ~Hashed(s) /\ p \in Packets
  BY KexInitTaken
<1>2. /\ Opening(s, o) /\ o.peerSeq = s.peerSeq
      /\ s.sessionId = NoKeys => o.useStrictKex = (p.strict /\ s.sendStrictKex)
  BY <1>1, OpenKexInitOpening
<1> HIDE DEF o
<1>3. /\ InStep(e, o, r, n) /\ Alive(o) /\ ~Hashed(o) /\ o.handshake.live
      /\ o.handshake.expectMsgId = "NONE" /\ Begun(e, o) /\ Mono(s, o) /\ IsSession(o)
  BY <1>1, <1>2, OpeningInStep, RestNamed, InStepTypes DEF Takes
<1>4. Follows(e, o, a, r, n) /\ Begun(e, a) /\ "SELF" \in a.isKeying
  BY <1>3, SendKexInitFollows, InStepFollows
<1>5. HashKexInit(e, o, p) = IF e = "server" THEN ExpectClientKexMsg(h) ELSE h
  BY DEF HashKexInit
<1> HIDE DEF a
<1>6. /\ InStep(e, a, r, n) /\ IsSession(a) /\ Alive(a) /\ ~Hashed(a) /\ a.handshake.live
      /\ a.handshake.expectMsgId = "NONE" /\ a.peerSeq = s.peerSeq /\ a.state = s.state
      /\ a.sessionId = s.sessionId /\ a.useStrictKex = o.useStrictKex
      /\ a.sendStrictKex = s.sendStrictKex /\ "PEER" \in a.isKeying
      /\ a.kexId = s.kexId
  BY <1>2, <1>3, <1>4, FollowsTypes DEF Follows, Keeps, Frame, Kept, Opening, Alive, Hashed
<1>7. Mono(s, a)
  BY <1>1, <1>3, <1>4, <1>6, FollowsLeads, MonoTrans DEF Leads
<1>8. a.handshake.kexInit > a.keys[Own(e)]
  BY <1>4 DEF Begun
<1>9. x \in Keys
  BY <1>1, <1>6, SessionKeys, TranscriptOK DEF Packets
<1> HIDE DEF x
<1>10. /\ g \in Handshake /\ g.live = a.handshake.live /\ g.hash = x
       /\ g.kexInit = a.handshake.kexInit /\ g.expectMsgId = a.handshake.expectMsgId
  BY <1>6, <1>9 DEF IsSession, Handshake
<1> HIDE DEF g
<1>11. /\ DOMAIN h = Fields
       /\ h.out = a.out /\ h.seq = a.seq /\ h.keys = a.keys
       /\ h.kexCount = a.kexCount /\ h.isKeying = a.isKeying
       /\ h.handshake = g
       /\ h.peerKeys = a.peerKeys /\ h.sendStrictKex = a.sendStrictKex
       /\ h.kexId = a.kexId /\ h.mark = a.mark /\ h.match = a.match
       /\ h.useStrictKex = a.useStrictKex
       /\ h.sessionId = a.sessionId /\ h.disconnected = a.disconnected
       /\ h.error = a.error /\ h.state = a.state /\ h.peerSeq = a.peerSeq
  BY <1>6 DEF IsSession, Fields
<1> HIDE DEF h
<1>12. IsSession(h)
  BY <1>6, <1>10, <1>11 DEF IsSession
<1>13. y \in {"GEX_REQUEST", "KEXDH_INIT"} /\ (y = "GEX_REQUEST" => a.kexId = "GEX")
       /\ y \in MsgIds
  BY IdsOK DEF Requests
<1>14. HashKexInit(e, o, p) = t
  BY <1>5, <1>11 DEF ExpectClientKexMsg
<1> HIDE DEF y
<1>15. /\ IsSession(t) /\ Body(a, t) /\ t.peerSeq = a.peerSeq
       /\ t.sessionId = a.sessionId /\ t.useStrictKex = a.useStrictKex
       /\ t.handshake.live /\ t.handshake.kexInit = a.handshake.kexInit
       /\ t.handshake.hash = x
       /\ t.handshake.expectMsgId = IF e = "server" THEN y ELSE "NONE"
  <2>1. CASE e = "server"
    <3>1. Expects(h, SetExpect(h, y), y) /\ t = SetExpect(h, y)
      BY <2>1, <1>12, <1>13, SetExpectFields
    <3> HIDE DEF t
    <3> QED BY <2>1, <3>1, <1>6, <1>10, <1>11 DEF Expects, Frame, Kept, Body
  <2>2. CASE e # "server"
    <3>1. t = h
      BY <2>2
    <3> QED BY <2>2, <3>1, <1>6, <1>10, <1>11, <1>12 DEF Kept, Body
  <2> QED BY <2>1, <2>2
<1> HIDE DEF t
<1>16. Hashing(e, a, t, p)
  <2>1. t.kexId = a.kexId
    BY <1>15 DEF Body, Kept
  <2>2. t.handshake.hash = Transcript(e, a.handshake.kexInit, p.kexInit)
    BY <1>15 DEF x
  <2> QED BY <2>1, <2>2, <1>13, <1>15 DEF Hashing
<1>17. InStep(e, t, q, n + 1) /\ Hashed(t) /\ Alive(t)
  <2>1. a.sessionId = NoKeys => a.useStrictKex = (p.strict /\ a.sendStrictKex)
    BY <1>2, <1>6
  <2> QED BY <2>1, <1>6, <1>8, <1>16, HashingInStep DEF Takes
<1>18. t.keys = a.keys /\ t.seq = a.seq /\ t.isKeying = a.isKeying /\ t.state = s.state
  BY <1>6, <1>15 DEF Body
<1>19. Begun(e, t)
  BY <1>4, <1>15, <1>18 DEF Begun
<1>20. Named(t)
  BY <1>4, <1>6, <1>15, <1>18, RestNamed DEF Named, Takes
<1>21. AtRest(e, t)
  <2>1. t.handshake.expectMsgId # "NEWKEYS" /\ (e = "server" => t.handshake.expectMsgId # "NONE")
    BY <1>13, <1>15
  <2> QED BY <2>1, <1>6, <1>17, <1>18, <1>19, <1>20 DEF AtRest, Named
<1>22. Early(e, t) /\ (e = "client" => t.handshake.expectMsgId = "NONE")
  BY <1>15 DEF Early
<1>23. Mono(s, t)
  BY <1>7, <1>15, <1>18 DEF Mono, Body, Kept
<1>24. Handled(e, s, t, q, n + 1)
  BY <1>6, <1>15, <1>17, <1>21, <1>22, <1>23 DEF Handled
<1> QED BY <1>14, <1>15, <1>17, <1>18, <1>22, <1>24 DEF o

\* The MSGID_KEXINIT case of DoPacket().
LEMMA DispatchKexInitHandled ==
    ASSUME NEW e \in Endpoints, NEW s, NEW r, NEW q, NEW n, Takes(e, s, r, q, n),
           r.out[1].id = "KEXINIT", IsMessageAllowed(e, s, "KEXINIT")
    PROVE  Handled(e, s, DispatchKexInit(e, s, r.out[1]), q, n + 1)
<1> DEFINE p == r.out[1]
           o == OpenKexInit(s, p)
           h == HashKexInit(e, o, p)
           k == DoKexInit(e, s, p)
<1>1. k = IF (s.sessionId = NoKeys /\ o.useStrictKex /\ s.peerSeq # 0) \/ ~s.match
          THEN Failed(SendDisconnect(o)) ELSE h
  BY DoKexInitParts
<1>2. Handled(e, s, Failed(SendDisconnect(o)), q, n + 1)
  BY KexInitRefused
<1>3. /\ Handled(e, s, h, q, n + 1)
      /\ Alive(h) /\ Hashed(h) /\ h.state = s.state /\ IsSession(h)
      /\ e = "client" => h.handshake.expectMsgId = "NONE"
  BY HashKexInitHandled
<1> HIDE DEF o, h
<1>4. Handled(e, s, k, q, n + 1)
  BY <1>1, <1>2, <1>3
<1>5. DispatchKexInit(e, s, p) =
          IF e = "client" /\ s.match /\ s.state = "DONE" THEN StartKexDh(k) ELSE k
  BY DEF DispatchKexInit
<1>6. CASE ~(e = "client" /\ s.match /\ s.state = "DONE")
  BY <1>4, <1>5, <1>6
<1>7. CASE e = "client" /\ s.match /\ s.state = "DONE"
  <2>1. s.sessionId # NoKeys
    BY <1>7 DEF Takes, AtRest
  <2>2. k = h
    BY <1>1, <1>7, <2>1
  <2> DEFINE t == StartKexDh(h)
  <2> HIDE DEF k
  <2>3. /\ InStep(e, t, q, n + 1) /\ AtRest(e, t) /\ Alive(t)
        /\ t.state = h.state /\ Mono(h, t) /\ t.peerSeq = h.peerSeq
    BY <1>3, <1>7, StartKexDhSent DEF Handled
  <2> HIDE DEF t
  <2>4. IsSession(s) /\ IsSession(t) /\ Mono(s, h)
    BY <1>3, <2>3, InStepTypes DEF Handled, Takes
  <2>5. Mono(s, t)
    BY <1>3, <2>3, <2>4, MonoTrans
  <2>6. Early(e, t)
    BY <1>3, <1>7, <2>3 DEF Early
  <2>7. t.peerSeq = s.peerSeq
    BY <1>3, <2>3 DEF Handled
  <2>8. Handled(e, s, t, q, n + 1)
    BY <2>3, <2>5, <2>6, <2>7 DEF Handled
  <2> QED BY <1>5, <1>7, <2>2, <2>8 DEF t
<1> QED BY <1>6, <1>7

----------------------------------------------------------------------------
(* DoReceive().                                                            *)

\* A message that is no part of a key exchange.
LEMMA OtherHandled ==
    ASSUME NEW e \in Endpoints, NEW s, NEW r, NEW q, NEW n, Takes(e, s, r, q, n),
           r.out[1].id \notin Trans
    PROVE  Handled(e, s, Dispatch(e, ClearExpect(s, r.out[1].id), r.out[1]), q, n + 1)
<1> DEFINE p == r.out[1]
           t == Dispatch(e, s, p)
<1>1. IsSession(s)
  BY InStepTypes DEF Takes
<1>2. ClearExpect(s, p.id) = s
  BY DEF ClearExpect
<1>3. /\ p.id \notin {"KEXINIT", "NEWKEYS", "KEXDH_INIT", "GEX_INIT", "GEX_REQUEST",
                      "KEXDH_REPLY", "GEX_REPLY"}
      /\ \A k : ~IsReply(p, k)
  BY DEF Trans, TransKex, IsReply
<1>4. CASE p.id = "DISCONNECT"
  <2>1. t = [s EXCEPT !.disconnected = TRUE, !.error = TRUE]
    BY <1>4 DEF Dispatch, DoDisconnect
  <2> HIDE DEF t
  <2>2. Ending(s, t)
    BY <1>1, <2>1 DEF Ending, Kept, IsSession, Fields, Alive
  <2>3. Leads(e, s, t, r, n) /\ ~Alive(t)
    BY <2>2, EndingLeads DEF Takes, Ending
  <2>4. Handled(e, s, t, q, n + 1)
    BY <2>3, DeadHandled DEF Takes
  <2> QED BY <1>2, <2>4 DEF t
<1>5. CASE p.id # "DISCONNECT"
  <2>1. \/ t = [s EXCEPT !.peerRound = @ + 1]
        \/ t = [s EXCEPT !.unread = @ + 1]
        \/ t = s
    BY <1>3, <1>5 DEF Dispatch
  <2> HIDE DEF t
  <2>2. Tweaked(s, t) /\ t.peerSeq = s.peerSeq
    BY <1>1, <2>1 DEF Tweaked, Frame, Kept, IsSession, Fields
  <2>3. InStep(e, s, q, n + 1)
    BY <1>3, TakePlain DEF Takes
  <2>4. Handled(e, s, s, q, n + 1)
    BY <1>1, <2>3, MonoSame DEF Takes, Handled
  <2>5. Handled(e, s, t, q, n + 1)
    BY <1>1, <2>2, <2>3, <2>4, TweakedFollows, HandledFollows
  <2> QED BY <1>2, <2>5 DEF t
<1> QED BY <1>4, <1>5

\* The switch of DoPacket(), on a session that is alive.
LEMMA DispatchHandled ==
    ASSUME NEW e \in Endpoints, NEW s, NEW r, NEW q, NEW n, Takes(e, s, r, q, n),
           IsMessageAllowed(e, s, r.out[1].id)
    PROVE  LET p == r.out[1]
               c == ClearExpect(s, p.id)
               t == Dispatch(e, c, p)
           IN  Handled(e, s, t, q, IF (p.id = "NEWKEYS" /\ NewKeysAccepted(c)) /\ t.useStrictKex
                                   THEN 0 ELSE n + 1)
<1> DEFINE p == r.out[1]
           c == ClearExpect(s, p.id)
           t == Dispatch(e, c, p)
           m == IF (p.id = "NEWKEYS" /\ NewKeysAccepted(c)) /\ t.useStrictKex THEN 0 ELSE n + 1
<1> SUFFICES Handled(e, s, t, q, m)
  OBVIOUS
<1>1. CASE p.id \notin Trans
  <2>1. Handled(e, s, t, q, n + 1)
    BY <1>1, OtherHandled
  <2>2. m = n + 1
    BY <1>1 DEF Trans
  <2> QED BY <2>1, <2>2
<1>2. CASE p.id = "KEXINIT"
  <2>1. c = s
    BY <1>2, KexInitTaken
  <2>2. t = DispatchKexInit(e, s, p) /\ m = n + 1
    BY <1>2, <2>1 DEF Dispatch
  <2> QED BY <1>2, <2>2, DispatchKexInitHandled
<1>3. CASE p.id \in {"KEXDH_INIT", "GEX_INIT"}
  <2>1. e = "server"
    BY <1>3 DEF IsMessageAllowed, NeverAllowed, Endpoints
  <2>2. t = SendKexDhReply(c) /\ m = n + 1
    BY <1>3 DEF Dispatch
  <2> QED BY <1>3, <2>1, <2>2, ReplyHandled
<1>4. CASE p.id = "GEX_REQUEST"
  <2>1. e = "server"
    BY <1>4 DEF IsMessageAllowed, NeverAllowed, Endpoints
  <2>2. t = SendKexDhGexGroup(c) /\ m = n + 1
    BY <1>4 DEF Dispatch
  <2> QED BY <1>4, <2>1, <2>2, GroupHandled
<1>5. CASE p.id \in Answers
  <2>1. e = "client"
    BY <1>5 DEF IsMessageAllowed, NeverAllowed, Endpoints, Answers
  <2>2. p.id \in Trans /\ p.id # "KEXINIT" /\ p.id # "NEWKEYS"
    BY <1>5, StringsDiffer
  <2>3. c.kexId = s.kexId /\ s.kexId \in {"DH", "GEX"}
    BY <2>2, ExpectedMessage DEF Expects, Frame, Kept, IsSession
  <2>4. m = n + 1
    BY <2>2
  <2> HIDE DEF m
  <2>5. CASE p.id = "KEXDH_REPLY" /\ s.kexId = "GEX"
    <3>1. t = SendKexDhInit(c)
      BY <2>3, <2>5 DEF Dispatch
    <3> QED BY <2>1, <2>4, <2>5, <3>1, GexGroupHandled
  <2>6. CASE ~(p.id = "KEXDH_REPLY" /\ s.kexId = "GEX")
    <3>1. t = DoKexDhReply(c, p)
      BY <1>5, <2>3, <2>6 DEF Dispatch, Answers
    <3>2. IsReply(p, s.kexId)
      BY <1>5, <2>3, <2>6 DEF IsReply, Answers
    <3> QED BY <1>5, <2>1, <2>4, <3>1, <3>2, DoKexDhReplyHandled
  <2> QED BY <2>5, <2>6
<1>6. CASE p.id = "NEWKEYS"
  <2>1. t = DoNewKeys(c)
    BY <1>6 DEF Dispatch
  <2>2. m = IF NewKeysAccepted(c) /\ t.useStrictKex THEN 0 ELSE n + 1
    BY <1>6
  <2> QED BY <1>6, <2>1, <2>2, DoNewKeysHandled
<1> QED BY <1>1, <1>2, <1>3, <1>4, <1>5, <1>6 DEF Trans, TransKex, Answers

\* What the receipt of a packet makes of a session.
Received(e, s, t, q) ==
    InStep(e, t, q, t.peerSeq) /\ AtRest(e, t) /\ Early(e, t) /\ Mono(s, t)

LEMMA DeadReceived ==
    ASSUME NEW e \in Endpoints, NEW s, NEW t, NEW r, NEW q, NEW n,
           Leads(e, s, t, r, n), AtRest(e, s), Early(e, s), Taken(r, q), ~Alive(t)
    PROVE  Received(e, s, t, q)
  BY TakeDead DEF Leads, Received

\* A session that was disconnected steps over its packets.
LEMMA DisconnectedHandled ==
    ASSUME NEW e \in Endpoints, NEW s, NEW r, NEW q, NEW n, NEW p, InStep(e, s, r, n),
           AtRest(e, s), Early(e, s), Taken(r, q), s.disconnected
    PROVE  LET c == ClearExpect(s, p.id)
               t == IF s.disconnected /\ p.id # "DISCONNECT" THEN c ELSE Dispatch(e, c, p)
           IN  Handled(e, s, t, q, n + 1) /\ ~Alive(t)
<1> DEFINE c == ClearExpect(s, p.id)
           t == IF s.disconnected /\ p.id # "DISCONNECT" THEN c ELSE Dispatch(e, c, p)
<1>1. IsSession(s)
  BY InStepTypes
<1>2. c = s \/ c = SetExpect(s, "NONE")
  BY DEF ClearExpect
<1> HIDE DEF c
<1>3. Ending(s, c)
  <2>1. CASE c = s
    BY <2>1, <1>1 DEF Ending, Kept, Alive
  <2>2. CASE c = SetExpect(s, "NONE")
    <3>1. Expects(s, c, "NONE") /\ c.handshake = [s.handshake EXCEPT !.expectMsgId = "NONE"]
      BY <1>1, <2>2, SetExpectFields
    <3> QED BY <3>1 DEF Ending, Expects, Frame, Alive
  <2> QED BY <1>2, <2>1, <2>2
<1>4. Leads(e, s, c, r, n) /\ IsSession(c)
  BY <1>3, EndingLeads, LeadsTypes
<1>5. Ending(c, t)
  <2>1. CASE p.id # "DISCONNECT"
    <3>1. t = c
      BY <2>1
    <3> QED BY <3>1, <1>3, <1>4 DEF Ending, Kept
  <2>2. CASE p.id = "DISCONNECT"
    <3>1. t = [c EXCEPT !.disconnected = TRUE, !.error = TRUE]
      BY <2>2 DEF Dispatch, DoDisconnect
    <3> HIDE DEF t
    <3> QED BY <3>1, <1>4 DEF Ending, Kept, IsSession, Fields, Alive
  <2> QED BY <2>1, <2>2
<1> HIDE DEF t
<1>6. Leads(e, c, t, r, n) /\ ~Alive(t)
  BY <1>4, <1>5, EndingLeads DEF Leads, Ending
<1>7. Leads(e, s, t, r, n)
  BY <1>1, <1>4, <1>6, LeadsTrans
<1> QED BY <1>6, <1>7, DeadHandled DEF c, t

LEMMA DoPacketReceived ==
    ASSUME NEW e \in Endpoints, NEW s, NEW r, NEW q, InStep(e, s, r, s.peerSeq),
           AtRest(e, s), Early(e, s), Taken(r, q), ~s.error
    PROVE  Received(e, s, DoPacket(e, s, r.out[1]), q)
<1> DEFINE p == r.out[1]
           n == s.peerSeq
           c == ClearExpect(s, p.id)
           x == IF s.disconnected /\ p.id # "DISCONNECT" THEN c ELSE Dispatch(e, c, p)
           done == p.id = "NEWKEYS" /\ ~s.disconnected /\ NewKeysAccepted(c)
<1>1. IsSession(s)
  BY InStepTypes
<1>2. CASE ~IsMessageAllowed(e, s, p.id)
  <2> DEFINE d == IF s.disconnected THEN s ELSE SendDisconnect(s)
  <2>1. DoPacket(e, s, p) = Failed(d)
    BY <1>2 DEF DoPacket
  <2>2. Leads(e, s, d, r, n)
    BY SendDisconnectLeads, InStepFollows, FollowsLeads
  <2> HIDE DEF d
  <2>3. Leads(e, s, Failed(d), r, n) /\ IsSession(d)
    BY <1>1, <2>2, FailedLeads, LeadsTypes
  <2>4. ~Alive(Failed(d))
    BY <2>3, FailedEnding DEF Ending
  <2> QED BY <2>1, <2>3, <2>4, DeadReceived
<1>3. CASE IsMessageAllowed(e, s, p.id)
  <2>1. DoPacket(e, s, p) = ConsumePacket(x, done)
    BY <1>3 DEF DoPacket
  <2>2. done \in BOOLEAN
    BY DEF NewKeysAccepted
  <2>3. CASE s.disconnected
    <3>1. Handled(e, s, x, q, n + 1) /\ ~Alive(x)
      BY <2>3, DisconnectedHandled
    <3> HIDE DEF x, done
    <3> QED BY <1>1, <2>1, <2>2, <3>1, ConsumePacketLeads DEF Received
  <2>4. CASE ~s.disconnected
    <3>1. Takes(e, s, r, q, n)
      BY <2>4 DEF Takes, Alive
    <3>2. x = Dispatch(e, c, p) /\ (done <=> (p.id = "NEWKEYS" /\ NewKeysAccepted(c)))
      BY <2>4
    <3>3. Handled(e, s, x, q, IF done /\ x.useStrictKex THEN 0 ELSE n + 1)
      BY <1>3, <3>1, <3>2, DispatchHandled
    <3> HIDE DEF x, done
    <3> QED BY <1>1, <2>1, <2>2, <3>3, ConsumePacketLeads DEF Received
  <2> QED BY <2>3, <2>4
<1> QED BY <1>2, <1>3

LEMMA DoReceiveReceived ==
    ASSUME NEW e \in Endpoints, NEW s, NEW r, NEW q, InStep(e, s, r, s.peerSeq),
           AtRest(e, s), Early(e, s), Taken(r, q), ~s.error
    PROVE  Received(e, s, DoReceive(e, s, r.out[1]), q)
<1> DEFINE p == r.out[1]
           n == s.peerSeq
           a == [s EXCEPT !.rxCount = @ + 1]
           b == [s EXCEPT !.highwaterFlag = TRUE, !.msgHighwaterFlag = TRUE]
<1>1. IsSession(s)
  BY InStepTypes
<1>2. Tweaked(s, a) /\ a.peerSeq = s.peerSeq /\ Tweaked(s, b) /\ b.peerSeq = s.peerSeq
  BY <1>1 DEF Tweaked, Frame, Kept, IsSession, Fields
<1>3. CASE Authentic(s, p)
  <2>1. DoReceive(e, s, p) = DoPacket(e, a, p)
    BY <1>3 DEF DoReceive
  <2> HIDE DEF a
  <2>2. Leads(e, s, a, r, n) /\ IsSession(a)
    BY <1>2, TweakedFollows, FollowsLeads, LeadsTypes
  <2>3. ~a.error /\ InStep(e, a, r, a.peerSeq) /\ AtRest(e, a) /\ Early(e, a) /\ Mono(s, a)
    BY <1>2, <2>2 DEF Tweaked, Frame, Leads
  <2>4. Received(e, a, DoPacket(e, a, p), q)
    BY <2>3, DoPacketReceived
  <2>5. IsSession(DoPacket(e, a, p))
    BY <2>4, InStepTypes DEF Received
  <2>6. Mono(s, DoPacket(e, a, p))
    BY <1>1, <2>2, <2>3, <2>4, <2>5, MonoTrans DEF Received
  <2> QED BY <2>1, <2>4, <2>6 DEF Received
<1>4. CASE ~Authentic(s, p)
  <2>1. DoReceive(e, s, p) = Failed(b)
    BY <1>4 DEF DoReceive
  <2> HIDE DEF b
  <2>2. Leads(e, s, b, r, n) /\ IsSession(b)
    BY <1>2, TweakedFollows, FollowsLeads, LeadsTypes
  <2>3. Leads(e, s, Failed(b), r, n) /\ ~Alive(Failed(b))
    BY <1>1, <2>2, FailedLeads, FailedEnding DEF Ending
  <2> QED BY <2>1, <2>3, DeadReceived
<1> QED BY <1>3, <1>4

----------------------------------------------------------------------------
(* The actions.                                                            *)

LEMMA FollowsReceived ==
    ASSUME NEW e \in Endpoints, NEW s, NEW t, NEW r, AtRest(e, s), Early(e, s),
           Follows(e, s, t, r, s.peerSeq)
    PROVE  Received(e, s, t, r)
<1>1. Leads(e, s, t, r, s.peerSeq) /\ t.peerSeq = s.peerSeq
  BY FollowsLeads DEF Follows, Keeps
<1> QED BY <1>1 DEF Leads, Received

\* The session goes on, by sending, to u, and then to another state.
LEMMA MovedReceived ==
    ASSUME NEW e \in Endpoints, NEW s, NEW u, NEW t, NEW r, IsSession(s),
           InStep(e, u, r, s.peerSeq), AtRest(e, u), Mono(s, u), u.peerSeq = s.peerSeq,
           Moved(u, t), Named(t), Early(e, t)
    PROVE  Received(e, s, t, r)
<1>1. InStep(e, t, r, s.peerSeq) /\ Mono(u, t) /\ AtRest(e, t) /\ t.peerSeq = s.peerSeq
  BY MovedInStep, MovedRest DEF Moved
<1>2. IsSession(u) /\ IsSession(t)
  BY <1>1, InStepTypes
<1>3. Mono(s, t)
  BY <1>1, <1>2, MonoTrans
<1> QED BY <1>1, <1>3 DEF Received

LEMMA StateMoved ==
    ASSUME NEW u, NEW x, IsSession(u)
    PROVE  LET t == [u EXCEPT !.state = x] IN Moved(u, t) /\ t.state = x
  BY DEF Moved, Kept, IsSession, Fields

\* What IInv says of one session.
LEMMA SessionInStep ==
    ASSUME IInv, NEW e \in Endpoints
    PROVE  LET s == ssh[e]
               r == ssh[Peer(e)]
           IN  /\ InStep(e, s, r, s.peerSeq) /\ AtRest(e, s) /\ Early(e, s)
               /\ IsSession(s) /\ IsSession(r) /\ Peer(e) \in Endpoints
               /\ InStep(Peer(e), r, s, r.peerSeq) /\ AtRest(Peer(e), r) /\ Early(Peer(e), r)
  BY PeerPeer, InStepTypes DEF IInv

LEMMA StartKexReceived ==
    ASSUME IInv, NEW e \in Endpoints, StartKex(e)
    PROVE  Received(e, ssh[e], ssh'[e], ssh[Peer(e)]) /\ ssh' = [ssh EXCEPT ![e] = ssh'[e]]
<1> DEFINE s == ssh[e]
           r == ssh[Peer(e)]
           u == SendKexInit(s)
           t == [u EXCEPT !.state = "KEXINIT_SENT"]
<1>1. InStep(e, s, r, s.peerSeq) /\ AtRest(e, s) /\ Early(e, s) /\ IsSession(s)
  BY SessionInStep
<1>2. Follows(e, s, u, r, s.peerSeq) /\ "SELF" \in u.isKeying /\ IsSession(u)
  BY <1>1, SendKexInitFollows, FollowsTypes
<1>3. s.state = "VERSION_DONE" /\ ssh' = [ssh EXCEPT ![e] = t]
  BY DEF StartKex, Update
<1>4. Moved(u, t) /\ t.state = "KEXINIT_SENT"
  BY <1>2, StateMoved
<1> HIDE DEF u
<1>5. /\ InStep(e, u, r, s.peerSeq) /\ AtRest(e, u) /\ Mono(s, u) /\ u.peerSeq = s.peerSeq
  BY <1>1, <1>2, FollowsLeads DEF Follows, Keeps, Leads
<1> HIDE DEF t
<1>6. Named(t)
  BY <1>2, <1>4 DEF Named, Moved
<1>7. Early(e, t)
  <2>1. e = "client" => s.handshake.expectMsgId = "NONE"
    BY <1>1, <1>3 DEF Early
  <2> QED BY <2>1, <1>2, <1>4 DEF Early, Moved, Follows, Keeps
<1>8. Received(e, s, t, r)
  BY <1>1, <1>4, <1>5, <1>6, <1>7, MovedReceived
<1>9. ssh'[e] = t
  BY <1>3 DEF IInv
<1> QED BY <1>3, <1>8, <1>9

LEMMA ConnectKexDhReceived ==
    ASSUME IInv, ConnectKexDh
    PROVE  /\ Received("client", ssh["client"], ssh'["client"], ssh[Peer("client")])
           /\ ssh' = [ssh EXCEPT !["client"] = ssh'["client"]]
<1> DEFINE e == "client"
           s == ssh[e]
           r == ssh[Peer(e)]
           u == StartKexDh(s)
           t == [u EXCEPT !.state = "KEXDH_INIT_SENT"]
<1>0. e \in Endpoints
  BY DEF Endpoints
<1>1. InStep(e, s, r, s.peerSeq) /\ AtRest(e, s) /\ Early(e, s) /\ IsSession(s)
  BY <1>0, SessionInStep
<1>2. /\ s.state = "KEXINIT_SENT" /\ Hashed(s) /\ Alive(s) /\ ssh' = [ssh EXCEPT ![e] = t]
  BY DEF ConnectKexDh, ConnectKexInitDone, Running, Alive, Hashed, Update
<1>3. s.handshake.expectMsgId = "NONE"
  BY <1>1, <1>2 DEF Early
<1>4. /\ InStep(e, u, r, s.peerSeq) /\ AtRest(e, u) /\ Alive(u)
      /\ u.state = s.state /\ Mono(s, u) /\ u.peerSeq = s.peerSeq
  BY <1>1, <1>2, <1>3, StartKexDhSent
<1> HIDE DEF u
<1>5. IsSession(u)
  BY <1>0, <1>4, InStepTypes
<1>6. Moved(u, t) /\ t.state = "KEXDH_INIT_SENT"
  BY <1>5, StateMoved
<1> HIDE DEF t
<1>7. Named(t)
  <2>1. Named(u)
    BY <1>4, RestNamed
  <2> QED BY <2>1, <1>2, <1>4, <1>6 DEF Named, Moved
<1>8. Early(e, t)
  BY <1>6 DEF Early
<1>9. Received(e, s, t, r)
  BY <1>0, <1>1, <1>4, <1>6, <1>7, <1>8, MovedReceived
<1>10. ssh'[e] = t
  BY <1>0, <1>2 DEF IInv
<1> QED BY <1>2, <1>9, <1>10

LEMMA BecomeKeyedReceived ==
    ASSUME IInv, NEW e \in Endpoints, BecomeKeyed(e)
    PROVE  Received(e, ssh[e], ssh'[e], ssh[Peer(e)]) /\ ssh' = [ssh EXCEPT ![e] = ssh'[e]]
<1> DEFINE s == ssh[e]
           r == ssh[Peer(e)]
           t == [s EXCEPT !.state = "KEYED"]
<1>1. InStep(e, s, r, s.peerSeq) /\ AtRest(e, s) /\ Early(e, s) /\ IsSession(s)
  BY SessionInStep
<1>2. /\ s.isKeying = {} /\ s.state # "VERSION_DONE" /\ ssh' = [ssh EXCEPT ![e] = t]
  BY DEF BecomeKeyed, KexLoopDone, Update
<1>3. Moved(s, t) /\ t.state = "KEYED"
  BY <1>1, StateMoved
<1> HIDE DEF t
<1>4. s.sessionId # NoKeys
  BY <1>1, <1>2 DEF AtRest
<1>5. Named(t) /\ Early(e, t)
  BY <1>3, <1>4 DEF Named, Early, Moved
<1>6. Mono(s, s)
  BY <1>1, MonoSame
<1>7. Received(e, s, t, r)
  BY <1>1, <1>3, <1>5, <1>6, MovedReceived
<1>8. ssh'[e] = t
  BY <1>2 DEF IInv
<1> QED BY <1>2, <1>7, <1>8

LEMMA AuthStepReceived ==
    ASSUME IInv, NEW e \in Endpoints, AuthStep(e)
    PROVE  Received(e, ssh[e], ssh'[e], ssh[Peer(e)]) /\ ssh' = [ssh EXCEPT ![e] = ssh'[e]]
<1> DEFINE s == ssh[e]
           r == ssh[Peer(e)]
           p == Packet(IF e = "client" THEN "AUTH_REQ" ELSE "AUTH_REP")
           u == SendPacket(s, p)
           x == [s EXCEPT !.state = "DONE"]
           y == IF e = "server" /\ s.round + 1 = AuthRounds THEN "DONE" ELSE u.state
           t == [u EXCEPT !.round = @ + 1, !.state = y]
<1>1. InStep(e, s, r, s.peerSeq) /\ AtRest(e, s) /\ Early(e, s) /\ IsSession(s)
  BY SessionInStep
<1>2. /\ s.state = "KEYED"
      /\ ssh' = [ssh EXCEPT ![e] = x] \/ ssh' = [ssh EXCEPT ![e] = t]
  BY DEF AuthStep, AuthReady, Update
<1>3. s.sessionId # NoKeys
  BY <1>1, <1>2 DEF AtRest
<1>4. p \in Packets /\ p.id \notin Trans /\ p.id \notin Conn
  <2>1. \A id \in {"AUTH_REQ", "AUTH_REP"} : id \in MsgIds /\ id \notin Trans /\ id \notin Conn
    BY DEF MsgIds, TransGen, Trans, TransKex, Conn
  <2> QED BY <2>1, PacketOK
<1> HIDE DEF p
<1>5. Follows(e, s, u, r, s.peerSeq) /\ IsSession(u)
  BY <1>1, <1>4, SendPacketFollows, FollowsTypes
<1> HIDE DEF u
<1>6. Received(e, s, x, r)
  <2>1. Moved(s, x) /\ x.state = "DONE"
    BY <1>1, StateMoved
  <2> HIDE DEF x
  <2>2. Named(x) /\ Early(e, x) /\ Mono(s, s)
    BY <1>1, <1>3, <2>1, MonoSame DEF Named, Early, Moved
  <2> QED BY <1>1, <2>1, <2>2, MovedReceived
<1>7. Received(e, s, t, r)
  <2>1. u.state = "KEYED" /\ u.sessionId # NoKeys
    BY <1>2, <1>3, <1>5 DEF Follows, Keeps, Frame
  <2>2. y \in {"DONE", "KEYED"}
    BY <2>1
  <2> HIDE DEF y
  <2>3. Moved(u, t) /\ t.state = y
    BY <1>5 DEF Moved, Kept, IsSession, Fields
  <2> HIDE DEF t
  <2>4. Named(t) /\ Early(e, t)
    BY <2>1, <2>2, <2>3 DEF Named, Early, Moved
  <2>5. /\ InStep(e, u, r, s.peerSeq) /\ AtRest(e, u) /\ Mono(s, u) /\ u.peerSeq = s.peerSeq
    BY <1>1, <1>5, FollowsLeads DEF Follows, Keeps, Leads
  <2> QED BY <1>1, <2>3, <2>4, <2>5, MovedReceived
<1>8. CASE ssh' = [ssh EXCEPT ![e] = x]
  <2>1. ssh'[e] = x
    BY <1>8 DEF IInv
  <2> QED BY <1>6, <1>8, <2>1
<1>9. CASE ssh' = [ssh EXCEPT ![e] = t]
  <2>1. ssh'[e] = t
    BY <1>9 DEF IInv
  <2> QED BY <1>7, <1>9, <2>1
<1> QED BY <1>2, <1>8, <1>9

\* The calls of the application.
LEMMA AppStepReceived ==
    ASSUME IInv, NEW e \in Endpoints, AppStep(e)
    PROVE  Received(e, ssh[e], ssh'[e], ssh[Peer(e)]) /\ ssh' = [ssh EXCEPT ![e] = ssh'[e]]
<1> DEFINE s == ssh[e]
           r == ssh[Peer(e)]
<1>1. InStep(e, s, r, s.peerSeq) /\ AtRest(e, s) /\ Early(e, s) /\ IsSession(s)
  BY SessionInStep
<1>2. ASSUME NEW t, Received(e, s, t, r), Update(e, t)
      PROVE  Received(e, ssh[e], ssh'[e], ssh[Peer(e)]) /\ ssh' = [ssh EXCEPT ![e] = ssh'[e]]
  <2>1. ssh' = [ssh EXCEPT ![e] = t] /\ ssh'[e] = t
    BY <1>2 DEF Update, IInv
  <2> QED BY <1>2, <2>1
<1>3. CASE Trigger(e)
  <2>1. Follows(e, s, SendKexInit(s), r, s.peerSeq)
    BY <1>1, SendKexInitFollows
  <2>2. Received(e, s, SendKexInit(s), r)
    BY <1>1, <2>1, FollowsReceived
  <2> QED BY <1>2, <1>3, <2>2 DEF Trigger
<1>4. CASE StreamSend(e)
  <2> DEFINE p == Packet("DATA")
  <2>1. "DATA" \in MsgIds /\ "DATA" \notin Trans
    BY DEF MsgIds, Conn, Trans, TransKex
  <2>2. p \in Packets /\ p.id \notin Trans
    BY <2>1, PacketOK
  <2>3. Alive(s) /\ "SELF" \notin s.isKeying
    BY <1>4 DEF StreamSend, Running, Alive
  <2>4. Received(e, s, SendPacket(s, p), r)
    BY <1>1, <2>2, <2>3, SendPacketFollows, FollowsReceived
  <2> QED BY <1>2, <1>4, <2>4 DEF StreamSend
<1>5. CASE ChannelIdRead(e)
  <2> DEFINE z == [s EXCEPT !.unread = 0]
             t == ChannelCreditWindow(z, s.unread)
  <2>1. Tweaked(s, z) /\ z.peerSeq = s.peerSeq
    BY <1>1 DEF Tweaked, Frame, Kept, IsSession, Fields
  <2>2. ~s.error /\ Update(e, t)
    BY <1>5 DEF ChannelIdRead
  <2> HIDE DEF z
  <2>3. Follows(e, s, z, r, s.peerSeq) /\ ~z.error /\ IsSession(z)
    BY <1>1, <2>1, <2>2, TweakedFollows, FollowsTypes DEF Tweaked, Frame
  <2>4. Follows(e, z, t, r, s.peerSeq)
    BY <2>3, ChannelCreditWindowFollows DEF Follows
  <2>5. Received(e, s, t, r)
    BY <1>1, <2>3, <2>4, FollowsTypes, FollowsTrans, FollowsReceived
  <2> QED BY <1>2, <2>2, <2>5
<1>6. CASE SendIgnore(e)
  <2> DEFINE p == Packet("IGNORE")
  <2>1. "IGNORE" \in MsgIds /\ "IGNORE" \notin Trans /\ "IGNORE" \notin Conn
    BY DEF MsgIds, Conn, Trans, TransKex, TransGen
  <2>2. p \in Packets /\ p.id \notin Trans /\ p.id \notin Conn
    BY <2>1, PacketOK
  <2>3. Received(e, s, SendPacket(s, p), r)
    BY <1>1, <2>2, SendPacketFollows, FollowsReceived
  <2> QED BY <1>2, <1>6, <2>3 DEF SendIgnore
<1>7. CASE AppDisconnect(e)
  <2>1. Leads(e, s, SendDisconnect(s), r, s.peerSeq) /\ ~Alive(SendDisconnect(s))
    BY <1>1, SendDisconnectLeads
  <2>2. Received(e, s, SendDisconnect(s), r)
    BY <1>1, <2>1, DeadAnywhere DEF Leads, Received
  <2> QED BY <1>2, <1>7, <2>2 DEF AppDisconnect
<1> QED BY <1>3, <1>4, <1>5, <1>6, <1>7 DEF AppStep

LEMMA ReceiveReceived ==
    ASSUME IInv, NEW e \in Endpoints, Receive(e)
    PROVE  /\ Taken(ssh[Peer(e)], ssh'[Peer(e)])
           /\ Received(e, ssh[e], ssh'[e], ssh'[Peer(e)])
           /\ DOMAIN ssh' = Endpoints
<1> DEFINE s == ssh[e]
           r == ssh[Peer(e)]
           q == [r EXCEPT !.out = Tail(@)]
           t == DoReceive(e, s, Head(r.out))
<1>1. /\ InStep(e, s, r, s.peerSeq) /\ AtRest(e, s) /\ Early(e, s) /\ IsSession(r)
      /\ Peer(e) \in Endpoints
  BY SessionInStep
<1>2. Peer(e) # e /\ DOMAIN ssh = Endpoints
  BY PeerPeer DEF IInv
<1>3. ~s.error /\ r.out # <<>>
      /\ ssh' = [ssh EXCEPT ![e] = DoReceive(e, @, Head(ssh[Peer(e)].out)),
                            ![Peer(e)].out = Tail(@)]
  BY DEF Receive
<1>4. ssh'[e] = t /\ ssh'[Peer(e)] = q /\ DOMAIN ssh' = Endpoints
  BY <1>1, <1>2, <1>3
<1>5. Taken(r, q) /\ Head(r.out) = r.out[1]
  BY <1>1, <1>3, TailTaken
<1> HIDE DEF q
<1>6. Received(e, s, t, q)
  BY <1>1, <1>3, <1>5, DoReceiveReceived
<1> QED BY <1>4, <1>5, <1>6

----------------------------------------------------------------------------
(* The theorems.                                                           *)

\* A session that wolfSSH_new() has made.
Fresh(s, k) ==
    /\ IsSession(s) /\ s.out = <<>> /\ s.keys = NoKeys /\ s.peerKeys = NoKeys
    /\ s.seq = 0 /\ s.peerSeq = 0 /\ s.kexCount = 0 /\ s.isKeying = {}
    /\ s.handshake.hash = NoKeys /\ s.handshake.expectMsgId = "NONE"
    /\ s.handshake.kexInit = 0
    /\ s.sessionId = NoKeys /\ s.state = "VERSION_DONE" /\ s.kexId = k

LEMMA NewSessionFresh ==
    ASSUME NEW mark, NEW k \in {"DH", "GEX"}, NEW b \in BOOLEAN, NEW m
    PROVE  Fresh(NewSession(mark, k, b, m), k)
<1> DEFINE s == NewSession(mark, k, b, m)
<1>1. NoHandshake \in Handshake /\ NoHandshake.hash = NoKeys
      /\ NoHandshake.expectMsgId = "NONE" /\ NoHandshake.kexInit = 0
  BY KeysOK DEF NoHandshake, HandshakeInfoNew, Handshake
<1>2. /\ DOMAIN s = Fields
      /\ s.out = <<>> /\ s.keys = NoKeys /\ s.peerKeys = NoKeys
      /\ s.seq = 0 /\ s.peerSeq = 0 /\ s.kexCount = 0 /\ s.isKeying = {}
      /\ s.handshake = NoHandshake /\ s.sendStrictKex = b /\ s.useStrictKex = FALSE
      /\ s.sessionId = NoKeys /\ s.state = "VERSION_DONE" /\ s.kexId = k
  BY DEF NewSession, Fields
<1> HIDE DEF s
<1>3. <<>> \in Seq(Packets)
  OBVIOUS
<1>4. IsSession(s)
  BY <1>1, <1>2, <1>3, KeysOK DEF IsSession
<1> QED BY <1>1, <1>2, <1>4 DEF Fresh, s

LEMMA InitInStep ==
    ASSUME Init
    PROVE  IInv
<1>1. PICK cm \in Marks, sm \in Marks, k \in KexIds, cs \in StrictChoices,
           st \in StrictChoices, m \in MatchChoices :
          ssh = [e \in Endpoints |-> IF e = "client" THEN NewSession(cm, k, cs, m)
                                                    ELSE NewSession(sm, k, st, m)]
  BY DEF Init
<1>2. k \in {"DH", "GEX"} /\ cs \in BOOLEAN /\ st \in BOOLEAN
  BY ConstantsAssumption
<1>3. DOMAIN ssh = Endpoints /\ "client" \in Endpoints /\ "server" \in Endpoints
      /\ ssh["client"] = NewSession(cm, k, cs, m) /\ ssh["server"] = NewSession(sm, k, st, m)
  BY <1>1 DEF Endpoints
<1>4. \A e \in Endpoints : Fresh(ssh[e], k)
  BY <1>2, <1>3, NewSessionFresh DEF Endpoints
<1>5. ASSUME NEW e \in Endpoints
      PROVE  InStep(e, ssh[e], ssh[Peer(e)], ssh[e].peerSeq) /\ AtRest(e, ssh[e]) /\ Early(e, ssh[e])
  <2> DEFINE s == ssh[e]
             r == ssh[Peer(e)]
  <2>0. Peer(e) \in Endpoints
    BY PeerPeer
  <2>1. /\ IsSession(s) /\ s.out = <<>> /\ s.keys = NoKeys /\ s.peerKeys = NoKeys
        /\ s.seq = 0 /\ s.peerSeq = 0 /\ s.kexCount = 0 /\ s.isKeying = {}
        /\ s.handshake.hash = NoKeys /\ s.handshake.expectMsgId = "NONE"
        /\ s.handshake.kexInit = 0
        /\ s.sessionId = NoKeys /\ s.state = "VERSION_DONE" /\ s.kexId = k
    BY <1>4 DEF Fresh
  <2>2. /\ IsSession(r) /\ r.out = <<>> /\ r.keys = NoKeys /\ r.peerKeys = NoKeys
        /\ r.seq = 0 /\ r.peerSeq = 0 /\ r.kexCount = 0 /\ r.isKeying = {}
        /\ r.handshake.hash = NoKeys /\ r.handshake.expectMsgId = "NONE"
        /\ r.handshake.kexInit = 0
        /\ r.sessionId = NoKeys /\ r.state = "VERSION_DONE" /\ r.kexId = k
    BY <2>0, <1>4 DEF Fresh
  <2> HIDE DEF s, r
  <2>3. /\ Len(s.out) = 0 /\ Len(r.out) = 0 /\ 1..Len(s.out) = {} /\ 1..Len(r.out) = {}
        /\ NextKeys(s, 0) = NoKeys /\ NextSeq(s, 0) = 0
        /\ NextKeys(r, 0) = NoKeys /\ NextSeq(r, 0) = 0
    BY <2>1, <2>2 DEF NextKeys, NextSeq
  <2>4. /\ \A f \in Endpoints : NoKeys[Own(f)] = 0 /\ NoKeys[Other(f)] = 0
        /\ ~Hashed(s) /\ ~Hashed(r)
    BY <2>1, <2>2, KeysOK DEF Hashed
  <2>5. Mine(e, s)
    BY <2>1, <2>3, <2>4 DEF Mine, Linked, Rising, Counted, Exchanging, MarkerSent
  <2>6. Mine(Peer(e), r)
    BY <2>0, <2>2, <2>3, <2>4 DEF Mine, Linked, Rising, Counted, Exchanging, MarkerSent
  <2>7. ~Between(s.out, Len(s.out), FALSE) /\ ~Between(r.out, Len(r.out), FALSE)
    BY <2>3 DEF Between
  <2>8. Hashed(s) = FALSE /\ Hashed(r) = FALSE
    BY <2>4 DEF Hashed
  <2>9. Quiet(s, r) /\ Quiet(r, s)
    BY <2>3, <2>7, <2>8 DEF Quiet
  <2>10. Hears(e, s, r, s.peerSeq)
    BY <2>1, <2>2, <2>3, <2>4, <2>9 DEF Hears, Opens, Later, StrictAgreed
  <2>11. Hears(Peer(e), r, s, r.peerSeq)
    BY <2>0, <2>1, <2>2, <2>3, <2>4, <2>9 DEF Hears, Opens, Later, StrictAgreed
  <2>12. Paired(s, r) /\ Paired(r, s)
    BY <2>1, <2>2, <2>3
       DEF Paired, Asked, Answered, ClientSwitches, ServerSwitches, ReplyMade, Identified, MarkerDue
  <2>13. InStep(e, s, r, s.peerSeq)
    BY <2>5, <2>6, <2>10, <2>11, <2>12 DEF InStep
  <2>14. AtRest(e, s) /\ Early(e, s)
    BY <2>1, <2>4 DEF AtRest, Begun, Early
  <2> QED BY <2>13, <2>14 DEF s, r
<1> QED BY <1>3, <1>5 DEF IInv

\* Every step keeps the invariant, and no endpoint goes back to a number
\* under the same keys.
LEMMA StepInStep ==
    ASSUME IInv, [Next]_vars
    PROVE  IInv' /\ \A e \in Endpoints : Mono(ssh[e], ssh'[e])
<1>1. CASE UNCHANGED vars
  <2>1. ssh' = ssh
    BY <1>1 DEF vars
  <2>2. \A e \in Endpoints : Mono(ssh[e], ssh[e])
    BY SessionInStep, MonoSame
  <2> QED BY <2>1, <2>2 DEF IInv
<1>2. ASSUME NEW e \in Endpoints, LibraryStep(e) \/ AppStep(e)
      PROVE  IInv' /\ \A f \in Endpoints : Mono(ssh[f], ssh'[f])
  <2> DEFINE s == ssh[e]
             r == ssh[Peer(e)]
             t == ssh'[e]
             q == ssh'[Peer(e)]
  <2>0. Peer(e) \in Endpoints /\ Peer(e) # e /\ Peer(Peer(e)) = e /\ DOMAIN ssh = Endpoints
        /\ \A f \in Endpoints : f = e \/ f = Peer(e)
    BY PeerPeer DEF IInv, Endpoints, Peer
  <2>1. /\ DOMAIN ssh' = Endpoints /\ Received(e, s, t, q)
        /\ q = r \/ Taken(r, q)
    <3>1. CASE Receive(e)
      BY <3>1, ReceiveReceived
    <3>2. CASE Received(e, s, t, r) /\ ssh' = [ssh EXCEPT ![e] = t]
      <4>1. q = r /\ DOMAIN ssh' = Endpoints
        BY <3>2, <2>0
      <4> QED BY <3>2, <4>1
    <3>3. StartKex(e) \/ BecomeKeyed(e) \/ AuthStep(e) \/ AppStep(e)
              => Received(e, s, t, r) /\ ssh' = [ssh EXCEPT ![e] = t]
      BY StartKexReceived, BecomeKeyedReceived, AuthStepReceived, AppStepReceived
    <3>4. e = "client" /\ ConnectKexDh
              => Received(e, s, t, r) /\ ssh' = [ssh EXCEPT ![e] = t]
      BY ConnectKexDhReceived
    <3> QED BY <1>2, <3>1, <3>2, <3>3, <3>4 DEF LibraryStep
  <2>2. AtRest(Peer(e), r) /\ Early(Peer(e), r) /\ IsSession(r)
    BY SessionInStep
  <2> HIDE DEF s, r, t, q
  <2>3. AtRest(Peer(e), q) /\ Early(Peer(e), q) /\ Mono(r, q)
    <3>1. CASE q = r
      BY <3>1, <2>2, MonoSame
    <3>2. CASE Taken(r, q)
      BY <3>2, <2>2, MonoSame DEF Taken, AtRest, Begun, Early, Alive, Hashed
    <3> QED BY <2>1, <3>1, <3>2
  <2>4. InStep(e, t, q, t.peerSeq) /\ InStep(Peer(e), q, t, q.peerSeq)
    <3>1. InStep(e, t, q, t.peerSeq)
      BY <2>1 DEF Received
    <3> QED BY <3>1, <2>0 DEF InStep, Endpoints, Peer
  <2>5. AtRest(e, t) /\ Early(e, t) /\ Mono(s, t)
    BY <2>1 DEF Received
  <2>6. \A f \in Endpoints : Mono(ssh[f], ssh'[f])
    BY <2>0, <2>3, <2>5 DEF s, r, t, q
  <2>7. \A f \in Endpoints :
           /\ InStep(f, ssh'[f], ssh'[Peer(f)], ssh'[f].peerSeq)
           /\ AtRest(f, ssh'[f]) /\ Early(f, ssh'[f])
    BY <2>0, <2>3, <2>4, <2>5 DEF t, q
  <2> QED BY <2>1, <2>6, <2>7 DEF IInv
<1> QED BY <1>1, <1>2 DEF Next

\* The two ends of a connection are in step in every state, whatever the
\* configuration and however many exchanges, crossing KEXINITs included.
THEOREM TransportInvariant == Spec => []IInv
<1>1. Init => IInv
  BY InitInStep
<1>2. IInv /\ [Next]_vars => IInv'
  BY StepInStep
<1> QED BY <1>1, <1>2, PTL DEF Spec

\* No nonce is used twice under one key: SendNewKeys() sets the sequence
\* number back only as it moves to keys that both KEXINITs are new to.
THEOREM FreshNoncesAlways == Spec => FreshNonces
<1>1. IInv /\ [Next]_vars =>
         [\A e \in Endpoints :
             LET s == ssh[e]
                 t == ssh'[e]
             IN  IF t.keys = s.keys THEN t.seq >= s.seq
                 ELSE t.keys[1] > s.keys[1] /\ t.keys[2] > s.keys[2]]_vars
  BY StepInStep DEF Mono, Newer
<1> QED BY <1>1, TransportInvariant, PTL DEF Spec, FreshNonces

LEMMA InStepInSync ==
    ASSUME IInv
    PROVE  InSync
<1>1. NextOpens
  <2> SUFFICES ASSUME NEW e \in Endpoints, Running(e), ssh[Peer(e)].out # <<>>
               PROVE  Authentic(ssh[e], Head(ssh[Peer(e)].out))
    BY DEF NextOpens
  <2> DEFINE s == ssh[e]
             r == ssh[Peer(e)]
  <2>1. InStep(e, s, r, s.peerSeq) /\ IsSession(r)
    BY SessionInStep
  <2>2. Taken(r, [r EXCEPT !.out = Tail(@)]) /\ Head(r.out) = r.out[1]
    BY <2>1, TailTaken
  <2>3. NextKeys(r, 0) = r.out[1].keys /\ NextSeq(r, 0) = r.out[1].seq
    BY <2>2 DEF Taken
  <2>4. s.peerKeys = NextKeys(r, 0) /\ s.peerSeq = NextSeq(r, 0)
    BY <2>1 DEF InStep, Hears, Opens, Running, Alive
  <2> QED BY <2>2, <2>3, <2>4 DEF Authentic
<1>2. QuietWhileKeying
  <2> SUFFICES ASSUME NEW e \in Endpoints, Unmarked(ssh[e]), Running(Peer(e)),
                      NEW j \in 1..Len(ssh[e].out), ssh[e].out[j].id \in Conn
               PROVE  ~Between(ssh[e].out, j, "PEER" \in ssh[Peer(e)].isKeying)
    BY DEF QuietWhileKeying
  <2> DEFINE s == ssh[e]
             r == ssh[Peer(e)]
  <2>1. InStep(e, s, r, s.peerSeq) /\ AtRest(Peer(e), r) /\ Alive(r)
    BY SessionInStep DEF Running, Alive
  <2>2. ~Between(s.out, j, Hashed(r))
    BY <2>1 DEF InStep, Hears, Quiet
  <2>3. Hashed(r) = ("PEER" \in r.isKeying)
    BY <2>1 DEF AtRest, Hashed
  <2> QED BY <2>2, <2>3
<1> QED BY <1>1, <1>2 DEF InSync

\* The next packet on the wire opens at a session that is alive, and no
\* channel data or window adjust crosses an exchange.
THEOREM InSyncAlways == Spec => []InSync
<1>1. IInv => InSync
  BY InStepInSync
<1> QED BY <1>1, TransportInvariant, PTL

LEMMA InStepAgreement ==
    ASSUME IInv
    PROVE  SessionAgreement
<1> DEFINE c == ssh["client"]
           v == ssh["server"]
<1> SUFFICES ASSUME Running("client"), Running("server")
             PROVE  /\ (c.sessionId # NoKeys /\ v.sessionId # NoKeys)
                          => c.sessionId = v.sessionId
                    /\ (c.isKeying = {} /\ v.isKeying = {} /\ c.out = <<>> /\ v.out = <<>>)
                          => {c.keys, c.peerKeys} = {v.keys, v.peerKeys}
                             /\ c.keys = c.peerKeys
  BY DEF SessionAgreement
<1>1. "client" \in Endpoints /\ "server" \in Endpoints /\ Peer("client") = "server"
  BY DEF Endpoints, Peer
<1>2. InStep("client", c, v, c.peerSeq) /\ AtRest("client", c) /\ AtRest("server", v)
  BY <1>1, SessionInStep
<1>3. Alive(c) /\ Alive(v)
  BY DEF Running, Alive
<1>4. c.sessionId # NoKeys => c.sessionId = v.sessionId
  BY <1>2 DEF InStep, Paired, Identified
<1>5. ASSUME c.isKeying = {}, v.isKeying = {}, v.out = <<>>
      PROVE  c.keys = c.peerKeys /\ v.keys = v.peerKeys /\ c.peerKeys = v.keys
  <2>1. c.keys = c.peerKeys /\ v.keys = v.peerKeys
    BY <1>2, <1>3, <1>5 DEF AtRest
  <2>2. c.peerKeys = NextKeys(v, 0)
    BY <1>2, <1>3 DEF InStep, Hears, Opens
  <2>3. NextKeys(v, 0) = v.keys
    BY <1>5 DEF NextKeys
  <2> QED BY <2>1, <2>2, <2>3
<1> QED BY <1>4, <1>5

\* Both ends keep the first exchange's H as the session identifier, and
\* between exchanges they seal and open with the same keys.
THEOREM SessionAgreementAlways == Spec => []SessionAgreement
<1>1. IInv => SessionAgreement
  BY InStepAgreement
<1> QED BY <1>1, TransportInvariant, PTL

----------------------------------------------------------------------------
(* No session ends by itself: ends without marks, whose applications ask   *)
(* wolfSSH_RekeyPending() before they trigger an exchange.                 *)

\* A packet of S comes after the NEWKEYS.
Guarded(q, S) ==
    \A j \in 1..Len(q) : q[j].id \in S => \E i \in 1..j : q[i].id = "NEWKEYS"

\* The messages of the exchange on a stream: none, a, or a and then b.
NoKex(q) == \A j \in 1..Len(q) : q[j].id \notin Trans
OneKex(q, a) ==
    \E i \in 1..Len(q) : q[i].id = a /\ \A j \in 1..Len(q) : q[j].id \in Trans <=> j = i
TwoKex(q, a, b) ==
    \E i, k \in 1..Len(q) :
        /\ i < k /\ q[i].id = a /\ q[k].id = b
        /\ \A j \in 1..Len(q) : q[j].id \in Trans <=> (j = i \/ j = k)

\* Where a session is in an exchange: between two, with its KEXINIT out,
\* with both KEXINITs hashed and message x to come, with its NEWKEYS out.
Idle(s) == "SELF" \notin s.isKeying /\ "PEER" \notin s.isKeying /\ ~s.handshake.live
Offered(s) ==
    /\ "SELF" \in s.isKeying /\ "PEER" \notin s.isKeying
    /\ s.handshake.live /\ s.handshake.expectMsgId = "NONE"
Agreed(s, x) ==
    /\ "SELF" \in s.isKeying /\ "PEER" \in s.isKeying
    /\ s.handshake.live /\ s.handshake.expectMsgId = x
Switched(s) ==
    /\ "SELF" \notin s.isKeying /\ "PEER" \in s.isKeying
    /\ s.handshake.live /\ s.handshake.expectMsgId = "NEWKEYS"

FirstRequest(s) == IF s.kexId = "GEX" THEN "GEX_REQUEST" ELSE "KEXDH_INIT"
Signed(s) == IF s.kexId = "GEX" THEN "GEX_REPLY" ELSE "KEXDH_REPLY"

\* The messages of the exchange that are under way follow from where client
\* and server are in it: before the first request, from then on to the last
\* NEWKEYS, and after one end is done, when it may begin another.
Proposing(c, v) ==
    \/ Idle(c) /\ Idle(v) /\ NoKex(c.out) /\ NoKex(v.out)
    \/ Offered(c) /\ Idle(v) /\ OneKex(c.out, "KEXINIT") /\ NoKex(v.out)
    \/ Idle(c) /\ Offered(v) /\ NoKex(c.out) /\ OneKex(v.out, "KEXINIT")
    \/ Offered(c) /\ Offered(v) /\ OneKex(c.out, "KEXINIT") /\ OneKex(v.out, "KEXINIT")
    \/ Offered(c) /\ Agreed(v, FirstRequest(v)) /\ NoKex(c.out) /\ OneKex(v.out, "KEXINIT")
    \/ Agreed(c, "NONE") /\ Offered(v) /\ OneKex(c.out, "KEXINIT") /\ NoKex(v.out)
    \/ Agreed(c, "NONE") /\ Agreed(v, FirstRequest(v)) /\ NoKex(c.out) /\ NoKex(v.out)

Settling(c, v) ==
    \/ Agreed(c, "KEXDH_REPLY") /\ Offered(v)
          /\ TwoKex(c.out, "KEXINIT", FirstRequest(c)) /\ NoKex(v.out)
    \/ Agreed(c, "KEXDH_REPLY") /\ Agreed(v, FirstRequest(v))
          /\ OneKex(c.out, FirstRequest(c)) /\ NoKex(v.out)
    \/ c.kexId = "GEX" /\ Agreed(c, "KEXDH_REPLY") /\ Agreed(v, "GEX_INIT")
          /\ NoKex(c.out) /\ OneKex(v.out, "KEXDH_REPLY")
    \/ c.kexId = "GEX" /\ Agreed(c, "GEX_REPLY") /\ Agreed(v, "GEX_INIT")
          /\ OneKex(c.out, "GEX_INIT") /\ NoKex(v.out)
    \/ Agreed(c, Signed(c)) /\ Switched(v)
          /\ NoKex(c.out) /\ TwoKex(v.out, Signed(v), "NEWKEYS")
    \/ Switched(c) /\ Switched(v) /\ OneKex(c.out, "NEWKEYS") /\ OneKex(v.out, "NEWKEYS")

ServerDone(c, v) ==
    \/ Switched(c) /\ Idle(v) /\ NoKex(c.out) /\ OneKex(v.out, "NEWKEYS")
    \/ Switched(c) /\ Offered(v) /\ NoKex(c.out) /\ TwoKex(v.out, "NEWKEYS", "KEXINIT")

ClientDone(c, v) ==
    \/ Idle(c) /\ Switched(v) /\ OneKex(c.out, "NEWKEYS") /\ NoKex(v.out)
    \/ Offered(c) /\ Switched(v) /\ TwoKex(c.out, "NEWKEYS", "KEXINIT") /\ NoKex(v.out)

Stage(c, v) ==
    \/ c.initialKexDone = v.initialKexDone /\ Proposing(c, v)
    \/ c.initialKexDone = v.initialKexDone /\ Settling(c, v)
    \/ v.initialKexDone /\ ServerDone(c, v)
    \/ c.initialKexDone /\ ClientDone(c, v)

\* The KEXINIT on the stream is the one in the handshake.
Announced(s) ==
    "SELF" \in s.isKeying =>
        \A j \in 1..Len(s.out) :
            s.out[j].id = "KEXINIT" => s.out[j].kexInit = s.handshake.kexInit

\* Both ends hash the same KEXINITs, and the reply is signed over that hash.
SameHash(c, v) ==
    LET h == <<c.handshake.kexInit, v.handshake.kexInit>>
    IN  /\ Announced(c) /\ Announced(v)
        /\ ("SELF" \in c.isKeying /\ "PEER" \in c.isKeying) => c.handshake.hash = h
        /\ ("SELF" \in v.isKeying /\ "PEER" \in v.isKeying) => v.handshake.hash = h
        /\ \A j \in 1..Len(v.out) : IsReply(v.out[j], v.kexId) => v.out[j].hash = h

\* The states of the initial exchange, and of the later ones.
Era(s) ==
    /\ ~s.initialKexDone =>
          /\ s.state \in {"VERSION_DONE", "KEXINIT_SENT", "KEXDH_INIT_SENT"}
          /\ s.state = "VERSION_DONE" <=> ("SELF" \notin s.isKeying /\ "PEER" \notin s.isKeying)
    /\ s.initialKexDone =>
          /\ s.state # "VERSION_DONE"
          /\ ("SELF" \in s.isKeying \/ "PEER" \in s.isKeying) => s.state = "DONE"
    /\ s.state = "VERSION_DONE" => s.out = <<>>

ClientEra(c) ==
    /\ Agreed(c, "NONE") \/ (Offered(c) /\ ~c.initialKexDone) => c.state = "KEXINIT_SENT"
    /\ c.state = "KEXINIT_SENT" => Offered(c) \/ Agreed(c, "NONE")

ServerEra(v) == v.state # "KEXDH_INIT_SENT"

\* The initial KEXINIT is the first packet of its stream, and what has to
\* wait for the keys comes after the NEWKEYS.
Due(s, r) ==
    {"AUTH_REQ", "AUTH_REP"}
        \cup (IF s.sendStrictKex /\ r.sendStrictKex THEN MsgIds \ Trans ELSE {})

Opener(s, r) ==
    (~s.initialKexDone /\ "PEER" \notin s.isKeying) =>
        /\ s.peerSeq = 0
        /\ r.state # "VERSION_DONE" => r.out # <<>> /\ r.out[1].id = "KEXINIT"

Opened(s, r) == ~s.initialKexDone => Guarded(r.out, Due(s, r))

\* One request or reply of the login is under way at a time.
Rounds(c, v) ==
    /\ c.round \in Nat /\ c.peerRound \in Nat /\ v.round \in Nat /\ v.peerRound \in Nat
    /\ c.round <= AuthRounds /\ v.peerRound <= c.round /\ v.round <= v.peerRound
    /\ c.peerRound <= v.round /\ c.round <= c.peerRound + 1
    /\ c.round > 0 => c.state \in {"KEYED", "DONE"}
    /\ v.peerRound > 0 => v.state \in {"KEYED", "DONE"}
    /\ c.state = "DONE" => c.peerRound = AuthRounds
    /\ v.state = "DONE" <=> v.round = AuthRounds

Login(c, v) ==
    /\ Rounds(c, v)
    /\ Has(c.out, {"AUTH_REQ"}) <=> c.round # v.peerRound
    /\ Has(v.out, {"AUTH_REP"}) <=> v.round # c.peerRound
    /\ Once(c.out, {"AUTH_REQ"}) /\ Once(v.out, {"AUTH_REP"})
    /\ Before(v.out, {"AUTH_REP"}, Conn \cup {"KEXINIT"})

ClientIds ==
    {"IGNORE", "KEXINIT", "NEWKEYS", "KEXDH_INIT", "GEX_INIT", "GEX_REQUEST", "AUTH_REQ"}
        \cup Conn
ServerIds ==
    {"IGNORE", "EXT_INFO", "KEXINIT", "NEWKEYS", "KEXDH_REPLY", "GEX_REPLY", "AUTH_REP"}
        \cup Conn

\* A session whose marks are off: HighwaterCheck() changes nothing.
Calm(s) ==
    /\ IsSession(s) /\ Unmarked(s)
    /\ s.highwaterFlag \in BOOLEAN /\ s.msgHighwaterFlag \in BOOLEAN

Sound(s) ==
    /\ Calm(s)
    /\ ~s.disconnected /\ ~s.error /\ s.match
    /\ s.initialKexDone \in BOOLEAN /\ s.state \in States
    /\ s.unread \in Nat /\ s.pendingWindowAdjust \in Nat
    /\ (s.unread > 0 \/ s.pendingWindowAdjust > 0 \/ Has(s.out, Conn)) => s.state = "DONE"

\* What is said of one session, of a session and the stream it reads, and
\* of the exchange of the two.
Side(e, s) ==
    /\ Sound(s) /\ Era(s)
    /\ e = "client" => ClientEra(s) /\ Only(s.out, ClientIds)
    /\ e = "server" => ServerEra(s) /\ Only(s.out, ServerIds)

Tie(s, r) == Opener(s, r) /\ Opened(s, r)

Exchange(c, v) ==
    /\ Side("client", c) /\ Side("server", v)
    /\ c.kexId = v.kexId
    /\ Stage(c, v)
    /\ SameHash(c, v)
    /\ Tie(c, v) /\ Tie(v, c)

Converse(c, v) == Exchange(c, v) /\ Login(c, v)

Good == \A e \in Endpoints : ssh[e].match /\ spent[e].disconnect = 0

Counts == spent \in [Endpoints -> [trigger : Nat, data : Nat, ignore : Nat, disconnect : Nat]]

HealthInv ==
    /\ Counts
    /\ Good => Converse(ssh["client"], ssh["server"])

----------------------------------------------------------------------------
(* Streams: a packet is added at the end, or taken from the front.         *)

LEMMA AppendAdds ==
    ASSUME NEW s, NEW p, IsSession(s)
    PROVE  Adds(s.out, Append(s.out, p), p)
<1> DEFINE q == s.out
<1>1. q \in Seq(Packets)
  BY DEF IsSession
<1> HIDE DEF q
<1>2. Len(q) \in Nat /\ Len(Append(q, p)) = Len(q) + 1
  BY <1>1
<1>3. \A j \in 1..Len(q) : Append(q, p)[j] = q[j]
  BY <1>1
<1>4. Append(q, p)[Len(q) + 1] = p
  BY <1>1
<1> QED BY <1>2, <1>3, <1>4 DEF Adds, q

LEMMA TakenDrops ==
    ASSUME NEW r, NEW q, Taken(r, q)
    PROVE  Drops(r.out, q.out) /\ r.out # <<>> /\ 1 \in 1..Len(r.out)
BY DEF Taken, Drops

LEMMA AddsGuarded ==
    ASSUME NEW q, NEW r, NEW p, NEW S, Adds(q, r, p), Guarded(q, S),
           p.id \in S => Has(q, {"NEWKEYS"})
    PROVE  Guarded(r, S)
<1>1. SUFFICES ASSUME NEW j \in 1..Len(r), r[j].id \in S
               PROVE  \E i \in 1..j : r[i].id = "NEWKEYS"
  BY DEF Guarded
<1>2. CASE j \in 1..Len(q)
  <2>1. PICK i \in 1..j : q[i].id = "NEWKEYS"
    BY <1>1, <1>2 DEF Guarded, Adds
  <2>2. r[i] = q[i]
    BY <1>2 DEF Adds
  <2> QED BY <2>1, <2>2
<1>3. CASE j = Len(r)
  <2>1. PICK i \in 1..Len(q) : q[i].id = "NEWKEYS"
    BY <1>1, <1>3 DEF Adds, Has
  <2>2. r[i] = q[i] /\ i \in 1..j
    BY <1>3 DEF Adds
  <2> QED BY <2>1, <2>2
<1> QED BY <1>2, <1>3 DEF Adds

LEMMA AddsKex ==
    ASSUME NEW q, NEW r, NEW p, Adds(q, r, p), p.id \in Trans
    PROVE  /\ NoKex(q) => OneKex(r, p.id)
           /\ \A a : OneKex(q, a) => TwoKex(r, a, p.id)
<1>1. ASSUME NoKex(q) PROVE OneKex(r, p.id)
  <2>1. Len(r) \in 1..Len(r) /\ r[Len(r)].id = p.id
    BY DEF Adds
  <2>2. ASSUME NEW j \in 1..Len(r) PROVE r[j].id \in Trans <=> j = Len(r)
    BY <1>1 DEF Adds, NoKex
  <2> QED BY <2>1, <2>2 DEF OneKex
<1>2. ASSUME NEW a, OneKex(q, a) PROVE TwoKex(r, a, p.id)
  <2>1. PICK i \in 1..Len(q) :
            q[i].id = a /\ \A j \in 1..Len(q) : q[j].id \in Trans <=> j = i
    BY <1>2 DEF OneKex
  <2>2. /\ i \in 1..Len(r) /\ Len(r) \in 1..Len(r) /\ i < Len(r)
        /\ r[i].id = a /\ r[Len(r)].id = p.id
    BY <2>1 DEF Adds
  <2>3. ASSUME NEW j \in 1..Len(r) PROVE r[j].id \in Trans <=> (j = i \/ j = Len(r))
    BY <2>1 DEF Adds
  <2> QED BY <2>2, <2>3 DEF TwoKex
<1> QED BY <1>1, <1>2

\* The messages of the exchange on the two streams are the same.
KexSame(q, r) ==
    /\ NoKex(q) => NoKex(r)
    /\ \A a : OneKex(q, a) => OneKex(r, a)
    /\ \A a, b : TwoKex(q, a, b) => TwoKex(r, a, b)
    /\ \A j \in 1..Len(r) : r[j].id \in Trans => \E i \in 1..Len(q) : q[i] = r[j]

LEMMA AddsOther ==
    ASSUME NEW q, NEW r, NEW p, Adds(q, r, p), p.id \notin Trans
    PROVE  KexSame(q, r)
<1>1. \A j \in 1..Len(r) : r[j].id \in Trans => j \in 1..Len(q) /\ q[j] = r[j]
  BY DEF Adds
<1>2. NoKex(q) => NoKex(r)
  BY <1>1 DEF NoKex
<1>3. ASSUME NEW a, OneKex(q, a) PROVE OneKex(r, a)
  <2>1. PICK i \in 1..Len(q) :
            q[i].id = a /\ \A j \in 1..Len(q) : q[j].id \in Trans <=> j = i
    BY <1>3 DEF OneKex
  <2>2. i \in 1..Len(r) /\ r[i].id = a
    BY <2>1 DEF Adds
  <2>3. \A j \in 1..Len(r) : r[j].id \in Trans <=> j = i
    BY <1>1, <2>1, <2>2 DEF Adds
  <2> QED BY <2>2, <2>3 DEF OneKex
<1>4. ASSUME NEW a, NEW b, TwoKex(q, a, b) PROVE TwoKex(r, a, b)
  <2>1. PICK i \in 1..Len(q), k \in 1..Len(q) :
            /\ i < k /\ q[i].id = a /\ q[k].id = b
            /\ \A j \in 1..Len(q) : q[j].id \in Trans <=> (j = i \/ j = k)
    BY <1>4 DEF TwoKex
  <2>2. i \in 1..Len(r) /\ r[i].id = a /\ k \in 1..Len(r) /\ r[k].id = b
    BY <2>1 DEF Adds
  <2>3. \A j \in 1..Len(r) : r[j].id \in Trans <=> (j = i \/ j = k)
    BY <1>1, <2>1, <2>2 DEF Adds
  <2> QED BY <2>1, <2>2, <2>3 DEF TwoKex
<1> QED BY <1>1, <1>2, <1>3, <1>4 DEF KexSame

LEMMA KexSameRefl ==
    ASSUME NEW q
    PROVE  KexSame(q, q)
BY DEF KexSame

LEMMA DropsGuarded ==
    ASSUME NEW q, NEW r, NEW S, Drops(q, r), Guarded(q, S), q[1].id # "NEWKEYS"
    PROVE  Guarded(r, S) /\ q[1].id \notin S
<1>1. ASSUME q[1].id \in S PROVE FALSE
  <2>1. PICK i \in 1..1 : q[i].id = "NEWKEYS"
    BY <1>1 DEF Guarded, Drops
  <2> QED BY <2>1
<1>2. ASSUME NEW j \in 1..Len(r), r[j].id \in S
      PROVE  \E i \in 1..j : r[i].id = "NEWKEYS"
  <2>1. j + 1 \in 1..Len(q) /\ q[j + 1].id \in S
    BY <1>2 DEF Drops
  <2>2. PICK i \in 1..(j + 1) : q[i].id = "NEWKEYS"
    BY <2>1 DEF Guarded
  <2>3. i # 1
    BY <2>2
  <2>4. i - 1 \in 1..j /\ i - 1 \in 1..Len(r) /\ (i - 1) + 1 = i
    BY <2>3 DEF Drops
  <2>5. r[i - 1] = q[i]
    BY <2>4 DEF Drops
  <2> QED BY <2>2, <2>4, <2>5
<1> QED BY <1>1, <1>2 DEF Guarded

LEMMA DropsKex ==
    ASSUME NEW q, NEW r, Drops(q, r), q[1].id \in Trans
    PROVE  /\ ~NoKex(q)
           /\ \A a : OneKex(q, a) => a = q[1].id /\ NoKex(r)
           /\ \A a, b : TwoKex(q, a, b) => a = q[1].id /\ OneKex(r, b)
<1>1. 1 \in 1..Len(q) /\ \A j \in 1..Len(r) : j + 1 \in 1..Len(q) /\ r[j] = q[j + 1] /\ j + 1 # 1
  BY DEF Drops
<1>2. ~NoKex(q)
  BY <1>1 DEF NoKex
<1>3. ASSUME NEW a, OneKex(q, a) PROVE a = q[1].id /\ NoKex(r)
  <2>1. PICK i \in 1..Len(q) :
            q[i].id = a /\ \A j \in 1..Len(q) : q[j].id \in Trans <=> j = i
    BY <1>3 DEF OneKex
  <2>2. i = 1
    BY <1>1, <2>1
  <2>3. ASSUME NEW j \in 1..Len(r), r[j].id \in Trans PROVE FALSE
    BY <1>1, <2>1, <2>2, <2>3
  <2> QED BY <2>1, <2>2, <2>3 DEF NoKex
<1>4. ASSUME NEW a, NEW b, TwoKex(q, a, b) PROVE a = q[1].id /\ OneKex(r, b)
  <2>1. PICK i \in 1..Len(q), k \in 1..Len(q) :
            /\ i < k /\ q[i].id = a /\ q[k].id = b
            /\ \A j \in 1..Len(q) : q[j].id \in Trans <=> (j = i \/ j = k)
    BY <1>4 DEF TwoKex
  <2>2. i = 1
    BY <1>1, <2>1
  <2>3. k - 1 \in 1..Len(r) /\ r[k - 1].id = b /\ (k - 1) + 1 = k
    BY <2>1, <2>2 DEF Drops
  <2>4. ASSUME NEW j \in 1..Len(r) PROVE r[j].id \in Trans <=> j = k - 1
    <3>1. r[j].id \in Trans <=> (j + 1 = i \/ j + 1 = k)
      BY <1>1, <2>1
    <3> QED BY <3>1, <2>2, <2>3, <1>1
  <2> QED BY <2>1, <2>2, <2>3, <2>4 DEF OneKex
<1> QED BY <1>2, <1>3, <1>4

LEMMA DropsOther ==
    ASSUME NEW q, NEW r, Drops(q, r), q[1].id \notin Trans
    PROVE  KexSame(q, r)
<1>1. \A j \in 1..Len(r) : j + 1 \in 1..Len(q) /\ r[j] = q[j + 1]
  BY DEF Drops
<1>2. \A i \in 1..Len(q) : i = 1 \/ (i - 1 \in 1..Len(r) /\ r[i - 1] = q[i])
  BY DEF Drops
<1>3. NoKex(q) => NoKex(r)
  BY <1>1 DEF NoKex
<1>4. \A j \in 1..Len(r) : r[j].id \in Trans => \E i \in 1..Len(q) : q[i] = r[j]
  BY <1>1
<1>5. ASSUME NEW a, OneKex(q, a) PROVE OneKex(r, a)
  <2>1. PICK i \in 1..Len(q) :
            q[i].id = a /\ \A j \in 1..Len(q) : q[j].id \in Trans <=> j = i
    BY <1>5 DEF OneKex
  <2>2. i # 1
    BY <2>1 DEF Drops
  <2>3. i - 1 \in 1..Len(r) /\ r[i - 1].id = a
    BY <2>1, <2>2, <1>2
  <2>4. ASSUME NEW j \in 1..Len(r) PROVE r[j].id \in Trans <=> j = i - 1
    <3>1. r[j].id \in Trans <=> j + 1 = i
      BY <1>1, <2>1
    <3> QED BY <3>1, <2>3
  <2> QED BY <2>3, <2>4 DEF OneKex
<1>6. ASSUME NEW a, NEW b, TwoKex(q, a, b) PROVE TwoKex(r, a, b)
  <2>1. PICK i \in 1..Len(q), k \in 1..Len(q) :
            /\ i < k /\ q[i].id = a /\ q[k].id = b
            /\ \A j \in 1..Len(q) : q[j].id \in Trans <=> (j = i \/ j = k)
    BY <1>6 DEF TwoKex
  <2>2. i # 1 /\ k # 1
    BY <2>1 DEF Drops
  <2>3. /\ i - 1 \in 1..Len(r) /\ r[i - 1].id = a
        /\ k - 1 \in 1..Len(r) /\ r[k - 1].id = b /\ i - 1 < k - 1
    BY <2>1, <2>2, <1>2
  <2>4. ASSUME NEW j \in 1..Len(r)
        PROVE  r[j].id \in Trans <=> (j = i - 1 \/ j = k - 1)
    <3>1. r[j].id \in Trans <=> (j + 1 = i \/ j + 1 = k)
      BY <1>1, <2>1
    <3> QED BY <3>1, <2>3
  <2> QED BY <2>3, <2>4 DEF TwoKex
<1> QED BY <1>3, <1>4, <1>5, <1>6 DEF KexSame

----------------------------------------------------------------------------
(* What the operations leave alone, and what they change, while the marks  *)
(* are off.                                                                *)

Same(s, t) ==
    /\ Calm(t)
    /\ t.kexId = s.kexId /\ t.match = s.match /\ t.sendStrictKex = s.sendStrictKex
    /\ t.disconnected = s.disconnected /\ t.error = s.error
    /\ t.state = s.state /\ t.round = s.round

Kin(s, t) ==
    /\ Same(s, t)
    /\ t.peerRound = s.peerRound /\ t.initialKexDone = s.initialKexDone
    /\ t.unread = s.unread /\ t.pendingWindowAdjust = s.pendingWindowAdjust
    /\ t.peerSeq = s.peerSeq

Phase(s, t) == t.isKeying = s.isKeying /\ t.handshake = s.handshake

LEMMA KinTrans ==
    ASSUME NEW s, NEW t, NEW u, Kin(s, t), Kin(t, u)
    PROVE  Kin(s, u)
BY DEF Kin, Same

LEMMA KinRefl ==
    ASSUME NEW s, Calm(s)
    PROVE  Kin(s, s)
BY DEF Kin, Same

\* A copy of a session in which only fields that play no part here differ.
LEMMA KinByFields ==
    ASSUME NEW s, NEW t, Calm(s), IsSession(t),
           t.mark = s.mark, t.kexId = s.kexId, t.sendStrictKex = s.sendStrictKex,
           t.disconnected = s.disconnected, t.error = s.error, t.state = s.state,
           t.highwaterFlag \in BOOLEAN, t.msgHighwaterFlag \in BOOLEAN,
           t.match = s.match, t.round = s.round, t.peerRound = s.peerRound,
           t.initialKexDone = s.initialKexDone, t.unread = s.unread,
           t.pendingWindowAdjust = s.pendingWindowAdjust, t.peerSeq = s.peerSeq
    PROVE  Kin(s, t)
BY DEF Kin, Same, Calm, Unmarked

LEMMA CheckCalm ==
    ASSUME NEW s, Calm(s)
    PROVE  LET t == HighwaterCheck(s) IN
           Kin(s, t) /\ Phase(s, t) /\ t.out = s.out
<1> DEFINE t == HighwaterCheck(s)
<1>1. ~Fires(s) /\ ~OverByteMark(s) /\ ~OverMsgMark(s) /\ IsSession(s)
  BY DEF Fires, OverByteMark, OverMsgMark, Unmarked, Calm
<1>2. t = [s EXCEPT !.highwaterFlag = @ \/ OverByteMark(s),
                    !.msgHighwaterFlag = @ \/ OverMsgMark(s)]
  BY <1>1 DEF HighwaterCheck, Marked
<1>3. Tweaked(s, t)
  BY <1>1, HighwaterCheckUnmarked DEF Calm
<1> HIDE DEF t
<1>4. /\ t.match = s.match /\ t.round = s.round /\ t.peerRound = s.peerRound
      /\ t.initialKexDone = s.initialKexDone /\ t.unread = s.unread
      /\ t.pendingWindowAdjust = s.pendingWindowAdjust /\ t.peerSeq = s.peerSeq
  BY <1>1, <1>2 DEF IsSession, Fields
<1>5. t.highwaterFlag \in BOOLEAN /\ t.msgHighwaterFlag \in BOOLEAN
  BY <1>1, <1>2 DEF Calm, IsSession, Fields
<1>6. Kin(s, t)
  BY <1>3, <1>4, <1>5, KinByFields DEF Tweaked, Frame, Kept
<1> QED BY <1>3, <1>6 DEF Tweaked, Phase, t

\* The packet q goes out, and nothing else happens.
Posts(s, t, q) ==
    /\ Kin(s, t) /\ Phase(s, t)
    /\ Adds(s.out, t.out, q) /\ q \in Packets

LEMMA BundleCalm ==
    ASSUME NEW s, NEW p \in Packets, Calm(s)
    PROVE  LET t == BundlePacket(s, p)
               q == Seal(s, p)
           IN  Posts(s, t, q) /\ q.id = p.id /\ q.kexInit = p.kexInit /\ q.hash = p.hash
<1> DEFINE t == BundlePacket(s, p)
           q == Seal(s, p)
<1>1. IsSession(s)
  BY DEF Calm
<1>2. /\ Frame(s, t) /\ t.peerSeq = s.peerSeq /\ Sealed(s, t, q)
      /\ t.handshake = s.handshake /\ t.isKeying = s.isKeying
  BY <1>1, BundlePacketFields
<1>3. q \in Packets /\ q.id = p.id /\ q.kexInit = p.kexInit /\ q.hash = p.hash
  BY <1>1, SealOK
<1>4. t = [s EXCEPT !.out = Append(@, q), !.seq = @ + 1, !.txCount = @ + 1]
  BY DEF BundlePacket, Seal
<1> HIDE DEF t, q
<1>5. /\ t.match = s.match /\ t.round = s.round /\ t.peerRound = s.peerRound
      /\ t.initialKexDone = s.initialKexDone /\ t.unread = s.unread
      /\ t.pendingWindowAdjust = s.pendingWindowAdjust
      /\ t.highwaterFlag = s.highwaterFlag /\ t.msgHighwaterFlag = s.msgHighwaterFlag
  BY <1>1, <1>4 DEF IsSession, Fields
<1>6. Kin(s, t)
  BY <1>2, <1>5, KinByFields DEF Frame, Kept, Calm
<1>7. Adds(s.out, t.out, q)
  BY <1>1, <1>2, AppendAdds DEF Sealed
<1> QED BY <1>2, <1>3, <1>6, <1>7 DEF Posts, Phase, t, q

LEMMA SendPacketPosts ==
    ASSUME NEW s, NEW p \in Packets, Calm(s)
    PROVE  LET t == SendPacket(s, p)
               q == Seal(s, p)
           IN  Posts(s, t, q) /\ q.id = p.id /\ q.kexInit = p.kexInit /\ q.hash = p.hash
<1> DEFINE b == BundlePacket(s, p)
           q == Seal(s, p)
           t == HighwaterCheck(b)
<1>1. Posts(s, b, q) /\ q.id = p.id /\ q.kexInit = p.kexInit /\ q.hash = p.hash
  BY BundleCalm
<1> HIDE DEF b, q
<1>2. Calm(b)
  BY <1>1 DEF Posts, Kin, Same
<1>3. Kin(b, t) /\ Phase(b, t) /\ t.out = b.out
  BY <1>2, CheckCalm
<1> HIDE DEF t
<1>4. Posts(s, t, q)
  BY <1>1, <1>3, KinTrans DEF Posts, Phase
<1> QED BY <1>1, <1>4 DEF SendPacket, t, b, q

\* A session's KEXINIT goes out.
KexInits(s, t, q) ==
    /\ Kin(s, t)
    /\ Adds(s.out, t.out, q) /\ q \in Packets
    /\ q.id = "KEXINIT" /\ q.kexInit = t.handshake.kexInit
    /\ t.isKeying = s.isKeying \cup {"SELF"}
    /\ t.handshake.live
    /\ t.handshake.expectMsgId = IF s.handshake.live THEN s.handshake.expectMsgId ELSE "NONE"

LEMMA SendKexInitCalm ==
    ASSUME NEW s, Calm(s)
    PROVE  \E q : KexInits(s, SendKexInit(s), q)
<1> DEFINE k == SendKexInitPacket(s)
           t == HighwaterCheck(k)
<1>1. IsSession(s)
  BY DEF Calm
<1>2. PICK q : Keying(s, k, q)
  BY <1>1, SendKexInitPacketKeying
<1> DEFINE n == s.kexCount + 1
           h == IF s.handshake.live THEN s.handshake ELSE HandshakeInfoNew
           g == [h EXCEPT !.kexInit = n]
           j == [s EXCEPT !.handshake = g, !.kexCount = n, !.isKeying = @ \cup {"SELF"}]
           p == [Packet("KEXINIT") EXCEPT !.kexInit = n,
                                          !.strict = s.sessionId = NoKeys /\ s.sendStrictKex]
<1>3. k = BundlePacket(j, p)
  BY DEF SendKexInitPacket
<1>4. k = [j EXCEPT !.out = Append(@, [p EXCEPT !.keys = j.keys, !.seq = j.seq]),
                    !.seq = @ + 1, !.txCount = @ + 1]
  BY <1>3 DEF BundlePacket
<1> HIDE DEF g, p, k
<1>5. /\ DOMAIN j = Fields
      /\ j.match = s.match /\ j.round = s.round /\ j.peerRound = s.peerRound
      /\ j.initialKexDone = s.initialKexDone /\ j.unread = s.unread
      /\ j.pendingWindowAdjust = s.pendingWindowAdjust
      /\ j.highwaterFlag = s.highwaterFlag /\ j.msgHighwaterFlag = s.msgHighwaterFlag
  BY <1>1 DEF IsSession, Fields
<1> HIDE DEF j
<1>6. /\ k.match = s.match /\ k.round = s.round /\ k.peerRound = s.peerRound
      /\ k.initialKexDone = s.initialKexDone /\ k.unread = s.unread
      /\ k.pendingWindowAdjust = s.pendingWindowAdjust
      /\ k.highwaterFlag = s.highwaterFlag /\ k.msgHighwaterFlag = s.msgHighwaterFlag
  BY <1>4, <1>5 DEF Fields
<1>7. Kin(s, k)
  BY <1>2, <1>6, KinByFields DEF Keying, Frame, Kept, Calm
<1>8. Kin(k, t) /\ Phase(k, t) /\ t.out = k.out
  BY <1>7, CheckCalm DEF Kin, Same
<1>9. Adds(s.out, k.out, q)
  BY <1>1, <1>2, AppendAdds DEF Keying, Sealed
<1> HIDE DEF t
<1>10. Kin(s, t)
  BY <1>7, <1>8, KinTrans
<1>11. /\ q.id = "KEXINIT" /\ q \in Packets /\ q.kexInit = k.handshake.kexInit
       /\ k.isKeying = s.isKeying \cup {"SELF"} /\ k.handshake.live
       /\ k.handshake.expectMsgId = IF s.handshake.live THEN s.handshake.expectMsgId ELSE "NONE"
  BY <1>2 DEF Keying, Refreshed, Sealed
<1>12. KexInits(s, t, q)
  BY <1>8, <1>9, <1>10, <1>11 DEF KexInits, Phase
<1> QED BY <1>12 DEF SendKexInit, t, k

\* The packet q goes out and x is expected next; the rest of the handshake
\* stays.
Moves(s, t, q, x) ==
    /\ Kin(s, t)
    /\ Adds(s.out, t.out, q) /\ q \in Packets
    /\ t.handshake.live = s.handshake.live
    /\ t.handshake.kexInit = s.handshake.kexInit
    /\ t.handshake.hash = s.handshake.hash
    /\ t.handshake.expectMsgId = x

Sets(s, t, x) ==
    /\ Kin(s, t) /\ t.out = s.out /\ t.isKeying = s.isKeying
    /\ t.handshake.live = s.handshake.live
    /\ t.handshake.kexInit = s.handshake.kexInit
    /\ t.handshake.hash = s.handshake.hash
    /\ t.handshake.expectMsgId = x

LEMMA SetExpectCalm ==
    ASSUME NEW s, NEW x \in MsgIds \cup {"NONE"}, Calm(s)
    PROVE  LET t == SetExpect(s, x) IN
           Sets(s, t, x) /\ t.handshake.keys = s.handshake.keys
<1> DEFINE t == SetExpect(s, x)
<1>1. IsSession(s)
  BY DEF Calm
<1>2. Expects(s, t, x)
  BY <1>1, SetExpectFields
<1>3. t = [s EXCEPT !.handshake.expectMsgId = x]
  BY DEF SetExpect
<1> HIDE DEF t
<1>4. /\ t.match = s.match /\ t.round = s.round /\ t.peerRound = s.peerRound
      /\ t.initialKexDone = s.initialKexDone /\ t.unread = s.unread
      /\ t.pendingWindowAdjust = s.pendingWindowAdjust
      /\ t.highwaterFlag = s.highwaterFlag /\ t.msgHighwaterFlag = s.msgHighwaterFlag
  BY <1>1, <1>3 DEF IsSession, Fields
<1>5. Kin(s, t)
  BY <1>2, <1>4, KinByFields DEF Expects, Frame, Kept, Calm
<1> QED BY <1>2, <1>5 DEF Sets, Expects, t

LEMMA SetsPosts ==
    ASSUME NEW s, NEW u, NEW t, NEW q, NEW x, Sets(s, u, x), Posts(u, t, q)
    PROVE  Moves(s, t, q, x) /\ t.isKeying = s.isKeying
BY KinTrans DEF Sets, Posts, Phase, Moves

LEMMA AskCalm ==
    ASSUME NEW s, NEW x \in MsgIds, NEW id \in MsgIds, Calm(s)
    PROVE  LET t == SendPacket(SetExpect(s, x), Packet(id)) IN
           \E q : Moves(s, t, q, x) /\ q.id = id /\ t.isKeying = s.isKeying
<1> DEFINE u == SetExpect(s, x)
           p == Packet(id)
           t == SendPacket(u, p)
           q == Seal(u, p)
<1>1. Sets(s, u, x)
  BY SetExpectCalm
<1>2. Calm(u)
  BY <1>1 DEF Sets, Kin, Same
<1>3. p \in Packets /\ p.id = id
  BY PacketOK
<1> HIDE DEF u, p
<1>4. Posts(u, t, q) /\ q.id = p.id
  BY <1>2, <1>3, SendPacketPosts
<1> HIDE DEF t, q
<1>5. Moves(s, t, q, x) /\ t.isKeying = s.isKeying
  BY <1>1, <1>4, SetsPosts
<1>6. \E z : Moves(s, t, z, x) /\ z.id = id /\ t.isKeying = s.isKeying
  BY <1>3, <1>4, <1>5
<1> QED BY <1>6 DEF t, u, p

LEMMA AsksCalm ==
    ASSUME NEW s, Calm(s)
    PROVE  /\ \E q : Moves(s, StartKexDh(s), q, "KEXDH_REPLY") /\ q.id = FirstRequest(s)
                       /\ StartKexDh(s).isKeying = s.isKeying
           /\ s.kexId = "GEX" =>
                \E q : Moves(s, SendKexDhInit(s), q, "GEX_REPLY") /\ q.id = "GEX_INIT"
                         /\ SendKexDhInit(s).isKeying = s.isKeying
           /\ \E q : Moves(s, SendKexDhGexGroup(s), q, "GEX_INIT") /\ q.id = "KEXDH_REPLY"
                       /\ SendKexDhGexGroup(s).isKeying = s.isKeying
<1>1. {"KEXDH_REPLY", "GEX_REPLY", "GEX_INIT", "GEX_REQUEST", "KEXDH_INIT"} \subseteq MsgIds
  BY DEF MsgIds, Trans, TransKex
<1>2. /\ \E q : /\ Moves(s, SendPacket(SetExpect(s, "KEXDH_REPLY"), Packet("GEX_REQUEST")), q, "KEXDH_REPLY")
                /\ q.id = "GEX_REQUEST"
                /\ SendPacket(SetExpect(s, "KEXDH_REPLY"), Packet("GEX_REQUEST")).isKeying = s.isKeying
      /\ \E q : /\ Moves(s, SendPacket(SetExpect(s, "KEXDH_REPLY"), Packet("KEXDH_INIT")), q, "KEXDH_REPLY")
                /\ q.id = "KEXDH_INIT"
                /\ SendPacket(SetExpect(s, "KEXDH_REPLY"), Packet("KEXDH_INIT")).isKeying = s.isKeying
      /\ \E q : /\ Moves(s, SendPacket(SetExpect(s, "GEX_REPLY"), Packet("GEX_INIT")), q, "GEX_REPLY")
                /\ q.id = "GEX_INIT"
                /\ SendPacket(SetExpect(s, "GEX_REPLY"), Packet("GEX_INIT")).isKeying = s.isKeying
      /\ \E q : /\ Moves(s, SendPacket(SetExpect(s, "GEX_INIT"), Packet("KEXDH_REPLY")), q, "GEX_INIT")
                /\ q.id = "KEXDH_REPLY"
                /\ SendPacket(SetExpect(s, "GEX_INIT"), Packet("KEXDH_REPLY")).isKeying = s.isKeying
  BY <1>1, AskCalm
<1>3. CASE s.kexId = "GEX"
  BY <1>2, <1>3, Zenon
     DEF StartKexDh, SendKexDhInit, SendKexDhGexRequest, SendKexDhGexGroup, FirstRequest
<1>4. CASE s.kexId # "GEX"
  BY <1>2, <1>4, Zenon
     DEF StartKexDh, SendKexDhInit, SendKexDhGexRequest, SendKexDhGexGroup, FirstRequest
<1> QED BY <1>3, <1>4

\* NEWKEYS goes out while the peer is keying: nothing is flushed.
LEMMA SendNewKeysCalm ==
    ASSUME NEW s, Calm(s), "PEER" \in s.isKeying
    PROVE  LET t == SendNewKeys(s) IN
           \E q : /\ Moves(s, t, q, s.handshake.expectMsgId) /\ q.id = "NEWKEYS"
                  /\ t.isKeying = s.isKeying \ {"SELF"}
<1> DEFINE p == [Packet("NEWKEYS") EXCEPT !.strict = s.useStrictKex]
           q == Seal(s, p)
           b == BundlePacket(s, p)
           k == [b EXCEPT !.seq = IF s.useStrictKex THEN 0 ELSE @,
                          !.keys = s.handshake.keys,
                          !.txCount = 0]
           f == HighwaterCheck(k)
           t == [f EXCEPT !.isKeying = @ \ {"SELF"}]
<1>1. IsSession(s)
  BY DEF Calm
<1>2. p \in Packets /\ p.id = "NEWKEYS"
  <2>1. "NEWKEYS" \in MsgIds /\ s.useStrictKex \in BOOLEAN
    BY <1>1, IdsOK DEF IsSession
  <2>2. Packet("NEWKEYS") \in Packets /\ Packet("NEWKEYS").id = "NEWKEYS"
    BY <2>1, PacketOK
  <2> HIDE DEF p
  <2>3. p = [Packet("NEWKEYS") EXCEPT !.strict = s.useStrictKex]
    BY DEF p
  <2> QED BY <2>1, <2>2, <2>3 DEF Packets
<1> HIDE DEF p
<1>3. Posts(s, b, q) /\ q.id = "NEWKEYS"
  BY <1>2, BundleCalm
<1> HIDE DEF b, q
<1>4. IsSession(b) /\ s.handshake.keys \in Keys /\ s.useStrictKex \in BOOLEAN
  BY <1>1, <1>3, SessionKeys DEF Posts, Kin, Same, Calm
<1>5. /\ DOMAIN k = Fields
      /\ k.seq \in Nat /\ k.keys \in Keys
      /\ k.out = b.out /\ k.isKeying = b.isKeying /\ k.handshake = b.handshake
      /\ k.mark = b.mark /\ k.kexId = b.kexId /\ k.sendStrictKex = b.sendStrictKex
      /\ k.disconnected = b.disconnected /\ k.error = b.error /\ k.state = b.state
      /\ k.highwaterFlag = b.highwaterFlag /\ k.msgHighwaterFlag = b.msgHighwaterFlag
      /\ k.match = b.match /\ k.round = b.round /\ k.peerRound = b.peerRound
      /\ k.initialKexDone = b.initialKexDone /\ k.unread = b.unread
      /\ k.pendingWindowAdjust = b.pendingWindowAdjust /\ k.peerSeq = b.peerSeq
      /\ k.peerKeys = b.peerKeys /\ k.sessionId = b.sessionId /\ k.kexCount = b.kexCount
      /\ k.useStrictKex = b.useStrictKex
  BY <1>4 DEF IsSession, Fields
<1>6. IsSession(k)
  BY <1>4, <1>5 DEF IsSession
<1>7. Calm(b)
  BY <1>3 DEF Posts, Kin, Same
<1> HIDE DEF k
<1>8. Kin(b, k)
  BY <1>5, <1>6, <1>7, KinByFields DEF Calm
<1>9. Kin(k, f) /\ Phase(k, f) /\ f.out = k.out
  BY <1>8, CheckCalm DEF Kin, Same
<1> HIDE DEF f
<1>10. IsSession(f) /\ Calm(f)
  BY <1>9 DEF Kin, Same, Calm
<1>11. /\ DOMAIN t = Fields
       /\ t.isKeying = f.isKeying \ {"SELF"}
       /\ t.out = f.out /\ t.handshake = f.handshake /\ t.seq = f.seq /\ t.keys = f.keys
       /\ t.mark = f.mark /\ t.kexId = f.kexId /\ t.sendStrictKex = f.sendStrictKex
       /\ t.disconnected = f.disconnected /\ t.error = f.error /\ t.state = f.state
       /\ t.highwaterFlag = f.highwaterFlag /\ t.msgHighwaterFlag = f.msgHighwaterFlag
       /\ t.match = f.match /\ t.round = f.round /\ t.peerRound = f.peerRound
       /\ t.initialKexDone = f.initialKexDone /\ t.unread = f.unread
       /\ t.pendingWindowAdjust = f.pendingWindowAdjust /\ t.peerSeq = f.peerSeq
       /\ t.peerKeys = f.peerKeys /\ t.sessionId = f.sessionId /\ t.kexCount = f.kexCount
       /\ t.useStrictKex = f.useStrictKex
  BY <1>10 DEF IsSession, Fields
<1> HIDE DEF t
<1>12. IsSession(t)
  BY <1>10, <1>11 DEF IsSession
<1>13. Kin(f, t)
  BY <1>10, <1>11, <1>12, KinByFields DEF Calm
<1>14. Kin(s, t)
  BY <1>3, <1>8, <1>9, <1>13, KinTrans DEF Posts
<1>15. t.isKeying = s.isKeying \ {"SELF"} /\ t.handshake = s.handshake /\ t.out = b.out
  BY <1>3, <1>5, <1>9, <1>11 DEF Posts, Phase
<1>16. SendNewKeys(s) = t
  <2>1. t.isKeying # {}
    BY <1>15
  <2>2. SendNewKeys(s) = SendPendingChannelWindowAdjust(t)
    BY DEF SendNewKeys, t, f, k, b, p
  <2> QED BY <2>1, <2>2 DEF SendPendingChannelWindowAdjust
<1>17. Moves(s, t, q, s.handshake.expectMsgId) /\ q.id = "NEWKEYS"
  BY <1>3, <1>14, <1>15 DEF Moves, Posts
<1> QED BY <1>15, <1>16, <1>17

LEMMA GenerateKeysCalm ==
    ASSUME NEW s, Calm(s)
    PROVE  LET t == GenerateKeys(s) IN Sets(s, t, s.handshake.expectMsgId)
<1> DEFINE g == [s.handshake EXCEPT !.keys = s.handshake.hash]
           t == GenerateKeys(s)
<1>1. IsSession(s) /\ s.handshake \in Handshake /\ s.sessionId \in Keys /\ s.handshake.hash \in Keys
  BY SessionKeys DEF Calm, IsSession
<1>2. /\ g \in Handshake /\ g.live = s.handshake.live /\ g.kexInit = s.handshake.kexInit
      /\ g.hash = s.handshake.hash /\ g.expectMsgId = s.handshake.expectMsgId
  BY <1>1 DEF Handshake
<1>3. t = [s EXCEPT !.sessionId = IF @ = NoKeys THEN s.handshake.hash ELSE @, !.handshake = g]
  BY DEF GenerateKeys
<1> HIDE DEF g, t
<1>4. /\ DOMAIN t = Fields
      /\ t.sessionId \in Keys /\ t.handshake = g
      /\ t.out = s.out /\ t.isKeying = s.isKeying /\ t.seq = s.seq /\ t.keys = s.keys
      /\ t.mark = s.mark /\ t.kexId = s.kexId /\ t.sendStrictKex = s.sendStrictKex
      /\ t.disconnected = s.disconnected /\ t.error = s.error /\ t.state = s.state
      /\ t.highwaterFlag = s.highwaterFlag /\ t.msgHighwaterFlag = s.msgHighwaterFlag
      /\ t.match = s.match /\ t.round = s.round /\ t.peerRound = s.peerRound
      /\ t.initialKexDone = s.initialKexDone /\ t.unread = s.unread
      /\ t.pendingWindowAdjust = s.pendingWindowAdjust /\ t.peerSeq = s.peerSeq
      /\ t.peerKeys = s.peerKeys /\ t.kexCount = s.kexCount
      /\ t.useStrictKex = s.useStrictKex
  BY <1>1, <1>3 DEF IsSession, Fields
<1>5. IsSession(t)
  BY <1>1, <1>2, <1>4 DEF IsSession
<1>6. Kin(s, t)
  BY <1>4, <1>5, KinByFields DEF Calm
<1> QED BY <1>2, <1>4, <1>6 DEF Sets, t

LEMMA SetsTrans ==
    ASSUME NEW s, NEW t, NEW u, NEW x, NEW y, Sets(s, t, x), Sets(t, u, y)
    PROVE  Sets(s, u, y)
BY KinTrans DEF Sets

LEMMA SetsMoves ==
    ASSUME NEW s, NEW t, NEW u, NEW q, NEW x, NEW y, Sets(s, t, x), Moves(t, u, q, y)
    PROVE  Moves(s, u, q, y)
BY KinTrans DEF Sets, Moves

LEMMA SendExtInfoCalm ==
    ASSUME NEW s, Calm(s)
    PROVE  LET t == SendExtInfo(s) IN
           t = s \/ \E q : Posts(s, t, q) /\ q.id = "EXT_INFO"
<1> DEFINE u == [s EXCEPT !.extInfoSent = TRUE]
           p == Packet("EXT_INFO")
           t == SendPacket(u, p)
           q == Seal(u, p)
<1>1. CASE s.extInfoSent
  BY <1>1 DEF SendExtInfo
<1>2. CASE ~s.extInfoSent
  <2>1. IsSession(s)
    BY DEF Calm
  <2>2. /\ DOMAIN u = Fields
        /\ u.sessionId = s.sessionId /\ u.handshake = s.handshake
        /\ u.out = s.out /\ u.isKeying = s.isKeying /\ u.seq = s.seq /\ u.keys = s.keys
        /\ u.mark = s.mark /\ u.kexId = s.kexId /\ u.sendStrictKex = s.sendStrictKex
        /\ u.disconnected = s.disconnected /\ u.error = s.error /\ u.state = s.state
        /\ u.highwaterFlag = s.highwaterFlag /\ u.msgHighwaterFlag = s.msgHighwaterFlag
        /\ u.match = s.match /\ u.round = s.round /\ u.peerRound = s.peerRound
        /\ u.initialKexDone = s.initialKexDone /\ u.unread = s.unread
        /\ u.pendingWindowAdjust = s.pendingWindowAdjust /\ u.peerSeq = s.peerSeq
        /\ u.peerKeys = s.peerKeys /\ u.kexCount = s.kexCount
        /\ u.useStrictKex = s.useStrictKex
    BY <2>1 DEF IsSession, Fields
  <2>3. IsSession(u)
    BY <2>1, <2>2 DEF IsSession
  <2> HIDE DEF u
  <2>4. Kin(s, u)
    BY <2>2, <2>3, KinByFields DEF Calm
  <2>5. p \in Packets /\ p.id = "EXT_INFO"
    BY PacketOK DEF MsgIds, TransGen
  <2> HIDE DEF p
  <2>6. Posts(u, t, q) /\ q.id = "EXT_INFO"
    BY <2>4, <2>5, SendPacketPosts DEF Kin, Same
  <2> HIDE DEF t, q
  <2>7. Posts(s, t, q)
    BY <2>2, <2>4, <2>6, KinTrans DEF Posts, Phase
  <2>8. SendExtInfo(s) = t
    BY <1>2 DEF SendExtInfo, t, u, p
  <2> QED BY <2>6, <2>7, <2>8
<1> QED BY <1>1, <1>2

\* SendKexDhReply(): the reply, NEWKEYS and perhaps EXT_INFO, one by one.
LEMMA SendKexDhReplyCalm ==
    ASSUME NEW s, Calm(s), "PEER" \in s.isKeying
    PROVE  LET t == SendKexDhReply(s) IN
           \E a, b, p, q :
               /\ Moves(s, a, p, "NEWKEYS") /\ a.isKeying = s.isKeying
               /\ p.id = Signed(s) /\ p.hash = s.handshake.hash
               /\ Moves(a, b, q, "NEWKEYS") /\ b.isKeying = s.isKeying \ {"SELF"}
               /\ q.id = "NEWKEYS"
               /\ t = b \/ \E z : Posts(b, t, z) /\ z.id = "EXT_INFO"
<1> DEFINE g == GenerateKeys(s)
           d == [Packet(Signed(s)) EXCEPT !.hash = s.handshake.hash]
           r == BundlePacket(g, d)
           p == Seal(g, d)
           a == SetExpect(r, "NEWKEYS")
           b == SendNewKeys(a)
           t == SendExtInfo(b)
<1>1. IsSession(s) /\ s.handshake.hash \in Keys
  BY SessionKeys DEF Calm
<1>2. Sets(s, g, s.handshake.expectMsgId)
  BY GenerateKeysCalm
<1>3. d \in Packets /\ d.id = Signed(s) /\ d.hash = s.handshake.hash
  <2>1. Signed(s) \in MsgIds
    BY DEF Signed, MsgIds, Trans, TransKex
  <2>2. Packet(Signed(s)) \in Packets /\ Packet(Signed(s)).id = Signed(s)
    BY <2>1, PacketOK
  <2>3. d = [Packet(Signed(s)) EXCEPT !.hash = s.handshake.hash]
    OBVIOUS
  <2> HIDE DEF d
  <2> QED BY <1>1, <2>1, <2>2, <2>3 DEF Packets
<1> HIDE DEF g, d
<1>4. Posts(g, r, p) /\ p.id = Signed(s) /\ p.hash = s.handshake.hash
  BY <1>2, <1>3, BundleCalm DEF Sets, Kin, Same
<1> HIDE DEF r, p
<1>5. Sets(r, a, "NEWKEYS")
  BY <1>4, IdsOK, SetExpectCalm DEF Posts, Kin, Same
<1> HIDE DEF a
<1>6. Moves(s, a, p, "NEWKEYS") /\ a.isKeying = s.isKeying
  <2>1. Moves(s, r, p, s.handshake.expectMsgId) /\ r.isKeying = s.isKeying
    BY <1>2, <1>4, SetsPosts
  <2> QED BY <1>5, <2>1, KinTrans DEF Moves, Sets
<1>7. Calm(a) /\ a.handshake.expectMsgId = "NEWKEYS" /\ "PEER" \in a.isKeying
  BY <1>6 DEF Moves, Kin, Same
<1>8. PICK q : /\ Moves(a, b, q, "NEWKEYS") /\ q.id = "NEWKEYS"
               /\ b.isKeying = a.isKeying \ {"SELF"}
  BY <1>7, SendNewKeysCalm
<1> HIDE DEF b
<1>9. t = b \/ \E z : Posts(b, t, z) /\ z.id = "EXT_INFO"
  BY <1>8, SendExtInfoCalm DEF Moves, Kin, Same
<1>10. SendKexDhReply(s) = t
  BY DEF SendKexDhReply, t, b, a, r, g, d, Signed
<1> HIDE DEF t
<1>11. b.isKeying = s.isKeying \ {"SELF"}
  BY <1>6, <1>8
<1>12. /\ Moves(s, a, p, "NEWKEYS") /\ a.isKeying = s.isKeying
       /\ p.id = Signed(s) /\ p.hash = s.handshake.hash
       /\ Moves(a, b, q, "NEWKEYS") /\ b.isKeying = s.isKeying \ {"SELF"}
       /\ q.id = "NEWKEYS"
       /\ SendKexDhReply(s) = b \/ \E z : Posts(b, SendKexDhReply(s), z) /\ z.id = "EXT_INFO"
  BY <1>4, <1>6, <1>8, <1>9, <1>10, <1>11
<1> QED BY <1>12, Zenon

\* DoKexDhReply() with a reply that verifies.
LEMMA DoKexDhReplyCalm ==
    ASSUME NEW s, NEW p, Calm(s), "PEER" \in s.isKeying, p.hash = s.handshake.hash
    PROVE  LET t == DoKexDhReply(s, p) IN
           \E q : /\ Moves(s, t, q, "NEWKEYS") /\ q.id = "NEWKEYS"
                  /\ t.isKeying = s.isKeying \ {"SELF"}
<1> DEFINE g == GenerateKeys(s)
           a == SetExpect(g, "NEWKEYS")
           t == SendNewKeys(a)
<1>1. Sets(s, g, s.handshake.expectMsgId)
  BY GenerateKeysCalm
<1> HIDE DEF g
<1>2. Sets(g, a, "NEWKEYS")
  BY <1>1, IdsOK, SetExpectCalm DEF Sets, Kin, Same
<1> HIDE DEF a
<1>3. Sets(s, a, "NEWKEYS")
  BY <1>1, <1>2, SetsTrans
<1>4. Calm(a) /\ "PEER" \in a.isKeying /\ a.handshake.expectMsgId = "NEWKEYS"
  BY <1>3 DEF Sets, Kin, Same
<1>5. PICK q : /\ Moves(a, t, q, "NEWKEYS") /\ q.id = "NEWKEYS"
               /\ t.isKeying = a.isKeying \ {"SELF"}
  BY <1>4, SendNewKeysCalm
<1>6. DoKexDhReply(s, p) = t
  BY DEF DoKexDhReply, t, a, g
<1> HIDE DEF t
<1>7. Moves(s, t, q, "NEWKEYS") /\ t.isKeying = s.isKeying \ {"SELF"}
  BY <1>3, <1>5, SetsMoves DEF Sets
<1> QED BY <1>5, <1>6, <1>7

\* Credit is parked or goes out, as WINDOW_ADJUST, from a session that is
\* not keying.
Credits(s, t, total) ==
    /\ Same(s, t) /\ Phase(s, t)
    /\ t.peerRound = s.peerRound /\ t.initialKexDone = s.initialKexDone
    /\ t.unread = s.unread /\ t.peerSeq = s.peerSeq
    /\ t.pendingWindowAdjust \in Nat
    /\ t.pendingWindowAdjust > 0 => total > 0
    /\ \/ t.out = s.out
       \/ total > 0 /\ \E q \in Packets : Adds(s.out, t.out, q) /\ q.id = "WINDOW_ADJUST"

LEMMA PendingSet ==
    ASSUME NEW s, NEW n, Calm(s)
    PROVE  LET u == [s EXCEPT !.pendingWindowAdjust = n] IN
           /\ Same(s, u) /\ Phase(s, u) /\ u.out = s.out /\ u.pendingWindowAdjust = n
           /\ u.peerRound = s.peerRound /\ u.initialKexDone = s.initialKexDone
           /\ u.unread = s.unread /\ u.peerSeq = s.peerSeq
<1> DEFINE u == [s EXCEPT !.pendingWindowAdjust = n]
<1>1. IsSession(s)
  BY DEF Calm
<1>2. /\ DOMAIN u = Fields
      /\ u.sessionId = s.sessionId /\ u.handshake = s.handshake
      /\ u.out = s.out /\ u.isKeying = s.isKeying /\ u.seq = s.seq /\ u.keys = s.keys
      /\ u.mark = s.mark /\ u.kexId = s.kexId /\ u.sendStrictKex = s.sendStrictKex
      /\ u.disconnected = s.disconnected /\ u.error = s.error /\ u.state = s.state
      /\ u.highwaterFlag = s.highwaterFlag /\ u.msgHighwaterFlag = s.msgHighwaterFlag
      /\ u.match = s.match /\ u.round = s.round /\ u.peerRound = s.peerRound
      /\ u.initialKexDone = s.initialKexDone /\ u.unread = s.unread
      /\ u.pendingWindowAdjust = n /\ u.peerSeq = s.peerSeq
      /\ u.peerKeys = s.peerKeys /\ u.kexCount = s.kexCount
      /\ u.useStrictKex = s.useStrictKex
  BY <1>1 DEF IsSession, Fields
<1> HIDE DEF u
<1>3. IsSession(u)
  BY <1>1, <1>2 DEF IsSession
<1> QED BY <1>2, <1>3 DEF Same, Phase, Calm, Unmarked, u

LEMMA CreditCalm ==
    ASSUME NEW s, NEW a \in Nat, Calm(s), ~s.disconnected, s.pendingWindowAdjust \in Nat
    PROVE  Credits(s, ChannelCreditWindow(s, a), s.pendingWindowAdjust + a)
<1> DEFINE total == s.pendingWindowAdjust + a
           t == ChannelCreditWindow(s, a)
<1>1. total \in Nat
  OBVIOUS
<1>2. CASE total = 0
  <2>1. t = s
    BY <1>2 DEF ChannelCreditWindow
  <2>2. s.pendingWindowAdjust = 0
    BY <1>2
  <2> QED BY <2>1, <2>2 DEF Credits, Same, Phase
<1>3. CASE total # 0 /\ s.isKeying # {}
  <2> DEFINE u == [s EXCEPT !.pendingWindowAdjust = total]
  <2>1. t = u
    BY <1>3 DEF ChannelCreditWindow
  <2>2. /\ Same(s, u) /\ Phase(s, u) /\ u.out = s.out /\ u.pendingWindowAdjust = total
        /\ u.peerRound = s.peerRound /\ u.initialKexDone = s.initialKexDone
        /\ u.unread = s.unread /\ u.peerSeq = s.peerSeq
    BY PendingSet
  <2> HIDE DEF u, t
  <2> QED BY <1>1, <1>3, <2>1, <2>2 DEF Credits, t
<1>4. CASE total # 0 /\ s.isKeying = {}
  <2> DEFINE u == [s EXCEPT !.pendingWindowAdjust = 0]
             p == Packet("WINDOW_ADJUST")
             q == Seal(u, p)
             w == SendPacket(u, p)
  <2>1. t = w
    BY <1>4 DEF ChannelCreditWindow
  <2>2. /\ Same(s, u) /\ Phase(s, u) /\ u.out = s.out /\ u.pendingWindowAdjust = 0
        /\ u.peerRound = s.peerRound /\ u.initialKexDone = s.initialKexDone
        /\ u.unread = s.unread /\ u.peerSeq = s.peerSeq
    BY PendingSet
  <2>3. p \in Packets /\ p.id = "WINDOW_ADJUST"
    BY PacketOK DEF MsgIds, Conn
  <2> HIDE DEF u, p
  <2>4. Posts(u, w, q) /\ q.id = "WINDOW_ADJUST"
    BY <2>2, <2>3, SendPacketPosts DEF Same
  <2> HIDE DEF w, q
  <2>5. total > 0
    BY <1>1, <1>4
  <2>6. /\ Same(s, w) /\ Phase(s, w)
        /\ w.peerRound = s.peerRound /\ w.initialKexDone = s.initialKexDone
        /\ w.unread = s.unread /\ w.peerSeq = s.peerSeq /\ w.pendingWindowAdjust = 0
    BY <2>2, <2>4 DEF Posts, Kin, Same, Phase
  <2>7. Adds(s.out, w.out, q) /\ q \in Packets
    BY <2>2, <2>4 DEF Posts
  <2> HIDE DEF t, total
  <2>8. Credits(s, w, total)
    BY <2>4, <2>5, <2>6, <2>7 DEF Credits
  <2> QED BY <2>1, <2>8 DEF t, total
<1> QED BY <1>2, <1>3, <1>4

\* DoNewKeys(): the exchange is over, and what was parked goes out.
LEMMA DoNewKeysCalm ==
    ASSUME NEW s, Calm(s), ~s.disconnected, s.pendingWindowAdjust \in Nat,
           s.handshake.live, "SELF" \notin s.isKeying
    PROVE  LET t == DoNewKeys(s) IN
           \E u : /\ Kin(s, u) /\ u.out = s.out /\ u.handshake = NoHandshake
                  /\ u.isKeying = s.isKeying \ {"PEER"}
                  /\ Credits(u, t, s.pendingWindowAdjust)
<1> DEFINE u == [s EXCEPT !.peerKeys = s.handshake.keys,
                          !.rxCount = 0,
                          !.rxMsgCount = 0,
                          !.highwaterFlag = FALSE,
                          !.msgHighwaterFlag = FALSE,
                          !.isKeying = @ \ {"PEER"},
                          !.handshake = NoHandshake]
           t == DoNewKeys(s)
<1>1. IsSession(s) /\ s.handshake.keys \in Keys
  BY SessionKeys DEF Calm
<1>2. /\ DOMAIN u = Fields
      /\ u.sessionId = s.sessionId /\ u.handshake = NoHandshake
      /\ u.out = s.out /\ u.isKeying = s.isKeying \ {"PEER"} /\ u.seq = s.seq /\ u.keys = s.keys
      /\ u.mark = s.mark /\ u.kexId = s.kexId /\ u.sendStrictKex = s.sendStrictKex
      /\ u.disconnected = s.disconnected /\ u.error = s.error /\ u.state = s.state
      /\ u.highwaterFlag = FALSE /\ u.msgHighwaterFlag = FALSE
      /\ u.match = s.match /\ u.round = s.round /\ u.peerRound = s.peerRound
      /\ u.initialKexDone = s.initialKexDone /\ u.unread = s.unread
      /\ u.pendingWindowAdjust = s.pendingWindowAdjust /\ u.peerSeq = s.peerSeq
      /\ u.peerKeys = s.handshake.keys /\ u.kexCount = s.kexCount
      /\ u.useStrictKex = s.useStrictKex
  BY <1>1 DEF IsSession, Fields
<1>3. NoHandshake \in Handshake
  BY KeysOK DEF NoHandshake, HandshakeInfoNew, Handshake
<1>4. t = SendPendingChannelWindowAdjust(u)
  BY DEF DoNewKeys, NewKeysAccepted
<1> HIDE DEF u, t
<1>5. IsSession(u)
  BY <1>1, <1>2, <1>3 DEF IsSession
<1>6. Kin(s, u)
  BY <1>2, <1>5, KinByFields
<1>7. u.isKeying = {}
  BY <1>1, <1>2 DEF IsSession
<1>8. t = ChannelCreditWindow(u, 0)
  BY <1>4, <1>7 DEF SendPendingChannelWindowAdjust
<1>9. Credits(u, ChannelCreditWindow(u, 0), u.pendingWindowAdjust + 0)
  BY <1>2, <1>6, CreditCalm DEF Kin, Same
<1>10. Credits(u, t, s.pendingWindowAdjust)
  BY <1>2, <1>8, <1>9
<1>11. \E w : /\ Kin(s, w) /\ w.out = s.out /\ w.handshake = NoHandshake
              /\ w.isKeying = s.isKeying \ {"PEER"}
              /\ Credits(w, t, s.pendingWindowAdjust)
  BY <1>2, <1>6, <1>10
<1> QED BY <1>11 DEF t

\* DoKexInit(), accepted: our own KEXINIT goes out unless it is already.
Hashes(e, s, t, n) ==
    /\ Kin(s, t)
    /\ "SELF" \in t.isKeying /\ "PEER" \in t.isKeying
    /\ t.handshake.live
    /\ t.handshake.hash = Transcript(e, t.handshake.kexInit, n)
    /\ t.handshake.expectMsgId =
          IF e = "server" THEN FirstRequest(s)
          ELSE IF s.handshake.live THEN s.handshake.expectMsgId ELSE "NONE"
    /\ "SELF" \in s.isKeying =>
          t.out = s.out /\ (s.handshake.live => t.handshake.kexInit = s.handshake.kexInit)
    /\ "SELF" \notin s.isKeying =>
          \E q \in Packets : /\ Adds(s.out, t.out, q)
                             /\ q.id = "KEXINIT" /\ q.kexInit = t.handshake.kexInit

LEMMA OpenKexInitCalm ==
    ASSUME NEW s, NEW p \in Packets, Calm(s)
    PROVE  LET o == OpenKexInit(s, p) IN
           /\ Kin(s, o) /\ o.out = s.out /\ o.isKeying = s.isKeying \cup {"PEER"}
           /\ o.handshake = IF s.handshake.live THEN s.handshake ELSE HandshakeInfoNew
<1> DEFINE o == OpenKexInit(s, p)
           h == IF s.handshake.live THEN s.handshake ELSE HandshakeInfoNew
           k == [s EXCEPT !.isKeying = @ \cup {"PEER"}, !.handshake = h]
<1>1. IsSession(s)
  BY DEF Calm
<1>2. Opening(s, o) /\ o.peerSeq = s.peerSeq
  BY <1>1, OpenKexInitOpening
<1>3. o = NegotiateStrictKex(k, p)
  BY DEF OpenKexInit
<1> HIDE DEF o, h
<1>4. /\ DOMAIN k = Fields
      /\ k.match = s.match /\ k.round = s.round /\ k.peerRound = s.peerRound
      /\ k.initialKexDone = s.initialKexDone /\ k.unread = s.unread
      /\ k.pendingWindowAdjust = s.pendingWindowAdjust
      /\ k.highwaterFlag = s.highwaterFlag /\ k.msgHighwaterFlag = s.msgHighwaterFlag
  BY <1>1 DEF IsSession, Fields
<1> HIDE DEF k
<1>5. o = k \/ o = [k EXCEPT !.useStrictKex = p.strict /\ k.sendStrictKex]
  BY <1>3 DEF NegotiateStrictKex
<1>6. /\ o.match = s.match /\ o.round = s.round /\ o.peerRound = s.peerRound
      /\ o.initialKexDone = s.initialKexDone /\ o.unread = s.unread
      /\ o.pendingWindowAdjust = s.pendingWindowAdjust
      /\ o.highwaterFlag = s.highwaterFlag /\ o.msgHighwaterFlag = s.msgHighwaterFlag
  BY <1>4, <1>5 DEF Fields
<1>7. Kin(s, o)
  BY <1>2, <1>6, KinByFields DEF Opening, Kept, Calm
<1> QED BY <1>2, <1>7 DEF Opening, o

LEMMA HashSet ==
    ASSUME NEW s, NEW n \in Keys, Calm(s)
    PROVE  LET t == [s EXCEPT !.handshake.hash = n] IN
           /\ Kin(s, t) /\ t.out = s.out /\ t.isKeying = s.isKeying
           /\ t.handshake.live = s.handshake.live /\ t.handshake.kexInit = s.handshake.kexInit
           /\ t.handshake.expectMsgId = s.handshake.expectMsgId /\ t.handshake.hash = n
<1> DEFINE g == [s.handshake EXCEPT !.hash = n]
           t == [s EXCEPT !.handshake.hash = n]
<1>1. IsSession(s) /\ s.handshake \in Handshake
  BY DEF Calm, IsSession
<1>2. /\ g \in Handshake /\ g.live = s.handshake.live /\ g.kexInit = s.handshake.kexInit
      /\ g.hash = n /\ g.expectMsgId = s.handshake.expectMsgId
  BY <1>1 DEF Handshake
<1>3. t = [s EXCEPT !.handshake = g]
  OBVIOUS
<1> HIDE DEF g, t
<1>4. /\ DOMAIN t = Fields
      /\ t.sessionId = s.sessionId /\ t.handshake = g
      /\ t.out = s.out /\ t.isKeying = s.isKeying /\ t.seq = s.seq /\ t.keys = s.keys
      /\ t.mark = s.mark /\ t.kexId = s.kexId /\ t.sendStrictKex = s.sendStrictKex
      /\ t.disconnected = s.disconnected /\ t.error = s.error /\ t.state = s.state
      /\ t.highwaterFlag = s.highwaterFlag /\ t.msgHighwaterFlag = s.msgHighwaterFlag
      /\ t.match = s.match /\ t.round = s.round /\ t.peerRound = s.peerRound
      /\ t.initialKexDone = s.initialKexDone /\ t.unread = s.unread
      /\ t.pendingWindowAdjust = s.pendingWindowAdjust /\ t.peerSeq = s.peerSeq
      /\ t.peerKeys = s.peerKeys /\ t.kexCount = s.kexCount
      /\ t.useStrictKex = s.useStrictKex
  BY <1>1, <1>3 DEF IsSession, Fields
<1>5. IsSession(t)
  BY <1>1, <1>2, <1>4 DEF IsSession
<1>6. Kin(s, t)
  BY <1>4, <1>5, KinByFields DEF Calm
<1> QED BY <1>2, <1>4, <1>6 DEF t

LEMMA HashKexInitCalm ==
    ASSUME NEW e \in Endpoints, NEW s, NEW p \in Packets, Calm(s)
    PROVE  Hashes(e, s, HashKexInit(e, OpenKexInit(s, p), p), p.kexInit)
<1> DEFINE o == OpenKexInit(s, p)
           r == IF "SELF" \in o.isKeying THEN o ELSE SendKexInit(o)
           n == Transcript(e, r.handshake.kexInit, p.kexInit)
           h == [r EXCEPT !.handshake.hash = n]
           t == IF e = "server" THEN ExpectClientKexMsg(h) ELSE h
           x == IF s.handshake.live THEN s.handshake.expectMsgId ELSE "NONE"
<1>1. /\ Kin(s, o) /\ o.out = s.out /\ o.isKeying = s.isKeying \cup {"PEER"}
      /\ o.handshake = IF s.handshake.live THEN s.handshake ELSE HandshakeInfoNew
  BY OpenKexInitCalm
<1>2. Calm(o)
  BY <1>1 DEF Kin, Same
<1>3. o.handshake.live /\ o.handshake.expectMsgId = x
      /\ (s.handshake.live => o.handshake.kexInit = s.handshake.kexInit)
  BY <1>1 DEF HandshakeInfoNew
<1>4. "SELF" \in o.isKeying <=> "SELF" \in s.isKeying
  BY <1>1
<1> HIDE DEF o, x
<1>5. /\ Kin(s, r) /\ Calm(r) /\ r.isKeying = o.isKeying \cup {"SELF"}
      /\ r.handshake.live /\ r.handshake.expectMsgId = x
      /\ "SELF" \in s.isKeying =>
            r.out = s.out /\ (s.handshake.live => r.handshake.kexInit = s.handshake.kexInit)
      /\ "SELF" \notin s.isKeying =>
            \E q \in Packets : /\ Adds(s.out, r.out, q)
                               /\ q.id = "KEXINIT" /\ q.kexInit = r.handshake.kexInit
  <2>1. CASE "SELF" \in o.isKeying
    BY <2>1, <1>1, <1>2, <1>3, <1>4
  <2>2. CASE "SELF" \notin o.isKeying
    <3>1. r = SendKexInit(o)
      BY <2>2
    <3> HIDE DEF r
    <3>2. PICK q : KexInits(o, r, q)
      BY <3>1, <1>2, SendKexInitCalm
    <3>3. Kin(s, r)
      BY <1>1, <3>2, KinTrans DEF KexInits
    <3> QED BY <1>1, <1>3, <1>4, <2>2, <3>2, <3>3 DEF KexInits, Kin, Same
  <2> QED BY <2>1, <2>2
<1> HIDE DEF r
<1>6. n \in Keys
  <2>1. r.handshake.kexInit \in Nat /\ p.kexInit \in Nat
    BY <1>5, SessionKeys DEF Calm, Packets
  <2> QED BY <2>1, TranscriptOK
<1> HIDE DEF n
<1>7. /\ Kin(r, h) /\ h.out = r.out /\ h.isKeying = r.isKeying
      /\ h.handshake.live = r.handshake.live /\ h.handshake.kexInit = r.handshake.kexInit
      /\ h.handshake.expectMsgId = r.handshake.expectMsgId /\ h.handshake.hash = n
  BY <1>5, <1>6, HashSet
<1> HIDE DEF h
<1>8. Kin(s, h) /\ Calm(h) /\ h.kexId = s.kexId
  BY <1>5, <1>7, KinTrans DEF Kin, Same
<1>9. /\ Kin(s, t) /\ t.out = h.out /\ t.isKeying = h.isKeying
      /\ t.handshake.live = h.handshake.live /\ t.handshake.kexInit = h.handshake.kexInit
      /\ t.handshake.hash = h.handshake.hash
      /\ t.handshake.expectMsgId = IF e = "server" THEN FirstRequest(s) ELSE h.handshake.expectMsgId
  <2>1. CASE e # "server"
    BY <2>1, <1>8
  <2>2. CASE e = "server"
    <3>1. t = SetExpect(h, FirstRequest(s))
      BY <2>2, <1>8 DEF ExpectClientKexMsg, FirstRequest
    <3>2. FirstRequest(s) \in MsgIds
      BY DEF FirstRequest, MsgIds, Trans, TransKex
    <3>3. Sets(h, SetExpect(h, FirstRequest(s)), FirstRequest(s))
      BY <1>8, <3>2, SetExpectCalm
    <3> HIDE DEF t
    <3> QED BY <2>2, <1>8, <3>1, <3>3, KinTrans DEF Sets
  <2> QED BY <2>1, <2>2
<1>10. n = Transcript(e, h.handshake.kexInit, p.kexInit)
  BY <1>7 DEF n
<1>11. HashKexInit(e, OpenKexInit(s, p), p) = t
  BY DEF HashKexInit, t, h, n, r, o
<1> HIDE DEF t
<1>12. Hashes(e, s, t, p.kexInit)
  <2>1. "SELF" \in t.isKeying /\ "PEER" \in t.isKeying
    BY <1>1, <1>5, <1>7, <1>9
  <2>2. t.handshake.hash = Transcript(e, t.handshake.kexInit, p.kexInit) /\ t.handshake.live
    BY <1>5, <1>7, <1>9, <1>10
  <2>3. t.handshake.expectMsgId = IF e = "server" THEN FirstRequest(s) ELSE x
    BY <1>5, <1>7, <1>9
  <2>4. t.out = r.out /\ t.handshake.kexInit = r.handshake.kexInit
    BY <1>7, <1>9
  <2> QED BY <1>5, <1>9, <2>1, <2>2, <2>3, <2>4 DEF Hashes, x
<1> QED BY <1>11, <1>12

----------------------------------------------------------------------------
(* How the parts of the invariant live through a step.                     *)

Ids(e) == IF e = "client" THEN ClientIds ELSE ServerIds

\* The peer of the session that reads: only the packet is gone.
Behind(r, q) ==
    /\ Taken(r, q)
    /\ q.round = r.round /\ q.peerRound = r.peerRound
    /\ q.highwaterFlag = r.highwaterFlag /\ q.msgHighwaterFlag = r.msgHighwaterFlag
    /\ q.initialKexDone = r.initialKexDone /\ q.match = r.match
    /\ q.pendingWindowAdjust = r.pendingWindowAdjust /\ q.unread = r.unread

LEMMA TailBehind ==
    ASSUME NEW r, IsSession(r), r.out # <<>>
    PROVE  Behind(r, [r EXCEPT !.out = Tail(@)]) /\ Head(r.out) = r.out[1]
<1> DEFINE q == [r EXCEPT !.out = Tail(@)]
<1>1. Taken(r, q) /\ Head(r.out) = r.out[1]
  BY TailTaken
<1>2. /\ q.round = r.round /\ q.peerRound = r.peerRound
      /\ q.highwaterFlag = r.highwaterFlag /\ q.msgHighwaterFlag = r.msgHighwaterFlag
      /\ q.initialKexDone = r.initialKexDone /\ q.match = r.match
      /\ q.pendingWindowAdjust = r.pendingWindowAdjust /\ q.unread = r.unread
  BY DEF IsSession, Fields
<1> QED BY <1>1, <1>2 DEF Behind

\* What the exchange is made of stays as it is.
Steady(s, t) ==
    /\ Phase(s, t)
    /\ t.kexId = s.kexId /\ t.initialKexDone = s.initialKexDone
    /\ KexSame(s.out, t.out)

LEMMA PhaseSteady ==
    ASSUME NEW s, NEW t, Phase(s, t), t.kexId = s.kexId
    PROVE  /\ Idle(t) <=> Idle(s)
           /\ Offered(t) <=> Offered(s)
           /\ \A x : Agreed(t, x) <=> Agreed(s, x)
           /\ Switched(t) <=> Switched(s)
           /\ FirstRequest(t) = FirstRequest(s) /\ Signed(t) = Signed(s)
BY DEF Phase, Idle, Offered, Agreed, Switched, FirstRequest, Signed

LEMMA StageSteady ==
    ASSUME NEW c, NEW d, NEW v, NEW w, Stage(c, v), Steady(c, d), Steady(v, w)
    PROVE  Stage(d, w)
<1>1. /\ Idle(d) <=> Idle(c)
      /\ Offered(d) <=> Offered(c)
      /\ \A x : Agreed(d, x) <=> Agreed(c, x)
      /\ Switched(d) <=> Switched(c)
      /\ FirstRequest(d) = FirstRequest(c) /\ Signed(d) = Signed(c)
      /\ d.initialKexDone = c.initialKexDone /\ d.kexId = c.kexId
  BY PhaseSteady DEF Steady
<1>2. /\ Idle(w) <=> Idle(v)
      /\ Offered(w) <=> Offered(v)
      /\ \A x : Agreed(w, x) <=> Agreed(v, x)
      /\ Switched(w) <=> Switched(v)
      /\ FirstRequest(w) = FirstRequest(v) /\ Signed(w) = Signed(v)
      /\ w.initialKexDone = v.initialKexDone
  BY PhaseSteady DEF Steady
<1>3. /\ NoKex(c.out) => NoKex(d.out)
      /\ \A a : OneKex(c.out, a) => OneKex(d.out, a)
      /\ \A a, b : TwoKex(c.out, a, b) => TwoKex(d.out, a, b)
  BY DEF Steady, KexSame
<1>4. /\ NoKex(v.out) => NoKex(w.out)
      /\ \A a : OneKex(v.out, a) => OneKex(w.out, a)
      /\ \A a, b : TwoKex(v.out, a, b) => TwoKex(w.out, a, b)
  BY DEF Steady, KexSame
<1>5. Proposing(c, v) => Proposing(d, w)
  BY <1>1, <1>2, <1>3, <1>4 DEF Proposing
<1>6. Settling(c, v) => Settling(d, w)
  BY <1>1, <1>2, <1>3, <1>4 DEF Settling
<1>7. ServerDone(c, v) => ServerDone(d, w)
  BY <1>1, <1>2, <1>3, <1>4 DEF ServerDone
<1>8. ClientDone(c, v) => ClientDone(d, w)
  BY <1>1, <1>2, <1>3, <1>4 DEF ClientDone
<1> QED BY <1>1, <1>2, <1>5, <1>6, <1>7, <1>8 DEF Stage

LEMMA AnnouncedSteady ==
    ASSUME NEW s, NEW t, Announced(s), Steady(s, t)
    PROVE  Announced(t)
<1>1. SUFFICES ASSUME "SELF" \in t.isKeying, NEW j \in 1..Len(t.out), t.out[j].id = "KEXINIT"
               PROVE  t.out[j].kexInit = t.handshake.kexInit
  BY DEF Announced
<1>2. PICK i \in 1..Len(s.out) : s.out[i] = t.out[j]
  BY <1>1 DEF Steady, KexSame, Trans
<1> QED BY <1>1, <1>2 DEF Announced, Steady, Phase

LEMMA SameHashSteady ==
    ASSUME NEW c, NEW d, NEW v, NEW w, SameHash(c, v), Steady(c, d), Steady(v, w)
    PROVE  SameHash(d, w)
<1>1. Announced(d) /\ Announced(w)
  BY AnnouncedSteady DEF SameHash
<1>2. /\ d.isKeying = c.isKeying /\ d.handshake = c.handshake
      /\ w.isKeying = v.isKeying /\ w.handshake = v.handshake /\ w.kexId = v.kexId
  BY DEF Steady, Phase
<1>3. ASSUME NEW j \in 1..Len(w.out), IsReply(w.out[j], w.kexId)
      PROVE  w.out[j].hash = <<c.handshake.kexInit, v.handshake.kexInit>>
  <2>1. w.out[j].id \in Trans
    BY <1>3 DEF IsReply, Trans, TransKex
  <2>2. PICK i \in 1..Len(v.out) : v.out[i] = w.out[j]
    BY <2>1 DEF Steady, KexSame
  <2> QED BY <1>2, <1>3, <2>2 DEF SameHash
<1> QED BY <1>1, <1>2, <1>3 DEF SameHash

LEMMA SteadySame ==
    ASSUME NEW s
    PROVE  Steady(s, s)
BY KexSameRefl DEF Steady, Phase

LEMMA BehindSteady ==
    ASSUME NEW r, NEW q, Behind(r, q), r.out[1].id \notin Trans
    PROVE  Steady(r, q)
<1>1. KexSame(r.out, q.out)
  BY TakenDrops, DropsOther DEF Behind
<1> QED BY <1>1 DEF Steady, Behind, Taken, Phase

\* One session alone.
LEMMA SideBehind ==
    ASSUME NEW e, NEW r, NEW q, Side(e, r), Behind(r, q)
    PROVE  Side(e, q)
<1>1. Drops(r.out, q.out) /\ r.out # <<>>
  BY TakenDrops DEF Behind
<1>2. Calm(q)
  BY DEF Side, Sound, Calm, Behind, Taken, Unmarked
<1>3. Has(q.out, Conn) => Has(r.out, Conn)
  BY <1>1, DropsHas
<1>4. Sound(q)
  BY <1>2, <1>3 DEF Side, Sound, Behind, Taken
<1>5. Era(q)
  BY <1>1 DEF Side, Era, Behind, Taken
<1>6. ClientEra(r) => ClientEra(q)
  BY DEF ClientEra, Behind, Taken, Agreed, Offered
<1>7. ServerEra(r) => ServerEra(q)
  BY DEF ServerEra, Behind, Taken
<1>8. \A S : Only(r.out, S) => Only(q.out, S)
  BY <1>1, DropsKeep
<1> QED BY <1>4, <1>5, <1>6, <1>7, <1>8 DEF Side

\* Nothing but the stream and the accounts of what was read change.
Level(s, t) ==
    /\ Calm(t) /\ Phase(s, t)
    /\ t.disconnected = s.disconnected /\ t.error = s.error /\ t.match = s.match
    /\ t.kexId = s.kexId /\ t.sendStrictKex = s.sendStrictKex
    /\ t.initialKexDone = s.initialKexDone /\ t.state = s.state
    /\ t.unread \in Nat /\ t.pendingWindowAdjust \in Nat
    /\ (t.unread > 0 \/ t.pendingWindowAdjust > 0) => s.state = "DONE"

LEMMA SideLevel ==
    ASSUME NEW e, NEW s, NEW t, Side(e, s), Level(s, t), t.out = s.out
    PROVE  Side(e, t) /\ Steady(s, t)
<1>1. Sound(t)
  BY DEF Side, Sound, Level
<1>2. Era(t)
  BY DEF Side, Era, Level, Phase
<1>3. ClientEra(s) => ClientEra(t)
  BY DEF ClientEra, Level, Phase, Agreed, Offered
<1>4. ServerEra(s) => ServerEra(t)
  BY DEF ServerEra, Level
<1>5. Steady(s, t)
  BY KexSameRefl DEF Steady, Level
<1> QED BY <1>1, <1>2, <1>3, <1>4, <1>5 DEF Side

LEMMA SideAdds ==
    ASSUME NEW e \in Endpoints, NEW s, NEW t, NEW z, Side(e, s), Level(s, t), Adds(s.out, t.out, z),
           z.id \notin Trans, z.id \in Ids(e), s.state # "VERSION_DONE",
           z.id \in Conn => s.state = "DONE"
    PROVE  Side(e, t) /\ Steady(s, t)
<1>1. Has(t.out, Conn) => s.state = "DONE"
  BY AddsHas DEF Side, Sound
<1>2. Sound(t)
  BY <1>1 DEF Side, Sound, Level
<1>3. Era(t)
  BY DEF Side, Era, Level, Phase
<1>4. ClientEra(s) => ClientEra(t)
  BY DEF ClientEra, Level, Phase, Agreed, Offered
<1>5. ServerEra(s) => ServerEra(t)
  BY DEF ServerEra, Level
<1>6. Steady(s, t)
  BY AddsOther DEF Steady, Level
<1>7. Only(s.out, Ids(e)) => Only(t.out, Ids(e))
  BY AddsOnly
<1> QED BY <1>2, <1>3, <1>4, <1>5, <1>6, <1>7 DEF Side, Ids

\* A session and the stream it reads.
Listens(s, t) ==
    /\ t.initialKexDone = s.initialKexDone /\ t.sendStrictKex = s.sendStrictKex
    /\ ~s.initialKexDone => t.peerSeq = s.peerSeq
    /\ "PEER" \in t.isKeying <=> "PEER" \in s.isKeying

LEMMA TieListens ==
    ASSUME NEW s, NEW t, NEW r, Tie(s, r), Listens(s, t)
    PROVE  Tie(t, r)
BY DEF Tie, Opener, Opened, Listens, Due

LEMMA BehindListens ==
    ASSUME NEW r, NEW q, Behind(r, q)
    PROVE  Listens(r, q)
BY DEF Behind, Taken, Listens

\* The peer that adds to the stream.
LEMMA TieSpeaks ==
    ASSUME NEW s, NEW t, NEW r, NEW z, IsSession(s), Tie(r, s), Adds(s.out, t.out, z),
           t.sendStrictKex = s.sendStrictKex, s.state # "VERSION_DONE",
           ~r.initialKexDone /\ z.id \in Due(r, s) => Has(s.out, {"NEWKEYS"})
    PROVE  Tie(r, t)
<1>1. Due(r, t) = Due(r, s)
  BY DEF Due
<1>2. Opened(r, t)
  BY <1>1, AddsGuarded DEF Tie, Opened
<1>3. ASSUME ~r.initialKexDone, "PEER" \notin r.isKeying
      PROVE  r.peerSeq = 0 /\ t.out # <<>> /\ t.out[1].id = "KEXINIT"
  <2>1. r.peerSeq = 0 /\ s.out # <<>> /\ s.out[1].id = "KEXINIT"
    BY <1>3 DEF Tie, Opener
  <2>2. Len(s.out) # 0
    BY <2>1 DEF IsSession
  <2>3. 1 \in 1..Len(s.out) /\ Len(t.out) # 0
    BY <2>2 DEF Adds
  <2>4. t.out[1] = s.out[1]
    BY <2>3 DEF Adds
  <2> QED BY <2>1, <2>3, <2>4
<1> QED BY <1>2, <1>3 DEF Tie, Opener

LEMMA TieSpeaksFirst ==
    ASSUME NEW s, NEW t, NEW r, NEW z, IsSession(s), Tie(r, s), Adds(s.out, t.out, z),
           t.sendStrictKex = s.sendStrictKex, s.out = <<>>, z.id = "KEXINIT"
    PROVE  Tie(r, t)
<1>1. Due(r, t) = Due(r, s) /\ z.id \notin Due(r, s)
  BY DEF Due, Trans
<1>2. Opened(r, t)
  BY <1>1, AddsGuarded DEF Tie, Opened
<1>3. Len(t.out) = 1 /\ t.out[1] = z
  BY DEF Adds
<1> QED BY <1>2, <1>3 DEF Tie, Opener

\* The session that reads a packet, and has the peer's KEXINIT behind it.
LEMMA TieReads ==
    ASSUME NEW s, NEW t, NEW r, NEW q, Tie(s, r), Behind(r, q),
           t.sendStrictKex = s.sendStrictKex,
           ~t.initialKexDone => /\ ~s.initialKexDone /\ "PEER" \in t.isKeying
                                /\ r.out[1].id # "NEWKEYS"
    PROVE  Tie(t, q)
<1>1. SUFFICES ASSUME ~t.initialKexDone PROVE Guarded(q.out, Due(t, q))
  BY DEF Tie, Opener, Opened
<1>2. Due(t, q) = Due(s, r) /\ Drops(r.out, q.out)
  BY TakenDrops DEF Due, Behind, Taken
<1>3. Guarded(r.out, Due(s, r))
  BY <1>1 DEF Tie, Opened
<1> QED BY <1>1, <1>2, <1>3, DropsGuarded

LEMMA HeadDue ==
    ASSUME NEW s, NEW r, NEW q, Tie(s, r), Behind(r, q), ~s.initialKexDone
    PROVE  /\ r.out[1].id # "NEWKEYS" => r.out[1].id \notin Due(s, r)
           /\ ("PEER" \notin s.isKeying /\ r.state # "VERSION_DONE")
                 => s.peerSeq = 0 /\ r.out[1].id = "KEXINIT"
<1>1. Guarded(r.out, Due(s, r)) /\ Drops(r.out, q.out)
  BY TakenDrops DEF Tie, Opened, Behind
<1> QED BY <1>1, DropsGuarded DEF Tie, Opener

----------------------------------------------------------------------------
(* The login.                                                              *)

Auth == {"AUTH_REQ", "AUTH_REP"}

\* The same messages of the login are on both streams.
AuthSame(q, r) ==
    /\ Has(r, {"AUTH_REQ"}) <=> Has(q, {"AUTH_REQ"})
    /\ Has(r, {"AUTH_REP"}) <=> Has(q, {"AUTH_REP"})
    /\ Once(q, {"AUTH_REQ"}) => Once(r, {"AUTH_REQ"})
    /\ Once(q, {"AUTH_REP"}) => Once(r, {"AUTH_REP"})
    /\ Before(q, {"AUTH_REP"}, Conn \cup {"KEXINIT"}) => Before(r, {"AUTH_REP"}, Conn \cup {"KEXINIT"})

LEMMA AddsAuth ==
    ASSUME NEW q, NEW r, NEW z, Adds(q, r, z), z.id \notin Auth
    PROVE  AuthSame(q, r)
<1>1. z.id \notin {"AUTH_REQ"} /\ z.id \notin {"AUTH_REP"}
  BY DEF Auth
<1>2. /\ Has(r, {"AUTH_REQ"}) <=> Has(q, {"AUTH_REQ"})
      /\ Has(r, {"AUTH_REP"}) <=> Has(q, {"AUTH_REP"})
  BY <1>1, AddsHas
<1>3. /\ Once(q, {"AUTH_REQ"}) => Once(r, {"AUTH_REQ"})
      /\ Once(q, {"AUTH_REP"}) => Once(r, {"AUTH_REP"})
  BY <1>1, AddsOnce
<1>4. Before(q, {"AUTH_REP"}, Conn \cup {"KEXINIT"}) => Before(r, {"AUTH_REP"}, Conn \cup {"KEXINIT"})
  BY <1>1, AddsBefore
<1> QED BY <1>2, <1>3, <1>4 DEF AuthSame

LEMMA DropsAuth ==
    ASSUME NEW q, NEW r, Drops(q, r), q[1].id \notin Auth
    PROVE  AuthSame(q, r)
<1>1. q[1].id \notin {"AUTH_REQ"} /\ q[1].id \notin {"AUTH_REP"}
  BY DEF Auth
<1>2. /\ Has(r, {"AUTH_REQ"}) <=> Has(q, {"AUTH_REQ"})
      /\ Has(r, {"AUTH_REP"}) <=> Has(q, {"AUTH_REP"})
  BY <1>1, DropsHas
<1>3. /\ Once(q, {"AUTH_REQ"}) => Once(r, {"AUTH_REQ"})
      /\ Once(q, {"AUTH_REP"}) => Once(r, {"AUTH_REP"})
      /\ Before(q, {"AUTH_REP"}, Conn \cup {"KEXINIT"}) => Before(r, {"AUTH_REP"}, Conn \cup {"KEXINIT"})
  BY DropsKeep
<1> QED BY <1>2, <1>3 DEF AuthSame

LEMMA AuthSameRefl ==
    ASSUME NEW q
    PROVE  AuthSame(q, q)
BY DEF AuthSame

LEMMA AuthSameTrans ==
    ASSUME NEW q, NEW r, NEW t, AuthSame(q, r), AuthSame(r, t)
    PROVE  AuthSame(q, t)
BY DEF AuthSame

\* A step that is none of the login.
Aside(s, t) ==
    /\ AuthSame(s.out, t.out)
    /\ t.round = s.round /\ t.peerRound = s.peerRound
    /\ \/ t.state = s.state
       \/ s.state \notin {"KEYED", "DONE"} /\ t.state # "DONE"

LEMMA LoginAside ==
    ASSUME NEW c, NEW d, NEW v, NEW w, Login(c, v), Aside(c, d), Aside(v, w)
    PROVE  Login(d, w)
<1>1. /\ d.round = c.round /\ d.peerRound = c.peerRound
      /\ w.round = v.round /\ w.peerRound = v.peerRound
  BY DEF Aside
<1>2. /\ d.state = "DONE" <=> c.state = "DONE"
      /\ w.state = "DONE" <=> v.state = "DONE"
      /\ c.state \in {"KEYED", "DONE"} => d.state \in {"KEYED", "DONE"}
      /\ v.state \in {"KEYED", "DONE"} => w.state \in {"KEYED", "DONE"}
  BY DEF Aside
<1>3. Rounds(d, w)
  BY <1>1, <1>2 DEF Login, Rounds
<1> QED BY <1>1, <1>3 DEF Login, Aside, AuthSame

LEMMA BehindAside ==
    ASSUME NEW r, NEW q, Behind(r, q), r.out[1].id \notin Auth
    PROVE  Aside(r, q)
<1>1. AuthSame(r.out, q.out)
  BY TakenDrops, DropsAuth DEF Behind
<1> QED BY <1>1 DEF Aside, Behind, Taken

LEMMA AsideSame ==
    ASSUME NEW s
    PROVE  Aside(s, s)
BY AuthSameRefl DEF Aside

----------------------------------------------------------------------------
(* Steps that leave the exchange where it is.                              *)

\* The two ends as the one that moves, s, and its peer, r.
LoginOf(e, s, r) == IF e = "client" THEN Login(s, r) ELSE Login(r, s)
StageOf(e, s, r) == IF e = "client" THEN Stage(s, r) ELSE Stage(r, s)
HashOf(e, s, r) == IF e = "client" THEN SameHash(s, r) ELSE SameHash(r, s)

Talks(e, s, r) == IF e = "client" THEN Converse(s, r) ELSE Converse(r, s)

LEMMA TalksParts ==
    ASSUME NEW e \in Endpoints, NEW s, NEW r
    PROVE  Talks(e, s, r) <=>
               /\ Side(e, s) /\ Side(Peer(e), r) /\ s.kexId = r.kexId
               /\ StageOf(e, s, r) /\ HashOf(e, s, r) /\ LoginOf(e, s, r)
               /\ Tie(s, r) /\ Tie(r, s)
<1>1. CASE e = "client"
  BY <1>1 DEF Talks, Converse, Exchange, StageOf, HashOf, LoginOf, Peer
<1>2. CASE e = "server"
  BY <1>2 DEF Talks, Converse, Exchange, StageOf, HashOf, LoginOf, Peer
<1> QED BY <1>1, <1>2 DEF Endpoints

LEMMA StageOfSteady ==
    ASSUME NEW e, NEW s, NEW t, NEW r, NEW q, Steady(s, t), Steady(r, q)
    PROVE  /\ StageOf(e, s, r) => StageOf(e, t, q)
           /\ HashOf(e, s, r) => HashOf(e, t, q)
BY StageSteady, SameHashSteady DEF StageOf, HashOf

LEMMA LoginOfAside ==
    ASSUME NEW e, NEW s, NEW t, NEW r, NEW q, LoginOf(e, s, r), Aside(s, t), Aside(r, q)
    PROVE  LoginOf(e, t, q)
BY LoginAside DEF LoginOf

\* An end that is done with the initial exchange when its peer is not has
\* its NEWKEYS under way.
LEMMA DoneSpeaks ==
    ASSUME NEW e \in Endpoints, NEW s, NEW r, Talks(e, s, r), s.initialKexDone, ~r.initialKexDone
    PROVE  Has(s.out, {"NEWKEYS"})
<1>1. \A q : OneKex(q, "NEWKEYS") => Has(q, {"NEWKEYS"})
  BY DEF OneKex, Has
<1>2. \A q, b : TwoKex(q, "NEWKEYS", b) => Has(q, {"NEWKEYS"})
  BY DEF TwoKex, Has
<1>3. CASE e = "client"
  <2>1. Stage(s, r)
    BY <1>3 DEF Talks, Converse, Exchange
  <2>2. ClientDone(s, r)
    BY <2>1 DEF Stage
  <2> QED BY <2>2, <1>1, <1>2 DEF ClientDone
<1>4. CASE e = "server"
  <2>1. Stage(r, s)
    BY <1>4 DEF Talks, Converse, Exchange
  <2>2. ServerDone(r, s)
    BY <2>1 DEF Stage
  <2> QED BY <2>2, <1>1, <1>2 DEF ServerDone
<1> QED BY <1>3, <1>4 DEF Endpoints

LEMMA QuietStep ==
    ASSUME NEW e \in Endpoints, NEW s, NEW t, NEW r, Talks(e, s, r), Level(s, t), t.out = s.out,
           Listens(s, t), t.round = s.round, t.peerRound = s.peerRound
    PROVE  Talks(e, t, r)
<1>1. /\ Side(e, s) /\ Side(Peer(e), r) /\ s.kexId = r.kexId
      /\ StageOf(e, s, r) /\ HashOf(e, s, r) /\ LoginOf(e, s, r)
      /\ Tie(s, r) /\ Tie(r, s)
  BY TalksParts
<1>2. Side(e, t) /\ Steady(s, t)
  BY <1>1, SideLevel
<1>3. StageOf(e, t, r) /\ HashOf(e, t, r)
  BY <1>1, <1>2, SteadySame, StageOfSteady
<1>4. Aside(s, t)
  BY AuthSameRefl DEF Aside, Level
<1>5. LoginOf(e, t, r)
  BY <1>1, <1>4, AsideSame, LoginOfAside
<1>6. Tie(t, r)
  BY <1>1, TieListens
<1>7. Tie(r, t)
  BY <1>1 DEF Tie, Opener, Opened, Due, Level
<1>8. t.kexId = r.kexId
  BY <1>1 DEF Level
<1> QED BY <1>1, <1>2, <1>3, <1>5, <1>6, <1>7, <1>8, TalksParts

LEMMA PostStep ==
    ASSUME NEW e \in Endpoints, NEW s, NEW t, NEW r, NEW z, Talks(e, s, r), Level(s, t),
           Adds(s.out, t.out, z), z.id \notin Trans, z.id \in Ids(e), z.id \notin Auth,
           s.state # "VERSION_DONE", z.id \in Conn => s.state = "DONE",
           z.id \in Due(r, s) => s.initialKexDone,
           Listens(s, t), t.round = s.round, t.peerRound = s.peerRound
    PROVE  Talks(e, t, r)
<1>1. /\ Side(e, s) /\ Side(Peer(e), r) /\ s.kexId = r.kexId
      /\ StageOf(e, s, r) /\ HashOf(e, s, r) /\ LoginOf(e, s, r)
      /\ Tie(s, r) /\ Tie(r, s)
  BY TalksParts
<1>2. Side(e, t) /\ Steady(s, t)
  BY <1>1, SideAdds
<1>3. StageOf(e, t, r) /\ HashOf(e, t, r)
  BY <1>1, <1>2, SteadySame, StageOfSteady
<1>4. Aside(s, t)
  BY AddsAuth DEF Aside, Level
<1>5. LoginOf(e, t, r)
  BY <1>1, <1>4, AsideSame, LoginOfAside
<1>6. Tie(t, r)
  BY <1>1, TieListens
<1>7. ~r.initialKexDone /\ z.id \in Due(r, s) => Has(s.out, {"NEWKEYS"})
  BY DoneSpeaks
<1>8. IsSession(s) /\ t.sendStrictKex = s.sendStrictKex
  BY <1>1 DEF Side, Sound, Calm, Level
<1>9. Tie(r, t)
  BY <1>1, <1>7, <1>8, TieSpeaks
<1>10. t.kexId = r.kexId
  BY <1>1 DEF Level
<1> QED BY <1>1, <1>2, <1>3, <1>5, <1>6, <1>9, <1>10, TalksParts

LEMMA KinLevel ==
    ASSUME NEW e, NEW s, NEW t, Side(e, s), Kin(s, t), Phase(s, t)
    PROVE  Level(s, t) /\ Listens(s, t) /\ t.round = s.round /\ t.peerRound = s.peerRound
BY DEF Side, Sound, Kin, Same, Phase, Level, Listens

\* What a state says.
LEMMA StateSays ==
    ASSUME NEW e, NEW s, Side(e, s)
    PROVE  /\ s.state \in {"KEYED", "DONE"} => s.initialKexDone
           /\ s.initialKexDone \in BOOLEAN /\ IsSession(s)
           /\ s.isKeying = {} <=> ("SELF" \notin s.isKeying /\ "PEER" \notin s.isKeying)
           /\ (s.isKeying = {} /\ s.state # "VERSION_DONE") => s.initialKexDone
           /\ s.state \in {"KEXINIT_SENT", "KEXDH_INIT_SENT", "KEYED"} /\ s.initialKexDone
                => s.isKeying = {}
           /\ s.state = "VERSION_DONE" => ~s.initialKexDone /\ s.isKeying = {} /\ s.out = <<>>
<1>1. IsSession(s) /\ s.isKeying \subseteq {"SELF", "PEER"} /\ s.initialKexDone \in BOOLEAN
  BY DEF Side, Sound, Calm, IsSession
<1>2. s.isKeying = {} <=> ("SELF" \notin s.isKeying /\ "PEER" \notin s.isKeying)
  BY <1>1
<1> QED BY <1>1, <1>2 DEF Side, Era

LEMMA PostCalm ==
    ASSUME NEW e \in Endpoints, NEW s, NEW r, NEW id \in {"IGNORE"} \cup Conn, Talks(e, s, r),
           s.state # "VERSION_DONE", id \in Conn => s.state = "DONE",
           s.sendStrictKex => s.state \in {"KEYED", "DONE"}
    PROVE  Talks(e, SendPacket(s, Packet(id)), r)
<1> DEFINE p == Packet(id)
           t == SendPacket(s, p)
           z == Seal(s, p)
<1>1. Side(e, s) /\ Calm(s)
  BY TalksParts DEF Side, Sound
<1>2. p \in Packets /\ p.id = id
  BY PacketOK DEF MsgIds, TransGen
<1> HIDE DEF p
<1>3. Posts(s, t, z) /\ z.id = id
  BY <1>1, <1>2, SendPacketPosts
<1> HIDE DEF t, z
<1>4. Level(s, t) /\ Listens(s, t) /\ t.round = s.round /\ t.peerRound = s.peerRound
  BY <1>1, <1>3, KinLevel DEF Posts
<1>5. /\ z.id \notin Trans /\ z.id \in Ids(e) /\ z.id \notin Auth
  BY <1>3 DEF Trans, TransKex, Conn, Ids, ClientIds, ServerIds, Auth
<1>6. z.id \in Due(r, s) => s.sendStrictKex
  BY <1>5, Zenon DEF Due, Auth
<1>7. z.id \in Due(r, s) => s.initialKexDone
  BY <1>1, <1>6, StateSays
<1>8. Adds(s.out, t.out, z)
  BY <1>3 DEF Posts
<1>9. Talks(e, t, r)
  BY <1>3, <1>4, <1>5, <1>7, <1>8, PostStep
<1> QED BY <1>9 DEF t, p

\* wolfSSH_ChannelIdRead()
LEMMA ReadCalm ==
    ASSUME NEW e \in Endpoints, NEW s, NEW r, Talks(e, s, r), s.unread > 0
    PROVE  Talks(e, ChannelCreditWindow([s EXCEPT !.unread = 0], s.unread), r)
<1> DEFINE u == [s EXCEPT !.unread = 0]
           t == ChannelCreditWindow(u, s.unread)
           total == u.pendingWindowAdjust + s.unread
<1>1. Side(e, s) /\ Calm(s) /\ IsSession(s) /\ s.state = "DONE"
  BY TalksParts DEF Side, Sound, Calm
<1>2. /\ DOMAIN u = Fields
      /\ u.sessionId = s.sessionId /\ u.handshake = s.handshake
      /\ u.out = s.out /\ u.isKeying = s.isKeying /\ u.seq = s.seq /\ u.keys = s.keys
      /\ u.mark = s.mark /\ u.kexId = s.kexId /\ u.sendStrictKex = s.sendStrictKex
      /\ u.disconnected = s.disconnected /\ u.error = s.error /\ u.state = s.state
      /\ u.highwaterFlag = s.highwaterFlag /\ u.msgHighwaterFlag = s.msgHighwaterFlag
      /\ u.match = s.match /\ u.round = s.round /\ u.peerRound = s.peerRound
      /\ u.initialKexDone = s.initialKexDone /\ u.unread = 0
      /\ u.pendingWindowAdjust = s.pendingWindowAdjust /\ u.peerSeq = s.peerSeq
      /\ u.peerKeys = s.peerKeys /\ u.kexCount = s.kexCount
      /\ u.useStrictKex = s.useStrictKex
  BY <1>1 DEF IsSession, Fields
<1> HIDE DEF u
<1>3. Calm(u)
  BY <1>1, <1>2 DEF Calm, IsSession, Unmarked
<1>4. /\ ~u.disconnected /\ u.pendingWindowAdjust \in Nat /\ s.unread \in Nat
      /\ s.initialKexDone
  BY <1>1, <1>2, StateSays DEF Side, Sound
<1>5. Credits(u, t, total)
  BY <1>3, <1>4, CreditCalm
<1> HIDE DEF t, total
<1>6. Level(s, t)
  BY <1>1, <1>2, <1>5 DEF Credits, Same, Phase, Level, Side, Sound
<1>7. Listens(s, t) /\ t.round = s.round /\ t.peerRound = s.peerRound
  BY <1>2, <1>5 DEF Credits, Same, Phase, Listens
<1>8. CASE t.out = u.out
  BY <1>2, <1>6, <1>7, <1>8, QuietStep DEF t, u
<1>9. CASE t.out # u.out
  <2>1. PICK z \in Packets : Adds(u.out, t.out, z) /\ z.id = "WINDOW_ADJUST"
    BY <1>5, <1>9 DEF Credits
  <2>2. z.id \notin Trans /\ z.id \in Ids(e) /\ z.id \notin Auth
    BY <2>1 DEF Trans, TransKex, Conn, Ids, ClientIds, ServerIds, Auth
  <2>3. Adds(s.out, t.out, z) /\ s.state # "VERSION_DONE"
    BY <1>1, <1>2, <2>1
  <2>4. Talks(e, t, r)
    BY <1>1, <1>4, <1>6, <1>7, <2>2, <2>3, PostStep
  <2> QED BY <2>4 DEF t, u
<1> QED BY <1>8, <1>9

----------------------------------------------------------------------------
(* The steps of wolfSSH_connect() and wolfSSH_accept().                    *)

\* Only the state and the round change.
Relabels(s, t) ==
    /\ Calm(t) /\ Phase(s, t)
    /\ t.disconnected = s.disconnected /\ t.error = s.error /\ t.match = s.match
    /\ t.kexId = s.kexId /\ t.sendStrictKex = s.sendStrictKex
    /\ t.initialKexDone = s.initialKexDone /\ t.peerSeq = s.peerSeq
    /\ t.unread = s.unread /\ t.pendingWindowAdjust = s.pendingWindowAdjust
    /\ t.peerRound = s.peerRound

LEMMA Relabelled ==
    ASSUME NEW s, NEW t, Calm(s), DOMAIN t = Fields,
           \A f \in Fields \ {"round", "state"} : t[f] = s[f]
    PROVE  Relabels(s, t) /\ t.out = s.out
<1>1. IsSession(s)
  BY DEF Calm
<1>2. /\ DOMAIN t = Fields
      /\ t.sessionId = s.sessionId /\ t.handshake = s.handshake
      /\ t.out = s.out /\ t.isKeying = s.isKeying /\ t.seq = s.seq /\ t.keys = s.keys
      /\ t.mark = s.mark /\ t.kexId = s.kexId /\ t.sendStrictKex = s.sendStrictKex
      /\ t.disconnected = s.disconnected /\ t.error = s.error
      /\ t.highwaterFlag = s.highwaterFlag /\ t.msgHighwaterFlag = s.msgHighwaterFlag
      /\ t.match = s.match /\ t.peerRound = s.peerRound
      /\ t.initialKexDone = s.initialKexDone /\ t.unread = s.unread
      /\ t.pendingWindowAdjust = s.pendingWindowAdjust /\ t.peerSeq = s.peerSeq
      /\ t.peerKeys = s.peerKeys /\ t.kexCount = s.kexCount
      /\ t.useStrictKex = s.useStrictKex
  BY <1>1 DEF IsSession, Fields
<1>3. IsSession(t)
  BY <1>1, <1>2 DEF IsSession
<1> QED BY <1>2, <1>3 DEF Relabels, Phase, Calm, Unmarked

LEMMA StateSet ==
    ASSUME NEW s, NEW x, Calm(s)
    PROVE  LET t == [s EXCEPT !.state = x] IN
           Relabels(s, t) /\ t.out = s.out /\ t.round = s.round /\ t.state = x
<1> DEFINE t == [s EXCEPT !.state = x]
<1>1. IsSession(s)
  BY DEF Calm
<1>2. /\ DOMAIN t = Fields
      /\ t.sessionId = s.sessionId /\ t.handshake = s.handshake
      /\ t.out = s.out /\ t.isKeying = s.isKeying /\ t.seq = s.seq /\ t.keys = s.keys
      /\ t.mark = s.mark /\ t.kexId = s.kexId /\ t.sendStrictKex = s.sendStrictKex
      /\ t.disconnected = s.disconnected /\ t.error = s.error /\ t.state = x
      /\ t.highwaterFlag = s.highwaterFlag /\ t.msgHighwaterFlag = s.msgHighwaterFlag
      /\ t.match = s.match /\ t.round = s.round /\ t.peerRound = s.peerRound
      /\ t.initialKexDone = s.initialKexDone /\ t.unread = s.unread
      /\ t.pendingWindowAdjust = s.pendingWindowAdjust /\ t.peerSeq = s.peerSeq
      /\ t.peerKeys = s.peerKeys /\ t.kexCount = s.kexCount
      /\ t.useStrictKex = s.useStrictKex
  BY <1>1 DEF IsSession, Fields
<1> HIDE DEF t
<1>3. IsSession(t)
  BY <1>1, <1>2 DEF IsSession
<1> QED BY <1>2, <1>3 DEF Relabels, Phase, Calm, Unmarked, t

LEMMA SideRelabel ==
    ASSUME NEW e, NEW s, NEW t, Side(e, s), Relabels(s, t), t.out = s.out,
           s.isKeying = {}, s.state \notin {"VERSION_DONE", "DONE"}, t.state \in {"KEYED", "DONE"}
    PROVE  Side(e, t)
<1>1. s.initialKexDone
  BY StateSays
<1>2. Sound(t)
  BY DEF Side, Sound, Relabels, States
<1>3. Era(t)
  BY <1>1 DEF Era, Relabels, Phase
<1>4. ClientEra(t) /\ ServerEra(t)
  BY DEF ClientEra, ServerEra, Relabels, Phase, Agreed, Offered
<1> QED BY <1>2, <1>3, <1>4 DEF Side

LEMMA TieRelabel ==
    ASSUME NEW s, NEW t, NEW r, Tie(s, r), Tie(r, s), Relabels(s, t), t.out = s.out,
           s.state # "VERSION_DONE"
    PROVE  Tie(t, r) /\ Tie(r, t)
BY DEF Tie, Opener, Opened, Due, Relabels, Phase

\* A step of the login without a packet: BecomeKeyed, and the client's last.
LEMMA RelabelStep ==
    ASSUME NEW e \in Endpoints, NEW s, NEW t, NEW r, Talks(e, s, r), Relabels(s, t),
           t.out = s.out, t.round = s.round,
           s.isKeying = {}, s.state \notin {"VERSION_DONE", "DONE"}, t.state \in {"KEYED", "DONE"},
           LoginOf(e, t, r)
    PROVE  Talks(e, t, r)
<1>1. /\ Side(e, s) /\ Side(Peer(e), r) /\ s.kexId = r.kexId
      /\ StageOf(e, s, r) /\ HashOf(e, s, r) /\ LoginOf(e, s, r)
      /\ Tie(s, r) /\ Tie(r, s)
  BY TalksParts
<1>2. Side(e, t)
  BY <1>1, SideRelabel
<1>3. Steady(s, t)
  BY KexSameRefl DEF Steady, Relabels
<1>4. StageOf(e, t, r) /\ HashOf(e, t, r)
  BY <1>1, <1>3, SteadySame, StageOfSteady
<1>5. Tie(t, r) /\ Tie(r, t) /\ t.kexId = r.kexId
  BY <1>1, TieRelabel DEF Relabels
<1> QED BY <1>1, <1>2, <1>4, <1>5, TalksParts

LEMMA BecomeKeyedCalm ==
    ASSUME NEW e \in Endpoints, NEW s, NEW r, Talks(e, s, r), KexLoopDone(e, s)
    PROVE  Talks(e, [s EXCEPT !.state = "KEYED"], r)
<1> DEFINE t == [s EXCEPT !.state = "KEYED"]
<1>1. Side(e, s) /\ Calm(s) /\ LoginOf(e, s, r)
  BY TalksParts DEF Side, Sound
<1>2. Relabels(s, t) /\ t.out = s.out /\ t.round = s.round /\ t.state = "KEYED"
  BY <1>1, StateSet
<1> HIDE DEF t
<1>3. s.isKeying = {} /\ s.state \in {"KEXINIT_SENT", "KEXDH_INIT_SENT"}
  BY DEF KexLoopDone
<1>4. Aside(s, t)
  BY <1>2, <1>3, AuthSameRefl DEF Aside, Relabels
<1>5. LoginOf(e, t, r)
  BY <1>1, <1>4, AsideSame, LoginOfAside
<1>6. Talks(e, t, r)
  BY <1>2, <1>3, <1>5, RelabelStep
<1> QED BY <1>6 DEF t

LEMMA ConnectedCalm ==
    ASSUME NEW s, NEW r, Talks("client", s, r), AuthReady("client", s), s.round = AuthRounds
    PROVE  Talks("client", [s EXCEPT !.state = "DONE"], r)
<1> DEFINE t == [s EXCEPT !.state = "DONE"]
<1>1. Side("client", s) /\ Calm(s) /\ LoginOf("client", s, r)
  BY TalksParts DEF Side, Sound, Endpoints
<1>2. Relabels(s, t) /\ t.out = s.out /\ t.round = s.round /\ t.state = "DONE"
  BY <1>1, StateSet
<1> HIDE DEF t
<1>3. s.state = "KEYED" /\ s.round = s.peerRound
  BY DEF AuthReady
<1>4. s.isKeying = {}
  BY <1>1, <1>3, StateSays
<1>5. Login(s, r)
  BY <1>1 DEF LoginOf
<1>6. t.peerRound = AuthRounds /\ t.peerRound = s.peerRound
  BY <1>2, <1>3 DEF Relabels
<1>7. Rounds(t, r)
  BY <1>2, <1>3, <1>5, <1>6 DEF Login, Rounds
<1>8. Login(t, r)
  BY <1>2, <1>5, <1>6, <1>7 DEF Login
<1>9. Talks("client", t, r)
  BY <1>2, <1>3, <1>4, <1>8, RelabelStep DEF LoginOf, Endpoints
<1> QED BY <1>9 DEF t

\* A request or a reply of the login goes out.
LEMMA AuthSends ==
    ASSUME NEW e \in Endpoints, NEW s, NEW t, NEW w, NEW r, NEW z, Talks(e, s, r),
           Posts(s, w, z), z.id \in Auth, z.id \in Ids(e), s.state = "KEYED",
           Relabels(w, t), t.out = w.out, t.state \in {"KEYED", "DONE"}, LoginOf(e, t, r)
    PROVE  Talks(e, t, r)
<1>1. /\ Side(e, s) /\ Side(Peer(e), r) /\ s.kexId = r.kexId
      /\ StageOf(e, s, r) /\ HashOf(e, s, r) /\ LoginOf(e, s, r)
      /\ Tie(s, r) /\ Tie(r, s)
  BY TalksParts
<1>2. Level(s, w) /\ Listens(s, w)
  BY <1>1, KinLevel DEF Posts
<1>3. Adds(s.out, w.out, z) /\ w.state = "KEYED" /\ z.id \notin Trans /\ z.id \notin Conn
  BY DEF Posts, Kin, Same, Auth, Trans, TransKex, Conn
<1>4. Side(e, w) /\ Steady(s, w)
  BY <1>1, <1>2, <1>3, SideAdds
<1>5. w.isKeying = {}
  BY <1>1, StateSays DEF Posts, Phase
<1>6. Side(e, t)
  BY <1>3, <1>4, <1>5, SideRelabel
<1>7. Steady(s, t)
  BY <1>4 DEF Steady, Relabels, Phase
<1>8. StageOf(e, t, r) /\ HashOf(e, t, r)
  BY <1>1, <1>7, SteadySame, StageOfSteady
<1>9. Listens(s, t) /\ t.sendStrictKex = s.sendStrictKex /\ t.kexId = s.kexId
  BY <1>2 DEF Listens, Relabels, Phase, Level
<1>10. Tie(t, r)
  BY <1>1, <1>9, TieListens
<1>11. s.initialKexDone /\ IsSession(s)
  BY <1>1, StateSays
<1>12. ~r.initialKexDone => Has(s.out, {"NEWKEYS"})
  BY <1>11, DoneSpeaks
<1>13. Adds(s.out, t.out, z)
  BY <1>3
<1>14. Tie(r, t)
  BY <1>1, <1>9, <1>11, <1>12, <1>13, TieSpeaks
<1> QED BY <1>1, <1>6, <1>8, <1>9, <1>10, <1>14, TalksParts

LEMMA RoundsAre ==
    ASSUME NEW c, NEW v, Rounds(c, v)
    PROVE  /\ c.round \in Nat /\ c.peerRound \in Nat /\ v.round \in Nat /\ v.peerRound \in Nat
           /\ AuthRounds \in Nat /\ AuthRounds > 0
           /\ c.round = c.peerRound => v.peerRound = c.round /\ v.round = c.round
           /\ v.round < v.peerRound => v.round = c.peerRound /\ v.round < AuthRounds
           /\ v.peerRound # c.round => c.round = v.peerRound + 1 /\ v.peerRound < AuthRounds
                                       /\ c.peerRound = v.round /\ v.round = v.peerRound
           /\ c.peerRound # v.round => v.round = c.peerRound + 1 /\ c.peerRound < AuthRounds
                                       /\ c.round = v.round /\ v.peerRound = c.round
BY ConstantsAssumption DEF Rounds

LEMMA LoginRequest ==
    ASSUME NEW s, NEW t, NEW r, NEW z, Login(s, r), Adds(s.out, t.out, z), z.id = "AUTH_REQ",
           s.state = "KEYED", s.round = s.peerRound, s.round # AuthRounds,
           t.round = s.round + 1, t.peerRound = s.peerRound, t.state = "KEYED"
    PROVE  Login(t, r)
<1>1. Rounds(s, r) /\ ~Has(s.out, {"AUTH_REQ"})
  BY RoundsAre DEF Login
<1>2. Rounds(t, r)
  BY <1>1, RoundsAre DEF Rounds
<1>3. Has(t.out, {"AUTH_REQ"}) /\ t.round # r.peerRound
  BY <1>1, AddsHas, RoundsAre
<1>4. Once(t.out, {"AUTH_REQ"})
  BY <1>1, AddsOnce DEF Login
<1> QED BY <1>2, <1>3, <1>4 DEF Login

LEMMA LoginReply ==
    ASSUME NEW s, NEW t, NEW r, NEW z, Login(r, s), Adds(s.out, t.out, z), z.id = "AUTH_REP",
           s.state = "KEYED", s.round < s.peerRound, ~Has(s.out, Conn \cup {"KEXINIT"}),
           t.round = s.round + 1, t.peerRound = s.peerRound,
           t.state = IF s.round + 1 = AuthRounds THEN "DONE" ELSE "KEYED"
    PROVE  Login(r, t)
<1>1. Rounds(r, s) /\ ~Has(s.out, {"AUTH_REP"})
  BY RoundsAre DEF Login
<1>2. t.state = "DONE" <=> t.round = AuthRounds
  OBVIOUS
<1>3. Rounds(r, t)
  BY <1>1, <1>2, RoundsAre DEF Rounds
<1>4. Has(t.out, {"AUTH_REP"}) /\ t.round # r.peerRound
  BY <1>1, AddsHas, RoundsAre
<1>5. Once(t.out, {"AUTH_REP"})
  BY <1>1, AddsOnce DEF Login
<1>6. Before(t.out, {"AUTH_REP"}, Conn \cup {"KEXINIT"})
  <2>1. z.id \notin Conn \cup {"KEXINIT"}
    BY DEF Conn
  <2> QED BY <2>1, AddsBefore DEF Login
<1> QED BY <1>3, <1>4, <1>5, <1>6 DEF Login

----------------------------------------------------------------------------
(* An exchange begins.                                                     *)

LEMMA AuthStepCalm ==
    ASSUME NEW e \in Endpoints, NEW s, NEW r, Talks(e, s, r), AuthReady(e, s),
           ~(e = "client" /\ s.round = AuthRounds),
           ~Has(s.out, Conn \cup {"KEXINIT"}) \/ e = "client"
    PROVE  LET p == Packet(IF e = "client" THEN "AUTH_REQ" ELSE "AUTH_REP")
           IN  Talks(e, [SendPacket(s, p) EXCEPT
                            !.round = @ + 1,
                            !.state = IF e = "server" /\ s.round + 1 = AuthRounds
                                      THEN "DONE" ELSE @], r)
<1> DEFINE id == IF e = "client" THEN "AUTH_REQ" ELSE "AUTH_REP"
           p == Packet(id)
           w == SendPacket(s, p)
           z == Seal(s, p)
           x == IF e = "server" /\ s.round + 1 = AuthRounds THEN "DONE" ELSE w.state
           n == w.round + 1
           t == [w EXCEPT !.round = n, !.state = x]
<1>1. Side(e, s) /\ Calm(s) /\ LoginOf(e, s, r)
  BY TalksParts DEF Side, Sound
<1>2. p \in Packets /\ p.id = id
  BY PacketOK DEF MsgIds
<1> HIDE DEF p
<1>3. Posts(s, w, z) /\ z.id = id
  BY <1>1, <1>2, SendPacketPosts
<1> HIDE DEF w, z
<1>4. /\ Calm(w) /\ w.round = s.round /\ w.peerRound = s.peerRound /\ w.state = s.state
      /\ Adds(s.out, w.out, z) /\ s.state = "KEYED"
  BY <1>3 DEF Posts, Kin, Same, AuthReady
<1>10. /\ DOMAIN t = Fields /\ \A f \in Fields \ {"round", "state"} : t[f] = w[f]
      /\ t.round = n /\ t.state = x
  <2> HIDE DEF n, x
  <2>1. DOMAIN w = Fields
    BY <1>4 DEF Calm, IsSession
  <2> QED BY <2>1 DEF Fields
<1> HIDE DEF t
<1>5. Relabels(w, t) /\ t.out = w.out /\ t.round = n /\ t.state = x
  BY <1>4, <1>10, Relabelled
<1>6. t.peerRound = s.peerRound /\ t.round = s.round + 1
  BY <1>4, <1>5 DEF Relabels
<1>7. z.id \in Auth /\ z.id \in Ids(e) /\ t.state \in {"KEYED", "DONE"}
  BY <1>3, <1>4, <1>5 DEF Auth, Ids, ClientIds, ServerIds, Endpoints
<1>8. LoginOf(e, t, r)
  <2>1. CASE e = "client"
    <3>1. /\ s.round = s.peerRound /\ t.state = "KEYED" /\ z.id = "AUTH_REQ"
          /\ s.round # AuthRounds /\ Login(s, r)
      BY <1>1, <1>3, <1>4, <1>5, <2>1 DEF AuthReady, LoginOf
    <3>2. Login(t, r)
      BY <1>4, <1>5, <1>6, <3>1, LoginRequest
    <3> QED BY <2>1, <3>2 DEF LoginOf
  <2>2. CASE e = "server"
    <3>1. /\ s.round < s.peerRound /\ z.id = "AUTH_REP" /\ Login(r, s)
          /\ t.state = IF s.round + 1 = AuthRounds THEN "DONE" ELSE "KEYED"
      BY <1>1, <1>3, <1>4, <1>5, <2>2 DEF AuthReady, LoginOf
    <3>2. Login(r, t)
      BY <1>4, <1>5, <1>6, <2>2, <3>1, LoginReply
    <3> QED BY <2>2, <3>2 DEF LoginOf
  <2> QED BY <2>1, <2>2 DEF Endpoints
<1>9. Talks(e, t, r)
  BY <1>3, <1>4, <1>5, <1>7, <1>8, AuthSends
<1> QED BY <1>9 DEF t, w, p

\* An end that is not keying: where its peer can be.
Resting(s, r) ==
    /\ Idle(s)
    /\ \/ s.initialKexDone = r.initialKexDone /\ Idle(r) /\ NoKex(s.out) /\ NoKex(r.out)
       \/ s.initialKexDone = r.initialKexDone /\ Offered(r) /\ NoKex(s.out)
             /\ OneKex(r.out, "KEXINIT")
       \/ s.initialKexDone /\ Switched(r) /\ OneKex(s.out, "NEWKEYS") /\ NoKex(r.out)

LEMMA IdleStage ==
    ASSUME NEW e, NEW s, NEW r, StageOf(e, s, r),
           "SELF" \notin s.isKeying, "PEER" \notin s.isKeying
    PROVE  Resting(s, r)
<1>1. ~Offered(s) /\ ~Switched(s) /\ \A x : ~Agreed(s, x)
  BY DEF Offered, Switched, Agreed
<1>2. CASE e = "client"
  <2>1. Stage(s, r)
    BY <1>2 DEF StageOf
  <2> QED BY <1>1, <2>1 DEF Stage, Proposing, Settling, ServerDone, ClientDone, Resting
<1>3. CASE e # "client"
  <2>1. Stage(r, s)
    BY <1>3 DEF StageOf
  <2> QED BY <1>1, <2>1 DEF Stage, Proposing, Settling, ServerDone, ClientDone, Resting
<1> QED BY <1>2, <1>3

LEMMA BeginStage ==
    ASSUME NEW e, NEW s, NEW t, NEW r, NEW z, Resting(s, r), Offered(t),
           t.initialKexDone = s.initialKexDone, Adds(s.out, t.out, z), z.id = "KEXINIT"
    PROVE  StageOf(e, t, r)
<1>1. /\ NoKex(s.out) => OneKex(t.out, "KEXINIT")
      /\ OneKex(s.out, "NEWKEYS") => TwoKex(t.out, "NEWKEYS", "KEXINIT")
  BY AddsKex DEF Trans
<1>2. CASE e = "client"
  <2>1. Stage(t, r)
    BY <1>1 DEF Stage, Proposing, ClientDone, Resting
  <2> QED BY <1>2, <2>1 DEF StageOf
<1>3. CASE e # "client"
  <2>1. Stage(r, t)
    BY <1>1 DEF Stage, Proposing, ServerDone, Resting
  <2> QED BY <1>3, <2>1 DEF StageOf
<1> QED BY <1>2, <1>3

LEMMA BeginHash ==
    ASSUME NEW e, NEW s, NEW t, NEW r, NEW z, Resting(s, r), Offered(t), HashOf(e, s, r),
           Adds(s.out, t.out, z), z.id = "KEXINIT", z.kexInit = t.handshake.kexInit
    PROVE  HashOf(e, t, r)
<1>1. \A j \in 1..Len(s.out) : s.out[j].id \in Trans => s.out[j].id = "NEWKEYS"
  BY DEF Resting, NoKex, OneKex
<1>2. \A j \in 1..Len(r.out) : r.out[j].id \in Trans => r.out[j].id = "KEXINIT"
  BY DEF Resting, NoKex, OneKex
<1>3. \A j \in 1..Len(t.out) : t.out[j] = z \/ \E i \in 1..Len(s.out) : t.out[j] = s.out[i]
  BY DEF Adds
<1>4. \A p, k : IsReply(p, k) => p.id \in Trans /\ p.id # "NEWKEYS" /\ p.id # "KEXINIT"
  BY DEF IsReply, Trans, TransKex
<1>5. Announced(t)
  <2>1. SUFFICES ASSUME NEW j \in 1..Len(t.out), t.out[j].id = "KEXINIT"
                 PROVE  t.out[j].kexInit = t.handshake.kexInit
    BY DEF Announced
  <2> QED BY <1>1, <1>3, <2>1 DEF Trans
<1>6. Announced(r)
  BY DEF HashOf, SameHash
<1>7. \A j \in 1..Len(t.out) : ~IsReply(t.out[j], t.kexId)
  BY <1>1, <1>3, <1>4
<1>8. \A j \in 1..Len(r.out) : ~IsReply(r.out[j], r.kexId)
  BY <1>2, <1>4
<1>9. "PEER" \notin t.isKeying /\ ("PEER" \notin r.isKeying \/ "SELF" \notin r.isKeying)
  BY DEF Offered, Resting, Idle, Switched
<1> QED BY <1>5, <1>6, <1>7, <1>8, <1>9 DEF HashOf, SameHash

\* wolfSSH_connect(), wolfSSH_accept() and wolfSSH_TriggerKeyExchange().
LEMMA BeginStep ==
    ASSUME NEW e \in Endpoints, NEW s, NEW w, NEW t, NEW r, NEW z, Talks(e, s, r),
           s.isKeying = {}, s.state \in {"VERSION_DONE", "DONE"},
           KexInits(s, w, z), Relabels(w, t), t.out = w.out, t.round = w.round,
           t.state = IF s.state = "VERSION_DONE" THEN "KEXINIT_SENT" ELSE "DONE"
    PROVE  Talks(e, t, r)
<1>1. /\ Side(e, s) /\ Side(Peer(e), r) /\ s.kexId = r.kexId
      /\ StageOf(e, s, r) /\ HashOf(e, s, r) /\ LoginOf(e, s, r)
      /\ Tie(s, r) /\ Tie(r, s)
  BY TalksParts
<1>2. Resting(s, r)
  BY <1>1, IdleStage
<1>3. /\ Adds(s.out, t.out, z) /\ z.id = "KEXINIT" /\ z.kexInit = t.handshake.kexInit
      /\ t.isKeying = {"SELF"} /\ t.initialKexDone = s.initialKexDone
      /\ t.kexId = s.kexId /\ t.sendStrictKex = s.sendStrictKex
      /\ t.peerSeq = s.peerSeq /\ t.round = s.round /\ t.peerRound = s.peerRound
      /\ t.match = s.match /\ t.disconnected = s.disconnected /\ t.error = s.error
      /\ t.unread = s.unread /\ t.pendingWindowAdjust = s.pendingWindowAdjust
      /\ Calm(t)
  BY DEF KexInits, Kin, Same, Relabels, Phase
<1>4. Offered(t)
  BY <1>2, <1>3 DEF Resting, Idle, Offered, KexInits, Relabels, Phase
<1>5. StageOf(e, t, r) /\ HashOf(e, t, r)
  BY <1>1, <1>2, <1>3, <1>4, BeginStage, BeginHash
<1>6. Has(t.out, Conn) => s.state = "DONE"
  BY <1>1, <1>3, AddsHas DEF Conn, Side, Sound
<1>7. Sound(t)
  BY <1>1, <1>3, <1>6 DEF Side, Sound, States
<1>8. Era(t)
  BY <1>1, <1>3 DEF Side, Era
<1>9. ClientEra(t) /\ ServerEra(t)
  BY <1>1, <1>3, <1>4, <1>8 DEF ClientEra, ServerEra, Agreed, Era
<1>10. Only(s.out, Ids(e)) => Only(t.out, Ids(e))
  BY <1>3, AddsOnly DEF Ids, ClientIds, ServerIds
<1>11. Side(e, t)
  BY <1>1, <1>7, <1>8, <1>9, <1>10 DEF Side, Ids, Endpoints
<1>12. Aside(s, t)
  BY <1>3, AddsAuth DEF Aside, Auth
<1>13. LoginOf(e, t, r)
  BY <1>1, <1>12, AsideSame, LoginOfAside
<1>14. Tie(t, r)
  BY <1>1, <1>3, TieListens DEF Listens
<1>15. IsSession(s) /\ z.id \notin Due(r, s)
  BY <1>1, <1>3 DEF Side, Sound, Calm, Due, Trans
<1>16. Tie(r, t)
  <2>1. CASE s.state = "VERSION_DONE"
    BY <1>1, <1>3, <1>15, <2>1, StateSays, TieSpeaksFirst
  <2>2. CASE s.state # "VERSION_DONE"
    BY <1>1, <1>3, <1>15, <2>2, TieSpeaks
  <2> QED BY <2>1, <2>2
<1> QED BY <1>1, <1>3, <1>5, <1>11, <1>13, <1>14, <1>16, TalksParts

LEMMA StartKexCalm ==
    ASSUME NEW e \in Endpoints, NEW s, NEW r, Talks(e, s, r), s.state = "VERSION_DONE"
    PROVE  Talks(e, [SendKexInit(s) EXCEPT !.state = "KEXINIT_SENT"], r)
<1> DEFINE w == SendKexInit(s)
           t == [w EXCEPT !.state = "KEXINIT_SENT"]
<1>1. Side(e, s) /\ Calm(s) /\ s.isKeying = {}
  BY TalksParts, StateSays DEF Side, Sound
<1>2. PICK z : KexInits(s, w, z)
  BY <1>1, SendKexInitCalm
<1> HIDE DEF w
<1>3. Calm(w)
  BY <1>2 DEF KexInits, Kin, Same
<1>4. Relabels(w, t) /\ t.out = w.out /\ t.round = w.round /\ t.state = "KEXINIT_SENT"
  BY <1>3, StateSet
<1> HIDE DEF t
<1>5. Talks(e, t, r)
  BY <1>1, <1>2, <1>4, BeginStep
<1> QED BY <1>5 DEF t, w

LEMMA TriggerCalm ==
    ASSUME NEW e \in Endpoints, NEW s, NEW r, Talks(e, s, r), s.state = "DONE", s.isKeying = {}
    PROVE  Talks(e, SendKexInit(s), r)
<1> DEFINE w == SendKexInit(s)
<1>1. Calm(s)
  BY TalksParts DEF Side, Sound
<1>2. PICK z : KexInits(s, w, z)
  BY <1>1, SendKexInitCalm
<1> HIDE DEF w
<1>3. Relabels(w, w) /\ w.state = "DONE"
  BY <1>2 DEF KexInits, Kin, Same, Relabels, Phase
<1>4. Talks(e, w, r)
  BY <1>2, <1>3, BeginStep
<1> QED BY <1>4 DEF w

\* wolfSSH_accept() has nothing but NEWKEYS out while the login runs.
LEMMA KeyedSays ==
    ASSUME NEW e \in Endpoints, NEW s, NEW r, Talks(e, s, r), s.state = "KEYED"
    PROVE  ~Has(s.out, Conn \cup {"KEXINIT"})
<1>1. Side(e, s) /\ StageOf(e, s, r)
  BY TalksParts
<1>2. s.isKeying = {} /\ s.state # "DONE"
  BY <1>1, StateSays
<1>3. Resting(s, r)
  BY <1>1, <1>2, IdleStage
<1>4. ~Has(s.out, {"KEXINIT"})
  BY <1>3 DEF Resting, NoKex, OneKex, Has, Trans
<1>5. ~Has(s.out, Conn)
  BY <1>1, <1>2 DEF Side, Sound
<1> QED BY <1>4, <1>5 DEF Has

----------------------------------------------------------------------------
(* Steps of the exchange.                                                  *)

\* The session of endpoint e has put messages of the exchange on its stream,
\* and EXT_INFO after its NEWKEYS.
Spoken(e, q, r) ==
    /\ Len(q) \in Nat /\ Len(r) \in Nat /\ Len(q) <= Len(r)
    /\ \A j \in 1..Len(q) : r[j] = q[j]
    /\ \A j \in 1..Len(r) : j > Len(q) =>
          /\ r[j].id \in Ids(e)
          /\ \/ r[j].id \in Trans
             \/ r[j].id = "EXT_INFO" /\ \E i \in 1..j : r[i].id = "NEWKEYS"

LEMMA SpokenRefl ==
    ASSUME NEW e, NEW s, IsSession(s)
    PROVE  Spoken(e, s.out, s.out)
<1>1. Len(s.out) \in Nat
  BY DEF IsSession
<1> QED BY <1>1 DEF Spoken

LEMMA SpokenAdds ==
    ASSUME NEW e, NEW q, NEW r, NEW t, NEW z, Spoken(e, q, r), Adds(r, t, z), z.id \in Ids(e),
           z.id \in Trans \/ (z.id = "EXT_INFO" /\ Has(r, {"NEWKEYS"}))
    PROVE  Spoken(e, q, t)
<1>1. /\ Len(q) \in Nat /\ Len(r) \in Nat /\ Len(t) = Len(r) + 1 /\ Len(q) <= Len(r)
      /\ t[Len(t)] = z /\ \A j \in 1..Len(r) : t[j] = r[j]
  BY DEF Spoken, Adds
<1>2. \A j \in 1..Len(q) : t[j] = q[j]
  BY <1>1 DEF Spoken
<1>3. ASSUME NEW j \in 1..Len(t), j > Len(q)
      PROVE  /\ t[j].id \in Ids(e)
             /\ \/ t[j].id \in Trans
                \/ t[j].id = "EXT_INFO" /\ \E i \in 1..j : t[i].id = "NEWKEYS"
  <2>1. CASE j = Len(t)
    <3>1. CASE z.id \in Trans
      BY <1>1, <2>1, <3>1
    <3>2. CASE z.id = "EXT_INFO" /\ Has(r, {"NEWKEYS"})
      <4>1. PICK i \in 1..Len(r) : r[i].id = "NEWKEYS"
        BY <3>2 DEF Has
      <4>2. i \in 1..j /\ t[i].id = "NEWKEYS"
        BY <1>1, <2>1, <4>1
      <4> QED BY <1>1, <2>1, <3>2, <4>2
    <3> QED BY <3>1, <3>2
  <2>2. CASE j # Len(t)
    <3>1. j \in 1..Len(r) /\ t[j] = r[j]
      BY <1>1, <2>2
    <3>2. /\ r[j].id \in Ids(e)
          /\ \/ r[j].id \in Trans
             \/ r[j].id = "EXT_INFO" /\ \E i \in 1..j : r[i].id = "NEWKEYS"
      BY <1>3, <3>1 DEF Spoken
    <3>3. \A i \in 1..j : t[i] = r[i]
      BY <1>1, <3>1
    <3> QED BY <3>1, <3>2, <3>3
  <2> QED BY <2>1, <2>2
<1>4. Len(t) \in Nat /\ Len(q) <= Len(t)
  BY <1>1
<1> QED BY <1>1, <1>2, <1>3, <1>4 DEF Spoken

LEMMA SpokenSays ==
    ASSUME NEW e, NEW q, NEW r, Spoken(e, q, r)
    PROVE  /\ Has(r, Conn) => Has(q, Conn)
           /\ Only(q, Ids(e)) => Only(r, Ids(e))
           /\ AuthSame(q, r)
           /\ \A S : Guarded(q, S) /\ S \cap Trans = {} => Guarded(r, S)
<1>1. /\ Len(q) \in Nat /\ Len(r) \in Nat /\ Len(q) <= Len(r)
      /\ \A j \in 1..Len(q) : r[j] = q[j] /\ j \in 1..Len(r)
  BY DEF Spoken
<1>2. \A j \in 1..Len(r) : j \notin 1..Len(q) =>
         /\ r[j].id \in Ids(e)
         /\ r[j].id \notin Conn /\ r[j].id \notin Auth
         /\ r[j].id \notin Trans => \E i \in 1..j : r[i].id = "NEWKEYS"
  BY <1>1 DEF Spoken, Conn, Auth, Trans, TransKex
<1>3. Has(r, Conn) => Has(q, Conn)
  BY <1>1, <1>2 DEF Has
<1>4. Only(q, Ids(e)) => Only(r, Ids(e))
  BY <1>1, <1>2 DEF Only
<1>5. /\ Has(r, {"AUTH_REQ"}) <=> Has(q, {"AUTH_REQ"})
      /\ Has(r, {"AUTH_REP"}) <=> Has(q, {"AUTH_REP"})
  BY <1>1, <1>2 DEF Has, Auth
<1>6. /\ Once(q, {"AUTH_REQ"}) => Once(r, {"AUTH_REQ"})
      /\ Once(q, {"AUTH_REP"}) => Once(r, {"AUTH_REP"})
  BY <1>1, <1>2 DEF Once, Auth
<1>7. Before(q, {"AUTH_REP"}, Conn \cup {"KEXINIT"}) => Before(r, {"AUTH_REP"}, Conn \cup {"KEXINIT"})
  <2>1. SUFFICES ASSUME Before(q, {"AUTH_REP"}, Conn \cup {"KEXINIT"}),
                        NEW i \in 1..Len(r), NEW j \in 1..Len(r), r[i].id = "AUTH_REP",
                        r[j].id \in Conn \cup {"KEXINIT"}
                 PROVE  i < j
    BY DEF Before
  <2>2. i \in 1..Len(q) /\ q[i].id = "AUTH_REP"
    BY <1>1, <1>2, <2>1 DEF Auth
  <2>3. CASE j \in 1..Len(q)
    BY <1>1, <2>1, <2>2, <2>3 DEF Before
  <2>4. CASE j \notin 1..Len(q)
    BY <1>1, <2>2, <2>4
  <2> QED BY <2>3, <2>4
<1>8. ASSUME NEW S, Guarded(q, S), S \cap Trans = {}
      PROVE  Guarded(r, S)
  <2>1. SUFFICES ASSUME NEW j \in 1..Len(r), r[j].id \in S
                 PROVE  \E i \in 1..j : r[i].id = "NEWKEYS"
    BY DEF Guarded
  <2>2. CASE j \in 1..Len(q)
    <3>1. PICK i \in 1..j : q[i].id = "NEWKEYS"
      BY <1>1, <1>8, <2>1, <2>2 DEF Guarded
    <3>2. r[i] = q[i]
      BY <1>1, <2>2, <3>1
    <3> QED BY <3>1, <3>2
  <2>3. CASE j \notin 1..Len(q)
    BY <1>2, <1>8, <2>1, <2>3
  <2> QED BY <2>2, <2>3
<1> QED BY <1>3, <1>4, <1>5, <1>6, <1>7, <1>8 DEF AuthSame

\* What a step of the exchange leaves alone.
Turns(s, t) ==
    /\ Calm(t)
    /\ t.kexId = s.kexId /\ t.match = s.match /\ t.sendStrictKex = s.sendStrictKex
    /\ t.disconnected = s.disconnected /\ t.error = s.error
    /\ t.round = s.round /\ t.peerRound = s.peerRound
    /\ t.unread = s.unread /\ t.pendingWindowAdjust = s.pendingWindowAdjust
    /\ t.initialKexDone \in BOOLEAN
    /\ \/ t.state = s.state
       \/ s.state = "KEXINIT_SENT" /\ t.state = "KEXDH_INIT_SENT"

LEMMA TieSpoken ==
    ASSUME NEW e, NEW s, NEW t, NEW r, Tie(r, s), Spoken(e, s.out, t.out), IsSession(s),
           t.sendStrictKex = s.sendStrictKex, s.state # "VERSION_DONE"
    PROVE  Tie(r, t)
<1>1. Due(r, t) = Due(r, s) /\ Due(r, s) \cap Trans = {}
  BY DEF Due, Trans, TransKex
<1>2. Opened(r, t)
  BY <1>1, SpokenSays DEF Tie, Opened
<1>3. ASSUME ~r.initialKexDone, "PEER" \notin r.isKeying
      PROVE  r.peerSeq = 0 /\ t.out # <<>> /\ t.out[1].id = "KEXINIT"
  <2>1. r.peerSeq = 0 /\ s.out # <<>> /\ s.out[1].id = "KEXINIT"
    BY <1>3 DEF Tie, Opener
  <2>2. Len(s.out) # 0
    BY <2>1 DEF IsSession
  <2>3. 1 \in 1..Len(s.out) /\ Len(t.out) # 0
    BY <2>2 DEF Spoken
  <2>4. t.out[1] = s.out[1]
    BY <2>3 DEF Spoken
  <2> QED BY <2>1, <2>3, <2>4
<1> QED BY <1>2, <1>3 DEF Tie, Opener

LEMMA KexStep ==
    ASSUME NEW e \in Endpoints, NEW s, NEW t, NEW r, NEW q, Talks(e, s, r),
           Turns(s, t), Spoken(e, s.out, t.out), s.state # "VERSION_DONE",
           Era(t), e = "client" => ClientEra(t), e = "server" => t.state = s.state,
           Side(Peer(e), q), Aside(r, q), Listens(r, q), q.kexId = r.kexId,
           Tie(t, q), StageOf(e, t, q), HashOf(e, t, q)
    PROVE  Talks(e, t, q)
<1>1. /\ Side(e, s) /\ s.kexId = r.kexId /\ LoginOf(e, s, r) /\ Tie(r, s) /\ IsSession(s)
  BY TalksParts DEF Side, Sound, Calm
<1>2. Sound(t)
  BY <1>1, SpokenSays DEF Side, Sound, Turns, States
<1>3. ServerEra(s) => (e = "server" => ServerEra(t))
  BY DEF ServerEra
<1>4. Side(e, t)
  BY <1>1, <1>2, <1>3, SpokenSays DEF Side, Ids, Endpoints
<1>5. Aside(s, t)
  BY SpokenSays DEF Aside, Turns
<1>6. LoginOf(e, t, q)
  BY <1>1, <1>5, LoginOfAside
<1>7. Tie(q, s)
  BY <1>1, TieListens
<1>8. Tie(q, t) /\ t.kexId = q.kexId
  BY <1>1, <1>7, TieSpoken DEF Turns
<1> QED BY <1>4, <1>6, <1>8, TalksParts

----------------------------------------------------------------------------
(* The first request of the client.                                        *)

LEMMA MovesSpoken ==
    ASSUME NEW e, NEW s, NEW t, NEW z, NEW x, IsSession(s), Moves(s, t, z, x),
           z.id \in Trans, z.id \in Ids(e)
    PROVE  Spoken(e, s.out, t.out)
BY SpokenRefl, SpokenAdds DEF Moves

LEMMA HashKeeps ==
    ASSUME NEW e \in Endpoints, NEW s, NEW t, NEW r, NEW q, HashOf(e, s, r),
           t.kexId = s.kexId, t.handshake.kexInit = s.handshake.kexInit,
           t.handshake.hash = s.handshake.hash, t.isKeying \subseteq s.isKeying,
           q.kexId = r.kexId, Phase(r, q),
           \A j \in 1..Len(t.out) :
               t.out[j].id = "KEXINIT" \/ IsReply(t.out[j], t.kexId) =>
                   \/ \E i \in 1..Len(s.out) : s.out[i] = t.out[j]
                   \/ /\ t.out[j].id # "KEXINIT" /\ t.out[j].hash = s.handshake.hash
                      /\ "SELF" \in s.isKeying /\ "PEER" \in s.isKeying,
           \A j \in 1..Len(q.out) :
               q.out[j].id = "KEXINIT" \/ IsReply(q.out[j], q.kexId) =>
                   \E i \in 1..Len(r.out) : r.out[i] = q.out[j]
    PROVE  HashOf(e, t, q)
<1>1. Announced(s) /\ Announced(r)
  BY DEF HashOf, SameHash
<1>2. Announced(t)
  <2>1. SUFFICES ASSUME "SELF" \in t.isKeying, NEW j \in 1..Len(t.out), t.out[j].id = "KEXINIT"
                 PROVE  t.out[j].kexInit = t.handshake.kexInit
    BY DEF Announced
  <2>2. PICK i \in 1..Len(s.out) : s.out[i] = t.out[j]
    BY <2>1
  <2> QED BY <1>1, <2>1, <2>2 DEF Announced
<1>3. Announced(q)
  <2>1. SUFFICES ASSUME "SELF" \in q.isKeying, NEW j \in 1..Len(q.out), q.out[j].id = "KEXINIT"
                 PROVE  q.out[j].kexInit = q.handshake.kexInit
    BY DEF Announced
  <2>2. PICK i \in 1..Len(r.out) : r.out[i] = q.out[j]
    BY <2>1
  <2> QED BY <1>1, <2>1, <2>2 DEF Announced, Phase
<1>4. CASE e = "client"
  <2>1. SameHash(s, r)
    BY <1>4 DEF HashOf
  <2> DEFINE h == <<s.handshake.kexInit, r.handshake.kexInit>>
  <2>2. ASSUME NEW j \in 1..Len(q.out), IsReply(q.out[j], q.kexId) PROVE q.out[j].hash = h
    <3>1. PICK i \in 1..Len(r.out) : r.out[i] = q.out[j]
      BY <2>2
    <3> QED BY <2>1, <2>2, <3>1 DEF SameHash
  <2>3. SameHash(t, q)
    BY <1>2, <1>3, <2>1, <2>2 DEF SameHash, Phase
  <2> QED BY <1>4, <2>3 DEF HashOf
<1>5. CASE e = "server"
  <2>1. SameHash(r, s)
    BY <1>5 DEF HashOf
  <2> DEFINE h == <<r.handshake.kexInit, s.handshake.kexInit>>
  <2>2. ASSUME NEW j \in 1..Len(t.out), IsReply(t.out[j], t.kexId) PROVE t.out[j].hash = h
    <3>1. CASE \E i \in 1..Len(s.out) : s.out[i] = t.out[j]
      <4>1. PICK i \in 1..Len(s.out) : s.out[i] = t.out[j]
        BY <3>1
      <4> QED BY <2>1, <2>2, <4>1 DEF SameHash
    <3>2. CASE ~\E i \in 1..Len(s.out) : s.out[i] = t.out[j]
      <4>1. t.out[j].hash = s.handshake.hash /\ "SELF" \in s.isKeying /\ "PEER" \in s.isKeying
        BY <2>2, <3>2
      <4> QED BY <2>1, <4>1 DEF SameHash
    <3> QED BY <3>1, <3>2
  <2>3. SameHash(q, t)
    BY <1>2, <1>3, <2>1, <2>2 DEF SameHash, Phase
  <2> QED BY <1>5, <2>3 DEF HashOf
<1> QED BY <1>4, <1>5 DEF Endpoints

LEMMA AskStage ==
    ASSUME NEW s, NEW t, NEW r, NEW z, Stage(s, r), Agreed(s, "NONE"), Agreed(t, "KEXDH_REPLY"),
           t.initialKexDone = s.initialKexDone, t.kexId = s.kexId,
           Adds(s.out, t.out, z), z.id = FirstRequest(s)
    PROVE  Stage(t, r)
<1>1. FirstRequest(t) = FirstRequest(s) /\ z.id \in Trans
  BY DEF FirstRequest, Trans, TransKex
<1>2. /\ NoKex(s.out) => OneKex(t.out, FirstRequest(t))
      /\ OneKex(s.out, "KEXINIT") => TwoKex(t.out, "KEXINIT", FirstRequest(t))
  BY <1>1, AddsKex
<1>3. ~Idle(s) /\ ~Offered(s) /\ ~Switched(s) /\ \A x : x # "NONE" => ~Agreed(s, x)
  BY DEF Idle, Offered, Switched, Agreed
<1>4. Signed(s) # "NONE"
  BY DEF Signed
<1>5. s.initialKexDone = r.initialKexDone /\ Proposing(s, r)
  BY <1>3, <1>4 DEF Stage, Settling, ServerDone, ClientDone
<1>6. Settling(t, r)
  BY <1>2, <1>3, <1>5 DEF Proposing, Settling
<1> QED BY <1>5, <1>6 DEF Stage

\* A packet that is neither a KEXINIT nor a signed reply goes out.
LEMMA AddsHash ==
    ASSUME NEW q, NEW r, NEW z, NEW k, Adds(q, r, z), z.id # "KEXINIT", ~IsReply(z, k),
           NEW j \in 1..Len(r), r[j].id = "KEXINIT" \/ IsReply(r[j], k)
    PROVE  \E i \in 1..Len(q) : q[i] = r[j]
BY DEF Adds

LEMMA AskHash ==
    ASSUME NEW e \in Endpoints, NEW s, NEW t, NEW r, NEW z, NEW x, HashOf(e, s, r),
           Moves(s, t, z, x), t.isKeying \subseteq s.isKeying,
           z.id # "KEXINIT", ~IsReply(z, s.kexId)
    PROVE  HashOf(e, t, r)
<1>1. t.kexId = s.kexId /\ Adds(s.out, t.out, z)
  BY DEF Moves, Kin, Same
<1>2. ASSUME NEW j \in 1..Len(t.out), t.out[j].id = "KEXINIT" \/ IsReply(t.out[j], t.kexId)
      PROVE  \E i \in 1..Len(s.out) : s.out[i] = t.out[j]
  BY <1>1, <1>2, AddsHash
<1>3. Phase(r, r)
  BY DEF Phase
<1> QED BY <1>1, <1>2, <1>3, HashKeeps DEF Moves

LEMMA ConnectKexDhCalm ==
    ASSUME NEW s, NEW r, Talks("client", s, r), s.state = "KEXINIT_SENT", "PEER" \in s.isKeying
    PROVE  Talks("client", [StartKexDh(s) EXCEPT !.state = "KEXDH_INIT_SENT"], r)
<1> DEFINE w == StartKexDh(s)
           t == [w EXCEPT !.state = "KEXDH_INIT_SENT"]
<1>0. "client" \in Endpoints /\ Peer("client") = "server"
  BY DEF Endpoints, Peer
<1>1. /\ Side("client", s) /\ Side("server", r) /\ StageOf("client", s, r)
      /\ HashOf("client", s, r) /\ Tie(s, r) /\ Calm(s) /\ IsSession(s)
  BY <1>0, TalksParts DEF Side, Sound, Calm
<1>2. Agreed(s, "NONE") /\ ~s.initialKexDone
  BY <1>1, StateSays DEF Side, ClientEra, Offered
<1>3. PICK z : Moves(s, w, z, "KEXDH_REPLY") /\ z.id = FirstRequest(s) /\ w.isKeying = s.isKeying
  BY <1>1, AsksCalm
<1> HIDE DEF w
<1>4. Calm(w)
  BY <1>3 DEF Moves, Kin, Same
<1>5. Relabels(w, t) /\ t.out = w.out /\ t.round = w.round /\ t.state = "KEXDH_INIT_SENT"
  BY <1>4, StateSet
<1> HIDE DEF t
<1>6. /\ t.isKeying = s.isKeying /\ t.handshake = w.handshake /\ t.kexId = s.kexId
      /\ t.initialKexDone = s.initialKexDone /\ Adds(s.out, t.out, z)
      /\ t.sendStrictKex = s.sendStrictKex /\ t.peerSeq = s.peerSeq
  BY <1>3, <1>5 DEF Relabels, Phase, Moves, Kin, Same
<1>7. Turns(s, t)
  BY <1>1, <1>3, <1>5 DEF Turns, Relabels, Phase, Moves, Kin, Same, Side, Sound
<1>8. z.id \in Trans /\ z.id \in Ids("client") /\ z.id # "KEXINIT" /\ ~IsReply(z, s.kexId)
  BY <1>3 DEF FirstRequest, Trans, TransKex, Ids, ClientIds, IsReply
<1>9. Spoken("client", s.out, t.out)
  BY <1>1, <1>3, <1>5, <1>8, MovesSpoken
<1>10. Agreed(t, "KEXDH_REPLY")
  BY <1>2, <1>3, <1>6 DEF Agreed, Moves
<1>11. Stage(t, r)
  BY <1>1, <1>2, <1>3, <1>6, <1>10, AskStage DEF StageOf
<1>12. HashOf("client", w, r)
  BY <1>0, <1>1, <1>3, <1>8, AskHash
<1>13. HashOf("client", t, r)
  BY <1>5, <1>12 DEF HashOf, SameHash, Announced, Relabels, Phase
<1>14. Era(t)
  BY <1>1, <1>2, <1>5, <1>6 DEF Era, Agreed
<1>15. ClientEra(t)
  BY <1>5, <1>6, <1>10 DEF ClientEra, Agreed, Offered
<1>16. Tie(t, r)
  BY <1>1, <1>6, TieListens DEF Listens
<1>17. Listens(r, r)
  BY DEF Listens
<1>18. Talks("client", t, r)
  BY <1>0, <1>1, <1>7, <1>9, <1>11, <1>13, <1>14, <1>15, <1>16, <1>17, AsideSame, KexStep DEF StageOf
<1> QED BY <1>18 DEF t, w

----------------------------------------------------------------------------
(* A packet is read.                                                       *)

\* The end of DoPacket().
Consumed(s, t, done) ==
    /\ Same(s, t) /\ Phase(s, t) /\ t.out = s.out
    /\ t.peerRound = s.peerRound /\ t.unread = s.unread
    /\ t.pendingWindowAdjust = s.pendingWindowAdjust
    /\ t.initialKexDone = (s.initialKexDone \/ done)

LEMMA ConsumeCalm ==
    ASSUME NEW s, NEW done, Calm(s)
    PROVE  Consumed(s, ConsumePacket(s, done), done)
<1> DEFINE n == IF done /\ s.useStrictKex THEN 0 ELSE s.peerSeq + 1
           b == s.initialKexDone \/ done
           m == s.rxMsgCount + 1
           u == [s EXCEPT !.peerSeq = n, !.initialKexDone = b, !.rxMsgCount = m]
           t == HighwaterCheck(u)
<1>1. ConsumePacket(s, done) = t
  BY DEF ConsumePacket
<1> HIDE DEF n, b, m
<1>2. IsSession(s)
  BY DEF Calm
<1>3. /\ DOMAIN u = Fields
      /\ u.sessionId = s.sessionId /\ u.handshake = s.handshake
      /\ u.out = s.out /\ u.isKeying = s.isKeying /\ u.seq = s.seq /\ u.keys = s.keys
      /\ u.mark = s.mark /\ u.kexId = s.kexId /\ u.sendStrictKex = s.sendStrictKex
      /\ u.disconnected = s.disconnected /\ u.error = s.error /\ u.state = s.state
      /\ u.highwaterFlag = s.highwaterFlag /\ u.msgHighwaterFlag = s.msgHighwaterFlag
      /\ u.match = s.match /\ u.round = s.round /\ u.peerRound = s.peerRound
      /\ u.initialKexDone = b /\ u.unread = s.unread
      /\ u.pendingWindowAdjust = s.pendingWindowAdjust
      /\ u.peerKeys = s.peerKeys /\ u.kexCount = s.kexCount
      /\ u.useStrictKex = s.useStrictKex
  BY <1>2 DEF IsSession, Fields
<1> HIDE DEF u
<1>4. Calm(u)
  BY <1>2, <1>3 DEF Calm, IsSession, Unmarked
<1>5. Kin(u, t) /\ Phase(u, t) /\ t.out = u.out
  BY <1>4, CheckCalm
<1> HIDE DEF t
<1>6. t.initialKexDone = b
  BY <1>3, <1>5 DEF Kin
<1>7. Same(s, t) /\ Phase(s, t) /\ t.out = s.out
  BY <1>3, <1>5 DEF Kin, Same, Phase
<1>8. /\ t.peerRound = s.peerRound /\ t.unread = s.unread
      /\ t.pendingWindowAdjust = s.pendingWindowAdjust
  BY <1>3, <1>5 DEF Kin
<1> QED BY <1>1, <1>6, <1>7, <1>8 DEF Consumed, b

\* What was received is counted.
LEMMA RxCounted ==
    ASSUME NEW s, Calm(s)
    PROVE  LET u == [s EXCEPT !.rxCount = @ + 1] IN
           /\ Kin(s, u) /\ Phase(s, u) /\ u.out = s.out
           /\ u.useStrictKex = s.useStrictKex /\ u.sessionId = s.sessionId
<1> DEFINE n == s.rxCount + 1
           u == [s EXCEPT !.rxCount = n]
<1> HIDE DEF n
<1>1. IsSession(s)
  BY DEF Calm
<1>2. /\ DOMAIN u = Fields
      /\ u.sessionId = s.sessionId /\ u.handshake = s.handshake
      /\ u.out = s.out /\ u.isKeying = s.isKeying /\ u.seq = s.seq /\ u.keys = s.keys
      /\ u.mark = s.mark /\ u.kexId = s.kexId /\ u.sendStrictKex = s.sendStrictKex
      /\ u.disconnected = s.disconnected /\ u.error = s.error /\ u.state = s.state
      /\ u.highwaterFlag = s.highwaterFlag /\ u.msgHighwaterFlag = s.msgHighwaterFlag
      /\ u.match = s.match /\ u.round = s.round /\ u.peerRound = s.peerRound
      /\ u.initialKexDone = s.initialKexDone /\ u.unread = s.unread
      /\ u.pendingWindowAdjust = s.pendingWindowAdjust /\ u.peerSeq = s.peerSeq
      /\ u.peerKeys = s.peerKeys /\ u.kexCount = s.kexCount
      /\ u.useStrictKex = s.useStrictKex
  BY <1>1 DEF IsSession, Fields
<1>3. u = [s EXCEPT !.rxCount = @ + 1]
  BY DEF n
<1> HIDE DEF u
<1>4. IsSession(u)
  BY <1>1, <1>2 DEF IsSession
<1>5. Kin(s, u)
  BY <1>2, <1>4, KinByFields DEF Calm
<1> QED BY <1>2, <1>3, <1>5 DEF Phase

\* A session that waits, and the packet it takes from its peer's stream.
Reads(e, s, r, q) ==
    /\ Talks(e, s, r) /\ Behind(r, q) /\ Waiting(e, s)
    /\ StrictAgreed(s, r) /\ AtRest(e, s) /\ Opens(s, r, s.peerSeq)

LEMMA ReadsParts ==
    ASSUME NEW e \in Endpoints, NEW s, NEW r, NEW q, Reads(e, s, r, q)
    PROVE  /\ Side(e, s) /\ Side(Peer(e), r) /\ s.kexId = r.kexId
           /\ StageOf(e, s, r) /\ HashOf(e, s, r) /\ LoginOf(e, s, r)
           /\ Tie(s, r) /\ Tie(r, s)
           /\ Calm(s) /\ IsSession(s) /\ IsSession(r)
           /\ Drops(r.out, q.out) /\ r.out # <<>> /\ 1 \in 1..Len(r.out) /\ r.out[1] \in Packets
           /\ r.out[1].id \in Ids(Peer(e)) /\ r.state # "VERSION_DONE" /\ s.state # "VERSION_DONE"
           /\ Side(Peer(e), q) /\ Listens(r, q) /\ q.kexId = r.kexId
           /\ Alive(s) /\ s.initialKexDone \in BOOLEAN /\ s.pendingWindowAdjust \in Nat
<1>1. /\ Side(e, s) /\ Side(Peer(e), r) /\ s.kexId = r.kexId
      /\ StageOf(e, s, r) /\ HashOf(e, s, r) /\ LoginOf(e, s, r)
      /\ Tie(s, r) /\ Tie(r, s)
  BY TalksParts DEF Reads
<1>2. Calm(s) /\ IsSession(s) /\ IsSession(r) /\ Alive(s) /\ s.initialKexDone \in BOOLEAN
      /\ s.pendingWindowAdjust \in Nat
  BY <1>1 DEF Side, Sound, Calm, Alive
<1>3. Drops(r.out, q.out) /\ r.out # <<>> /\ 1 \in 1..Len(r.out)
  BY TakenDrops DEF Reads, Behind
<1>4. r.out[1] \in Packets
  BY <1>2, <1>3 DEF IsSession
<1>5. Only(r.out, Ids(Peer(e)))
  BY <1>1 DEF Side, Ids, Peer, Endpoints
<1>6. r.out[1].id \in Ids(Peer(e))
  BY <1>3, <1>5 DEF Only
<1>7. r.state # "VERSION_DONE" /\ s.state # "VERSION_DONE"
  BY <1>1, <1>3 DEF Side, Era, Reads, Waiting
<1>8. Side(Peer(e), q) /\ Listens(r, q) /\ q.kexId = r.kexId
  BY <1>1, SideBehind, BehindListens DEF Reads, Behind, Taken
<1> QED BY <1>1, <1>2, <1>3, <1>4, <1>6, <1>7, <1>8

\* Channel data, and a later exchange, come to an end that is done too.
LEMMA PeerDone ==
    ASSUME NEW e \in Endpoints, NEW s, NEW r, NEW q, Reads(e, s, r, q), r.state = "DONE",
           r.out[1].id \in Conn \cup {"KEXINIT"}
    PROVE  s.state = "DONE"
<1>1. LoginOf(e, s, r) /\ Drops(r.out, q.out)
  BY ReadsParts
<1>2. CASE e = "client"
  <2>1. Login(s, r)
    BY <1>1, <1>2 DEF LoginOf
  <2>2. ~Has(r.out, {"AUTH_REP"})
    BY <1>1, <2>1, DropsKeep DEF Login
  <2>3. s.peerRound = r.round /\ r.round = AuthRounds
    BY <2>1, <2>2 DEF Login, Rounds
  <2>4. s.round = AuthRounds /\ s.state \in {"KEYED", "DONE"}
    BY <2>1, <2>3, RoundsAre DEF Login, Rounds
  <2> QED BY <1>2, <2>3, <2>4 DEF Reads, Waiting, AuthReady
<1>3. CASE e = "server"
  <2>1. Login(r, s)
    BY <1>1, <1>3 DEF LoginOf
  <2> QED BY <2>1, RoundsAre DEF Login, Rounds
<1> QED BY <1>2, <1>3 DEF Endpoints

\* What a packet that is no part of an exchange finds.
LEMMA OtherRead ==
    ASSUME NEW e \in Endpoints, NEW s, NEW r, NEW q, Reads(e, s, r, q), r.out[1].id \notin Trans
    PROVE  /\ ~s.initialKexDone => "PEER" \in s.isKeying
           /\ IsMessageAllowed(e, s, r.out[1].id)
           /\ r.out[1].id \in Auth => s.state = "KEYED"
           /\ r.out[1].id \in Conn => s.state = "DONE"
<1> DEFINE id == r.out[1].id
<1>1. /\ Side(e, s) /\ Side(Peer(e), r) /\ LoginOf(e, s, r) /\ Tie(s, r)
      /\ Drops(r.out, q.out) /\ id \in Ids(Peer(e)) /\ r.state # "VERSION_DONE" /\ Alive(s)
      /\ s.state \in States /\ Behind(r, q) /\ s.initialKexDone \in BOOLEAN
      /\ 1 \in 1..Len(r.out)
  BY ReadsParts DEF Side, Sound, Reads
<1>2. id # "KEXINIT" /\ id # "NEWKEYS"
  BY DEF Trans
<1>3. ~s.initialKexDone => "PEER" \in s.isKeying /\ id \notin Due(s, r)
  BY <1>1, <1>2, HeadDue
<1>4. s.useStrictKex => s.initialKexDone
  <2>1. SUFFICES ASSUME ~s.initialKexDone PROVE ~s.useStrictKex
    BY <1>1
  <2>2. Hashed(s)
    BY <1>1, <1>3, <2>1 DEF Reads, AtRest
  <2>3. s.useStrictKex = (s.sendStrictKex /\ r.sendStrictKex)
    BY <1>1, <2>2 DEF Reads, StrictAgreed
  <2>4. id \in MsgIds
    BY <1>1 DEF Ids, ClientIds, ServerIds, MsgIds, TransGen, Trans, TransKex, Conn
  <2>5. ~(s.sendStrictKex /\ r.sendStrictKex)
    BY <1>3, <2>1, <2>4 DEF Due
  <2> QED BY <2>3, <2>5
<1>5. id \in Conn => s.state = "DONE"
  <2>1. SUFFICES ASSUME id \in Conn PROVE s.state = "DONE"
    OBVIOUS
  <2>2. Has(r.out, Conn)
    BY <1>1, <2>1 DEF Has
  <2>3. r.state = "DONE"
    BY <1>1, <2>2 DEF Side, Sound
  <2> QED BY <2>1, <2>3, PeerDone
<1>6. id \in Auth => s.state = "KEYED"
  <2>1. SUFFICES ASSUME id \in Auth PROVE s.state = "KEYED"
    OBVIOUS
  <2>2. s.initialKexDone
    BY <1>3, <2>1 DEF Due, Auth
  <2>3. CASE e = "client"
    <3>1. Login(s, r) /\ id = "AUTH_REP"
      BY <1>1, <2>1, <2>3 DEF LoginOf, Auth, Ids, ServerIds, Peer, Conn
    <3>2. s.peerRound # r.round
      BY <1>1, <3>1 DEF Login, Has
    <3>3. s.round > 0 /\ s.peerRound # AuthRounds
      BY <3>1, <3>2, RoundsAre DEF Login
    <3> QED BY <3>1, <3>3 DEF Login, Rounds
  <2>4. CASE e = "server"
    <3>1. Login(r, s) /\ id = "AUTH_REQ"
      BY <1>1, <2>1, <2>4 DEF LoginOf, Auth, Ids, ClientIds, Peer, Conn
    <3>2. s.peerRound # r.round
      BY <1>1, <3>1 DEF Login, Has
    <3>3. s.round # AuthRounds
      BY <3>1, <3>2, RoundsAre DEF Login
    <3>4. s.state # "DONE"
      BY <3>1, <3>3 DEF Login, Rounds
    <3>5. s.state \in {"KEXINIT_SENT", "KEYED"}
      BY <1>1, <2>2, <2>4, <3>4 DEF Side, ServerEra, Era, States
    <3>6. s.isKeying = {}
      BY <1>1, <2>2, <3>5, StateSays
    <3> QED BY <2>4, <3>5, <3>6 DEF Reads, Waiting, KexLoopDone
  <2> QED BY <2>3, <2>4 DEF Endpoints
<1>7. id \in Auth => "PEER" \notin s.isKeying
  BY <1>1, <1>3, <1>6, StateSays
<1>8. id \notin NeverAllowed(e)
  BY <1>1 DEF NeverAllowed, Ids, ClientIds, ServerIds, Peer, Endpoints, Conn
<1> QED BY <1>3, <1>4, <1>5, <1>6, <1>7, <1>8 DEF IsMessageAllowed, Auth

----------------------------------------------------------------------------
(* A packet that is no part of an exchange.                                *)

LEMMA ReceiveParts ==
    ASSUME NEW e \in Endpoints, NEW s, NEW r, NEW q, Reads(e, s, r, q),
           IsMessageAllowed(e, s, r.out[1].id)
    PROVE  LET p == r.out[1]
               c == ClearExpect([s EXCEPT !.rxCount = @ + 1], p.id)
           IN  DoReceive(e, s, p) =
                   ConsumePacket(Dispatch(e, c, p), p.id = "NEWKEYS" /\ NewKeysAccepted(c))
<1> DEFINE p == r.out[1]
           u == [s EXCEPT !.rxCount = @ + 1]
           c == ClearExpect(u, p.id)
<1>1. /\ Alive(s) /\ Calm(s) /\ IsSession(r) /\ r.out # <<>> /\ 1 \in 1..Len(r.out)
  BY ReadsParts
<1>2. /\ Kin(s, u) /\ Phase(s, u) /\ u.useStrictKex = s.useStrictKex
  BY <1>1, RxCounted
<1>3. 0 < Len(r.out)
  BY <1>1 DEF IsSession
<1>4. Authentic(s, p)
  BY <1>1, <1>3 DEF Reads, Opens, NextKeys, NextSeq, Authentic
<1> HIDE DEF u
<1>5. IsMessageAllowed(e, u, p.id)
  BY <1>2 DEF IsMessageAllowed, KexMessageAllowed, Kin, Same, Phase
<1>6. ~u.disconnected
  BY <1>1, <1>2 DEF Kin, Same, Alive
<1> HIDE DEF p
<1>7. DoPacket(e, u, p) =
          ConsumePacket(Dispatch(e, c, p), p.id = "NEWKEYS" /\ NewKeysAccepted(c))
  BY <1>5, <1>6 DEF DoPacket
<1>8. DoReceive(e, s, p) = DoPacket(e, u, p)
  BY <1>4 DEF DoReceive, u
<1> QED BY <1>7, <1>8 DEF u, p

LEMMA OtherStep ==
    ASSUME NEW e \in Endpoints, NEW s, NEW t, NEW r, NEW q, Reads(e, s, r, q),
           r.out[1].id \notin Trans, Level(s, t), t.out = s.out, LoginOf(e, t, q)
    PROVE  Talks(e, t, q)
<1>1. /\ Side(e, s) /\ StageOf(e, s, r) /\ HashOf(e, s, r) /\ Tie(s, r) /\ Tie(r, s)
      /\ Side(Peer(e), q) /\ Listens(r, q) /\ q.kexId = r.kexId /\ s.kexId = r.kexId
      /\ Behind(r, q)
  BY ReadsParts DEF Reads
<1>2. Side(e, t) /\ Steady(s, t)
  BY <1>1, SideLevel
<1>3. StageOf(e, t, q) /\ HashOf(e, t, q)
  BY <1>1, <1>2, BehindSteady, StageOfSteady
<1>4. ~t.initialKexDone => /\ ~s.initialKexDone /\ "PEER" \in t.isKeying
                           /\ r.out[1].id # "NEWKEYS"
  BY OtherRead DEF Level, Phase, Trans
<1>5. Tie(t, q)
  BY <1>1, <1>4, TieReads DEF Level
<1>6. Tie(q, s)
  BY <1>1, TieListens
<1>7. Tie(q, t)
  BY <1>6 DEF Tie, Opener, Opened, Due, Level
<1>8. t.kexId = q.kexId
  BY <1>1 DEF Level
<1> QED BY <1>1, <1>2, <1>3, <1>5, <1>7, <1>8, TalksParts

LEMMA LoginReplyRead ==
    ASSUME NEW s, NEW t, NEW r, NEW q, Login(s, r), Behind(r, q), r.out[1].id = "AUTH_REP",
           s.state = "KEYED", t.state = "KEYED", t.out = s.out,
           t.round = s.round, t.peerRound = s.peerRound + 1
    PROVE  Login(t, q)
<1>1. /\ Drops(r.out, q.out) /\ q.round = r.round /\ q.peerRound = r.peerRound
      /\ q.state = r.state /\ 1 \in 1..Len(r.out)
  BY TakenDrops DEF Behind, Taken
<1>2. s.peerRound # r.round /\ Rounds(s, r)
  BY <1>1 DEF Login, Has
<1>3. Rounds(t, q) /\ t.peerRound = q.round
  BY <1>1, <1>2, RoundsAre DEF Rounds
<1>4. ~Has(q.out, {"AUTH_REP"})
  BY <1>1, DropsHas DEF Login
<1>5. /\ Once(q.out, {"AUTH_REP"}) /\ Before(q.out, {"AUTH_REP"}, Conn \cup {"KEXINIT"})
  BY <1>1, DropsKeep DEF Login
<1> QED BY <1>1, <1>3, <1>4, <1>5 DEF Login

LEMMA LoginRequestRead ==
    ASSUME NEW s, NEW t, NEW r, NEW q, Login(r, s), Behind(r, q), r.out[1].id = "AUTH_REQ",
           s.state = "KEYED", t.state = "KEYED", t.out = s.out,
           t.round = s.round, t.peerRound = s.peerRound + 1
    PROVE  Login(q, t)
<1>1. /\ Drops(r.out, q.out) /\ q.round = r.round /\ q.peerRound = r.peerRound
      /\ q.state = r.state /\ 1 \in 1..Len(r.out)
  BY TakenDrops DEF Behind, Taken
<1>2. s.peerRound # r.round /\ Rounds(r, s)
  BY <1>1 DEF Login, Has
<1>3. Rounds(q, t) /\ t.peerRound = q.round
  BY <1>1, <1>2, RoundsAre DEF Rounds
<1>4. ~Has(q.out, {"AUTH_REQ"})
  BY <1>1, DropsHas DEF Login
<1>5. Once(q.out, {"AUTH_REQ"})
  BY <1>1, DropsKeep DEF Login
<1> QED BY <1>1, <1>3, <1>4, <1>5 DEF Login

\* A change of one of the two counters a plain packet moves.
LEMMA CounterSet ==
    ASSUME NEW s, NEW t, Calm(s), DOMAIN t = Fields,
           \A f \in Fields \ {"unread", "peerRound"} : t[f] = s[f]
    PROVE  /\ Same(s, t) /\ Phase(s, t) /\ t.out = s.out /\ t.initialKexDone = s.initialKexDone
           /\ t.pendingWindowAdjust = s.pendingWindowAdjust
<1>1. IsSession(s)
  BY DEF Calm
<1>2. /\ t.sessionId = s.sessionId /\ t.handshake = s.handshake
      /\ t.out = s.out /\ t.isKeying = s.isKeying /\ t.seq = s.seq /\ t.keys = s.keys
      /\ t.mark = s.mark /\ t.kexId = s.kexId /\ t.sendStrictKex = s.sendStrictKex
      /\ t.disconnected = s.disconnected /\ t.error = s.error /\ t.state = s.state
      /\ t.highwaterFlag = s.highwaterFlag /\ t.msgHighwaterFlag = s.msgHighwaterFlag
      /\ t.match = s.match /\ t.round = s.round
      /\ t.initialKexDone = s.initialKexDone
      /\ t.pendingWindowAdjust = s.pendingWindowAdjust
      /\ t.peerKeys = s.peerKeys /\ t.kexCount = s.kexCount
      /\ t.useStrictKex = s.useStrictKex
  BY DEF Fields
<1>3. IsSession(t)
  BY <1>1, <1>2 DEF IsSession
<1> QED BY <1>2, <1>3 DEF Same, Phase, Calm, Unmarked

LEMMA OtherCalm ==
    ASSUME NEW e \in Endpoints, NEW s, NEW r, NEW q, Reads(e, s, r, q), r.out[1].id \notin Trans
    PROVE  Talks(e, DoReceive(e, s, r.out[1]), q)
<1> DEFINE p == r.out[1]
           u == [s EXCEPT !.rxCount = @ + 1]
           d == Dispatch(e, u, p)
           t == ConsumePacket(d, FALSE)
<1>1. /\ Side(e, s) /\ Calm(s) /\ LoginOf(e, s, r) /\ Behind(r, q) /\ p.id \in Ids(Peer(e))
      /\ s.initialKexDone \in BOOLEAN
  BY ReadsParts DEF Reads
<1>2. Kin(s, u) /\ Phase(s, u) /\ u.out = s.out
  BY <1>1, RxCounted
<1>3. p.id # "NEWKEYS"
  BY DEF Trans
<1>4. DoReceive(e, s, p) = t
  <2>1. ClearExpect(u, p.id) = u
    BY DEF ClearExpect
  <2>2. (p.id = "NEWKEYS" /\ NewKeysAccepted(u)) = FALSE
    BY <1>3
  <2>3. IsMessageAllowed(e, s, p.id)
    BY OtherRead
  <2>4. DoReceive(e, s, p) =
            ConsumePacket(Dispatch(e, ClearExpect(u, p.id), p),
                          p.id = "NEWKEYS" /\ NewKeysAccepted(ClearExpect(u, p.id)))
    BY <2>3, ReceiveParts
  <2> HIDE DEF u, p
  <2> QED BY <2>1, <2>2, <2>4
<1>5. Calm(u) /\ u.unread = s.unread /\ u.peerRound = s.peerRound /\ s.unread \in Nat
      /\ s.pendingWindowAdjust \in Nat
  BY <1>1, <1>2 DEF Kin, Same, Side, Sound
<1>6. p.id \in {"IGNORE", "EXT_INFO", "WINDOW_ADJUST", "DATA", "AUTH_REQ", "AUTH_REP"}
  BY <1>1 DEF Ids, ClientIds, ServerIds, Trans, TransKex, Conn
<1> HIDE DEF p, u
<1>7. /\ p.id = "DATA" => d = [u EXCEPT !.unread = u.unread + 1]
      /\ p.id \in Auth => d = [u EXCEPT !.peerRound = u.peerRound + 1]
      /\ p.id \in {"IGNORE", "EXT_INFO", "WINDOW_ADJUST"} => d = u
  BY DEF Dispatch, Auth
<1> HIDE DEF d
<1>8. /\ Same(u, d) /\ Phase(u, d) /\ d.out = u.out /\ d.initialKexDone = u.initialKexDone
      /\ d.pendingWindowAdjust = u.pendingWindowAdjust
      /\ d.peerRound = IF p.id \in Auth THEN s.peerRound + 1 ELSE s.peerRound
      /\ d.unread = IF p.id = "DATA" THEN s.unread + 1 ELSE s.unread
  <2>1. CASE p.id = "DATA"
    <3> DEFINE n == u.unread + 1
               a == [u EXCEPT !.unread = n]
    <3>1. d = a /\ n = s.unread + 1 /\ p.id \notin Auth
      BY <1>5, <1>7, <2>1 DEF Auth
    <3> HIDE DEF n
    <3>2. /\ DOMAIN a = Fields /\ \A f \in Fields \ {"unread", "peerRound"} : a[f] = u[f]
          /\ a.peerRound = u.peerRound /\ a.unread = n
      BY <1>5 DEF Calm, IsSession, Fields
    <3> HIDE DEF a
    <3> QED BY <1>5, <2>1, <3>1, <3>2, CounterSet
  <2>2. CASE p.id \in Auth
    <3> DEFINE n == u.peerRound + 1
               a == [u EXCEPT !.peerRound = n]
    <3>1. d = a /\ n = s.peerRound + 1 /\ p.id # "DATA"
      BY <1>5, <1>7, <2>2 DEF Auth
    <3> HIDE DEF n
    <3>2. /\ DOMAIN a = Fields /\ \A f \in Fields \ {"unread", "peerRound"} : a[f] = u[f]
          /\ a.peerRound = n /\ a.unread = u.unread
      BY <1>5 DEF Calm, IsSession, Fields
    <3> HIDE DEF a
    <3> QED BY <1>5, <2>2, <3>1, <3>2, CounterSet
  <2>3. CASE p.id \in {"IGNORE", "EXT_INFO", "WINDOW_ADJUST"}
    BY <1>5, <1>7, <2>3 DEF Same, Phase, Auth
  <2> QED BY <1>6, <2>1, <2>2, <2>3 DEF Auth
<1>9. Consumed(d, t, FALSE)
  BY <1>8, ConsumeCalm DEF Same
<1> HIDE DEF t
<1>10. /\ t.peerRound = IF p.id \in Auth THEN s.peerRound + 1 ELSE s.peerRound
       /\ t.unread = IF p.id = "DATA" THEN s.unread + 1 ELSE s.unread
       /\ t.pendingWindowAdjust = s.pendingWindowAdjust /\ t.out = s.out
       /\ t.state = s.state /\ t.round = s.round
  BY <1>2, <1>8, <1>9 DEF Consumed, Kin, Same
<1>11. t.initialKexDone = s.initialKexDone
  BY <1>1, <1>2, <1>8, <1>9 DEF Consumed, Kin
<1>12. Phase(s, t) /\ Same(s, t)
  BY <1>2, <1>8, <1>9 DEF Consumed, Kin, Same, Phase
<1>13. Level(s, t)
  <2>1. t.unread > 0 => s.state = "DONE"
    BY <1>1, <1>10, OtherRead DEF Side, Sound, Conn, p
  <2>2. t.pendingWindowAdjust > 0 => s.state = "DONE"
    BY <1>1, <1>10 DEF Side, Sound
  <2>3. t.unread \in Nat /\ t.pendingWindowAdjust \in Nat
    BY <1>5, <1>10
  <2> QED BY <1>11, <1>12, <2>1, <2>2, <2>3 DEF Level, Same
<1>14. LoginOf(e, t, q)
  <2>1. CASE p.id \notin Auth
    <3>1. Aside(s, t)
      BY <1>10, <2>1, AuthSameRefl DEF Aside
    <3>2. Aside(r, q)
      BY <1>1, <2>1, BehindAside DEF p
    <3> QED BY <1>1, <3>1, <3>2, LoginOfAside
  <2>2. CASE p.id \in Auth
    <3>1. s.state = "KEYED"
      BY <2>2, OtherRead DEF p
    <3>2. CASE e = "client"
      <4>1. r.out[1].id = "AUTH_REP" /\ Login(s, r)
        BY <1>1, <2>2, <3>2 DEF p, Auth, Ids, Peer, ServerIds, Conn, LoginOf
      <4> QED BY <1>1, <1>10, <2>2, <3>1, <3>2, <4>1, LoginReplyRead DEF LoginOf
    <3>3. CASE e = "server"
      <4>1. r.out[1].id = "AUTH_REQ" /\ Login(r, s)
        BY <1>1, <2>2, <3>3 DEF p, Auth, Ids, Peer, ClientIds, Conn, LoginOf
      <4> QED BY <1>1, <1>10, <2>2, <3>1, <3>3, <4>1, LoginRequestRead DEF LoginOf
    <3> QED BY <3>2, <3>3 DEF Endpoints
  <2> QED BY <2>1, <2>2
<1>15. Talks(e, t, q)
  BY <1>10, <1>13, <1>14, OtherStep
<1> QED BY <1>4, <1>15 DEF t, p

----------------------------------------------------------------------------
(* A KEXINIT is read.                                                      *)

LEMMA ConsumedSteady ==
    ASSUME NEW s, NEW t, Consumed(s, t, FALSE), s.initialKexDone \in BOOLEAN
    PROVE  Steady(s, t) /\ t.initialKexDone = s.initialKexDone
<1>1. t.initialKexDone = s.initialKexDone
  BY DEF Consumed
<1> QED BY <1>1, KexSameRefl DEF Consumed, Steady, Same

\* A message of the exchange is read, and w is what its handler leaves.
LEMMA TurnKex ==
    ASSUME NEW e \in Endpoints, NEW s, NEW w, NEW r, NEW q, Reads(e, s, r, q),
           r.out[1].id \in Trans, r.out[1].id # "NEWKEYS",
           Kin(s, w), Spoken(e, s.out, w.out), "PEER" \in w.isKeying,
           StageOf(e, w, q), HashOf(e, w, q),
           s.initialKexDone => s.state = "DONE", e = "client" => ClientEra(w)
    PROVE  Talks(e, ConsumePacket(w, FALSE), q)
<1> DEFINE t == ConsumePacket(w, FALSE)
<1>1. /\ Side(e, s) /\ Tie(s, r) /\ Side(Peer(e), q) /\ Listens(r, q) /\ q.kexId = r.kexId
      /\ Behind(r, q) /\ s.initialKexDone \in BOOLEAN /\ s.state # "VERSION_DONE"
      /\ Talks(e, s, r)
  BY ReadsParts DEF Reads
<1>2. Consumed(w, t, FALSE)
  BY ConsumeCalm DEF Kin, Same
<1> HIDE DEF t
<1>3. Steady(w, t) /\ t.initialKexDone = s.initialKexDone
  BY <1>1, <1>2, ConsumedSteady DEF Kin
<1>4. StageOf(e, t, q) /\ HashOf(e, t, q)
  BY <1>3, SteadySame, StageOfSteady
<1>5. Turns(s, t) /\ t.state = s.state /\ t.out = w.out /\ Phase(w, t)
  BY <1>1, <1>2, <1>3 DEF Turns, Consumed, Kin, Same
<1>6. Era(t)
  BY <1>1, <1>3, <1>5 DEF Era, Side, Phase
<1>7. e = "client" => ClientEra(t)
  BY <1>1, <1>2, <1>3, <1>5 DEF ClientEra, Agreed, Offered, Phase, Kin, Same
<1>8. Aside(r, q)
  BY <1>1, BehindAside DEF Auth, Trans, TransKex
<1>9. Tie(t, q)
  BY <1>1, <1>3, <1>5, TieReads DEF Turns, Phase
<1>10. Spoken(e, s.out, t.out)
  BY <1>5
<1>11. Talks(e, t, q)
  BY <1>1, <1>4, <1>5, <1>6, <1>7, <1>8, <1>9, <1>10, KexStep
<1> QED BY <1>11 DEF t

\* The head of the stream is the first message of the exchange there.
LEMMA KexHead ==
    ASSUME NEW e \in Endpoints, NEW s, NEW r, NEW q, Reads(e, s, r, q), r.out[1].id \in Trans
    PROVE  /\ ~NoKex(r.out)
           /\ \A a : OneKex(r.out, a) => a = r.out[1].id /\ NoKex(q.out)
           /\ \A a, b : TwoKex(r.out, a, b) => a = r.out[1].id /\ OneKex(q.out, b)
BY ReadsParts, DropsKex

\* Where the two ends are when a KEXINIT arrives.
Meets(e, s, r, q) ==
    \/ Idle(s) /\ Offered(r) /\ NoKex(s.out) /\ NoKex(q.out)
    \/ Offered(s) /\ Offered(r) /\ OneKex(s.out, "KEXINIT") /\ NoKex(q.out)
    \/ e = "client" /\ Offered(s) /\ Agreed(r, FirstRequest(r)) /\ NoKex(s.out) /\ NoKex(q.out)
    \/ e = "server" /\ Offered(s) /\ Agreed(r, "NONE") /\ NoKex(s.out) /\ NoKex(q.out)
    \/ e = "server" /\ Offered(s) /\ Agreed(r, "KEXDH_REPLY")
          /\ NoKex(s.out) /\ OneKex(q.out, FirstRequest(r))

LEMMA KexInitMeets ==
    ASSUME NEW e \in Endpoints, NEW s, NEW r, NEW q, Reads(e, s, r, q), r.out[1].id = "KEXINIT"
    PROVE  /\ s.initialKexDone = r.initialKexDone /\ Meets(e, s, r, q)
           /\ "PEER" \notin s.isKeying /\ "SELF" \in r.isKeying
           /\ s.initialKexDone => s.state = "DONE"
           /\ ~s.initialKexDone => Offered(s) /\ s.peerSeq = 0 /\ "SELF" \in s.isKeying
           /\ IsMessageAllowed(e, s, "KEXINIT")
<1>1. /\ StageOf(e, s, r) /\ Side(e, s) /\ Side(Peer(e), r) /\ Tie(s, r) /\ Behind(r, q)
      /\ s.initialKexDone \in BOOLEAN /\ s.state # "VERSION_DONE" /\ r.state # "VERSION_DONE"
  BY ReadsParts DEF Reads
<1>2. /\ ~NoKex(r.out)
      /\ \A a : OneKex(r.out, a) => a = "KEXINIT" /\ NoKex(q.out)
      /\ \A a, b : TwoKex(r.out, a, b) => a = "KEXINIT" /\ OneKex(q.out, b)
  BY KexHead DEF Trans
<1>3. \A x : Signed(x) # "KEXINIT" /\ FirstRequest(x) # "KEXINIT"
  BY DEF Signed, FirstRequest
<1>4. s.initialKexDone = r.initialKexDone /\ Meets(e, s, r, q)
  <2>1. CASE e = "client"
    <3>1. Stage(s, r)
      BY <1>1, <2>1 DEF StageOf
    <3> QED BY <1>2, <1>3, <2>1, <3>1 DEF Stage, Proposing, Settling, ServerDone, ClientDone, Meets
  <2>2. CASE e = "server"
    <3>1. Stage(r, s)
      BY <1>1, <2>2 DEF StageOf
    <3> QED BY <1>2, <1>3, <2>2, <3>1 DEF Stage, Proposing, Settling, ServerDone, ClientDone, Meets
  <2> QED BY <2>1, <2>2 DEF Endpoints
<1>5. "PEER" \notin s.isKeying /\ "SELF" \in r.isKeying /\ (Idle(s) \/ Offered(s))
  BY <1>4 DEF Meets, Idle, Offered, Agreed
<1>6. s.initialKexDone => s.state = "DONE"
  <2>1. s.initialKexDone => r.state = "DONE"
    BY <1>1, <1>4, <1>5 DEF Side, Era
  <2> QED BY <2>1, PeerDone
<1>7. ~s.initialKexDone => Offered(s) /\ s.peerSeq = 0
  BY <1>1, <1>5, HeadDue DEF Side, Era, Idle
<1>8. IsMessageAllowed(e, s, "KEXINIT")
  BY <1>5 DEF IsMessageAllowed, KexMessageAllowed, NeverAllowed, Conn, Trans
<1> QED BY <1>4, <1>5, <1>6, <1>7, <1>8 DEF Offered

\* The KEXINIT is hashed: what w is to the session s that read it.
LEMMA MeetsStage ==
    ASSUME NEW e \in Endpoints, NEW s, NEW w, NEW r, NEW q, NEW n, Meets(e, s, r, q),
           s.initialKexDone = r.initialKexDone, s.kexId = r.kexId,
           Hashes(e, s, w, n), Behind(r, q)
    PROVE  /\ StageOf(e, w, q)
           /\ e = "client" => Agreed(w, "NONE")
<1>1. /\ w.kexId = s.kexId /\ w.initialKexDone = s.initialKexDone
      /\ q.initialKexDone = r.initialKexDone /\ q.kexId = r.kexId /\ Phase(r, q)
  BY DEF Hashes, Kin, Same, Behind, Taken, Phase
<1>2. /\ Idle(q) <=> Idle(r)
      /\ Offered(q) <=> Offered(r)
      /\ \A x : Agreed(q, x) <=> Agreed(r, x)
      /\ FirstRequest(q) = FirstRequest(r)
  BY <1>1, PhaseSteady
<1>3. FirstRequest(w) = FirstRequest(s) /\ FirstRequest(s) = FirstRequest(r)
  BY <1>1 DEF FirstRequest
<1>4. s.handshake.live => s.handshake.expectMsgId = "NONE"
  BY DEF Meets, Idle, Offered
<1>5. /\ e = "client" => Agreed(w, "NONE")
      /\ e = "server" => Agreed(w, FirstRequest(w))
  BY <1>3, <1>4 DEF Hashes, Agreed
<1>6. Idle(s) => OneKex(w.out, "KEXINIT") \/ ~NoKex(s.out)
  BY AddsKex DEF Hashes, Idle, Trans
<1>7. Offered(s) => w.out = s.out
  BY DEF Hashes, Offered
<1>8. CASE e = "client"
  <2>1. Proposing(w, q)
    BY <1>2, <1>5, <1>6, <1>7, <1>8 DEF Meets, Proposing
  <2> QED BY <1>1, <1>5, <1>8, <2>1 DEF StageOf, Stage
<1>9. CASE e = "server"
  <2>1. Proposing(q, w) \/ Settling(q, w)
    BY <1>2, <1>5, <1>6, <1>7, <1>9 DEF Meets, Proposing, Settling
  <2> QED BY <1>1, <1>9, <2>1 DEF StageOf, Stage
<1> QED BY <1>8, <1>9 DEF Endpoints

LEMMA MeetsHash ==
    ASSUME NEW e \in Endpoints, NEW s, NEW w, NEW r, NEW q, Meets(e, s, r, q),
           Hashes(e, s, w, r.out[1].kexInit), Behind(r, q), HashOf(e, s, r),
           r.out[1].id = "KEXINIT", 1 \in 1..Len(r.out)
    PROVE  HashOf(e, w, q)
<1>1. /\ Announced(s) /\ Announced(r) /\ Phase(r, q) /\ Drops(r.out, q.out)
  BY TakenDrops DEF HashOf, SameHash, Behind, Taken, Phase
<1>2. "SELF" \in r.isKeying /\ "PEER" \notin s.isKeying
  BY DEF Meets, Idle, Offered, Agreed
<1>3. r.out[1].kexInit = r.handshake.kexInit
  BY <1>1, <1>2 DEF Announced
<1>4. \A p, k : IsReply(p, k) => p.id \in Trans /\ p.id # "NEWKEYS" /\ p.id # "KEXINIT"
  BY DEF IsReply, Trans, TransKex
<1>5. Announced(q)
  <2>1. SUFFICES ASSUME "SELF" \in q.isKeying, NEW j \in 1..Len(q.out), q.out[j].id = "KEXINIT"
                 PROVE  q.out[j].kexInit = q.handshake.kexInit
    BY DEF Announced
  <2>2. j + 1 \in 1..Len(r.out) /\ q.out[j] = r.out[j + 1]
    BY <1>1 DEF Drops
  <2> QED BY <1>1, <2>1, <2>2 DEF Announced, Phase
<1>6. ASSUME Idle(s), NoKex(s.out)
      PROVE  /\ Announced(w)
             /\ \A j \in 1..Len(w.out) : ~IsReply(w.out[j], w.kexId)
  <2>1. PICK z \in Packets : /\ Adds(s.out, w.out, z) /\ z.id = "KEXINIT"
                             /\ z.kexInit = w.handshake.kexInit
    BY <1>6 DEF Hashes, Idle
  <2>2. \A j \in 1..Len(w.out) : w.out[j] = z \/ w.out[j].id \notin Trans
    BY <1>6, <2>1 DEF Adds, NoKex
  <2> QED BY <1>4, <2>1, <2>2 DEF Announced, Trans
<1>7. ASSUME Offered(s)
      PROVE  /\ Announced(w) /\ w.out = s.out /\ w.handshake.kexInit = s.handshake.kexInit
  BY <1>1, <1>7 DEF Hashes, Offered, Announced
<1>8. Announced(w)
  BY <1>6, <1>7 DEF Meets
<1>9. e = "server" => \A j \in 1..Len(w.out) : ~IsReply(w.out[j], w.kexId)
  <2>1. CASE Idle(s) /\ NoKex(s.out)
    BY <1>6, <2>1
  <2>2. CASE Offered(s) /\ (NoKex(s.out) \/ OneKex(s.out, "KEXINIT"))
    BY <1>4, <1>7, <2>2 DEF NoKex, OneKex
  <2>3. CASE e # "server"
    BY <2>3
  <2> QED BY <2>1, <2>2, <2>3 DEF Meets
<1>10. e = "client" => \A j \in 1..Len(q.out) : ~IsReply(q.out[j], q.kexId)
  BY <1>4 DEF Meets, NoKex
<1>11. "PEER" \in r.isKeying => Offered(s)
  BY DEF Meets, Offered
<1>12. CASE e = "client"
  <2>1. w.handshake.hash = <<w.handshake.kexInit, q.handshake.kexInit>>
    BY <1>1, <1>3, <1>12 DEF Hashes, Transcript, Phase
  <2>2. ("SELF" \in q.isKeying /\ "PEER" \in q.isKeying)
           => q.handshake.hash = <<w.handshake.kexInit, q.handshake.kexInit>>
    BY <1>1, <1>7, <1>11, <1>12 DEF HashOf, SameHash, Phase
  <2> QED BY <1>5, <1>8, <1>10, <1>12, <2>1, <2>2 DEF HashOf, SameHash
<1>13. CASE e = "server"
  <2>1. w.handshake.hash = <<q.handshake.kexInit, w.handshake.kexInit>>
    BY <1>1, <1>3, <1>13 DEF Hashes, Transcript, Phase
  <2>2. ("SELF" \in q.isKeying /\ "PEER" \in q.isKeying)
           => q.handshake.hash = <<q.handshake.kexInit, w.handshake.kexInit>>
    BY <1>1, <1>7, <1>11, <1>13 DEF HashOf, SameHash, Phase
  <2> QED BY <1>5, <1>8, <1>9, <1>13, <2>1, <2>2 DEF HashOf, SameHash
<1> QED BY <1>12, <1>13 DEF Endpoints

\* Hashes() looks at the part of a session that reading leaves alone.
LEMMA HashesKin ==
    ASSUME NEW e, NEW s, NEW u, NEW w, NEW n, Kin(s, u), Phase(s, u), u.out = s.out,
           Hashes(e, u, w, n)
    PROVE  Hashes(e, s, w, n)
<1>1. Kin(s, w)
  BY KinTrans DEF Hashes
<1>2. FirstRequest(u) = FirstRequest(s)
  BY DEF FirstRequest, Kin, Same
<1> QED BY <1>1, <1>2 DEF Hashes, Phase

LEMMA HashesSpoken ==
    ASSUME NEW e, NEW s, NEW w, NEW n, IsSession(s), Hashes(e, s, w, n)
    PROVE  Spoken(e, s.out, w.out)
<1>1. Spoken(e, s.out, s.out)
  BY SpokenRefl
<1>2. CASE "SELF" \in s.isKeying
  BY <1>1, <1>2 DEF Hashes
<1>3. CASE "SELF" \notin s.isKeying
  <2>1. PICK z \in Packets : Adds(s.out, w.out, z) /\ z.id = "KEXINIT"
    BY <1>3 DEF Hashes
  <2>2. z.id \in Trans /\ z.id \in Ids(e)
    BY <2>1 DEF Trans, Ids, ClientIds, ServerIds
  <2> QED BY <1>1, <2>1, <2>2, SpokenAdds
<1> QED BY <1>2, <1>3

LEMMA KexInitCalm ==
    ASSUME NEW e \in Endpoints, NEW s, NEW r, NEW q, Reads(e, s, r, q), r.out[1].id = "KEXINIT"
    PROVE  Talks(e, DoReceive(e, s, r.out[1]), q)
<1> DEFINE p == r.out[1]
           u == [s EXCEPT !.rxCount = @ + 1]
           k == DoKexInit(e, u, p)
           w == StartKexDh(k)
<1>1. /\ Side(e, s) /\ Calm(s) /\ IsSession(s) /\ p \in Packets /\ HashOf(e, s, r)
      /\ s.kexId = r.kexId /\ 1 \in 1..Len(r.out) /\ Behind(r, q) /\ s.match /\ AtRest(e, s)
      /\ s.initialKexDone \in BOOLEAN /\ s.state # "VERSION_DONE"
  BY ReadsParts DEF Reads, Side, Sound
<1>2. /\ Kin(s, u) /\ Phase(s, u) /\ u.out = s.out /\ u.sessionId = s.sessionId
  BY <1>1, RxCounted
<1>3. /\ s.initialKexDone = r.initialKexDone /\ Meets(e, s, r, q)
      /\ "PEER" \notin s.isKeying /\ "SELF" \in r.isKeying
      /\ s.initialKexDone => s.state = "DONE"
      /\ ~s.initialKexDone => Offered(s) /\ s.peerSeq = 0 /\ "SELF" \in s.isKeying
      /\ IsMessageAllowed(e, s, "KEXINIT")
  BY KexInitMeets
<1>4. s.handshake.live => s.handshake.expectMsgId = "NONE"
  BY <1>3 DEF Meets, Idle, Offered
<1>5. DoReceive(e, s, p) = ConsumePacket(DispatchKexInit(e, u, p), FALSE)
  <2>1. ClearExpect(u, p.id) = u
    BY <1>2, <1>4 DEF ClearExpect, Phase
  <2>2. (p.id = "NEWKEYS" /\ NewKeysAccepted(u)) = FALSE
    OBVIOUS
  <2>3. DoReceive(e, s, p) =
            ConsumePacket(Dispatch(e, ClearExpect(u, p.id), p),
                          p.id = "NEWKEYS" /\ NewKeysAccepted(ClearExpect(u, p.id)))
    BY <1>3, ReceiveParts
  <2>4. Dispatch(e, u, p) = DispatchKexInit(e, u, p)
    BY DEF Dispatch
  <2> HIDE DEF u, p
  <2> QED BY <2>1, <2>2, <2>3, <2>4
<1>6. u.peerSeq = s.peerSeq /\ u.match = s.match /\ u.state = s.state /\ Calm(u)
  BY <1>2 DEF Kin, Same
<1> HIDE DEF u, p
<1>7. k = HashKexInit(e, OpenKexInit(u, p), p)
  <2>1. u.sessionId = NoKeys => u.peerSeq = 0
    BY <1>1, <1>2, <1>3, <1>6 DEF AtRest
  <2> QED BY <1>1, <1>6, <2>1, DoKexInitParts
<1>8. Hashes(e, u, k, p.kexInit)
  BY <1>1, <1>6, <1>7, HashKexInitCalm
<1>9. DispatchKexInit(e, u, p) = IF e = "client" /\ s.state = "DONE" THEN w ELSE k
  BY <1>1, <1>6 DEF DispatchKexInit
<1> HIDE DEF k
<1>10. Hashes(e, s, k, p.kexInit)
  BY <1>2, <1>8, HashesKin
<1>11. StageOf(e, k, q) /\ (e = "client" => Agreed(k, "NONE"))
  BY <1>1, <1>3, <1>10, MeetsStage
<1>12. HashOf(e, k, q)
  BY <1>1, <1>3, <1>10, MeetsHash DEF p
<1>13. /\ Kin(s, k) /\ Spoken(e, s.out, k.out) /\ "PEER" \in k.isKeying /\ "SELF" \in k.isKeying
  BY <1>1, <1>10, HashesSpoken DEF Hashes
<1>14. r.out[1].id \in Trans /\ r.out[1].id # "NEWKEYS"
  BY DEF Trans
<1>15. CASE ~(e = "client" /\ s.state = "DONE")
  <2>1. e = "client" => ClientEra(k)
    <3>1. SUFFICES ASSUME e = "client" PROVE ClientEra(k)
      OBVIOUS
    <3>2. ~s.initialKexDone
      BY <1>1, <1>3, <1>15, <3>1
    <3>3. s.state = "KEXINIT_SENT"
      BY <1>1, <1>3, <3>1, <3>2 DEF Side, ClientEra
    <3>4. k.state = "KEXINIT_SENT"
      BY <1>13, <3>3 DEF Kin, Same
    <3> QED BY <1>11, <3>1, <3>4 DEF ClientEra
  <2>2. Talks(e, ConsumePacket(k, FALSE), q)
    BY <1>3, <1>11, <1>12, <1>13, <1>14, <2>1, TurnKex
  <2> QED BY <1>5, <1>9, <1>15, <2>2 DEF p
<1>16. CASE e = "client" /\ s.state = "DONE"
  <2>1. PICK z : Moves(k, w, z, "KEXDH_REPLY") /\ z.id = FirstRequest(k) /\ w.isKeying = k.isKeying
    BY <1>13, AsksCalm DEF Kin, Same
  <2> HIDE DEF w
  <2>2. Kin(s, w) /\ Adds(k.out, w.out, z) /\ w.kexId = k.kexId /\ w.initialKexDone = k.initialKexDone
    BY <1>13, <2>1, KinTrans DEF Moves, Kin, Same
  <2>3. z.id \in Trans /\ z.id \in Ids(e) /\ z.id # "KEXINIT" /\ ~IsReply(z, k.kexId)
    BY <1>16, <2>1 DEF FirstRequest, Trans, TransKex, Ids, ClientIds, IsReply
  <2>4. Spoken(e, s.out, w.out)
    BY <1>13, <2>2, <2>3, SpokenAdds
  <2>5. Agreed(w, "KEXDH_REPLY")
    BY <1>11, <1>16, <2>1 DEF Agreed, Moves
  <2>6. Stage(w, q)
    BY <1>11, <1>16, <2>1, <2>2, <2>5, AskStage DEF StageOf
  <2>7. HashOf(e, w, q)
    BY <1>12, <2>1, <2>3, AskHash
  <2>8. ClientEra(w)
    BY <1>16, <2>2, <2>5 DEF ClientEra, Agreed, Offered, Kin, Same
  <2>9. Talks(e, ConsumePacket(w, FALSE), q)
    BY <1>3, <1>13, <1>14, <1>16, <2>1, <2>2, <2>4, <2>6, <2>7, <2>8, TurnKex DEF StageOf
  <2> QED BY <1>5, <1>9, <1>16, <2>9 DEF p
<1> QED BY <1>15, <1>16

----------------------------------------------------------------------------
(* The requests and the answers are read.                                  *)

LEMMA DropsHash ==
    ASSUME NEW e \in Endpoints, NEW s, NEW r, NEW q, HashOf(e, s, r), Behind(r, q)
    PROVE  HashOf(e, s, q)
<1>1. Drops(r.out, q.out) /\ q.kexId = r.kexId /\ Phase(r, q)
  BY TakenDrops DEF Behind, Taken, Phase
<1>2. ASSUME NEW j \in 1..Len(q.out)
      PROVE  \E i \in 1..Len(r.out) : r.out[i] = q.out[j]
  <2>1. j + 1 \in 1..Len(r.out) /\ q.out[j] = r.out[j + 1]
    BY <1>1 DEF Drops
  <2> QED BY <2>1
<1> QED BY <1>1, <1>2, HashKeeps

\* The message that is expected arrives.
LEMMA ExpectedRead ==
    ASSUME NEW e \in Endpoints, NEW s, NEW r, NEW q, Reads(e, s, r, q),
           r.out[1].id \in Trans, r.out[1].id # "KEXINIT",
           "PEER" \in s.isKeying, s.handshake.live, s.handshake.expectMsgId = r.out[1].id
    PROVE  /\ IsMessageAllowed(e, s, r.out[1].id)
           /\ \E c : /\ Sets(s, c, "NONE")
                     /\ DoReceive(e, s, r.out[1]) =
                           ConsumePacket(Dispatch(e, c, r.out[1]),
                                         r.out[1].id = "NEWKEYS" /\ NewKeysAccepted(c))
<1> DEFINE p == r.out[1]
           u == [s EXCEPT !.rxCount = @ + 1]
           c == ClearExpect(u, p.id)
<1>1. Calm(s) /\ p.id \in Ids(Peer(e))
  BY ReadsParts
<1>2. IsMessageAllowed(e, s, p.id)
  <2>1. p.id \notin NeverAllowed(e)
    BY <1>1 DEF NeverAllowed, Ids, ClientIds, ServerIds, Peer, Endpoints, Conn
  <2>2. /\ p.id \in {"KEXINIT", "NEWKEYS"} \cup TransKex
        /\ p.id \notin Conn /\ p.id \notin {"AUTH_REQ", "AUTH_REP"}
    BY DEF Trans, TransKex, Conn
  <2>3. KexMessageAllowed(e, s, p.id)
    BY <2>2 DEF KexMessageAllowed, TransKex
  <2> QED BY <2>1, <2>2, <2>3 DEF IsMessageAllowed
<1>3. DoReceive(e, s, p) =
          ConsumePacket(Dispatch(e, c, p), p.id = "NEWKEYS" /\ NewKeysAccepted(c))
  BY <1>2, ReceiveParts
<1>4. /\ Kin(s, u) /\ Phase(s, u) /\ u.out = s.out
  BY <1>1, RxCounted
<1> HIDE DEF u
<1>5. c = SetExpect(u, "NONE")
  BY <1>4 DEF ClearExpect, Phase
<1>6. Sets(u, c, "NONE")
  BY <1>4, <1>5, SetExpectCalm DEF Kin, Same
<1> HIDE DEF c
<1>7. Sets(s, c, "NONE")
  BY <1>4, <1>6, KinTrans DEF Sets, Phase
<1> QED BY <1>2, <1>3, <1>7

LEMMA SetsKin ==
    ASSUME NEW s, NEW c, Sets(s, c, "NONE")
    PROVE  Kin(s, c) /\ Calm(c) /\ c.kexId = s.kexId /\ c.isKeying = s.isKeying
           /\ Signed(c) = Signed(s) /\ FirstRequest(c) = FirstRequest(s) /\ c.out = s.out
           /\ c.handshake.hash = s.handshake.hash
BY DEF Sets, Kin, Same, Signed, FirstRequest

\* Where the two ends are when an answer arrives.
LEMMA AnswerStage ==
    ASSUME NEW s, NEW r, NEW q, Reads("client", s, r, q), r.out[1].id \in Answers
    PROVE  /\ s.initialKexDone = r.initialKexDone /\ NoKex(s.out)
           /\ \/ /\ s.kexId = "GEX" /\ r.out[1].id = "KEXDH_REPLY" /\ Agreed(s, "KEXDH_REPLY")
                 /\ Agreed(r, "GEX_INIT") /\ NoKex(q.out)
              \/ /\ r.out[1].id = Signed(s) /\ Agreed(s, Signed(s))
                 /\ Switched(r) /\ OneKex(q.out, "NEWKEYS")
<1>1. "client" \in Endpoints
  BY DEF Endpoints
<1>2. Stage(s, r) /\ s.kexId = r.kexId
  BY <1>1, ReadsParts DEF StageOf
<1>3. /\ ~NoKex(r.out)
      /\ \A a : OneKex(r.out, a) => a = r.out[1].id /\ NoKex(q.out)
      /\ \A a, b : TwoKex(r.out, a, b) => a = r.out[1].id /\ OneKex(q.out, b)
  BY <1>1, KexHead DEF Answers, Trans, TransKex
<1>4. Signed(s) = Signed(r) /\ r.out[1].id # "KEXINIT" /\ r.out[1].id # "NEWKEYS"
  BY <1>2 DEF Signed, Answers
<1> QED BY <1>2, <1>3, <1>4 DEF Stage, Proposing, Settling, ServerDone, ClientDone

LEMMA RequestStage ==
    ASSUME NEW s, NEW r, NEW q, Reads("server", s, r, q), r.out[1].id \in Requests
    PROVE  /\ s.initialKexDone = r.initialKexDone /\ NoKex(s.out) /\ NoKex(q.out)
           /\ Agreed(s, r.out[1].id)
           /\ \/ r.out[1].id = FirstRequest(s) /\ Agreed(r, "KEXDH_REPLY")
              \/ r.out[1].id = "GEX_INIT" /\ s.kexId = "GEX" /\ Agreed(r, "GEX_REPLY")
<1>1. "server" \in Endpoints
  BY DEF Endpoints
<1>2. Stage(r, s) /\ s.kexId = r.kexId
  BY <1>1, ReadsParts DEF StageOf
<1>3. /\ ~NoKex(r.out)
      /\ \A a : OneKex(r.out, a) => a = r.out[1].id /\ NoKex(q.out)
      /\ \A a, b : TwoKex(r.out, a, b) => a = r.out[1].id /\ OneKex(q.out, b)
  BY <1>1, KexHead DEF Requests, Trans, TransKex
<1>4. FirstRequest(s) = FirstRequest(r) /\ r.out[1].id # "KEXINIT" /\ r.out[1].id # "NEWKEYS"
  BY <1>2 DEF FirstRequest, Requests
<1> QED BY <1>2, <1>3, <1>4 DEF Stage, Proposing, Settling, ServerDone, ClientDone

LEMMA BehindPhase ==
    ASSUME NEW r, NEW q, Behind(r, q)
    PROVE  /\ q.kexId = r.kexId /\ q.initialKexDone = r.initialKexDone
           /\ Switched(q) <=> Switched(r)
           /\ \A x : Agreed(q, x) <=> Agreed(r, x)
           /\ Idle(q) <=> Idle(r)
           /\ Offered(q) <=> Offered(r)
           /\ FirstRequest(q) = FirstRequest(r) /\ Signed(q) = Signed(r)
BY PhaseSteady DEF Behind, Taken, Phase

\* The client reads GEX_GROUP.
LEMMA GroupCalm ==
    ASSUME NEW s, NEW r, NEW q, Reads("client", s, r, q), r.out[1].id = "KEXDH_REPLY",
           s.kexId = "GEX"
    PROVE  Talks("client", DoReceive("client", s, r.out[1]), q)
<1> DEFINE p == r.out[1]
<1>0. "client" \in Endpoints /\ p.id \in Trans /\ p.id # "KEXINIT" /\ p.id # "NEWKEYS"
  BY DEF Endpoints, Trans, TransKex
<1>1. /\ Side("client", s) /\ IsSession(s) /\ HashOf("client", s, r) /\ Behind(r, q)
      /\ s.kexId = r.kexId
  BY <1>0, ReadsParts DEF Reads
<1>2. /\ s.initialKexDone = r.initialKexDone /\ NoKex(s.out)
      /\ Agreed(s, "KEXDH_REPLY") /\ Agreed(r, "GEX_INIT") /\ NoKex(q.out)
  BY AnswerStage DEF Signed, Answers
<1>3. PICK c : /\ Sets(s, c, "NONE")
               /\ DoReceive("client", s, p) =
                     ConsumePacket(Dispatch("client", c, p), p.id = "NEWKEYS" /\ NewKeysAccepted(c))
  BY <1>0, <1>2, ExpectedRead DEF Agreed
<1>4. Kin(s, c) /\ Calm(c) /\ c.kexId = "GEX" /\ c.isKeying = s.isKeying
  BY <1>3, SetsKin
<1> DEFINE d == SendKexDhInit(c)
<1>5. DoReceive("client", s, p) = ConsumePacket(d, FALSE)
  <2>1. Dispatch("client", c, p) = d
    BY <1>4 DEF Dispatch
  <2>2. (p.id = "NEWKEYS" /\ NewKeysAccepted(c)) = FALSE
    OBVIOUS
  <2> HIDE DEF d, p
  <2> QED BY <1>3, <2>1, <2>2
<1>6. PICK z : Moves(c, d, z, "GEX_REPLY") /\ z.id = "GEX_INIT" /\ d.isKeying = c.isKeying
  BY <1>4, AsksCalm
<1> HIDE DEF d
<1>7. Moves(s, d, z, "GEX_REPLY")
  BY <1>3, <1>6, SetsMoves
<1>8. /\ Kin(s, d) /\ Adds(s.out, d.out, z) /\ d.isKeying = s.isKeying /\ d.kexId = "GEX"
      /\ d.initialKexDone = s.initialKexDone /\ d.state = s.state
  BY <1>4, <1>6, <1>7 DEF Moves, Kin, Same
<1>9. z.id \in Trans /\ z.id \in Ids("client") /\ z.id # "KEXINIT" /\ ~IsReply(z, s.kexId)
  BY <1>6 DEF Trans, TransKex, Ids, ClientIds, IsReply
<1>10. Spoken("client", s.out, d.out)
  BY <1>1, <1>7, <1>9, MovesSpoken
<1>11. Agreed(d, "GEX_REPLY")
  BY <1>2, <1>7, <1>8 DEF Agreed, Moves
<1>12. OneKex(d.out, "GEX_INIT")
  BY <1>2, <1>6, <1>8, <1>9, AddsKex
<1>13. Settling(d, q)
  BY <1>1, <1>2, <1>8, <1>11, <1>12, BehindPhase DEF Settling
<1>14. StageOf("client", d, q)
  BY <1>1, <1>2, <1>8, <1>13, BehindPhase DEF StageOf, Stage
<1>15. HashOf("client", d, q)
  BY <1>0, <1>1, <1>7, <1>8, <1>9, DropsHash, AskHash
<1>16. s.initialKexDone => s.state = "DONE"
  BY <1>1, <1>2 DEF Side, Era, Agreed
<1>17. ClientEra(d)
  BY <1>1, <1>2, <1>8, <1>11 DEF Side, ClientEra, Agreed, Offered
<1>18. "PEER" \in d.isKeying
  BY <1>11 DEF Agreed
<1>19. Talks("client", ConsumePacket(d, FALSE), q)
  BY <1>0, <1>8, <1>10, <1>14, <1>15, <1>16, <1>17, <1>18, TurnKex
<1> QED BY <1>5, <1>19

\* The client reads the signed reply.
LEMMA ReplyCalm ==
    ASSUME NEW s, NEW r, NEW q, Reads("client", s, r, q), IsReply(r.out[1], s.kexId)
    PROVE  Talks("client", DoReceive("client", s, r.out[1]), q)
<1> DEFINE p == r.out[1]
<1>0. /\ "client" \in Endpoints /\ p.id \in Trans /\ p.id # "KEXINIT" /\ p.id # "NEWKEYS"
      /\ p.id \in Answers
  BY DEF Endpoints, Trans, TransKex, IsReply, Answers
<1>1. /\ Side("client", s) /\ IsSession(s) /\ HashOf("client", s, r) /\ Behind(r, q)
      /\ s.kexId = r.kexId /\ 1 \in 1..Len(r.out)
  BY <1>0, ReadsParts DEF Reads
<1>2. /\ s.initialKexDone = r.initialKexDone /\ NoKex(s.out)
      /\ p.id = Signed(s) /\ Agreed(s, Signed(s)) /\ Switched(r) /\ OneKex(q.out, "NEWKEYS")
  BY <1>0, AnswerStage DEF IsReply
<1>3. PICK c : /\ Sets(s, c, "NONE")
               /\ DoReceive("client", s, p) =
                     ConsumePacket(Dispatch("client", c, p), p.id = "NEWKEYS" /\ NewKeysAccepted(c))
  BY <1>0, <1>2, ExpectedRead DEF Agreed
<1>4. /\ Kin(s, c) /\ Calm(c) /\ c.kexId = s.kexId /\ c.isKeying = s.isKeying
      /\ c.handshake.hash = s.handshake.hash
  BY <1>3, SetsKin
<1> DEFINE d == DoKexDhReply(c, p)
<1>5. DoReceive("client", s, p) = ConsumePacket(d, FALSE)
  <2>1. Dispatch("client", c, p) = d
    <3>1. CASE p.id = "GEX_REPLY"
      BY <3>1 DEF Dispatch
    <3>2. CASE p.id = "KEXDH_REPLY" /\ c.kexId = "DH"
      BY <3>2 DEF Dispatch
    <3> QED BY <1>4, <3>1, <3>2 DEF IsReply
  <2>2. (p.id = "NEWKEYS" /\ NewKeysAccepted(c)) = FALSE
    BY <1>0
  <2> HIDE DEF d, p
  <2> QED BY <1>3, <2>1, <2>2
<1>6. p.hash = c.handshake.hash
  <2>1. SameHash(s, r)
    BY <1>1 DEF HashOf
  <2>2. /\ p.hash = <<s.handshake.kexInit, r.handshake.kexInit>>
        /\ s.handshake.hash = <<s.handshake.kexInit, r.handshake.kexInit>>
    BY <1>1, <1>2, <2>1 DEF SameHash, Agreed
  <2> QED BY <1>4, <2>2
<1>7. PICK z : /\ Moves(c, d, z, "NEWKEYS") /\ z.id = "NEWKEYS"
               /\ d.isKeying = c.isKeying \ {"SELF"}
  BY <1>2, <1>4, <1>6, DoKexDhReplyCalm DEF Agreed
<1> HIDE DEF d
<1>8. Moves(s, d, z, "NEWKEYS")
  BY <1>3, <1>7, SetsMoves
<1>9. /\ Kin(s, d) /\ Adds(s.out, d.out, z) /\ d.isKeying = s.isKeying \ {"SELF"}
      /\ d.kexId = s.kexId
      /\ d.initialKexDone = s.initialKexDone /\ d.state = s.state
  BY <1>4, <1>7, <1>8 DEF Moves, Kin, Same
<1>10. z.id \in Trans /\ z.id \in Ids("client") /\ z.id # "KEXINIT" /\ ~IsReply(z, s.kexId)
  BY <1>7 DEF Trans, TransKex, Ids, ClientIds, IsReply
<1>11. Spoken("client", s.out, d.out)
  BY <1>1, <1>8, <1>10, MovesSpoken
<1>12. Switched(d)
  BY <1>2, <1>8, <1>9 DEF Agreed, Switched, Moves
<1>13. OneKex(d.out, "NEWKEYS")
  BY <1>2, <1>7, <1>9, <1>10, AddsKex
<1>14. Settling(d, q)
  BY <1>1, <1>2, <1>12, <1>13, BehindPhase DEF Settling
<1>15. StageOf("client", d, q)
  BY <1>1, <1>2, <1>9, <1>14, BehindPhase DEF StageOf, Stage
<1>16. HashOf("client", d, q)
  BY <1>0, <1>1, <1>8, <1>9, <1>10, DropsHash, AskHash
<1>17. s.initialKexDone => s.state = "DONE"
  BY <1>1, <1>2 DEF Side, Era, Agreed
<1>18. ClientEra(d)
  BY <1>1, <1>2, <1>9, <1>12 DEF Side, ClientEra, Agreed, Offered, Switched, Signed
<1>19. "PEER" \in d.isKeying
  BY <1>12 DEF Switched
<1>20. Talks("client", ConsumePacket(d, FALSE), q)
  BY <1>0, <1>9, <1>11, <1>15, <1>16, <1>17, <1>18, <1>19, TurnKex
<1> QED BY <1>5, <1>20

\* The server reads GEX_REQUEST.
LEMMA GexRequestCalm ==
    ASSUME NEW s, NEW r, NEW q, Reads("server", s, r, q), r.out[1].id = "GEX_REQUEST"
    PROVE  Talks("server", DoReceive("server", s, r.out[1]), q)
<1> DEFINE p == r.out[1]
<1>0. "server" \in Endpoints /\ p.id \in Trans /\ p.id # "KEXINIT" /\ p.id # "NEWKEYS"
  BY DEF Endpoints, Trans, TransKex
<1>1. /\ Side("server", s) /\ IsSession(s) /\ HashOf("server", s, r) /\ Behind(r, q)
      /\ s.kexId = r.kexId
  BY <1>0, ReadsParts DEF Reads
<1>2. /\ s.initialKexDone = r.initialKexDone /\ NoKex(s.out) /\ NoKex(q.out)
      /\ Agreed(s, "GEX_REQUEST") /\ Agreed(r, "KEXDH_REPLY") /\ s.kexId = "GEX"
  BY RequestStage DEF Requests, FirstRequest
<1>3. PICK c : /\ Sets(s, c, "NONE")
               /\ DoReceive("server", s, p) =
                     ConsumePacket(Dispatch("server", c, p), p.id = "NEWKEYS" /\ NewKeysAccepted(c))
  BY <1>0, <1>2, ExpectedRead DEF Agreed
<1>4. Kin(s, c) /\ Calm(c) /\ c.kexId = "GEX" /\ c.isKeying = s.isKeying
  BY <1>2, <1>3, SetsKin
<1> DEFINE d == SendKexDhGexGroup(c)
<1>5. DoReceive("server", s, p) = ConsumePacket(d, FALSE)
  <2>1. Dispatch("server", c, p) = d
    BY DEF Dispatch
  <2>2. (p.id = "NEWKEYS" /\ NewKeysAccepted(c)) = FALSE
    OBVIOUS
  <2> HIDE DEF d, p
  <2> QED BY <1>3, <2>1, <2>2
<1>6. PICK z : Moves(c, d, z, "GEX_INIT") /\ z.id = "KEXDH_REPLY" /\ d.isKeying = c.isKeying
  BY <1>4, AsksCalm
<1> HIDE DEF d
<1>7. Moves(s, d, z, "GEX_INIT")
  BY <1>3, <1>6, SetsMoves
<1>8. /\ Kin(s, d) /\ Adds(s.out, d.out, z) /\ d.isKeying = s.isKeying /\ d.kexId = "GEX"
      /\ d.initialKexDone = s.initialKexDone
  BY <1>4, <1>6, <1>7 DEF Moves, Kin, Same
<1>9. z.id \in Trans /\ z.id \in Ids("server") /\ z.id # "KEXINIT" /\ ~IsReply(z, s.kexId)
  BY <1>2, <1>6 DEF Trans, TransKex, Ids, ServerIds, IsReply
<1>10. Spoken("server", s.out, d.out)
  BY <1>1, <1>7, <1>9, MovesSpoken
<1>11. Agreed(d, "GEX_INIT")
  BY <1>2, <1>7, <1>8 DEF Agreed, Moves
<1>12. OneKex(d.out, "KEXDH_REPLY")
  BY <1>2, <1>6, <1>8, <1>9, AddsKex
<1>13. Settling(q, d)
  BY <1>1, <1>2, <1>11, <1>12, BehindPhase DEF Settling
<1>14. StageOf("server", d, q)
  BY <1>1, <1>2, <1>8, <1>13, BehindPhase DEF StageOf, Stage
<1>15. HashOf("server", d, q)
  BY <1>0, <1>1, <1>7, <1>8, <1>9, DropsHash, AskHash
<1>16. s.initialKexDone => s.state = "DONE"
  BY <1>1, <1>2 DEF Side, Era, Agreed
<1>17. "PEER" \in d.isKeying
  BY <1>11 DEF Agreed
<1>18. Talks("server", ConsumePacket(d, FALSE), q)
  BY <1>0, <1>8, <1>10, <1>14, <1>15, <1>16, <1>17, TurnKex
<1> QED BY <1>5, <1>18

\* The server reads KEXDH_INIT or GEX_INIT.
LEMMA KexDhInitCalm ==
    ASSUME NEW s, NEW r, NEW q, Reads("server", s, r, q), r.out[1].id \in {"KEXDH_INIT", "GEX_INIT"}
    PROVE  Talks("server", DoReceive("server", s, r.out[1]), q)
<1> DEFINE p == r.out[1]
<1>0. "server" \in Endpoints /\ p.id \in Trans /\ p.id # "KEXINIT" /\ p.id # "NEWKEYS"
      /\ p.id \in Requests
  BY DEF Endpoints, Trans, TransKex, Requests
<1>1. /\ Side("server", s) /\ IsSession(s) /\ HashOf("server", s, r) /\ Behind(r, q)
      /\ s.kexId = r.kexId
  BY <1>0, ReadsParts DEF Reads
<1>2. /\ s.initialKexDone = r.initialKexDone /\ NoKex(s.out) /\ NoKex(q.out)
      /\ Agreed(s, p.id) /\ Agreed(r, Signed(r))
  BY <1>0, <1>1, RequestStage DEF FirstRequest, Signed
<1>3. PICK c : /\ Sets(s, c, "NONE")
               /\ DoReceive("server", s, p) =
                     ConsumePacket(Dispatch("server", c, p), p.id = "NEWKEYS" /\ NewKeysAccepted(c))
  BY <1>0, <1>2, ExpectedRead DEF Agreed
<1>4. /\ Kin(s, c) /\ Calm(c) /\ c.kexId = s.kexId /\ c.isKeying = s.isKeying
      /\ Signed(c) = Signed(s) /\ c.handshake.hash = s.handshake.hash
  BY <1>3, SetsKin
<1> DEFINE d == SendKexDhReply(c)
<1>5. DoReceive("server", s, p) = ConsumePacket(d, FALSE)
  <2>1. Dispatch("server", c, p) = d
    BY DEF Dispatch
  <2>2. (p.id = "NEWKEYS" /\ NewKeysAccepted(c)) = FALSE
    BY <1>0
  <2> HIDE DEF d, p
  <2> QED BY <1>3, <2>1, <2>2
<1>6. PICK a, b, y, z :
          /\ Moves(c, a, y, "NEWKEYS") /\ a.isKeying = c.isKeying
          /\ y.id = Signed(c) /\ y.hash = c.handshake.hash
          /\ Moves(a, b, z, "NEWKEYS") /\ b.isKeying = c.isKeying \ {"SELF"}
          /\ z.id = "NEWKEYS"
          /\ d = b \/ \E x : Posts(b, d, x) /\ x.id = "EXT_INFO"
  BY <1>2, <1>4, SendKexDhReplyCalm DEF Agreed
<1> HIDE DEF d
<1>7. Moves(s, a, y, "NEWKEYS")
  BY <1>3, <1>6, SetsMoves
<1>8. y.id \in Trans /\ y.id \in Ids("server") /\ y.id # "KEXINIT" /\ y.id = Signed(s)
  BY <1>4, <1>6 DEF Signed, Trans, TransKex, Ids, ServerIds
<1>9. z.id \in Trans /\ z.id \in Ids("server") /\ z.id # "KEXINIT" /\ ~IsReply(z, s.kexId)
  BY <1>6 DEF Trans, Ids, ServerIds, IsReply
<1>10. /\ Kin(s, b) /\ Adds(s.out, a.out, y) /\ Adds(a.out, b.out, z)
       /\ b.isKeying = s.isKeying \ {"SELF"}
       /\ b.handshake.live = s.handshake.live /\ b.handshake.kexInit = s.handshake.kexInit
       /\ b.handshake.hash = s.handshake.hash /\ b.handshake.expectMsgId = "NEWKEYS"
  BY <1>4, <1>6, <1>7, KinTrans DEF Moves
<1>11. Spoken("server", s.out, b.out)
  BY <1>1, <1>7, <1>8, <1>9, <1>10, MovesSpoken, SpokenAdds
<1>12. TwoKex(b.out, Signed(s), "NEWKEYS")
  BY <1>2, <1>6, <1>8, <1>9, <1>10, AddsKex
<1>13. ASSUME NEW j \in 1..Len(b.out),
              b.out[j].id = "KEXINIT" \/ IsReply(b.out[j], s.kexId)
       PROVE  \/ \E i \in 1..Len(s.out) : s.out[i] = b.out[j]
              \/ /\ b.out[j].id # "KEXINIT" /\ b.out[j].hash = s.handshake.hash
                 /\ "SELF" \in s.isKeying /\ "PEER" \in s.isKeying
  <2>1. PICK i \in 1..Len(a.out) : a.out[i] = b.out[j]
    BY <1>9, <1>10, <1>13, AddsHash
  <2>2. a.out[i] = y \/ \E k \in 1..Len(s.out) : s.out[k] = a.out[i]
    BY <1>10 DEF Adds
  <2> QED BY <1>2, <1>4, <1>6, <1>8, <2>1, <2>2 DEF Agreed
<1>14. /\ Kin(s, d) /\ Spoken("server", s.out, d.out) /\ Phase(b, d)
       /\ KexSame(b.out, d.out)
       /\ \A j \in 1..Len(d.out) :
             (d.out[j].id = "KEXINIT" \/ IsReply(d.out[j], s.kexId))
                => \E i \in 1..Len(b.out) : b.out[i] = d.out[j]
  <2>1. CASE d = b
    BY <1>10, <1>11, <2>1, KexSameRefl DEF Phase
  <2>2. CASE \E x : Posts(b, d, x) /\ x.id = "EXT_INFO"
    <3>1. PICK x : Posts(b, d, x) /\ x.id = "EXT_INFO"
      BY <2>2
    <3>2. /\ x.id \notin Trans /\ x.id \in Ids("server") /\ x.id # "KEXINIT" /\ ~IsReply(x, s.kexId)
          /\ Adds(b.out, d.out, x) /\ Phase(b, d)
      BY <3>1 DEF Trans, TransKex, Ids, ServerIds, IsReply, Posts
    <3>3. Has(b.out, {"NEWKEYS"})
      BY <1>6, <1>10, AddsHas
    <3>4. Spoken("server", s.out, d.out)
      BY <1>11, <3>1, <3>2, <3>3, SpokenAdds
    <3>5. Kin(s, d)
      BY <1>10, <3>1, KinTrans DEF Posts
    <3>6. KexSame(b.out, d.out)
      BY <3>2, AddsOther
    <3>7. ASSUME NEW j \in 1..Len(d.out), d.out[j].id = "KEXINIT" \/ IsReply(d.out[j], s.kexId)
          PROVE  \E i \in 1..Len(b.out) : b.out[i] = d.out[j]
      BY <3>2, <3>7, AddsHash
    <3> QED BY <3>2, <3>4, <3>5, <3>6, <3>7
  <2> QED BY <1>6, <2>1, <2>2
<1>15. /\ d.kexId = s.kexId /\ d.initialKexDone = s.initialKexDone /\ Signed(d) = Signed(s)
       /\ d.isKeying = s.isKeying \ {"SELF"} /\ d.handshake = b.handshake
  BY <1>10, <1>14 DEF Kin, Same, Phase, Signed
<1>16. Switched(d)
  BY <1>2, <1>10, <1>15 DEF Agreed, Switched
<1>17. TwoKex(d.out, Signed(d), "NEWKEYS")
  BY <1>12, <1>14, <1>15 DEF KexSame
<1>18. Settling(q, d)
  BY <1>1, <1>2, <1>16, <1>17, BehindPhase DEF Settling
<1>19. StageOf("server", d, q)
  BY <1>1, <1>2, <1>15, <1>18, BehindPhase DEF StageOf, Stage
<1>20. HashOf("server", d, q)
  <2>1. HashOf("server", s, q)
    BY <1>0, <1>1, DropsHash
  <2>2. ASSUME NEW j \in 1..Len(d.out), d.out[j].id = "KEXINIT" \/ IsReply(d.out[j], d.kexId)
        PROVE  \/ \E i \in 1..Len(s.out) : s.out[i] = d.out[j]
               \/ /\ d.out[j].id # "KEXINIT" /\ d.out[j].hash = s.handshake.hash
                  /\ "SELF" \in s.isKeying /\ "PEER" \in s.isKeying
    <3>1. PICK i \in 1..Len(b.out) : b.out[i] = d.out[j]
      BY <1>14, <1>15, <2>2
    <3> QED BY <1>13, <1>15, <2>2, <3>1
  <2>3. Phase(q, q)
    BY DEF Phase
  <2>4. \A j \in 1..Len(q.out) : \E i \in 1..Len(q.out) : q.out[i] = q.out[j]
    OBVIOUS
  <2>5. /\ d.handshake.kexInit = s.handshake.kexInit /\ d.handshake.hash = s.handshake.hash
        /\ d.isKeying \subseteq s.isKeying
    BY <1>10, <1>15
  <2> QED BY <1>0, <1>15, <2>1, <2>2, <2>3, <2>4, <2>5, HashKeeps
<1>21. s.initialKexDone => s.state = "DONE"
  BY <1>1, <1>2 DEF Side, Era, Agreed
<1>22. "PEER" \in d.isKeying
  BY <1>16 DEF Switched
<1>23. Talks("server", ConsumePacket(d, FALSE), q)
  BY <1>0, <1>14, <1>19, <1>20, <1>21, <1>22, TurnKex
<1> QED BY <1>5, <1>23

----------------------------------------------------------------------------
(* NEWKEYS is read.                                                        *)

LEMMA NewKeysStage ==
    ASSUME NEW e \in Endpoints, NEW s, NEW r, NEW q, Reads(e, s, r, q), r.out[1].id = "NEWKEYS"
    PROVE  /\ Switched(s)
           /\ \/ Switched(r) /\ OneKex(s.out, "NEWKEYS") /\ NoKex(q.out)
              \/ r.initialKexDone /\ Idle(r) /\ NoKex(s.out) /\ NoKex(q.out)
              \/ r.initialKexDone /\ Offered(r) /\ NoKex(s.out) /\ OneKex(q.out, "KEXINIT")
<1>1. /\ ~NoKex(r.out)
      /\ \A a : OneKex(r.out, a) => a = "NEWKEYS" /\ NoKex(q.out)
      /\ \A a, b : TwoKex(r.out, a, b) => a = "NEWKEYS" /\ OneKex(q.out, b)
  BY KexHead DEF Trans
<1>2. \A x : Signed(x) # "NEWKEYS" /\ FirstRequest(x) # "NEWKEYS"
  BY DEF Signed, FirstRequest
<1>3. CASE e = "client"
  <2>1. Stage(s, r)
    BY <1>3, ReadsParts DEF StageOf
  <2> QED BY <1>1, <1>2, <2>1 DEF Stage, Proposing, Settling, ServerDone, ClientDone
<1>4. CASE e = "server"
  <2>1. Stage(r, s)
    BY <1>4, ReadsParts DEF StageOf
  <2> QED BY <1>1, <1>2, <2>1 DEF Stage, Proposing, Settling, ServerDone, ClientDone
<1> QED BY <1>3, <1>4 DEF Endpoints

LEMMA RestingStage ==
    ASSUME NEW e, NEW s, NEW r, Resting(s, r)
    PROVE  StageOf(e, s, r)
<1>1. Stage(s, r)
  BY DEF Resting, Stage, Proposing, ClientDone
<1>2. Stage(r, s)
  BY DEF Resting, Stage, Proposing, ServerDone
<1> QED BY <1>1, <1>2 DEF StageOf

LEMMA RestingHash ==
    ASSUME NEW e, NEW s, NEW r, Resting(s, r), Announced(r)
    PROVE  HashOf(e, s, r)
<1>1. \A j \in 1..Len(s.out) : s.out[j].id \in Trans => s.out[j].id = "NEWKEYS"
  BY DEF Resting, NoKex, OneKex
<1>2. \A j \in 1..Len(r.out) : r.out[j].id \in Trans => r.out[j].id = "KEXINIT"
  BY DEF Resting, NoKex, OneKex
<1>3. \A p, k : IsReply(p, k) => p.id \in Trans /\ p.id # "NEWKEYS" /\ p.id # "KEXINIT"
  BY DEF IsReply, Trans, TransKex
<1>4. \A j \in 1..Len(s.out) : ~IsReply(s.out[j], s.kexId)
  BY <1>1, <1>3
<1>5. \A j \in 1..Len(r.out) : ~IsReply(r.out[j], r.kexId)
  BY <1>2, <1>3
<1>6. /\ "SELF" \notin s.isKeying /\ "PEER" \notin s.isKeying
      /\ "PEER" \notin r.isKeying \/ "SELF" \notin r.isKeying
  BY DEF Resting, Idle, Offered, Switched
<1>7. Announced(s)
  BY <1>6 DEF Announced
<1> QED BY <1>4, <1>5, <1>6, <1>7 DEF HashOf, SameHash

LEMMA NewKeysCalm ==
    ASSUME NEW e \in Endpoints, NEW s, NEW r, NEW q, Reads(e, s, r, q), r.out[1].id = "NEWKEYS"
    PROVE  Talks(e, DoReceive(e, s, r.out[1]), q)
<1> DEFINE p == r.out[1]
<1>0. p.id \in Trans /\ p.id # "KEXINIT" /\ p.id = "NEWKEYS"
  BY DEF Trans
<1>1. /\ Side(e, s) /\ IsSession(s) /\ HashOf(e, s, r) /\ Behind(r, q) /\ Talks(e, s, r)
      /\ s.kexId = r.kexId /\ Tie(s, r) /\ Side(Peer(e), q) /\ Listens(r, q)
      /\ q.kexId = r.kexId /\ s.state # "VERSION_DONE" /\ Alive(s)
      /\ s.pendingWindowAdjust \in Nat
  BY ReadsParts DEF Reads
<1>2. Switched(s)
  BY NewKeysStage
<1>3. PICK c : /\ Sets(s, c, "NONE")
               /\ DoReceive(e, s, p) =
                     ConsumePacket(Dispatch(e, c, p), p.id = "NEWKEYS" /\ NewKeysAccepted(c))
  BY <1>0, <1>2, ExpectedRead DEF Switched
<1>4. /\ Kin(s, c) /\ Calm(c) /\ c.isKeying = s.isKeying /\ c.out = s.out
      /\ c.handshake.live /\ ~c.disconnected /\ c.pendingWindowAdjust = s.pendingWindowAdjust
  BY <1>1, <1>2, <1>3, SetsKin DEF Sets, Kin, Same, Alive, Switched
<1> DEFINE d == DoNewKeys(c)
           t == ConsumePacket(d, TRUE)
<1>5. DoReceive(e, s, p) = t
  <2>1. Dispatch(e, c, p) = d
    BY DEF Dispatch
  <2>2. (p.id = "NEWKEYS" /\ NewKeysAccepted(c)) = TRUE
    BY <1>0, <1>2, <1>4 DEF NewKeysAccepted, Switched
  <2> HIDE DEF d, p
  <2> QED BY <1>3, <2>1, <2>2
<1>6. PICK u : /\ Kin(c, u) /\ u.out = c.out /\ u.handshake = NoHandshake
               /\ u.isKeying = c.isKeying \ {"PEER"}
               /\ Credits(u, d, c.pendingWindowAdjust)
  BY <1>1, <1>2, <1>4, DoNewKeysCalm DEF Switched
<1> HIDE DEF d
<1> DEFINE y == ConsumePacket(u, TRUE)
<1>7. Consumed(u, y, TRUE)
  BY <1>6, ConsumeCalm DEF Kin, Same
<1>8. Consumed(d, t, TRUE)
  BY <1>6, ConsumeCalm DEF Credits, Same
<1> HIDE DEF t, y
<1>9. y.initialKexDone = TRUE /\ t.initialKexDone = TRUE
  BY <1>7, <1>8 DEF Consumed
<1>10. Kin(s, u)
  BY <1>4, <1>6, KinTrans
<1>11. /\ Turns(s, y) /\ y.state = s.state /\ y.out = s.out
       /\ y.handshake = NoHandshake /\ y.isKeying = s.isKeying \ {"PEER"}
  BY <1>4, <1>6, <1>7, <1>9, <1>10 DEF Turns, Consumed, Kin, Same, Phase
<1>12. Idle(y)
  BY <1>2, <1>11 DEF Idle, Switched, NoHandshake, HandshakeInfoNew
<1>13. Resting(y, q)
  BY <1>1, <1>9, <1>11, <1>12, NewKeysStage, BehindPhase DEF Resting
<1>14. StageOf(e, y, q)
  BY <1>13, RestingStage
<1>15. HashOf(e, y, q)
  <2>1. HashOf(e, s, q)
    BY <1>1, DropsHash
  <2>2. Announced(q)
    BY <2>1 DEF HashOf, SameHash
  <2> QED BY <1>13, <2>2, RestingHash
<1>16. Era(y)
  BY <1>1, <1>9, <1>11, <1>12 DEF Era, Idle
<1>17. e = "client" => ClientEra(y)
  BY <1>1, <1>2, <1>9, <1>11, <1>12 DEF Side, ClientEra, Agreed, Offered, Switched, Idle
<1>18. Aside(r, q)
  BY <1>1, BehindAside DEF Auth
<1>19. Tie(y, q)
  BY <1>1, <1>9, <1>11, TieReads DEF Turns
<1>20. Spoken(e, s.out, y.out)
  BY <1>1, <1>11, SpokenRefl
<1>21. Talks(e, y, q)
  BY <1>1, <1>11, <1>14, <1>15, <1>16, <1>17, <1>18, <1>19, <1>20, KexStep
<1>22. /\ Phase(y, t) /\ Listens(y, t) /\ Calm(t)
       /\ t.round = y.round /\ t.peerRound = y.peerRound /\ t.state = y.state
       /\ t.disconnected = y.disconnected /\ t.error = y.error /\ t.match = y.match
       /\ t.kexId = y.kexId /\ t.sendStrictKex = y.sendStrictKex /\ t.unread = y.unread
       /\ t.pendingWindowAdjust = d.pendingWindowAdjust /\ t.out = d.out /\ y.out = u.out
  BY <1>6, <1>7, <1>8, <1>9 DEF Consumed, Credits, Same, Phase, Listens
<1>23. c.pendingWindowAdjust > 0 => y.state = "DONE"
  BY <1>1, <1>4, <1>11 DEF Side, Sound
<1>24. Level(y, t)
  <2>1. t.unread \in Nat /\ (t.unread > 0 => y.state = "DONE")
    BY <1>1, <1>11, <1>22 DEF Side, Sound, Turns
  <2>2. t.pendingWindowAdjust \in Nat /\ (t.pendingWindowAdjust > 0 => y.state = "DONE")
    BY <1>6, <1>22, <1>23 DEF Credits
  <2> QED BY <1>9, <1>22, <2>1, <2>2 DEF Level
<1>25. CASE d.out = u.out
  <2>1. Talks(e, t, q)
    BY <1>21, <1>22, <1>24, <1>25, QuietStep
  <2> QED BY <1>5, <2>1
<1>26. CASE d.out # u.out
  <2>1. PICK z \in Packets : Adds(u.out, d.out, z) /\ z.id = "WINDOW_ADJUST"
    BY <1>6, <1>26 DEF Credits
  <2>2. c.pendingWindowAdjust > 0
    BY <1>6, <1>26 DEF Credits
  <2>3. z.id \notin Trans /\ z.id \in Ids(e) /\ z.id \notin Auth
    BY <2>1 DEF Trans, TransKex, Conn, Ids, ClientIds, ServerIds, Auth
  <2>4. Adds(y.out, t.out, z) /\ y.state = "DONE"
    BY <1>22, <1>23, <2>1, <2>2
  <2>5. Talks(e, t, q)
    BY <1>9, <1>21, <1>22, <1>24, <2>3, <2>4, PostStep
  <2> QED BY <1>5, <2>5
<1> QED BY <1>25, <1>26

\* DoReceive(): whatever the peer has sent is taken.
LEMMA ReceiveCalm ==
    ASSUME NEW e \in Endpoints, NEW s, NEW r, NEW q, Reads(e, s, r, q)
    PROVE  Talks(e, DoReceive(e, s, r.out[1]), q)
<1>1. r.out[1].id \in Ids(Peer(e)) /\ IsSession(s)
  BY ReadsParts
<1>2. CASE r.out[1].id \notin Trans
  BY <1>2, OtherCalm
<1>3. CASE r.out[1].id = "KEXINIT"
  BY <1>3, KexInitCalm
<1>4. CASE r.out[1].id = "NEWKEYS"
  BY <1>4, NewKeysCalm
<1>5. CASE e = "client" /\ r.out[1].id \in Answers
  <2>1. CASE s.kexId = "GEX" /\ r.out[1].id = "KEXDH_REPLY"
    BY <1>5, <2>1, GroupCalm
  <2>2. CASE IsReply(r.out[1], s.kexId)
    BY <1>5, <2>2, ReplyCalm
  <2>3. s.kexId \in {"DH", "GEX"}
    BY <1>1 DEF IsSession
  <2> QED BY <1>5, <2>1, <2>2, <2>3 DEF IsReply, Answers
<1>6. CASE e = "server" /\ r.out[1].id \in Requests
  BY <1>6, GexRequestCalm, KexDhInitCalm DEF Requests
<1> QED
  BY <1>1, <1>2, <1>3, <1>4, <1>5, <1>6
  DEF Ids, ClientIds, ServerIds, Peer, Endpoints, Trans, TransKex, Answers, Requests, Conn

----------------------------------------------------------------------------
(* The session stays healthy.                                              *)

\* What wolfSSH_new() makes, with algorithms in common and no marks.
Unused(s, k) ==
    /\ Sound(s) /\ Era(s) /\ Idle(s) /\ s.out = <<>> /\ s.kexId = k
    /\ s.round = 0 /\ s.peerRound = 0 /\ s.peerSeq = 0
    /\ s.state = "VERSION_DONE" /\ s.isKeying = {} /\ s.initialKexDone = FALSE

LEMMA NewSessionSound ==
    ASSUME NEW mark, mark.byte = 0, mark.msg = 0, NEW m, m = TRUE,
           NEW k, k \in {"DH", "GEX"}, NEW b, b \in BOOLEAN
    PROVE  Unused(NewSession(mark, k, b, m), k)
<1> DEFINE s == NewSession(mark, k, b, m)
<1>1. IsSession(s)
  BY NewSessionFresh DEF Fresh
<1>2. /\ s.out = <<>> /\ s.kexId = k /\ s.round = 0 /\ s.peerRound = 0 /\ s.peerSeq = 0
      /\ s.state = "VERSION_DONE" /\ s.isKeying = {} /\ s.handshake = NoHandshake
      /\ s.mark = mark /\ s.unread = 0 /\ s.pendingWindowAdjust = 0
  BY DEF NewSession
<1>3. /\ s.highwaterFlag = FALSE /\ s.msgHighwaterFlag = FALSE /\ s.match = m
      /\ s.initialKexDone = FALSE /\ s.disconnected = FALSE /\ s.error = FALSE
  BY DEF NewSession
<1> HIDE DEF s
<1>4. Unmarked(s)
  BY <1>2 DEF Unmarked
<1>5. NoHandshake.live = FALSE
  BY DEF NoHandshake, HandshakeInfoNew
<1>6. Idle(s)
  BY <1>2, <1>5 DEF Idle
<1>7. Era(s)
  BY <1>2, <1>3 DEF Era
<1>8. ~Has(s.out, Conn)
  <2>1. 1..Len(s.out) = {}
    BY <1>2
  <2> QED BY <2>1 DEF Has
<1>9. Calm(s)
  BY <1>1, <1>3, <1>4 DEF Calm
<1>10. ~(s.unread > 0 \/ s.pendingWindowAdjust > 0 \/ Has(s.out, Conn))
       /\ s.unread \in Nat /\ s.pendingWindowAdjust \in Nat /\ s.state \in States
  BY <1>2, <1>8 DEF States
<1>11. Sound(s)
  BY <1>3, <1>9, <1>10 DEF Sound
<1> QED BY <1>2, <1>3, <1>6, <1>7, <1>11 DEF Unused, s

LEMMA InitHealth ==
    ASSUME Init, Marks \subseteq {[byte |-> 0, msg |-> 0]}
    PROVE  HealthInv
<1>1. PICK cm \in Marks, sm \in Marks, k \in KexIds, cs \in StrictChoices,
           st \in StrictChoices, m \in MatchChoices :
          ssh = [e \in Endpoints |-> IF e = "client" THEN NewSession(cm, k, cs, m)
                                                    ELSE NewSession(sm, k, st, m)]
  BY DEF Init
<1> DEFINE c == ssh["client"]
           v == ssh["server"]
<1>2. k \in {"DH", "GEX"} /\ cs \in BOOLEAN /\ st \in BOOLEAN /\ m \in BOOLEAN
  BY ConstantsAssumption
<1>3. cm.byte = 0 /\ cm.msg = 0 /\ sm.byte = 0 /\ sm.msg = 0
  <2>1. cm = [byte |-> 0, msg |-> 0] /\ sm = [byte |-> 0, msg |-> 0]
    OBVIOUS
  <2> QED BY <2>1
<1>4. "client" \in Endpoints /\ c = NewSession(cm, k, cs, m) /\ v = NewSession(sm, k, st, m)
  BY <1>1 DEF Endpoints
<1>5. Counts
  BY DEF Init, Counts, NothingSpent
<1>6. ASSUME Good PROVE Converse(c, v)
  <2>1. m = TRUE
    <3>1. c.match
      BY <1>6, <1>4 DEF Good
    <3>2. c.match = m
      BY <1>4 DEF NewSession
    <3> QED BY <1>2, <3>1, <3>2
  <2>2. c = NewSession(cm, k, cs, m) /\ v = NewSession(sm, k, st, m)
    BY <1>4
  <2> HIDE DEF c, v
  <2>3. /\ Sound(c) /\ Era(c) /\ Idle(c) /\ c.out = <<>> /\ c.kexId = k
        /\ c.round = 0 /\ c.peerRound = 0 /\ c.peerSeq = 0
        /\ c.state = "VERSION_DONE" /\ c.isKeying = {} /\ c.initialKexDone = FALSE
    <3>1. Unused(NewSession(cm, k, cs, m), k)
      BY <1>2, <1>3, <2>1, NewSessionSound
    <3> QED BY <2>2, <3>1 DEF Unused
  <2>4. /\ Sound(v) /\ Era(v) /\ Idle(v) /\ v.out = <<>> /\ v.kexId = k
        /\ v.round = 0 /\ v.peerRound = 0 /\ v.peerSeq = 0
        /\ v.state = "VERSION_DONE" /\ v.isKeying = {} /\ v.initialKexDone = FALSE
    <3>1. Unused(NewSession(sm, k, st, m), k)
      BY <1>2, <1>3, <2>1, NewSessionSound
    <3> QED BY <2>2, <3>1 DEF Unused
  <2>5. Side("client", c)
    BY <2>3 DEF Side, ClientEra, Offered, Agreed, Only
  <2>6. Side("server", v)
    BY <2>4 DEF Side, ServerEra, Only
  <2>7. Stage(c, v)
    <3>1. NoKex(c.out) /\ NoKex(v.out)
      BY <2>3, <2>4 DEF NoKex
    <3>2. Proposing(c, v) /\ c.initialKexDone = v.initialKexDone
      BY <2>3, <2>4, <3>1 DEF Proposing
    <3> QED BY <3>2 DEF Stage
  <2>8. SameHash(c, v)
    BY <2>3, <2>4 DEF SameHash, Announced
  <2>9. Tie(c, v) /\ Tie(v, c)
    BY <2>3, <2>4 DEF Tie, Opener, Opened, Guarded
  <2>10. Rounds(c, v)
    BY <2>3, <2>4, ConstantsAssumption DEF Rounds
  <2>11. Login(c, v)
    BY <2>3, <2>4, <2>10 DEF Login, Has, Once, Before
  <2> QED BY <2>3, <2>4, <2>5, <2>6, <2>7, <2>8, <2>9, <2>11 DEF Converse, Exchange
<1> QED BY <1>5, <1>6 DEF HealthInv

\* The steps that leave the peer alone, and the one that takes a packet.
LEMMA TurnTalks ==
    ASSUME IInv, NEW e \in Endpoints, Talks(e, ssh[e], ssh[Peer(e)]), TriggerAnytime = FALSE,
           LibraryStep(e) \/ AppStep(e), ~AppDisconnect(e)
    PROVE  Talks(e, ssh'[e], ssh'[Peer(e)])
<1> DEFINE s == ssh[e]
           r == ssh[Peer(e)]
<1>1. /\ Peer(e) \in Endpoints /\ Peer(e) # e /\ DOMAIN ssh = Endpoints
      /\ IsSession(s) /\ IsSession(r) /\ AtRest(e, s) /\ InStep(e, s, r, s.peerSeq)
  BY SessionInStep DEF IInv, Endpoints, Peer
<1>2. Talks(e, s, r) /\ Side(e, s) /\ Alive(s)
  BY TalksParts DEF Side, Sound, Alive
<1>3. ASSUME NEW t, Update(e, t), Talks(e, t, r)
      PROVE  Talks(e, ssh'[e], ssh'[Peer(e)])
  <2>1. ssh'[e] = t /\ ssh'[Peer(e)] = r
    BY <1>1, <1>3 DEF Update
  <2> QED BY <1>3, <2>1
<1>4. CASE StartKex(e)
  <2>1. s.state = "VERSION_DONE" /\ Update(e, [SendKexInit(s) EXCEPT !.state = "KEXINIT_SENT"])
    BY <1>4 DEF StartKex
  <2> HIDE DEF s, r
  <2>2. Talks(e, [SendKexInit(s) EXCEPT !.state = "KEXINIT_SENT"], r)
    BY <1>2, <2>1, StartKexCalm
  <2> QED BY <2>1, <2>2, <1>3
<1>5. CASE e = "client" /\ ConnectKexDh
  <2>1. /\ s.state = "KEXINIT_SENT" /\ Hashed(s)
        /\ Update(e, [StartKexDh(s) EXCEPT !.state = "KEXDH_INIT_SENT"])
    BY <1>5 DEF ConnectKexDh, ConnectKexInitDone, Hashed
  <2> HIDE DEF s, r
  <2>2. "PEER" \in s.isKeying
    BY <1>1, <1>2, <2>1 DEF AtRest
  <2>3. Talks(e, [StartKexDh(s) EXCEPT !.state = "KEXDH_INIT_SENT"], r)
    BY <1>2, <1>5, <2>1, <2>2, ConnectKexDhCalm
  <2> QED BY <2>1, <2>3, <1>3
<1>6. CASE BecomeKeyed(e)
  <2>1. KexLoopDone(e, s) /\ Update(e, [s EXCEPT !.state = "KEYED"])
    BY <1>6 DEF BecomeKeyed
  <2> HIDE DEF s, r
  <2>2. Talks(e, [s EXCEPT !.state = "KEYED"], r)
    BY <1>2, <2>1, BecomeKeyedCalm
  <2> QED BY <2>1, <2>2, <1>3
<1>7. CASE AuthStep(e)
  <2>1. AuthReady(e, s) /\ s.state = "KEYED"
    BY <1>7 DEF AuthStep, AuthReady
  <2>2. CASE e = "client" /\ s.round = AuthRounds
    <3>1. Update(e, [s EXCEPT !.state = "DONE"])
      BY <1>7, <2>2 DEF AuthStep
    <3> HIDE DEF s, r
    <3>2. Talks(e, [s EXCEPT !.state = "DONE"], r)
      BY <1>2, <2>1, <2>2, ConnectedCalm
    <3> QED BY <3>1, <3>2, <1>3
  <2>3. CASE ~(e = "client" /\ s.round = AuthRounds)
    <3> DEFINE p == Packet(IF e = "client" THEN "AUTH_REQ" ELSE "AUTH_REP")
               t == [SendPacket(s, p) EXCEPT
                        !.round = @ + 1,
                        !.state = IF e = "server" /\ s.round + 1 = AuthRounds THEN "DONE" ELSE @]
    <3>1. Update(e, t)
      BY <1>7, <2>3 DEF AuthStep
    <3>2. ~Has(s.out, Conn \cup {"KEXINIT"})
      BY <1>2, <2>1, KeyedSays
    <3>3. Talks(e, t, r)
      <4> HIDE DEF s, r
      <4> QED BY <1>2, <2>1, <2>3, <3>2, AuthStepCalm
    <3> HIDE DEF t, s, r
    <3> QED BY <3>1, <3>3, <1>3
  <2> QED BY <2>2, <2>3
<1>8. CASE Receive(e)
  <2> DEFINE q == [r EXCEPT !.out = Tail(@)]
             t == DoReceive(e, s, Head(r.out))
  <2>1. r.out # <<>> /\ Waiting(e, s)
    BY <1>8 DEF Receive
  <2>2. ssh' = [ssh EXCEPT ![e] = t, ![Peer(e)].out = Tail(@)]
    BY <1>8 DEF Receive
  <2>3. ssh'[e] = t /\ ssh'[Peer(e)] = q
    BY <1>1, <2>2
  <2> HIDE DEF s, r
  <2>4. Behind(r, q) /\ Head(r.out) = r.out[1]
    BY <1>1, <2>1, TailBehind
  <2> HIDE DEF q
  <2>5. Reads(e, s, r, q)
    BY <1>1, <1>2, <2>1, <2>4 DEF Reads, InStep, Hears
  <2>6. Talks(e, DoReceive(e, s, r.out[1]), q)
    BY <2>5, ReceiveCalm
  <2>7. t = DoReceive(e, s, r.out[1])
    BY <2>4
  <2> QED BY <2>3, <2>6, <2>7
<1>9. CASE Trigger(e)
  <2>1. s.state = "DONE" /\ s.isKeying = {} /\ Update(e, SendKexInit(s))
    BY <1>9 DEF Trigger
  <2> HIDE DEF s, r
  <2>2. Talks(e, SendKexInit(s), r)
    BY <1>2, <2>1, TriggerCalm
  <2> QED BY <2>1, <2>2, <1>3
<1>10. CASE StreamSend(e)
  <2>1. s.state = "DONE" /\ Update(e, SendPacket(s, Packet("DATA")))
    BY <1>10 DEF StreamSend
  <2> HIDE DEF s, r
  <2>2. Talks(e, SendPacket(s, Packet("DATA")), r)
    BY <1>2, <2>1, PostCalm DEF Conn
  <2> QED BY <2>1, <2>2, <1>3
<1>11. CASE ChannelIdRead(e)
  <2>1. s.unread > 0 /\ Update(e, ChannelCreditWindow([s EXCEPT !.unread = 0], s.unread))
    BY <1>11 DEF ChannelIdRead
  <2> HIDE DEF s, r
  <2>2. Talks(e, ChannelCreditWindow([s EXCEPT !.unread = 0], s.unread), r)
    BY <1>2, <2>1, ReadCalm
  <2> QED BY <2>1, <2>2, <1>3
<1>12. CASE SendIgnore(e)
  <2>1. /\ s.state # "VERSION_DONE" /\ (s.sendStrictKex => s.state \in {"KEYED", "DONE"})
        /\ Update(e, SendPacket(s, Packet("IGNORE")))
    BY <1>12 DEF SendIgnore
  <2> HIDE DEF s, r
  <2>2. Talks(e, SendPacket(s, Packet("IGNORE")), r)
    BY <1>2, <2>1, PostCalm DEF Conn
  <2> QED BY <2>1, <2>2, <1>3
<1> QED
  BY <1>4, <1>5, <1>6, <1>7, <1>8, <1>9, <1>10, <1>11, <1>12 DEF LibraryStep, AppStep

\* Calls are counted, and a call of wolfSSH_SendDisconnect() stays counted.
LEMMA TurnSpent ==
    ASSUME Counts, NEW e \in Endpoints, LibraryStep(e) \/ AppStep(e)
    PROVE  /\ Counts'
           /\ \A f \in Endpoints : spent'[f].disconnect = 0 => spent[f].disconnect = 0
           /\ AppDisconnect(e) => spent'[e].disconnect # 0
<1> DEFINE Calls == [trigger : Nat, data : Nat, ignore : Nat, disconnect : Nat]
           a == spent[e]
<1>1. a \in Calls /\ spent \in [Endpoints -> Calls]
  BY DEF Counts
<1>2. ASSUME NEW x \in {"trigger", "data", "ignore", "disconnect"}, NEW n \in Nat, Spend(e, x, n)
      PROVE  /\ Counts' /\ spent'[e] \in Calls
             /\ \A f \in Endpoints : spent'[f].disconnect = 0 => spent[f].disconnect = 0
             /\ x = "disconnect" => spent'[e].disconnect # 0
  <2> DEFINE b == [a EXCEPT ![x] = a[x] + 1]
  <2>1. spent' = [spent EXCEPT ![e] = b]
    BY <1>2 DEF Spend
  <2>2. a[x] \in Nat
    BY <1>1, <1>2
  <2>3. b \in Calls /\ (b.disconnect = 0 => a.disconnect = 0) /\ (x = "disconnect" => b.disconnect # 0)
    BY <1>1, <1>2, <2>2
  <2> HIDE DEF b
  <2>4. spent' \in [Endpoints -> Calls] /\ spent'[e] = b
        /\ \A f \in Endpoints : f # e => spent'[f] = spent[f]
    BY <1>1, <2>1, <2>3
  <2> QED BY <2>3, <2>4 DEF Counts
<1>3. CASE spent' = spent /\ ~AppDisconnect(e)
  BY <1>3 DEF Counts
<1>4. \/ spent' = spent
      \/ Spend(e, "trigger", MaxTrigger) \/ Spend(e, "data", MaxData)
      \/ Spend(e, "ignore", MaxIgnore) \/ Spend(e, "disconnect", MaxDisconnect)
  BY DEF LibraryStep, AppStep, StartKex, ConnectKexDh, BecomeKeyed, AuthStep, Receive,
         Trigger, StreamSend, ChannelIdRead, SendIgnore, AppDisconnect
<1>5. MaxTrigger \in Nat /\ MaxData \in Nat /\ MaxIgnore \in Nat /\ MaxDisconnect \in Nat
  BY ConstantsAssumption
<1>6. AppDisconnect(e) => Spend(e, "disconnect", MaxDisconnect)
  BY DEF AppDisconnect
<1> QED BY <1>2, <1>3, <1>4, <1>5, <1>6

LEMMA StepHealth ==
    ASSUME IInv, HealthInv, [Next]_vars, TriggerAnytime = FALSE
    PROVE  HealthInv'
<1>1. CASE UNCHANGED vars
  BY <1>1 DEF vars, HealthInv, Counts, Good
<1>2. ASSUME NEW e \in Endpoints, LibraryStep(e) \/ AppStep(e)
      PROVE  HealthInv'
  <2>1. /\ Counts'
        /\ \A f \in Endpoints : spent'[f].disconnect = 0 => spent[f].disconnect = 0
        /\ AppDisconnect(e) => spent'[e].disconnect # 0
    BY <1>2, TurnSpent DEF HealthInv
  <2>2. \A f \in Endpoints : ssh'[f].match = ssh[f].match
    BY StepInStep DEF Mono
  <2>3. ASSUME Good' PROVE Converse(ssh'["client"], ssh'["server"])
    <3>1. Good /\ ~AppDisconnect(e)
      BY <2>1, <2>2, <2>3 DEF Good
    <3>2. Converse(ssh["client"], ssh["server"])
      BY <3>1 DEF HealthInv
    <3>3. Talks(e, ssh[e], ssh[Peer(e)])
      BY <3>2 DEF Talks, Peer, Endpoints
    <3>4. Talks(e, ssh'[e], ssh'[Peer(e)])
      BY <1>2, <3>1, <3>3, TurnTalks
    <3> QED BY <3>4 DEF Talks, Peer, Endpoints
  <2> QED BY <2>1, <2>3 DEF HealthInv
<1> QED BY <1>1, <1>2 DEF Next

LEMMA HealthHealthy ==
    ASSUME HealthInv
    PROVE  Healthy
<1>1. Good => Sound(ssh["client"]) /\ Sound(ssh["server"])
  BY DEF HealthInv, Converse, Exchange, Side
<1> QED BY <1>1 DEF Healthy, Good, Sound, Running, Endpoints

\* Two peers with algorithms in common and no high water marks, whose
\* applications ask wolfSSH_RekeyPending() before they trigger an exchange
\* and do not disconnect, never end the session: however exchanges cross and
\* whatever is under way when they do, IsMessageAllowed() refuses no message,
\* no exchange hash differs and DoNewKeys() finds its handshake.
THEOREM HealthyAlways ==
    ASSUME Marks \subseteq {[byte |-> 0, msg |-> 0]}, TriggerAnytime = FALSE
    PROVE  Spec => []Healthy
<1>1. Init => HealthInv
  BY InitHealth
<1>2. IInv /\ HealthInv /\ [Next]_vars => HealthInv'
  BY StepHealth
<1>3. HealthInv => Healthy
  BY HealthHealthy
<1> QED BY <1>1, <1>2, <1>3, TransportInvariant, PTL DEF Spec
============================================================================
