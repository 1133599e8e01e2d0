--------------------------- MODULE ChannelsProofs ---------------------------
(***************************************************************************)
(* Whatever the two ends open, close, refuse and free, a session's ids are *)
(* unique and every local setup is given back: for every size of the id    *)
(* space, every set of callbacks' answers and of calls, every fault.       *)
(*                                                                         *)
(* Between two well behaved ends every message finds the channel it means, *)
(* no handler turns an error, and when nothing is under way both hold the  *)
(* same channels: for any number of opens, data, requests, key exchanges.  *)
(***************************************************************************)
EXTENDS Channels, TLAPS, FiniteSetTheorems, ProofBasics

\* Every OPEN names the kind of a channel and the channel.
Packet == {m \in Message : m.type = "OPEN" => m.kind \in Kinds /\ m.uid \in Uids}

States == {"userauth_done", "open_sent", "request_sent", "channel_open", "accepting", "done"}
Errors == {"WS_INVALID_CHANID", "WS_INVALID_STATE_E"}

Session ==
    [channelList : Seq(Channel), nextChannel : Ids, defaultPeerChannelId : Ids,
     isKeying : BOOLEAN, disconnected : BOOLEAN,
     connectState : States, serverState : States, acceptState : States, clientState : States,
     useAgent : BOOLEAN, agent : BOOLEAN, setups : Nat,
     refused : SUBSET Errors, out : Seq(Packet)]

Budget == [opens : Nat, data : Nat, requests : Nat, rekeys : Nat]

\* No two channels of the list have one id.
Unique(s) ==
    \A i, j \in DOMAIN s.channelList : s.channelList[i].channel = s.channelList[j].channel => i = j

\* Setups are counted by the ids of the channels that made one: an id, unlike
\* the channel, stays what it is.
OwedIds(s) == {s.channelList[i].channel : i \in {j \in DOMAIN s.channelList : s.channelList[j].fwdSetupTxd}}
Owed(s) == s.setups = Cardinality(OwedIds(s))

Good(s) == s \in Session /\ Unique(s) /\ Owed(s)

\* The inductive invariant.
IInv ==
    /\ session \in [Ends -> Session]
    /\ wire \in [Ends -> Seq(Packet)]
    /\ used \in [Ends -> Budget]
    /\ \A e \in Ends : Unique(session[e]) /\ Owed(session[e]) /\ session[e].out = <<>>

----------------------------------------------------------------------------
(* The fields of a session and of a channel.                               *)

LEMMA Fields ==
    ASSUME NEW s \in Session
    PROVE  /\ s.channelList \in Seq(Channel) /\ s.nextChannel \in Ids /\ s.setups \in Nat
           /\ s.out \in Seq(Packet) /\ s.defaultPeerChannelId \in Ids
           /\ s.disconnected \in BOOLEAN /\ s.isKeying \in BOOLEAN
           /\ Len(s.channelList) \in Nat /\ DOMAIN s.channelList = 1 .. Len(s.channelList)
           /\ \A i \in DOMAIN s.channelList : s.channelList[i] \in Channel
  BY DEF Session

LEMMA ChannelFields ==
    ASSUME NEW c \in Channel
    PROVE  /\ c.channel \in Ids /\ c.peerChannel \in Ids /\ c.channelType \in Kinds
           /\ c.uid \in Uids /\ c.fwdSetupTxd \in BOOLEAN /\ c.openConfirmed \in BOOLEAN
           /\ c.closeTxd \in BOOLEAN
  BY DEF Channel

LEMMA PacketFields ==
    ASSUME NEW m \in Packet
    PROVE  /\ m \in Message
           /\ m.id \in Ids /\ m.from \in Ids /\ m.uid \in Uids \cup {<<>>}
           /\ m.type \in {"OPEN", "OPEN_CONF", "OPEN_FAIL", "EOF", "CLOSE", "DATA", "WINDOW_ADJUST",
                          "REQUEST", "SUCCESS", "FAILURE", "DISCONNECT"}
           /\ m.type = "OPEN" => m.kind \in Kinds /\ m.uid \in Uids
  BY DEF Packet, Message

LEMMA ZeroIsAnId == 0 \in Ids /\ IdSpace \in Nat \ {0}
  BY ChannelsAssumption DEF Ids

\* t holds the channels of s, with the same ids and the same setups: what
\* every handler that neither opens nor drops a channel leaves behind.
Kept(s, t) ==
    /\ t \in Session
    /\ Len(t.channelList) = Len(s.channelList)
    /\ \A i \in DOMAIN s.channelList :
          /\ t.channelList[i].channel = s.channelList[i].channel
          /\ t.channelList[i].fwdSetupTxd = s.channelList[i].fwdSetupTxd
    /\ t.setups = s.setups

LEMMA KeptRefl ==
    ASSUME NEW s \in Session
    PROVE  Kept(s, s)
  BY DEF Kept

LEMMA KeptTrans ==
    ASSUME NEW s \in Session, NEW t, NEW u, Kept(s, t), Kept(t, u)
    PROVE  Kept(s, u)
<1>1. t \in Session /\ DOMAIN t.channelList = DOMAIN s.channelList
  BY Fields DEF Kept
<1> QED BY <1>1 DEF Kept

\* A channel list with the same channels.
LEMMA KeptSameList ==
    ASSUME NEW s \in Session, NEW t \in Session,
           t.channelList = s.channelList, t.setups = s.setups
    PROVE  Kept(s, t)
  BY DEF Kept

LEMMA KeptGood ==
    ASSUME NEW s, NEW t, Good(s), Kept(s, t)
    PROVE  Good(t)
<1>1. s \in Session /\ t \in Session /\ DOMAIN t.channelList = DOMAIN s.channelList
  BY Fields DEF Kept, Good
<1>2. Unique(t)
  BY <1>1 DEF Kept, Good, Unique
<1>3. OwedIds(t) = OwedIds(s)
  BY <1>1 DEF Kept, OwedIds
<1> QED BY <1>1, <1>2, <1>3 DEF Kept, Good, Owed

\* One channel of the list is replaced by one with its id and its setup.
LEMMA UpdateKept ==
    ASSUME NEW s \in Session, NEW i \in DOMAIN s.channelList, NEW c \in Channel,
           c.channel = s.channelList[i].channel, c.fwdSetupTxd = s.channelList[i].fwdSetupTxd
    PROVE  Kept(s, [s EXCEPT !.channelList[i] = c])
<1> DEFINE l == [s.channelList EXCEPT ![i] = c]
           t == [s EXCEPT !.channelList[i] = c]
<1>1. /\ l \in Seq(Channel) /\ Len(l) = Len(s.channelList)
      /\ \A j \in DOMAIN s.channelList : l[j] = IF j = i THEN c ELSE s.channelList[j]
  BY Fields
<1>2. t \in Session /\ t.channelList = l /\ t.setups = s.setups
  <2>1. t = [s EXCEPT !.channelList = l]
    BY DEF Session
  <2> QED BY <2>1, <1>1 DEF Session
<1> QED BY <1>1, <1>2 DEF Kept

\* The fields the handlers set in a channel.
LEMMA SetFlagsKept ==
    ASSUME NEW s \in Session, NEW i \in DOMAIN s.channelList
    PROVE  /\ Kept(s, [s EXCEPT !.channelList[i].eofTxd = TRUE])
           /\ Kept(s, [s EXCEPT !.channelList[i].closeTxd = TRUE])
           /\ Kept(s, [s EXCEPT !.channelList[i].eofRxd = TRUE])
           /\ Kept(s, [s EXCEPT !.channelList[i].sessionGranted = TRUE])
           /\ \A v \in BOOLEAN : Kept(s, [s EXCEPT !.channelList[i].unread = v])
           /\ \A v \in BOOLEAN : Kept(s, [s EXCEPT !.channelList[i].pendingWindowAdjust = v])
<1> DEFINE c == s.channelList[i]
<1>1. c \in Channel
  BY Fields
<1>2. Kept(s, [s EXCEPT !.channelList[i].eofTxd = TRUE])
  <2> DEFINE d == [c EXCEPT !.eofTxd = TRUE]
  <2>1. d \in Channel /\ d.channel = c.channel /\ d.fwdSetupTxd = c.fwdSetupTxd
    BY <1>1 DEF Channel
  <2>2. [s EXCEPT !.channelList[i].eofTxd = TRUE] = [s EXCEPT !.channelList[i] = d]
    BY DEF Session
  <2> QED BY <2>1, <2>2, UpdateKept
<1>3. Kept(s, [s EXCEPT !.channelList[i].closeTxd = TRUE])
  <2> DEFINE d == [c EXCEPT !.closeTxd = TRUE]
  <2>1. d \in Channel /\ d.channel = c.channel /\ d.fwdSetupTxd = c.fwdSetupTxd
    BY <1>1 DEF Channel
  <2>2. [s EXCEPT !.channelList[i].closeTxd = TRUE] = [s EXCEPT !.channelList[i] = d]
    BY DEF Session
  <2> QED BY <2>1, <2>2, UpdateKept
<1>4. Kept(s, [s EXCEPT !.channelList[i].eofRxd = TRUE])
  <2> DEFINE d == [c EXCEPT !.eofRxd = TRUE]
  <2>1. d \in Channel /\ d.channel = c.channel /\ d.fwdSetupTxd = c.fwdSetupTxd
    BY <1>1 DEF Channel
  <2>2. [s EXCEPT !.channelList[i].eofRxd = TRUE] = [s EXCEPT !.channelList[i] = d]
    BY DEF Session
  <2> QED BY <2>1, <2>2, UpdateKept
<1>5. Kept(s, [s EXCEPT !.channelList[i].sessionGranted = TRUE])
  <2> DEFINE d == [c EXCEPT !.sessionGranted = TRUE]
  <2>1. d \in Channel /\ d.channel = c.channel /\ d.fwdSetupTxd = c.fwdSetupTxd
    BY <1>1 DEF Channel
  <2>2. [s EXCEPT !.channelList[i].sessionGranted = TRUE] = [s EXCEPT !.channelList[i] = d]
    BY DEF Session
  <2> QED BY <2>1, <2>2, UpdateKept
<1>6. ASSUME NEW v \in BOOLEAN
      PROVE  Kept(s, [s EXCEPT !.channelList[i].unread = v])
  <2> DEFINE d == [c EXCEPT !.unread = v]
  <2>1. d \in Channel /\ d.channel = c.channel /\ d.fwdSetupTxd = c.fwdSetupTxd
    BY <1>1 DEF Channel
  <2>2. [s EXCEPT !.channelList[i].unread = v] = [s EXCEPT !.channelList[i] = d]
    BY DEF Session
  <2> QED BY <2>1, <2>2, UpdateKept
<1>7. ASSUME NEW v \in BOOLEAN
      PROVE  Kept(s, [s EXCEPT !.channelList[i].pendingWindowAdjust = v])
  <2> DEFINE d == [c EXCEPT !.pendingWindowAdjust = v]
  <2>1. d \in Channel /\ d.channel = c.channel /\ d.fwdSetupTxd = c.fwdSetupTxd
    BY <1>1 DEF Channel
  <2>2. [s EXCEPT !.channelList[i].pendingWindowAdjust = v] = [s EXCEPT !.channelList[i] = d]
    BY DEF Session
  <2> QED BY <2>1, <2>2, UpdateKept
<1> QED BY <1>2, <1>3, <1>4, <1>5, <1>6, <1>7

----------------------------------------------------------------------------
(* Finding a channel.                                                      *)

\* FirstOf() gives an index of the set it searches, unless that is empty.
LEMMA FirstOfFinds ==
    ASSUME NEW S, S \subseteq Nat \ {0}
    PROVE  /\ FirstOf(S) # 0 <=> S # {}
           /\ S # {} => FirstOf(S) \in S
<1>1. CASE S = {}
  BY <1>1 DEF FirstOf
<1>2. CASE S # {}
  <2>1. \E i \in S : \A j \in S : i <= j
    BY <1>2, LeastNatural
  <2>2. FirstOf(S) \in S
    BY <2>1, <1>2 DEF FirstOf
  <2> QED BY <2>2, <1>2
<1> QED BY <1>1, <1>2

\* ChannelFind() returns a channel of the list with the id it was given.
LEMMA FindFinds ==
    ASSUME NEW s \in Session, NEW id
    PROVE  /\ FindSelf(s, id) # 0 =>
                /\ FindSelf(s, id) \in DOMAIN s.channelList
                /\ s.channelList[FindSelf(s, id)].channel = id
           /\ FindPeer(s, id) # 0 =>
                /\ FindPeer(s, id) \in DOMAIN s.channelList
                /\ s.channelList[FindPeer(s, id)].peerChannel = id
           /\ (\E i \in DOMAIN s.channelList : s.channelList[i].channel = id) => FindSelf(s, id) # 0
<1> DEFINE A == {i \in DOMAIN s.channelList : s.channelList[i].channel = id}
           B == {i \in DOMAIN s.channelList : s.channelList[i].peerChannel = id}
<1>1. A \subseteq Nat \ {0} /\ B \subseteq Nat \ {0}
  BY Fields
<1>2. FirstOf(A) # 0 <=> A # {}
  BY <1>1, FirstOfFinds
<1>3. A # {} => FirstOf(A) \in A
  BY <1>1, FirstOfFinds
<1>4. FirstOf(B) # 0 => FirstOf(B) \in B
  BY <1>1, FirstOfFinds
<1> QED BY <1>2, <1>3, <1>4 DEF FindSelf, FindPeer

----------------------------------------------------------------------------
(* Senders.                                                                *)

LEMMA SendKept ==
    ASSUME NEW s \in Session, NEW m \in Packet
    PROVE  Kept(s, Send(s, m))
<1>1. Append(s.out, m) \in Seq(Packet)
  BY Fields
<1>2. Send(s, m) \in Session /\ Send(s, m).channelList = s.channelList /\ Send(s, m).setups = s.setups
  BY <1>1 DEF Send, Session
<1> QED BY <1>2, KeptSameList

LEMMA MsgIsPacket ==
    ASSUME NEW type, NEW id \in Ids, NEW from \in Ids, NEW kind, NEW uid \in Uids \cup {<<>>},
           type \in {"OPEN_CONF", "OPEN_FAIL", "EOF", "CLOSE", "DATA", "WINDOW_ADJUST",
                     "REQUEST", "SUCCESS", "FAILURE", "DISCONNECT"},
           kind \in Kinds \cup {"shell", "agent-req", "resize", "exit", "none"}
    PROVE  Msg(type, id, from, kind, uid) \in Packet
  BY DEF Msg, Packet, Message

LEMMA SendAboutKept ==
    ASSUME NEW s \in Session, NEW c \in Channel, NEW type,
           type \in {"EOF", "CLOSE", "DATA", "WINDOW_ADJUST", "SUCCESS", "FAILURE"}
    PROVE  Kept(s, SendAbout(s, type, c))
<1>1. Msg(type, c.peerChannel, 0, "none", c.uid) \in Packet
  BY ChannelFields, ZeroIsAnId, MsgIsPacket
<1> QED BY <1>1, SendKept DEF SendAbout

\* SendAbout() leaves the list itself alone.
LEMMA SendAboutList ==
    ASSUME NEW s \in Session, NEW c, NEW type
    PROVE  SendAbout(s, type, c).channelList = s.channelList
  BY DEF SendAbout, Send, Session

LEMMA SendChannelEofKept ==
    ASSUME NEW s \in Session, NEW id
    PROVE  Kept(s, SendChannelEof(s, id))
<1> DEFINE i == FindPeer(s, id)  t == SendAbout(s, "EOF", s.channelList[i])
<1>1. CASE i = 0 \/ s.channelList[i].eofTxd
  BY <1>1, KeptRefl DEF SendChannelEof
<1>2. CASE ~(i = 0 \/ s.channelList[i].eofTxd)
  <2>1. i \in DOMAIN s.channelList /\ s.channelList[i] \in Channel
    BY <1>2, FindFinds, Fields
  <2>2. Kept(s, t) /\ t \in Session /\ t.channelList = s.channelList
    BY <2>1, SendAboutKept, SendAboutList DEF Kept
  <2>3. Kept(t, [t EXCEPT !.channelList[i].eofTxd = TRUE])
    BY <2>1, <2>2, SetFlagsKept
  <2> QED BY <1>2, <2>2, <2>3, KeptTrans DEF SendChannelEof
<1> QED BY <1>1, <1>2

LEMMA SendChannelCloseKept ==
    ASSUME NEW s \in Session, NEW id
    PROVE  Kept(s, SendChannelClose(s, id))
<1> DEFINE i == FindPeer(s, id)  t == SendAbout(s, "CLOSE", s.channelList[i])
<1>1. CASE i = 0 \/ s.channelList[i].closeTxd
  BY <1>1, KeptRefl DEF SendChannelClose
<1>2. CASE ~(i = 0 \/ s.channelList[i].closeTxd)
  <2>1. i \in DOMAIN s.channelList /\ s.channelList[i] \in Channel
    BY <1>2, FindFinds, Fields
  <2>2. Kept(s, t) /\ t \in Session /\ t.channelList = s.channelList
    BY <2>1, SendAboutKept, SendAboutList DEF Kept
  <2>3. Kept(t, [t EXCEPT !.channelList[i].closeTxd = TRUE])
    BY <2>1, <2>2, SetFlagsKept
  <2> QED BY <1>2, <2>2, <2>3, KeptTrans DEF SendChannelClose
<1> QED BY <1>1, <1>2

LEMMA SendChannelRequestKept ==
    ASSUME NEW s \in Session, NEW id \in Ids, NEW kind \in {"shell", "agent-req", "resize", "exit"}
    PROVE  Kept(s, SendChannelRequest(s, id, kind))
<1> DEFINE i == FindPeer(s, id)
<1>1. CASE i = 0
  BY <1>1, KeptRefl DEF SendChannelRequest
<1>2. CASE i # 0
  <2>1. s.channelList[i] \in Channel
    BY <1>2, FindFinds, Fields
  <2>2. Msg("REQUEST", id, 0, kind, s.channelList[i].uid) \in Packet
    BY <2>1, ChannelFields, ZeroIsAnId, MsgIsPacket
  <2> QED BY <1>2, <2>2, SendKept DEF SendChannelRequest
<1> QED BY <1>1, <1>2

LEMMA ChannelCreditWindowKept ==
    ASSUME NEW s \in Session, NEW i \in DOMAIN s.channelList
    PROVE  Kept(s, ChannelCreditWindow(s, i))
<1> DEFINE t == SendAbout(s, "WINDOW_ADJUST", s.channelList[i])
<1>1. CASE s.isKeying
  BY <1>1, SetFlagsKept DEF ChannelCreditWindow
<1>2. CASE ~s.isKeying
  <2>1. s.channelList[i] \in Channel
    BY Fields
  <2>2. Kept(s, t) /\ t \in Session /\ t.channelList = s.channelList
    BY <2>1, SendAboutKept, SendAboutList DEF Kept
  <2>3. Kept(t, [t EXCEPT !.channelList[i].pendingWindowAdjust = FALSE])
    BY <2>2, SetFlagsKept
  <2> QED BY <1>2, <2>2, <2>3, KeptTrans DEF ChannelCreditWindow
<1> QED BY <1>1, <1>2

\* PendingAdjusts() is well defined and gives the adjusts that are owed: by
\* induction on how much of the list it has walked.
LEMMA PendingAdjustsIn ==
    ASSUME NEW list \in Seq(Channel), NEW S,
           \A n \in 1 .. Len(list) : list[n].pendingWindowAdjust =>
               Msg("WINDOW_ADJUST", list[n].peerChannel, 0, "none", list[n].uid) \in S
    PROVE  PendingAdjusts(list) \in Seq(S)
<1> DEFINE N == Len(list)
           M(n) == Msg("WINDOW_ADJUST", list[n].peerChannel, 0, "none", list[n].uid)
           Walk(f, n) == IF n = 0 THEN <<>>
                         ELSE IF list[n].pendingWindowAdjust THEN Append(f[n - 1], M(n))
                         ELSE f[n - 1]
           Ok(n) == {f \in [0 .. n -> Seq(S)] : \A k \in 0 .. n : f[k] = Walk(f, k)}
<1>1. N \in Nat
  OBVIOUS
<1>2. ASSUME NEW n \in 1 .. N, list[n].pendingWindowAdjust PROVE M(n) \in S
  BY <1>2
<1>3. ASSUME NEW n \in Nat PROVE n <= N => Ok(n) # {}
  <2> DEFINE T == {k \in Nat : k <= N => Ok(k) # {}}
  <2>1. 0 \in T
    <3> DEFINE f == [k \in 0 .. 0 |-> <<>>]
    <3>1. f \in [0 .. 0 -> Seq(S)] /\ \A k \in 0 .. 0 : f[k] = Walk(f, k)
      OBVIOUS
    <3>2. f \in Ok(0)
      BY <3>1
    <3> QED BY <3>2
  <2>2. ASSUME NEW k \in Nat, k \in T PROVE k + 1 \in T
    <3>1. SUFFICES ASSUME k + 1 <= N PROVE Ok(k + 1) # {}
      <4> HIDE DEF Ok
      <4> QED OBVIOUS
    <3>2. PICK f \in [0 .. k -> Seq(S)] : \A j \in 0 .. k : f[j] = Walk(f, j)
      <4>1. Ok(k) # {}
        <5> HIDE DEF Ok
        <5> QED BY <2>2, <3>1, <1>1
      <4> HIDE DEF Walk
      <4> QED BY <4>1
    <3> DEFINE v == IF list[k + 1].pendingWindowAdjust THEN Append(f[k], M(k + 1)) ELSE f[k]
               g == [j \in 0 .. k + 1 |-> IF j = k + 1 THEN v ELSE f[j]]
    <3>3. v \in Seq(S)
      <4>1. list[k + 1].pendingWindowAdjust => M(k + 1) \in S
        BY <1>2, <3>1, <1>1
      <4>2. f[k] \in Seq(S)
        BY <3>2
      <4> HIDE DEF M
      <4> QED BY <4>1, <4>2
    <3>4. g \in [0 .. k + 1 -> Seq(S)]
      <4> HIDE DEF v
      <4> QED BY <3>3, <3>2
    <3>5. ASSUME NEW j \in 0 .. k + 1 PROVE g[j] = Walk(g, j)
      <4>1. CASE j = k + 1
        <5>1. g[j] = v /\ j # 0 /\ j - 1 = k /\ g[j - 1] = f[k]
          BY <4>1
        <5> QED BY <5>1, <4>1
      <4>2. CASE j = 0
        <5>1. g[j] = f[0] /\ f[0] = Walk(f, 0)
          BY <4>2, <3>2
        <5> QED BY <5>1, <4>2
      <4>3. CASE j \in 1 .. k
        <5>1. f[j] = Walk(f, j)
          BY <4>3, <3>2
        <5>2. g[j] = f[j] /\ j # 0 /\ g[j - 1] = f[j - 1]
          BY <4>3
        <5> HIDE DEF g, M
        <5> QED BY <5>1, <5>2
      <4> QED BY <4>1, <4>2, <4>3
    <3>6. g \in Ok(k + 1)
      BY <3>4, <3>5
    <3> QED BY <3>6
  <2>3. Nat \subseteq T
    <3> HIDE DEF T
    <3> QED BY <2>1, <2>2, NaturalInduction
  <2> QED BY <2>3
<1>4. PICK f \in [0 .. N -> Seq(S)] : \A k \in 0 .. N : f[k] = Walk(f, k)
  <2>1. Ok(N) # {}
    <3> HIDE DEF Ok
    <3> QED BY <1>1, <1>3
  <2> HIDE DEF Walk
  <2> QED BY <2>1
<1> DEFINE IsWalk(g) == g = [k \in 0 .. N |-> Walk(g, k)]
           h == CHOOSE g : IsWalk(g)
<1>5. IsWalk(f)
  BY <1>4
<1>6. IsWalk(h)
  BY <1>5
<1>7. ASSUME NEW n \in Nat PROVE n <= N => h[n] \in Seq(S)
  <2> DEFINE T == {k \in Nat : k <= N => h[k] \in Seq(S)}
  <2>0. \A k \in 0 .. N : h[k] = Walk(h, k)
    <3> HIDE DEF h
    <3> QED BY <1>6
  <2> HIDE DEF h
  <2>1. 0 \in T
    <3>1. h[0] = Walk(h, 0)
      BY <2>0, <1>1
    <3>2. h[0] = <<>>
      BY <3>1
    <3>3. h[0] \in Seq(S)
      BY <3>2
    <3> QED BY <3>3
  <2>2. ASSUME NEW k \in Nat, k \in T PROVE k + 1 \in T
    <3>1. SUFFICES ASSUME k + 1 <= N PROVE h[k + 1] \in Seq(S)
      OBVIOUS
    <3>2. /\ h[k] \in Seq(S) /\ k + 1 # 0 /\ (k + 1) - 1 = k
          /\ list[k + 1].pendingWindowAdjust => M(k + 1) \in S
      BY <2>2, <3>1, <1>1, <1>2
    <3>3. h[k + 1] = Walk(h, k + 1)
      BY <2>0, <3>1, <1>1
    <3> HIDE DEF M
    <3> QED BY <3>2, <3>3
  <2>3. Nat \subseteq T
    <3> HIDE DEF T
    <3> QED BY <2>1, <2>2, NaturalInduction
  <2> QED BY <2>3
<1>8. PendingAdjusts(list) = h[N]
  BY DEF PendingAdjusts
<1> HIDE DEF h
<1> QED BY <1>1, <1>7, <1>8

LEMMA PendingAdjustsType ==
    ASSUME NEW list \in Seq(Channel)
    PROVE  PendingAdjusts(list) \in Seq(Packet)
<1>1. ASSUME NEW n \in 1 .. Len(list)
      PROVE  Msg("WINDOW_ADJUST", list[n].peerChannel, 0, "none", list[n].uid) \in Packet
  BY ChannelFields, ZeroIsAnId, MsgIsPacket
<1> QED BY <1>1, PendingAdjustsIn

LEMMA SendPendingKept ==
    ASSUME NEW s \in Session
    PROVE  Kept(s, SendPendingChannelWindowAdjust(s))
<1> DEFINE l == [i \in DOMAIN s.channelList |-> [s.channelList[i] EXCEPT !.pendingWindowAdjust = FALSE]]
           q == PendingAdjusts(s.channelList)
           t == SendPendingChannelWindowAdjust(s)
<1>1. q \in Seq(Packet)
  BY Fields, PendingAdjustsType
<1>2. ASSUME NEW i \in DOMAIN s.channelList
      PROVE  /\ l[i] \in Channel
             /\ l[i].channel = s.channelList[i].channel
             /\ l[i].fwdSetupTxd = s.channelList[i].fwdSetupTxd
  <2>1. s.channelList[i] \in Channel
    BY Fields
  <2> QED BY <2>1 DEF Channel
<1>3. l \in Seq(Channel) /\ Len(l) = Len(s.channelList)
  <2>1. l \in [1 .. Len(s.channelList) -> Channel] /\ Len(s.channelList) \in Nat
    BY <1>2, Fields
  <2> HIDE DEF l
  <2> QED BY <2>1
<1>4. s.out \o q \in Seq(Packet)
  BY <1>1, Fields
<1>5. t \in Session /\ t.channelList = l /\ t.setups = s.setups
  <2>1. t = [s EXCEPT !.out = s.out \o q, !.channelList = l]
    BY DEF SendPendingChannelWindowAdjust, Session
  <2> HIDE DEF l, q, t
  <2> QED BY <2>1, <1>3, <1>4 DEF Session
<1>6. Kept(s, t)
  <2> HIDE DEF l, t
  <2> QED BY <1>2, <1>3, <1>5 DEF Kept
<1> QED BY <1>6

\* The fields that are not about the list.
LEMMA StateKept ==
    ASSUME NEW s \in Session
    PROVE  /\ Kept(s, [s EXCEPT !.disconnected = TRUE])
           /\ \A b \in BOOLEAN : Kept(s, [s EXCEPT !.isKeying = b])
           /\ Kept(s, [s EXCEPT !.useAgent = TRUE])
           /\ Kept(s, [s EXCEPT !.agent = TRUE])
           /\ \A v \in States : Kept(s, [s EXCEPT !.connectState = v])
           /\ \A v \in States : Kept(s, [s EXCEPT !.acceptState = v])
           /\ \A v \in States : Kept(s, [s EXCEPT !.clientState = v])
           /\ \A v \in States : Kept(s, [s EXCEPT !.serverState = v])
           /\ \A v \in States, id \in Ids : Kept(s, [s EXCEPT !.serverState = v, !.defaultPeerChannelId = id])
           /\ \A v \in Errors : Kept(s, Refuse(s, v))
           /\ Kept(s, [s EXCEPT !.out = <<>>])
<1> DEFINE Same(t) == t \in Session /\ t.channelList = s.channelList /\ t.setups = s.setups
<1>0. <<>> \in Seq(Packet)
  OBVIOUS
<1>1. Same([s EXCEPT !.disconnected = TRUE])
  BY DEF Session
<1>2. \A b \in BOOLEAN : Same([s EXCEPT !.isKeying = b])
  BY DEF Session
<1>3. Same([s EXCEPT !.useAgent = TRUE])
  BY DEF Session
<1>4. Same([s EXCEPT !.agent = TRUE])
  BY DEF Session
<1>5. \A v \in States : Same([s EXCEPT !.connectState = v])
  BY DEF Session
<1>6. \A v \in States : Same([s EXCEPT !.acceptState = v])
  BY DEF Session
<1>7. \A v \in States : Same([s EXCEPT !.clientState = v])
  BY DEF Session
<1>8. \A v \in States : Same([s EXCEPT !.serverState = v])
  BY DEF Session
<1>9. \A v \in States, id \in Ids : Same([s EXCEPT !.serverState = v, !.defaultPeerChannelId = id])
  BY DEF Session
<1>10. \A v \in Errors : Same(Refuse(s, v))
  BY DEF Session, Refuse
<1>11. Same([s EXCEPT !.out = <<>>])
  BY <1>0 DEF Session
<1>12. \A t : Same(t) => Kept(s, t)
  BY KeptSameList
<1> HIDE DEF Same
<1> QED BY <1>1, <1>2, <1>3, <1>4, <1>5, <1>6, <1>7, <1>8, <1>9, <1>10, <1>11, <1>12

\* An error that ends the session.
LEMMA NotOutstandingKept ==
    ASSUME NEW s \in Session
    PROVE  Kept(s, NotOutstanding(s))
<1> DEFINE m == Msg("DISCONNECT", 0, 0, "none", <<>>)
<1>1. m \in Packet
  BY ZeroIsAnId, MsgIsPacket
<1>2. Kept(s, Send(s, m)) /\ Send(s, m) \in Session
  BY <1>1, SendKept DEF Kept
<1>3. Kept(Send(s, m), SendDisconnect(s)) /\ SendDisconnect(s) \in Session
  BY <1>2, StateKept DEF SendDisconnect, Kept
<1>4. Kept(SendDisconnect(s), NotOutstanding(s))
  <2>1. "WS_INVALID_STATE_E" \in Errors
    BY DEF Errors
  <2>2. Kept(SendDisconnect(s), Refuse(SendDisconnect(s), "WS_INVALID_STATE_E"))
    BY <1>3, <2>1, StateKept, Zenon
  <2> QED BY <2>2 DEF NotOutstanding
<1> QED BY <1>2, <1>3, <1>4, KeptTrans

----------------------------------------------------------------------------
(* Ids are taken and channels come and go.                                 *)

LEMMA Modulo ==
    ASSUME NEW n \in Nat \ {0}, NEW x \in Nat
    PROVE  /\ x % n \in 0 .. n - 1
           /\ x < n => x % n = x /\ (x + n) % n = x
  OBVIOUS

LEMMA InUseFinite ==
    ASSUME NEW s \in Session
    PROVE  /\ InUse(s) \subseteq Ids /\ IsFiniteSet(InUse(s))
           /\ OwedIds(s) \subseteq InUse(s) /\ IsFiniteSet(OwedIds(s))
           /\ Cardinality(OwedIds(s)) \in Nat
<1>1. InUse(s) \subseteq Ids
  BY Fields, ChannelFields DEF InUse
<1>2. OwedIds(s) \subseteq InUse(s)
  BY DEF InUse, OwedIds
<1>3. IsFiniteSet(Ids)
  BY FS_Interval, ZeroIsAnId DEF Ids
<1>4. IsFiniteSet(InUse(s)) /\ IsFiniteSet(OwedIds(s))
  BY <1>1, <1>2, <1>3, FS_Subset
<1>5. Cardinality(OwedIds(s)) \in Nat
  BY <1>4, FS_CardinalityType
<1> QED BY <1>1, <1>2, <1>4, <1>5

\* ChannelNew() takes an id that no channel holds, wherever nextChannel
\* stands, as long as there is one.
LEMMA NewIdIsFree ==
    ASSUME NEW s \in Session, Cardinality(InUse(s)) < IdSpace
    PROVE  ChannelNewId(s) \in Ids /\ ChannelNewId(s) \notin InUse(s)
<1> DEFINE Nth(k) == (s.nextChannel + k) % IdSpace
           K == {k \in Ids : Nth(k) \notin InUse(s)}
<1>1. IdSpace \in Nat \ {0} /\ s.nextChannel \in Ids
  BY ZeroIsAnId, Fields
<1>2. ASSUME NEW k \in Ids PROVE Nth(k) \in Ids
  <2>1. s.nextChannel + k \in Nat
    BY <1>1 DEF Ids
  <2> QED BY <2>1, <1>1, Modulo DEF Ids
<1>3. PICK x \in Ids : x \notin InUse(s)
  <2>1. Cardinality(Ids) = IdSpace
    BY <1>1, FS_Interval DEF Ids
  <2>2. InUse(s) # Ids
    BY <2>1, <1>1
  <2> QED BY <2>2, InUseFinite
<1>4. K # {}
  <2>1. CASE x >= s.nextChannel
    <3>1. x - s.nextChannel \in Ids /\ s.nextChannel + (x - s.nextChannel) = x /\ x \in Nat /\ x < IdSpace
      BY <2>1, <1>1 DEF Ids
    <3>2. Nth(x - s.nextChannel) = x
      BY <3>1, <1>1, Modulo
    <3> QED BY <3>1, <3>2, <1>3
  <2>2. CASE x < s.nextChannel
    <3> DEFINE k == x + IdSpace - s.nextChannel
    <3>1. k \in Ids /\ s.nextChannel + k = x + IdSpace /\ x \in Nat /\ x < IdSpace
      BY <2>2, <1>1 DEF Ids
    <3>2. Nth(k) = x
      BY <3>1, <1>1, Modulo
    <3> QED BY <3>1, <3>2, <1>3
  <2> QED BY <2>1, <2>2, <1>1 DEF Ids
<1>5. PICK k \in K : \A j \in K : k <= j
  <2>1. K \subseteq Nat
    BY DEF Ids
  <2> QED BY <2>1, <1>4, LeastNatural
<1> DEFINE First(i) == i \in Ids /\ Nth(i) \notin InUse(s) /\ \A j \in 0 .. i - 1 : Nth(j) \in InUse(s)
<1>6. First(k)
  <2>1. k \in Ids /\ Nth(k) \notin InUse(s)
    BY <1>5
  <2>2. ASSUME NEW j \in 0 .. k - 1 PROVE Nth(j) \in InUse(s)
    <3>1. j \in Ids /\ ~(k <= j)
      BY <2>1, <1>1 DEF Ids
    <3>2. j \notin K
      BY <3>1, <1>5
    <3> QED BY <3>1, <3>2
  <2> QED BY <2>1, <2>2
<1> DEFINE k0 == CHOOSE i \in Ids : /\ Nth(i) \notin InUse(s)
                                    /\ \A j \in 0 .. i - 1 : Nth(j) \in InUse(s)
<1>7. k0 \in Ids /\ Nth(k0) \notin InUse(s)
  <2> HIDE DEF Nth
  <2> QED BY <1>6
<1>8. ChannelNewId(s) = Nth(k0)
  BY DEF ChannelNewId
<1> HIDE DEF k0
<1> QED BY <1>2, <1>7, <1>8

\* A new channel under a free id joins the list; its setup is counted.
LEMMA AppendGood ==
    ASSUME NEW s, Good(s), NEW c \in Channel, c.channel \notin InUse(s),
           NEW t \in Session, t.channelList = Append(s.channelList, c),
           t.setups = IF c.fwdSetupTxd THEN s.setups + 1 ELSE s.setups
    PROVE  Good(t)
<1> DEFINE n == Len(s.channelList)
<1>1. s \in Session /\ n \in Nat /\ s.channelList \in Seq(Channel) /\ DOMAIN s.channelList = 1 .. n
  BY Fields DEF Good
<1>2. /\ DOMAIN t.channelList = 1 .. n + 1 /\ t.channelList[n + 1] = c
      /\ \A i \in 1 .. n : t.channelList[i] = s.channelList[i]
  BY <1>1
<1>3. \A i \in 1 .. n : s.channelList[i].channel # c.channel
  BY <1>1 DEF InUse
<1>4. Unique(t)
  <2>1. SUFFICES ASSUME NEW i \in 1 .. n + 1, NEW j \in 1 .. n + 1,
                        t.channelList[i].channel = t.channelList[j].channel
                 PROVE  i = j
    BY <1>2 DEF Unique
  <2>2. CASE i \in 1 .. n /\ j \in 1 .. n
    BY <2>1, <2>2, <1>1, <1>2 DEF Good, Unique
  <2>3. CASE i = n + 1 /\ j \in 1 .. n
    BY <2>1, <2>3, <1>2, <1>3
  <2>4. CASE i \in 1 .. n /\ j = n + 1
    BY <2>1, <2>4, <1>2, <1>3
  <2> QED BY <2>2, <2>3, <2>4, <1>1
<1>5. OwedIds(t) = IF c.fwdSetupTxd THEN OwedIds(s) \cup {c.channel} ELSE OwedIds(s)
  <2>1. ASSUME NEW x \in OwedIds(t)
        PROVE  x \in OwedIds(s) \/ (c.fwdSetupTxd /\ x = c.channel)
    <3>1. PICK j \in 1 .. n + 1 : t.channelList[j].fwdSetupTxd /\ x = t.channelList[j].channel
      BY <2>1, <1>2 DEF OwedIds
    <3>2. CASE j \in 1 .. n
      BY <3>1, <3>2, <1>1, <1>2 DEF OwedIds
    <3>3. CASE j = n + 1
      BY <3>1, <3>3, <1>2
    <3> QED BY <3>2, <3>3, <1>1
  <2>2. ASSUME NEW x \in OwedIds(s)
        PROVE  x \in OwedIds(t)
    <3>1. PICK j \in 1 .. n : s.channelList[j].fwdSetupTxd /\ x = s.channelList[j].channel
      BY <2>2, <1>1 DEF OwedIds
    <3>2. j \in 1 .. n + 1 /\ t.channelList[j] = s.channelList[j]
      BY <1>1, <1>2
    <3> QED BY <3>1, <3>2, <1>2 DEF OwedIds
  <2>3. c.fwdSetupTxd => c.channel \in OwedIds(t)
    <3>1. n + 1 \in 1 .. n + 1
      BY <1>1
    <3> QED BY <3>1, <1>2 DEF OwedIds
  <2> QED BY <2>1, <2>2, <2>3
<1>6. /\ IsFiniteSet(OwedIds(s)) /\ Cardinality(OwedIds(s)) \in Nat
      /\ c.channel \notin OwedIds(s) /\ s.setups = Cardinality(OwedIds(s))
  BY <1>1, InUseFinite DEF Good, Owed
<1>7. Cardinality(OwedIds(s) \cup {c.channel}) = Cardinality(OwedIds(s)) + 1
  BY <1>6, FS_AddElement
<1>8. Owed(t)
  BY <1>5, <1>6, <1>7 DEF Owed
<1> QED BY <1>4, <1>8 DEF Good

\* A channel leaves the list, and its setup is given back: ChannelRemove().
LEMMA RemoveGood ==
    ASSUME NEW s, Good(s), NEW i \in DOMAIN s.channelList
    PROVE  Good(ChannelRemove(s, i))
<1> DEFINE n == Len(s.channelList)
           list == s.channelList
           r == SubSeq(list, 1, i - 1) \o SubSeq(list, i + 1, n)
           t == ChannelRemove(s, i)
           c == list[i]
           At(j) == IF j < i THEN j ELSE j + 1
<1>1. /\ s \in Session /\ n \in Nat /\ list \in Seq(Channel) /\ DOMAIN list = 1 .. n /\ i \in 1 .. n
      /\ c \in Channel /\ s.setups \in Nat
  BY Fields DEF Good
<1>2. r \in Seq(Channel) /\ Len(r) = n - 1 /\ DOMAIN r = 1 .. n - 1
  <2>1. r \in Seq(Channel) /\ Len(r) = n - 1
    BY <1>1, WithoutAt
  <2> HIDE DEF r
  <2> QED BY <2>1
<1>3. ASSUME NEW j \in 1 .. n - 1
      PROVE  At(j) \in 1 .. n /\ At(j) # i /\ r[j] = list[At(j)]
  <2>1. r[j] = IF j < i THEN list[j] ELSE list[j + 1]
    BY <1>1, WithoutAt
  <2> HIDE DEF r
  <2> QED BY <2>1, <1>1
<1>4. /\ IsFiniteSet(OwedIds(s)) /\ Cardinality(OwedIds(s)) \in Nat
      /\ s.setups = Cardinality(OwedIds(s))
  BY <1>1, InUseFinite DEF Good, Owed
<1>5. c.fwdSetupTxd => c.channel \in OwedIds(s)
  BY <1>1 DEF OwedIds
<1>6. Cardinality(OwedIds(s) \ {c.channel}) \in Nat
  BY <1>4, FS_RemoveElement, FS_CardinalityType
<1>7. ASSUME c.fwdSetupTxd PROVE Cardinality(OwedIds(s) \ {c.channel}) = s.setups - 1
  <2> DEFINE O == OwedIds(s)  x == c.channel
  <2>1. x \in O /\ IsFiniteSet(O) /\ s.setups = Cardinality(O)
    BY <1>4, <1>5, <1>7
  <2> HIDE DEF O, x
  <2>2. Cardinality(O \ {x}) = s.setups - 1
    BY <2>1, FS_RemoveElement
  <2> QED BY <2>2 DEF O, x
<1>8. /\ t \in Session /\ t.channelList = r
      /\ t.setups = IF c.fwdSetupTxd THEN s.setups - 1 ELSE s.setups
  <2>1. (IF c.fwdSetupTxd THEN s.setups - 1 ELSE s.setups) \in Nat
    BY <1>1, <1>6, <1>7
  <2>2. t = [s EXCEPT !.setups = IF c.fwdSetupTxd THEN s.setups - 1 ELSE s.setups, !.channelList = r]
    BY <1>1 DEF ChannelRemove, ChannelDelete, Session
  <2> HIDE DEF r, t
  <2> QED BY <1>1, <1>2, <2>1, <2>2 DEF Session
<1>9. Unique(t)
  <2>1. SUFFICES ASSUME NEW j \in 1 .. n - 1, NEW k \in 1 .. n - 1, r[j].channel = r[k].channel
                 PROVE  j = k
    BY <1>2, <1>8 DEF Unique
  <2>2. list[At(j)].channel = list[At(k)].channel /\ At(j) \in 1 .. n /\ At(k) \in 1 .. n
    <3> HIDE DEF At, r
    <3> QED BY <2>1, <1>3
  <2>3. At(j) = At(k)
    <3> HIDE DEF At
    <3> QED BY <2>2, <1>1 DEF Good, Unique
  <2> QED BY <2>3, <1>1
<1>10. OwedIds(t) = IF c.fwdSetupTxd THEN OwedIds(s) \ {c.channel} ELSE OwedIds(s)
  <2>1. ASSUME NEW x \in OwedIds(t)
        PROVE  x \in OwedIds(s) /\ x # c.channel
    <3>1. PICK j \in 1 .. n - 1 : r[j].fwdSetupTxd /\ x = r[j].channel
      BY <2>1, <1>2, <1>8 DEF OwedIds
    <3>2. At(j) \in 1 .. n /\ At(j) # i /\ r[j] = list[At(j)]
      BY <3>1, <1>3
    <3> HIDE DEF At, r
    <3> QED BY <3>1, <3>2, <1>1 DEF OwedIds, Good, Unique
  <2>2. ASSUME NEW x \in OwedIds(s), c.fwdSetupTxd => x # c.channel
        PROVE  x \in OwedIds(t)
    <3>1. PICK k \in 1 .. n : list[k].fwdSetupTxd /\ x = list[k].channel
      BY <2>2, <1>1 DEF OwedIds
    <3>2. k # i
      BY <3>1, <2>2
    <3> DEFINE j == IF k < i THEN k ELSE k - 1
    <3>3. j \in 1 .. n - 1 /\ At(j) = k
      BY <3>2, <1>1
    <3>4. r[j] = list[k]
      BY <3>3, <1>3
    <3> HIDE DEF j, r
    <3> QED BY <3>1, <3>3, <3>4, <1>2, <1>8 DEF OwedIds
  <2> QED BY <2>1, <2>2, <1>5
<1>11. Owed(t)
  BY <1>4, <1>7, <1>8, <1>10 DEF Owed
<1>12. Good(t)
  BY <1>8, <1>9, <1>11 DEF Good
<1> QED BY <1>12

\* The channel ChannelNew() makes.
LEMMA NewChannel ==
    ASSUME NEW s \in Session, Cardinality(InUse(s)) < IdSpace, NEW kind \in Kinds, NEW uid \in Uids
    PROVE  /\ ChannelNew(s, kind, uid) \in Channel
           /\ ChannelNew(s, kind, uid).channel = ChannelNewId(s)
           /\ ChannelNew(s, kind, uid).fwdSetupTxd = FALSE
           /\ ChannelNew(s, kind, uid).channelType = kind
           /\ ChannelNew(s, kind, uid).uid = uid
           /\ ChannelNewId(s) \in Ids /\ ChannelNewId(s) \notin InUse(s)
<1>1. ChannelNewId(s) \in Ids /\ ChannelNewId(s) \notin InUse(s)
  BY NewIdIsFree
<1>2. 0 \in Ids
  BY ZeroIsAnId
<1> QED BY <1>1, <1>2 DEF ChannelNew, Channel

LEMMA AllocatedKept ==
    ASSUME NEW s \in Session, Cardinality(InUse(s)) < IdSpace
    PROVE  /\ Kept(s, Allocated(s))
           /\ Allocated(s).channelList = s.channelList
           /\ Allocated(s).setups = s.setups
<1>1. ChannelNewId(s) \in Nat /\ IdSpace \in Nat \ {0}
  BY NewIdIsFree, ZeroIsAnId DEF Ids
<1>2. (ChannelNewId(s) + 1) % IdSpace \in Ids
  <2>1. ChannelNewId(s) + 1 \in Nat
    BY <1>1
  <2> QED BY <2>1, <1>1, Modulo DEF Ids
<1>3. Allocated(s) \in Session /\ Allocated(s).channelList = s.channelList /\ Allocated(s).setups = s.setups
  BY <1>2 DEF Allocated, Session
<1> QED BY <1>3, KeptSameList

\* An open that e makes itself.
LEMMA OpenedGood ==
    ASSUME NEW s, Good(s), Cardinality(InUse(s)) < IdSpace, NEW kind \in Kinds, NEW uid \in Uids
    PROVE  LET c == ChannelNew(s, kind, uid)
           IN  /\ Good(Allocated(s))
               /\ Good(SendChannelOpen(Allocated(s), c))
               /\ Good(SendChannelOpen(ChannelAppend(Allocated(s), c), c))
<1> DEFINE c == ChannelNew(s, kind, uid)  a == Allocated(s)  t == ChannelAppend(a, c)
           m == Msg("OPEN", 0, c.channel, c.channelType, c.uid)
<1>1. s \in Session
  BY DEF Good
<1>2. /\ c \in Channel /\ c.channel \notin InUse(s) /\ c.fwdSetupTxd = FALSE
      /\ c.channel \in Ids /\ c.channelType \in Kinds /\ c.uid \in Uids
  BY <1>1, NewChannel
<1>3. a \in Session /\ Good(a) /\ a.channelList = s.channelList /\ a.setups = s.setups
  BY <1>1, AllocatedKept, KeptGood DEF Kept
<1>4. m \in Packet
  <2> HIDE DEF c
  <2> QED BY <1>2, ZeroIsAnId DEF Msg, Packet, Message
<1> HIDE DEF c, a
<1>5. t \in Session /\ t.channelList = Append(s.channelList, c) /\ t.setups = s.setups
  <2>1. Append(a.channelList, c) \in Seq(Channel)
    BY <1>2, <1>3, Fields
  <2> QED BY <2>1, <1>3 DEF ChannelAppend, Session
<1>6. Good(t)
  BY <1>2, <1>5, AppendGood
<1> HIDE DEF t, m
<1>7. Good(Send(a, m)) /\ Good(Send(t, m))
  BY <1>3, <1>4, <1>5, <1>6, SendKept, KeptGood
<1> QED BY <1>3, <1>7 DEF SendChannelOpen, c, a, t, m

----------------------------------------------------------------------------
(* Handlers.                                                               *)

\* A peer's open: the channel joins the list with its setup counted, or is
\* deleted and the setup given back.
LEMMA DecideOpenGood ==
    ASSUME NEW e, NEW s, Good(s), Cardinality(InUse(s)) < IdSpace, NEW m \in Packet,
           m.type = "OPEN", NEW o
    PROVE  Good(DecideOpen(e, s, m, o))
<1> DEFINE wrongWay == e = "server" /\ m.kind = "forwarded"
           asked == ~wrongWay /\ o # "unregistered"
           setup == asked /\ SetupMade(m.kind, o)
           n == ChannelNew(s, m.kind, m.uid)
           c == [ChannelUpdatePeer(n, m.from) EXCEPT !.fwdSetupTxd = setup]
           a == Allocated(s)
           made == [a EXCEPT
                       !.defaultPeerChannelId = IF asked /\ s.channelList = <<>> THEN m.from ELSE @,
                       !.setups = IF setup THEN @ + 1 ELSE @]
           appended == [ChannelAppend(made, c) EXCEPT !.clientState = "channel_open"]
<1>1. /\ s \in Session /\ m.kind \in Kinds /\ m.uid \in Uids /\ m.from \in Ids /\ m.id \in Ids
  BY PacketFields DEF Good
<1>2. n \in Channel /\ n.channel \notin InUse(s)
  BY <1>1, NewChannel
<1>3. setup \in BOOLEAN
  BY DEF SetupMade
<1>4. a \in Session /\ Good(a) /\ a.channelList = s.channelList /\ a.setups = s.setups
  BY <1>1, AllocatedKept, KeptGood DEF Kept
<1>5. c \in Channel /\ c.channel \notin InUse(s) /\ c.fwdSetupTxd = setup
  <2> HIDE DEF n, setup
  <2> QED BY <1>1, <1>2, <1>3 DEF ChannelUpdatePeer, Channel
<1>6. /\ made \in Session /\ made.channelList = s.channelList
      /\ made.setups = IF setup THEN s.setups + 1 ELSE s.setups
  <2> HIDE DEF a, setup, asked
  <2>1. a.setups \in Nat /\ a.defaultPeerChannelId \in Ids
    BY <1>4, Fields
  <2> DEFINE d == IF asked /\ s.channelList = <<>> THEN m.from ELSE a.defaultPeerChannelId
             k == IF setup THEN a.setups + 1 ELSE a.setups
  <2>2. d \in Ids /\ k \in Nat
    BY <1>1, <1>3, <2>1
  <2>3. made = [a EXCEPT !.defaultPeerChannelId = d, !.setups = k]
    BY <1>4 DEF Session
  <2> HIDE DEF d, k, made
  <2>4. made \in Session /\ made.channelList = a.channelList /\ made.setups = k
    BY <2>2, <2>3, <1>4 DEF Session
  <2> QED BY <2>4, <1>4 DEF k
<1>7. Good(appended) /\ appended \in Session
  <2> HIDE DEF made, c, setup
  <2>1. Append(made.channelList, c) \in Seq(Channel)
    BY <1>5, <1>6, Fields
  <2>2. /\ appended \in Session /\ appended.channelList = Append(s.channelList, c)
        /\ appended.setups = IF c.fwdSetupTxd THEN s.setups + 1 ELSE s.setups
    BY <1>5, <1>6, <2>1 DEF ChannelAppend, Session, States
  <2> QED BY <2>2, <1>5, AppendGood
<1>8. Good(ChannelDelete(made, c)) /\ ChannelDelete(made, c) \in Session
  <2> DEFINE d == ChannelDelete(made, c)
  <2> HIDE DEF made, c, setup
  <2>1. s.setups \in Nat
    BY <1>1, Fields
  <2> DEFINE k == IF c.fwdSetupTxd THEN made.setups - 1 ELSE made.setups
  <2>2. k = s.setups
    BY <2>1, <1>3, <1>5, <1>6
  <2>3. d = [made EXCEPT !.setups = k]
    BY DEF ChannelDelete
  <2> HIDE DEF d, k
  <2>4. d \in Session /\ d.channelList = s.channelList /\ d.setups = s.setups
    BY <2>1, <2>2, <2>3, <1>6 DEF Session
  <2> QED BY <2>4, <1>1, KeptSameList, KeptGood DEF d
<1>9. Good(SendChannelOpenConf(appended, c))
  <2> HIDE DEF appended, c
  <2>1. Msg("OPEN_CONF", c.peerChannel, c.channel, "none", c.uid) \in Packet
    BY <1>5, ChannelFields, MsgIsPacket
  <2> QED BY <2>1, <1>7, SendKept, KeptGood DEF SendChannelOpenConf
<1>10. ASSUME NEW t, Good(t)
       PROVE  Good(SendChannelOpenFail(t, m))
  <2>1. Msg("OPEN_FAIL", m.from, 0, "none", m.uid) \in Packet
    BY <1>1, ZeroIsAnId, MsgIsPacket
  <2> QED BY <2>1, <1>10, SendKept, KeptGood DEF SendChannelOpenFail, Good
<1>11. DecideOpen(e, s, m, o) =
         IF asked /\ o = "accept" THEN SendChannelOpenConf(appended, c)
                                  ELSE SendChannelOpenFail(ChannelDelete(made, c), m)
  BY DEF DecideOpen
<1> HIDE DEF appended, made, c, asked
<1> QED BY <1>8, <1>9, <1>10, <1>11

LEMMA DoChannelOpenGood ==
    ASSUME NEW e, NEW s, Good(s), Cardinality(InUse(s)) < IdSpace, NEW m \in Packet,
           m.type = "OPEN", NEW o
    PROVE  Good(DoChannelOpen(e, s, m, o))
<1>1. Msg("OPEN_FAIL", m.from, 0, "none", m.uid) \in Packet
  BY PacketFields, ZeroIsAnId, MsgIsPacket
<1>2. Good(SendChannelOpenFail(s, m))
  BY <1>1, SendKept, KeptGood DEF SendChannelOpenFail, Good
<1> QED BY <1>2, DecideOpenGood DEF DoChannelOpen

\* A confirmation takes the peer's id; neither the channel's own id nor its
\* setup changes.
LEMMA DoChannelOpenConfGood ==
    ASSUME NEW s, Good(s), NEW m \in Packet, NEW o
    PROVE  Good(DoChannelOpenConf(s, m, o))
<1> DEFINE i == FindSelf(s, m.id)
           c == ChannelUpdatePeer(s.channelList[i], m.from)
           t == [s EXCEPT !.channelList[i] = ChannelUpdatePeer(@, m.from)]
           u == [t EXCEPT !.serverState = "channel_open", !.defaultPeerChannelId = m.from]
<1>1. s \in Session /\ m.from \in Ids
  BY PacketFields DEF Good
<1>2. CASE i = 0
  <2>1. Kept(s, Refuse(s, "WS_INVALID_CHANID"))
    <3>1. "WS_INVALID_CHANID" \in Errors
      BY DEF Errors
    <3> QED BY <3>1, <1>1, StateKept
  <2>2. DoChannelOpenConf(s, m, o) = Refuse(s, "WS_INVALID_CHANID")
    BY <1>2 DEF DoChannelOpenConf
  <2> QED BY <2>1, <2>2, KeptGood
<1>3. CASE i # 0 /\ s.channelList[i].openConfirmed
  <2>1. DoChannelOpenConf(s, m, o) = NotOutstanding(s)
    BY <1>3 DEF DoChannelOpenConf
  <2> QED BY <2>1, <1>1, NotOutstandingKept, KeptGood
<1>4. CASE i # 0 /\ ~s.channelList[i].openConfirmed
  <2>1. i \in DOMAIN s.channelList /\ s.channelList[i] \in Channel
    BY <1>1, <1>4, FindFinds, Fields
  <2>2. c \in Channel /\ c.channel = s.channelList[i].channel /\ c.fwdSetupTxd = s.channelList[i].fwdSetupTxd
    <3> HIDE DEF i
    <3> QED BY <1>1, <2>1 DEF ChannelUpdatePeer, Channel
  <2>3. t = [s EXCEPT !.channelList[i] = c]
    <3> HIDE DEF i
    <3> QED BY <1>1, <2>1 DEF Session
  <2>4. Kept(s, t)
    <3> HIDE DEF i, c, t
    <3> QED BY <1>1, <2>1, <2>2, <2>3, UpdateKept
  <2>5. Good(t) /\ t \in Session
    BY <2>4, KeptGood DEF Kept
  <2>6. Good(u)
    <3> HIDE DEF t
    <3>1. "channel_open" \in States
      BY DEF States
    <3>2. Kept(t, u)
      BY <2>5, <3>1, <1>1, StateKept
    <3> QED BY <2>5, <3>2, KeptGood
  <2>7. DoChannelOpenConf(s, m, o) = IF o = "fails" THEN t ELSE u
    BY <1>4 DEF DoChannelOpenConf
  <2> HIDE DEF t, u
  <2> QED BY <2>5, <2>6, <2>7
<1>5. s.channelList[i].openConfirmed \/ ~s.channelList[i].openConfirmed
  OBVIOUS
<1> QED BY <1>2, <1>3, <1>4, <1>5

LEMMA DoChannelOpenFailGood ==
    ASSUME NEW s, Good(s), NEW m \in Packet, NEW o
    PROVE  Good(DoChannelOpenFail(s, m, o))
<1> DEFINE i == FindSelf(s, m.id)
<1>1. s \in Session
  BY DEF Good
<1>2. CASE i = 0
  <2>1. Kept(s, Refuse(s, "WS_INVALID_CHANID"))
    <3>1. "WS_INVALID_CHANID" \in Errors
      BY DEF Errors
    <3> QED BY <3>1, <1>1, StateKept
  <2>2. DoChannelOpenFail(s, m, o) = Refuse(s, "WS_INVALID_CHANID")
    BY <1>2 DEF DoChannelOpenFail
  <2> QED BY <2>1, <2>2, KeptGood
<1>3. CASE i # 0 /\ s.channelList[i].openConfirmed
  <2>1. DoChannelOpenFail(s, m, o) = NotOutstanding(s)
    BY <1>3 DEF DoChannelOpenFail
  <2> QED BY <2>1, <1>1, NotOutstandingKept, KeptGood
<1>4. CASE i # 0 /\ ~s.channelList[i].openConfirmed
  <2>1. i \in DOMAIN s.channelList
    BY <1>1, <1>4, FindFinds
  <2>2. Good(ChannelRemove(s, i))
    BY <2>1, RemoveGood
  <2>3. DoChannelOpenFail(s, m, o) = IF o = "fails" THEN s ELSE ChannelRemove(s, i)
    BY <1>4 DEF DoChannelOpenFail
  <2> QED BY <2>2, <2>3
<1> QED BY <1>2, <1>3, <1>4

\* A close is answered and its channel, found again by its id, removed.
LEMMA DoChannelCloseGood ==
    ASSUME NEW s, Good(s), NEW i \in DOMAIN s.channelList
    PROVE  Good(DoChannelClose(s, i))
<1> DEFINE c == s.channelList[i]
           eof == SendChannelEof(s, c.peerChannel)
           cls == SendChannelClose(eof, c.peerChannel)
           answered == IF c.closeTxd \/ ~c.openConfirmed THEN s ELSE cls
           k == FindSelf(answered, c.channel)
<1>1. s \in Session
  BY DEF Good
<1>2. Kept(s, eof) /\ eof \in Session
  BY <1>1, SendChannelEofKept DEF Kept
<1>3. Kept(eof, cls)
  BY <1>2, SendChannelCloseKept
<1>4. Kept(s, cls)
  BY <1>1, <1>2, <1>3, KeptTrans
<1>5. Kept(s, answered)
  <2> HIDE DEF cls
  <2> QED BY <1>1, <1>4, KeptRefl
<1> HIDE DEF answered
<1>6. Good(answered) /\ answered \in Session
  BY <1>5, KeptGood DEF Kept
<1>7. i \in DOMAIN answered.channelList /\ answered.channelList[i].channel = c.channel
  BY <1>1, <1>5, <1>6, Fields DEF Kept
<1>8. k \in DOMAIN answered.channelList
  BY <1>6, <1>7, FindFinds
<1>9. Good(ChannelRemove(answered, k))
  BY <1>6, <1>8, RemoveGood
<1> QED BY <1>9 DEF DoChannelClose, answered

LEMMA DoChannelRequestGood ==
    ASSUME NEW e, NEW s, Good(s), NEW m \in Packet, NEW i \in DOMAIN s.channelList, NEW o
    PROVE  Good(DoChannelRequest(e, s, m, i, o))
<1> DEFINE c == s.channelList[i]
           grant == e = "server" /\ o = "grant" /\ ~c.sessionGranted
           g == [s EXCEPT !.channelList[i].sessionGranted = TRUE]
           decided == IF grant THEN [s EXCEPT !.channelList[i].sessionGranted = TRUE,
                                              !.clientState = "done"]
                      ELSE s
<1>1. s \in Session /\ c \in Channel
  BY Fields DEF Good
<1>2. Good([s EXCEPT !.useAgent = TRUE])
  BY <1>1, StateKept, KeptGood
<1>3. Good(Refuse(ChannelRemove(s, i), "WS_INVALID_CHANID"))
  <2>1. Good(ChannelRemove(s, i)) /\ ChannelRemove(s, i) \in Session
    BY RemoveGood DEF Good
  <2>2. "WS_INVALID_CHANID" \in Errors
    BY DEF Errors
  <2>3. Kept(ChannelRemove(s, i), Refuse(ChannelRemove(s, i), "WS_INVALID_CHANID"))
    BY <2>1, <2>2, StateKept
  <2> QED BY <2>1, <2>3, KeptGood
<1>4. Good(decided) /\ decided \in Session
  <2>1. Good(g) /\ g \in Session
    <3>1. Kept(s, g)
      BY <1>1, SetFlagsKept
    <3> HIDE DEF g
    <3> QED BY <3>1, KeptGood DEF Kept
  <2>2. [s EXCEPT !.channelList[i].sessionGranted = TRUE, !.clientState = "done"]
            = [g EXCEPT !.clientState = "done"]
    BY <1>1 DEF Session
  <2> HIDE DEF g
  <2>3. "done" \in States
    BY DEF States
  <2>4. Kept(g, [g EXCEPT !.clientState = "done"])
    BY <2>1, <2>3, StateKept
  <2>5. Good([g EXCEPT !.clientState = "done"])
    BY <2>1, <2>4, KeptGood
  <2> HIDE DEF grant
  <2> QED BY <1>1, <2>2, <2>5 DEF Good
<1>5. Good(SendChannelSuccess(decided, c, grant))
  <2> HIDE DEF decided, grant, c
  <2> QED BY <1>1, <1>4, SendAboutKept, KeptGood DEF SendChannelSuccess
<1>6. CASE m.kind = "agent-req"
  <2>1. DoChannelRequest(e, s, m, i, o) = [s EXCEPT !.useAgent = TRUE]
    BY <1>6 DEF DoChannelRequest
  <2> QED BY <2>1, <1>2
<1>7. CASE m.kind = "shell" /\ o = "free"
  <2>1. DoChannelRequest(e, s, m, i, o) = Refuse(ChannelRemove(s, i), "WS_INVALID_CHANID")
    BY <1>7 DEF DoChannelRequest
  <2> QED BY <2>1, <1>3
<1>8. CASE m.kind = "shell" /\ o # "free"
  <2>1. DoChannelRequest(e, s, m, i, o) = SendChannelSuccess(decided, c, grant)
    BY <1>8 DEF DoChannelRequest
  <2> QED BY <2>1, <1>5
<1>9. CASE m.kind # "agent-req" /\ m.kind # "shell"
  <2>1. DoChannelRequest(e, s, m, i, o) = s
    BY <1>9 DEF DoChannelRequest
  <2> QED BY <2>1
<1> QED BY <1>6, <1>7, <1>8, <1>9

LEMMA OnChannelGood ==
    ASSUME NEW e, NEW s, Good(s), NEW m \in Packet, NEW o,
           m.type \notin {"OPEN", "OPEN_CONF", "OPEN_FAIL", "DISCONNECT"}
    PROVE  Good(OnChannel(e, s, m, o))
<1> DEFINE i == FindSelf(s, m.id)
<1>1. s \in Session
  BY DEF Good
<1>2. CASE i = 0
  <2>1. "WS_INVALID_CHANID" \in Errors
    BY DEF Errors
  <2>2. Kept(s, Refuse(s, "WS_INVALID_CHANID"))
    BY <1>1, <2>1, StateKept
  <2>3. OnChannel(e, s, m, o) = Refuse(s, "WS_INVALID_CHANID")
    BY <1>2 DEF OnChannel
  <2> QED BY <2>2, <2>3, KeptGood
<1>3. CASE i # 0
  <2>0. i \in DOMAIN s.channelList
    BY <1>1, <1>3, FindFinds
  <2>1. CASE m.type = "EOF"
    <3>1. OnChannel(e, s, m, o) = DoChannelEof(s, i)
      BY <1>3, <2>1 DEF OnChannel
    <3>2. Kept(s, DoChannelEof(s, i))
      BY <1>1, <2>0, SetFlagsKept DEF DoChannelEof
    <3> QED BY <3>1, <3>2, KeptGood
  <2>2. CASE m.type = "CLOSE"
    <3>1. OnChannel(e, s, m, o) = DoChannelClose(s, i)
      BY <1>3, <2>2 DEF OnChannel
    <3> QED BY <3>1, <2>0, DoChannelCloseGood
  <2>3. CASE m.type = "DATA"
    <3>1. OnChannel(e, s, m, o) = [s EXCEPT !.channelList[i].unread = TRUE]
      BY <1>3, <2>3 DEF OnChannel
    <3>2. Kept(s, [s EXCEPT !.channelList[i].unread = TRUE])
      BY <1>1, <2>0, SetFlagsKept
    <3> QED BY <3>1, <3>2, KeptGood
  <2>4. CASE m.type \in {"WINDOW_ADJUST", "FAILURE"}
    <3>1. OnChannel(e, s, m, o) = s
      BY <1>3, <2>4 DEF OnChannel
    <3> QED BY <3>1
  <2>5. CASE m.type = "REQUEST"
    <3>1. OnChannel(e, s, m, o) = DoChannelRequest(e, s, m, i, o)
      BY <1>3, <2>5 DEF OnChannel
    <3> QED BY <3>1, <2>0, DoChannelRequestGood
  <2>6. CASE m.type = "SUCCESS"
    <3>1. OnChannel(e, s, m, o) = [s EXCEPT !.serverState = "done"]
      BY <1>3, <2>6 DEF OnChannel
    <3>2. "done" \in States
      BY DEF States
    <3>3. Kept(s, [s EXCEPT !.serverState = "done"])
      BY <1>1, <3>2, StateKept
    <3> QED BY <3>1, <3>3, KeptGood
  <2>7. m.type \in {"EOF", "CLOSE", "DATA", "WINDOW_ADJUST", "REQUEST", "SUCCESS", "FAILURE"}
    BY PacketFields
  <2> QED BY <2>1, <2>2, <2>3, <2>4, <2>5, <2>6, <2>7
<1> QED BY <1>2, <1>3

\* Every handler keeps the session good, whatever the callbacks answer.
LEMMA DoPacketGood ==
    ASSUME NEW e, NEW s, Good(s), NEW m \in Packet, NEW o,
           m.type = "OPEN" => Cardinality(InUse(s)) < IdSpace
    PROVE  Good(DoPacket(e, s, m, o))
<1>1. s \in Session
  BY DEF Good
<1>2. CASE s.disconnected
  BY <1>2 DEF DoPacket
<1>3. CASE ~s.disconnected /\ m.type = "DISCONNECT"
  <2>1. Good([s EXCEPT !.disconnected = TRUE])
    BY <1>1, StateKept, KeptGood
  <2> QED BY <1>3, <2>1 DEF DoPacket
<1>4. CASE ~s.disconnected /\ m.type = "OPEN"
  <2>1. DoPacket(e, s, m, o) = DoChannelOpen(e, s, m, o)
    BY <1>4 DEF DoPacket
  <2> QED BY <1>4, <2>1, DoChannelOpenGood
<1>5. CASE ~s.disconnected /\ m.type = "OPEN_CONF"
  <2>1. DoPacket(e, s, m, o) = DoChannelOpenConf(s, m, o)
    BY <1>5 DEF DoPacket
  <2> QED BY <2>1, DoChannelOpenConfGood
<1>6. CASE ~s.disconnected /\ m.type = "OPEN_FAIL"
  <2>1. DoPacket(e, s, m, o) = DoChannelOpenFail(s, m, o)
    BY <1>6 DEF DoPacket
  <2> QED BY <2>1, DoChannelOpenFailGood
<1>7. CASE ~s.disconnected /\ m.type \notin {"DISCONNECT", "OPEN", "OPEN_CONF", "OPEN_FAIL"}
  <2>1. DoPacket(e, s, m, o) = OnChannel(e, s, m, o)
    BY <1>7 DEF DoPacket
  <2> QED BY <1>7, <2>1, OnChannelGood
<1> QED BY <1>2, <1>3, <1>4, <1>5, <1>6, <1>7

----------------------------------------------------------------------------
(* Steps.                                                                  *)

\* A call that leaves its end in a good session keeps the invariant.
LEMMA ReturnKeeps ==
    ASSUME IInv, NEW e \in Ends, NEW t, Good(t), NEW rest \in Seq(Packet),
           Return(e, t, rest), used' \in [Ends -> Budget]
    PROVE  IInv'
<1> DEFINE u == [t EXCEPT !.out = <<>>]
<1>1. t \in Session /\ t.out \in Seq(Packet)
  BY Fields DEF Good
<1>2. Good(u) /\ u.out = <<>> /\ u \in Session
  <2>1. Good(u)
    BY <1>1, StateKept, KeptGood
  <2>2. u.out = <<>>
    BY <1>1 DEF Session
  <2> QED BY <2>1, <2>2 DEF Good
<1> HIDE DEF u
<1>3. session' = [session EXCEPT ![e] = u]
  BY DEF Return, u
<1>4. session' \in [Ends -> Session]
  BY <1>2, <1>3 DEF IInv
<1>5. ASSUME NEW d \in Ends
      PROVE  Unique(session'[d]) /\ Owed(session'[d]) /\ session'[d].out = <<>>
  <2>1. CASE d = e
    <3>1. session'[d] = u
      BY <2>1, <1>3 DEF IInv
    <3> QED BY <3>1, <1>2 DEF Good
  <2>2. CASE d # e
    <3>1. session'[d] = session[d]
      BY <2>2, <1>3 DEF IInv
    <3> QED BY <3>1 DEF IInv
  <2> QED BY <2>1, <2>2
<1>6. wire' \in [Ends -> Seq(Packet)]
  <2>1. wire \in [Ends -> Seq(Packet)] /\ Other(e) \in Ends /\ Other(e) # e
    BY DEF IInv, Ends, Other
  <2>2. wire[Other(e)] \o t.out \in Seq(Packet)
    BY <2>1, <1>1
  <2>3. wire' = [wire EXCEPT ![e] = rest, ![Other(e)] = wire[Other(e)] \o t.out]
    BY <2>1 DEF Return
  <2> QED BY <2>1, <2>2, <2>3
<1> QED BY <1>4, <1>5, <1>6 DEF IInv

LEMMA CallKeeps ==
    ASSUME IInv, NEW e \in Ends, NEW t, Good(t), Call(e, t), used' \in [Ends -> Budget]
    PROVE  IInv'
<1>1. wire[e] \in Seq(Packet)
  BY DEF IInv
<1> QED BY <1>1, ReturnKeeps DEF Call

LEMMA SpendKeeps ==
    ASSUME IInv, NEW e \in Ends, NEW what \in {"opens", "data", "requests", "rekeys"}, NEW max,
           Spend(e, what, max)
    PROVE  used' \in [Ends -> Budget]
<1>1. used \in [Ends -> Budget] /\ used[e] \in Budget
  BY DEF IInv
<1>2. [used[e] EXCEPT ![what] = @ + 1] \in Budget
  BY <1>1 DEF Budget
<1> QED BY <1>1, <1>2 DEF Spend

LEMMA Unspent ==
    ASSUME IInv, UNCHANGED used
    PROVE  used' \in [Ends -> Budget]
  BY DEF IInv

\* The sessions the invariant speaks of are good.
LEMMA IInvGood ==
    ASSUME IInv, NEW e \in Ends
    PROVE  Good(session[e]) /\ session[e] \in Session
  BY DEF IInv, Good

\* A call that only sends or sets flags.
LEMMA KeptStep ==
    ASSUME IInv, NEW e \in Ends, NEW t, Kept(session[e], t), Call(e, t), used' \in [Ends -> Budget]
    PROVE  IInv'
<1>1. Good(t)
  BY IInvGood, KeptGood
<1> QED BY <1>1, CallKeeps

\* What an end may open: an id is free and the budget allows a new uid.
LEMMA CanOpenUid ==
    ASSUME IInv, NEW e \in Ends, CanOpen(e)
    PROVE  /\ NextUid(e) \in Uids /\ used' \in [Ends -> Budget]
           /\ Cardinality(InUse(session[e])) < IdSpace
<1>1. used[e].opens \in Nat /\ used[e].opens < MaxOpens(e) /\ MaxOpens(e) \in Nat
  BY ChannelsAssumption DEF IInv, Budget, CanOpen, Spend, MaxOpens
<1>2. used[e].opens + 1 \in 1 .. MaxOpens(e)
  BY <1>1
<1>3. NextUid(e) \in Uids
  BY <1>2 DEF NextUid, Uids
<1>4. used' \in [Ends -> Budget]
  BY SpendKeeps DEF CanOpen
<1> QED BY <1>3, <1>4 DEF CanOpen, HasId

LEMMA ConnectOpenKeeps ==
    ASSUME IInv, ConnectOpen
    PROVE  IInv'
<1> DEFINE s == session["client"]
           c == ChannelNew(s, "session", NextUid("client"))
           t == SendChannelOpen(ChannelAppend(Allocated(s), c), c)
           u == [t EXCEPT !.connectState = "open_sent"]
<1>1. "client" \in Ends /\ "session" \in Kinds /\ "open_sent" \in States
  BY DEF Ends, Kinds, States
<1>2. NextUid("client") \in Uids /\ used' \in [Ends -> Budget] /\ Cardinality(InUse(s)) < IdSpace
  BY <1>1, CanOpenUid DEF ConnectOpen
<1>3. Good(t) /\ t \in Session
  BY <1>1, <1>2, IInvGood, OpenedGood DEF Good
<1>4. Call("client", u)
  BY DEF ConnectOpen
<1> HIDE DEF t
<1>5. Good(u)
  <2>1. Kept(t, u)
    BY <1>1, <1>3, StateKept
  <2> QED BY <1>3, <2>1, KeptGood
<1> HIDE DEF u
<1> QED BY <1>1, <1>2, <1>4, <1>5, CallKeeps

LEMMA AgentChannelOpenKeeps ==
    ASSUME IInv, AgentChannelOpen
    PROVE  IInv'
<1> DEFINE s == session["server"]
           c == ChannelNew(s, "agent", NextUid("server"))
           t == SendChannelOpen(ChannelAppend(Allocated(s), c), c)
           u == [t EXCEPT !.agent = TRUE]
<1>1. "server" \in Ends /\ "agent" \in Kinds
  BY DEF Ends, Kinds
<1>2. NextUid("server") \in Uids /\ used' \in [Ends -> Budget] /\ Cardinality(InUse(s)) < IdSpace
  BY <1>1, CanOpenUid DEF AgentChannelOpen
<1>3. Good(t) /\ t \in Session
  BY <1>1, <1>2, IInvGood, OpenedGood DEF Good
<1>4. Call("server", u)
  BY DEF AgentChannelOpen
<1> HIDE DEF t
<1>5. Good(u)
  <2>1. Kept(t, u)
    BY <1>3, StateKept
  <2> QED BY <1>3, <2>1, KeptGood
<1> HIDE DEF u
<1> QED BY <1>1, <1>2, <1>4, <1>5, CallKeeps

LEMMA ChannelFwdNewKeeps ==
    ASSUME IInv, NEW e \in Ends, NEW kind \in ForwardKinds, ChannelFwdNew(e, kind)
    PROVE  IInv'
<1> DEFINE s == session[e]
           c == ChannelNew(s, kind, NextUid(e))
           new == Allocated(s)
<1>1. kind \in Kinds
  BY DEF Kinds
<1>2. NextUid(e) \in Uids /\ used' \in [Ends -> Budget] /\ Cardinality(InUse(s)) < IdSpace
  BY CanOpenUid DEF ChannelFwdNew
<1>3. /\ Good(new) /\ Good(SendChannelOpen(new, c))
      /\ Good(SendChannelOpen(ChannelAppend(new, c), c))
  BY <1>1, <1>2, IInvGood, OpenedGood
<1>4. PICK fault \in OpenFaults :
          Call(e, CASE fault = "none" -> SendChannelOpen(ChannelAppend(new, c), c)
                    [] fault = "memory" -> new
                    [] OTHER -> SendChannelOpen(new, c))
  BY DEF ChannelFwdNew
<1> HIDE DEF c, new
<1>5. CASE fault = "none"
  BY <1>2, <1>3, <1>4, <1>5, CallKeeps
<1>6. CASE fault = "memory"
  BY <1>2, <1>3, <1>4, <1>6, CallKeeps
<1>7. CASE fault # "none" /\ fault # "memory"
  BY <1>2, <1>3, <1>4, <1>7, CallKeeps
<1> QED BY <1>5, <1>6, <1>7

LEMMA ReceiveKeeps ==
    ASSUME IInv, NEW e \in Ends, Receive(e)
    PROVE  IInv'
<1> DEFINE m == Head(wire[e])
<1>1. wire[e] \in Seq(Packet) /\ wire[e] # <<>>
  BY DEF IInv, Receive
<1>2. m \in Packet /\ Tail(wire[e]) \in Seq(Packet)
  BY <1>1
<1>3. m.type = "OPEN" => Cardinality(InUse(session[e])) < IdSpace
  BY DEF Receive, HasId
<1>4. PICK o \in Outcomes(m) : Return(e, DoPacket(e, session[e], m, o), Tail(wire[e]))
  BY DEF Receive, Handled
<1>5. Good(DoPacket(e, session[e], m, o))
  BY <1>2, <1>3, IInvGood, DoPacketGood
<1>6. used' \in [Ends -> Budget]
  BY Unspent DEF Receive
<1> QED BY <1>2, <1>4, <1>5, <1>6, ReturnKeeps

LEMMA ConnectRequestKeeps ==
    ASSUME IInv, ConnectRequest
    PROVE  IInv'
<1> DEFINE s == session["client"]
           id == s.defaultPeerChannelId
           a == IF AgentEnabled THEN SendChannelRequest(s, id, "agent-req") ELSE s
           t == SendChannelRequest(a, id, "shell")
           u == [t EXCEPT !.connectState = "request_sent"]
<1>1. "client" \in Ends /\ "request_sent" \in States
  BY DEF Ends, States
<1>2. s \in Session /\ id \in Ids
  BY <1>1, IInvGood, Fields
<1>3. Kept(s, a) /\ a \in Session
  BY <1>2, SendChannelRequestKept, KeptRefl DEF Kept
<1>4. Call("client", u) /\ UNCHANGED used
  BY DEF ConnectRequest
<1> HIDE DEF a, id
<1>5. Kept(a, t) /\ t \in Session
  BY <1>2, <1>3, SendChannelRequestKept DEF Kept
<1> HIDE DEF t
<1>6. Kept(t, u)
  BY <1>1, <1>5, StateKept
<1>7. Kept(s, u)
  BY <1>2, <1>3, <1>5, <1>6, KeptTrans
<1> HIDE DEF u
<1> QED BY <1>1, <1>4, <1>7, KeptStep, Unspent

LEMMA DoneKeeps ==
    ASSUME IInv, ConnectDone \/ AcceptDone
    PROVE  IInv'
<1>1. "client" \in Ends /\ "server" \in Ends /\ "done" \in States
  BY DEF Ends, States
<1>2. CASE ConnectDone
  <2>1. Kept(session["client"], [session["client"] EXCEPT !.connectState = "done"])
    BY <1>1, IInvGood, StateKept
  <2> QED BY <1>1, <1>2, <2>1, KeptStep, Unspent DEF ConnectDone
<1>3. CASE AcceptDone
  <2>1. Kept(session["server"], [session["server"] EXCEPT !.acceptState = "done"])
    BY <1>1, IInvGood, StateKept
  <2> QED BY <1>1, <1>3, <2>1, KeptStep, Unspent DEF AcceptDone
<1> QED BY <1>2, <1>3

\* The calls on one channel of the list.
LEMMA OnOneKeeps ==
    ASSUME IInv, NEW e \in Ends, NEW i \in DOMAIN session[e].channelList,
           \/ ChannelSend(e, i) \/ ChannelRead(e, i) \/ ChannelSendEof(e, i)
           \/ ChannelExit(e, i) \/ ChannelFree(e, i)
    PROVE  IInv'
<1> DEFINE s == session[e]
           c == s.channelList[i]
           eof == SendChannelEof(s, c.peerChannel)
           cls == SendChannelClose(eof, c.peerChannel)
<1>1. Good(s) /\ s \in Session /\ c \in Channel
  BY IInvGood, Fields
<1>2. CASE ChannelSend(e, i)
  <2>1. Kept(s, SendAbout(s, "DATA", c))
    BY <1>1, SendAboutKept
  <2>2. used' \in [Ends -> Budget] /\ Call(e, SendAbout(s, "DATA", c))
    BY <1>2, SpendKeeps DEF ChannelSend
  <2> QED BY <2>1, <2>2, KeptStep
<1>3. CASE ChannelRead(e, i)
  <2> DEFINE t == ChannelCreditWindow(s, i)
             u == [t EXCEPT !.channelList[i].unread = FALSE]
  <2>1. Kept(s, t) /\ t \in Session /\ i \in DOMAIN t.channelList
    <3>1. Kept(s, t) /\ t \in Session
      BY <1>1, ChannelCreditWindowKept DEF Kept
    <3> QED BY <3>1, <1>1, Fields DEF Kept
  <2>2. Call(e, u) /\ UNCHANGED used
    BY <1>3 DEF ChannelRead
  <2> HIDE DEF t
  <2>3. Kept(t, u)
    BY <2>1, SetFlagsKept
  <2>4. Kept(s, u)
    BY <1>1, <2>1, <2>3, KeptTrans
  <2> HIDE DEF u
  <2> QED BY <2>2, <2>4, KeptStep, Unspent
<1>4. CASE ChannelSendEof(e, i)
  <2>1. Kept(s, eof)
    BY <1>1, SendChannelEofKept
  <2> QED BY <1>4, <2>1, KeptStep, Unspent DEF ChannelSendEof
<1>5. CASE ChannelExit(e, i)
  <2>1. Kept(s, eof) /\ eof \in Session
    BY <1>1, SendChannelEofKept DEF Kept
  <2>2. Kept(s, cls)
    BY <1>1, <2>1, SendChannelCloseKept, KeptTrans
  <2>3. Call(e, eof) \/ Call(e, cls)
    BY <1>5 DEF ChannelExit
  <2>4. used' \in [Ends -> Budget]
    BY <1>5, Unspent DEF ChannelExit
  <2> QED BY <2>1, <2>2, <2>3, <2>4, KeptStep
<1>6. CASE ChannelFree(e, i)
  <2>1. Good(ChannelRemove(s, i))
    BY <1>1, RemoveGood
  <2>2. used' \in [Ends -> Budget] /\ Call(e, ChannelRemove(s, i))
    BY <1>6, Unspent DEF ChannelFree
  <2> QED BY <2>1, <2>2, CallKeeps
<1> QED BY <1>2, <1>3, <1>4, <1>5, <1>6

\* The calls that take the head of the list for the session channel.
LEMMA TearDownKeeps ==
    ASSUME IInv, NEW e \in Ends, StreamExit(e) \/ Shutdown(e)
    PROVE  IInv'
<1> DEFINE s == session[e]
           id == Head(s.channelList).peerChannel
<1>1. s \in Session
  BY IInvGood
<1>2. id \in Ids /\ used' \in [Ends -> Budget]
  <2>1. s.channelList # <<>> /\ s.channelList \in Seq(Channel)
    BY <1>1, Fields DEF StreamExit, Shutdown, TearDownHead
  <2>2. Head(s.channelList) \in Channel
    BY <2>1
  <2>3. used' \in [Ends -> Budget]
    BY SpendKeeps DEF StreamExit, Shutdown
  <2> QED BY <2>2, <2>3, ChannelFields
<1>3. CASE StreamExit(e)
  <2> DEFINE exit == SendChannelRequest(s, id, "exit")
             eof == SendChannelEof(exit, id)
             cls == SendChannelClose(eof, id)
  <2>1. Call(e, exit) \/ Call(e, eof) \/ Call(e, cls)
    BY <1>3 DEF StreamExit
  <2> HIDE DEF id
  <2>2. Kept(s, exit) /\ exit \in Session
    BY <1>1, <1>2, SendChannelRequestKept DEF Kept
  <2> HIDE DEF exit
  <2>3. Kept(s, eof) /\ eof \in Session
    BY <1>1, <2>2, SendChannelEofKept, KeptTrans DEF Kept
  <2> HIDE DEF eof
  <2>4. Kept(s, cls)
    BY <1>1, <2>3, SendChannelCloseKept, KeptTrans
  <2> HIDE DEF cls
  <2> QED BY <1>2, <2>1, <2>2, <2>3, <2>4, KeptStep
<1>4. CASE Shutdown(e)
  <2> DEFINE eof == SendChannelEof(s, id)
             exit == SendChannelRequest(eof, id, "exit")
             cls == SendChannelClose(exit, id)
  <2>1. Call(e, cls)
    BY <1>4 DEF Shutdown
  <2> HIDE DEF id
  <2>2. Kept(s, eof) /\ eof \in Session
    BY <1>1, SendChannelEofKept DEF Kept
  <2> HIDE DEF eof
  <2>3. Kept(eof, exit) /\ exit \in Session
    BY <1>2, <2>2, SendChannelRequestKept DEF Kept
  <2> HIDE DEF exit
  <2>4. Kept(exit, cls)
    BY <2>3, SendChannelCloseKept
  <2>5. Kept(s, cls)
    BY <1>1, <2>2, <2>3, <2>4, KeptTrans
  <2> HIDE DEF cls
  <2> QED BY <1>2, <2>1, <2>5, KeptStep
<1> QED BY <1>3, <1>4

LEMMA ChangeTerminalSizeKeeps ==
    ASSUME IInv, ChangeTerminalSize
    PROVE  IInv'
<1> DEFINE s == session["client"]
           t == SendChannelRequest(s, s.defaultPeerChannelId, "resize")
<1>1. "client" \in Ends
  BY DEF Ends
<1>2. s \in Session /\ s.defaultPeerChannelId \in Ids
  BY <1>1, IInvGood, Fields
<1>3. Kept(s, t)
  BY <1>2, SendChannelRequestKept
<1>4. Call("client", t) /\ used' \in [Ends -> Budget]
  BY <1>1, SpendKeeps DEF ChangeTerminalSize
<1> QED BY <1>1, <1>3, <1>4, KeptStep

LEMMA RekeyKeeps ==
    ASSUME IInv, NEW e \in Ends, StartRekey(e) \/ EndRekey(e)
    PROVE  IInv'
<1> DEFINE s == session[e]
<1>1. s \in Session
  BY IInvGood
<1>2. CASE StartRekey(e)
  <2>1. Kept(s, [s EXCEPT !.isKeying = TRUE])
    BY <1>1, StateKept
  <2>2. used' \in [Ends -> Budget] /\ Call(e, [s EXCEPT !.isKeying = TRUE])
    BY <1>2, SpendKeeps DEF StartRekey
  <2> QED BY <2>1, <2>2, KeptStep
<1>3. CASE EndRekey(e)
  <2> DEFINE t == [s EXCEPT !.isKeying = FALSE]
             u == SendPendingChannelWindowAdjust(t)
  <2>1. Kept(s, t) /\ t \in Session
    BY <1>1, StateKept DEF Kept
  <2>2. Call(e, u) /\ UNCHANGED used
    BY <1>3 DEF EndRekey
  <2> HIDE DEF t
  <2>3. Kept(s, u)
    BY <1>1, <2>1, SendPendingKept, KeptTrans
  <2> HIDE DEF u
  <2> QED BY <2>2, <2>3, KeptStep, Unspent
<1> QED BY <1>2, <1>3

\* Every step keeps the invariant.
LEMMA NextKeeps ==
    ASSUME IInv, [Next]_vars
    PROVE  IInv'
<1>1. CASE Connect
  BY <1>1, ConnectOpenKeeps, ConnectRequestKeeps, DoneKeeps DEF Connect
<1>2. CASE Accept
  BY <1>2, AgentChannelOpenKeeps, DoneKeeps DEF Accept
<1>3. CASE ChangeTerminalSize
  BY <1>3, ChangeTerminalSizeKeeps
<1>4. ASSUME NEW e \in Ends, Receive(e) \/ StartRekey(e) \/ EndRekey(e)
      PROVE  IInv'
  BY <1>4, ReceiveKeeps, RekeyKeeps
<1>5. ASSUME NEW e \in Ends, AppStep(e)
      PROVE  IInv'
  <2>1. ASSUME NEW kind \in ForwardKinds, ChannelFwdNew(e, kind) PROVE IInv'
    BY <2>1, ChannelFwdNewKeeps
  <2>2. CASE StreamExit(e) \/ Shutdown(e)
    BY <2>2, TearDownKeeps
  <2>3. ASSUME NEW i \in DOMAIN session[e].channelList,
               \/ ChannelSend(e, i) \/ ChannelRead(e, i) \/ ChannelSendEof(e, i)
               \/ ChannelExit(e, i) \/ ChannelFree(e, i)
        PROVE  IInv'
    BY <2>3, OnOneKeeps
  <2> QED BY <1>5, <2>1, <2>2, <2>3 DEF AppStep
<1>6. CASE UNCHANGED vars
  BY <1>6 DEF IInv, vars
<1> QED BY <1>1, <1>2, <1>3, <1>4, <1>5, <1>6 DEF Next

LEMMA InitIInv ==
    ASSUME Init
    PROVE  IInv
<1>1. NewSession \in Session
  <2>1. <<>> \in Seq(Channel) /\ <<>> \in Seq(Packet) /\ {} \in SUBSET Errors
    OBVIOUS
  <2> QED BY <2>1, ZeroIsAnId DEF NewSession, Session, States
<1>2. Unique(NewSession) /\ NewSession.out = <<>>
  BY DEF NewSession, Unique
<1>3. Owed(NewSession)
  <2>1. OwedIds(NewSession) = {}
    BY DEF NewSession, OwedIds
  <2> QED BY <2>1, FS_EmptySet DEF Owed, NewSession
<1>4. <<>> \in Seq(Packet) /\ [opens |-> 0, data |-> 0, requests |-> 0, rekeys |-> 0] \in Budget
  BY DEF Budget
<1> QED BY <1>1, <1>2, <1>3, <1>4 DEF Init, IInv

----------------------------------------------------------------------------
(* The theorems.                                                           *)

\* The inductive invariant holds: the list of each session holds channels, no
\* two under one id, and the setups not yet given back are those of its
\* channels.
THEOREM ChannelsInvariant == Spec => []IInv
<1>1. Init => IInv
  BY InitIInv
<1>2. IInv /\ [Next]_vars => IInv'
  BY NextKeeps
<1> QED BY <1>1, <1>2, PTL DEF Spec

\* Fields hold what the C types admit and no call leaves output behind,
\* whatever the peers exchange and the callbacks answer.
THEOREM ChannelsTypeOK == Spec => []TypeOK
<1>1. IInv => TypeOK
  <2>1. ASSUME IInv, NEW e \in Ends
        PROVE  /\ ChannelsOf(e) \subseteq Channel
               /\ session[e].nextChannel \in Ids
               /\ session[e].defaultPeerChannelId \in Ids
               /\ session[e].setups \in Nat
               /\ session[e].out = <<>>
               /\ \A k \in DOMAIN wire[e] : wire[e][k] \in Message
    <3>1. session[e] \in Session /\ wire[e] \in Seq(Packet) /\ session[e].out = <<>>
      BY <2>1 DEF IInv
    <3>2. \A k \in DOMAIN wire[e] : wire[e][k] \in Message
      BY <3>1 DEF Packet
    <3> QED BY <3>1, <3>2, Fields DEF ChannelsOf
  <2> QED BY <2>1 DEF TypeOK
<1> QED BY <1>1, ChannelsInvariant, PTL

\* No two channels of a session ever share an id: ChannelNew() skips the ids
\* in use, wherever its counter stands and however often it has wrapped.
THEOREM UniqueIdsAlways == Spec => []UniqueIds
<1>1. IInv => UniqueIds
  BY DEF IInv, UniqueIds, Unique
<1> QED BY <1>1, ChannelsInvariant, PTL

\* Every setup is owed one cleanup until its channel goes, and gets it: a
\* refusal, a failed callback, a close, a free and the loss of an open all
\* pass through ChannelDelete().
THEOREM SetupsOwedAlways == Spec => []SetupsOwed
<1>1. IInv => SetupsOwed
  <2>1. ASSUME IInv, NEW e \in Ends
        PROVE  session[e].setups = Cardinality({c \in ChannelsOf(e) : c.fwdSetupTxd})
    <3> DEFINE s == session[e]
               C == {c \in ChannelsOf(e) : c.fwdSetupTxd}
               O == OwedIds(s)
               f == [c \in C |-> c.channel]
    <3>1. s \in Session /\ Unique(s) /\ Owed(s)
      BY <2>1 DEF IInv
    <3>2. IsFiniteSet(O) /\ s.setups = Cardinality(O)
      BY <3>1, InUseFinite DEF Owed
    <3>3. \A c \in C : \E i \in DOMAIN s.channelList : c = s.channelList[i] /\ c.fwdSetupTxd
      BY DEF ChannelsOf
    <3>4. f \in [C -> O]
      BY <3>3 DEF OwedIds
    <3>5. \A c, d \in C : c.channel = d.channel => c = d
      BY <3>1, <3>3 DEF Unique
    <3>6. \A x \in O : \E c \in C : c.channel = x
      BY DEF OwedIds, ChannelsOf
    <3>7. \A c \in C : f[c] = c.channel
      OBVIOUS
    <3> HIDE DEF C, O, f
    <3>8. f \in Injection(C, O)
      BY <3>4, <3>5, <3>7 DEF Injection, IsInjective
    <3>9. f \in Surjection(C, O)
      BY <3>4, <3>6, <3>7 DEF Surjection
    <3>10. Cardinality(C) = Cardinality(O)
      BY <3>2, <3>8, <3>9, FS_Injection
    <3> QED BY <3>2, <3>10 DEF C
  <2> QED BY <2>1 DEF SetupsOwed
<1> QED BY <1>1, ChannelsInvariant, PTL

----------------------------------------------------------------------------
(* The conversation about channels.                                        *)
(*                                                                         *)
(* C and B are the channels of an end and of its peer, each seen as a view:*)
(* its id, the id of the peer, its uid and the phase it is in.  Q is under *)
(* way to the end, W to its peer.                                          *)

\* The session channel: the first that the client opens.
SessionUid == <<"client", 1>>

\* Messages that begin a channel, that answer an open, after which nothing
\* comes, that carry the id of their sender, and all but these and CLOSE.
Opening == {"OPEN", "OPEN_CONF", "OPEN_FAIL"}
Answer == {"OPEN_CONF", "OPEN_FAIL"}
Ending == {"CLOSE", "OPEN_FAIL"}
Naming == {"OPEN", "OPEN_CONF"}
Plain == {"EOF", "DATA", "WINDOW_ADJUST", "REQUEST", "SUCCESS", "FAILURE"}

\* An end has one channel of a uid.
Single(C) == \A c, d \in C : c.uid = d.uid => c = d

\* What is under way finds its channel.
Received(Q, C) == \A m \in Q : m.type # "OPEN" => \E c \in C : c.id = m.id /\ c.uid = m.uid

\* An answer finds a channel that waits for it, before all else does.
Fitting(Q, C) ==
    \A m \in Q : \A c \in C : m.uid = c.uid =>
        /\ m.type # "OPEN"
        /\ m.type \in Answer => c.phase = "opening"
        /\ c.phase = "opening" => \E n \in Q : n.uid = c.uid /\ n.type \in Answer

\* What its sender has become since.
Meant(Q, B) ==
    \A m \in Q : \A b \in B : m.uid = b.uid =>
        /\ m.type # "OPEN_FAIL"
        /\ m.type = "CLOSE" => b.phase = "closing"
        /\ m.type = "OPEN" <=> b.phase = "opening"
        /\ m.type \in Naming => m.from = b.id

\* Nothing is said of a channel before its open arrives, and whoever gave an
\* id still has the channel.
First(Q, W) == \A m \in Q : \A n \in W : m.uid = n.uid => m.type # "OPEN"
Backed(Q, B) == \A m \in Q : m.type \in Naming => \E b \in B : b.uid = m.uid

\* A confirmed channel knows its peer's id, an open one has a peer.
Acquainted(C, B) == \A c \in C : \A b \in B : c.uid = b.uid /\ c.phase # "opening" => b.id = c.peer
Met(C, B) == \A c \in C : c.phase = "open" => \E b \in B : b.uid = c.uid

\* An open that is not answered is under way, or its answer is.
Awaited(C, Q, W) ==
    \A c \in C : c.phase = "opening" =>
        \/ \E m \in W : m.uid = c.uid /\ m.type = "OPEN"
        \/ \E m \in Q : m.uid = c.uid /\ m.type \in Answer

\* A channel that is closed has told its peer, and will be told.
Announced(C, B, W) ==
    \A c \in C : c.phase = "closing" =>
        \/ \E m \in W : m.uid = c.uid /\ m.type = "CLOSE"
        \/ \A b \in B : b.uid # c.uid
Released(C, B, Q) ==
    \A c \in C : c.phase = "closing" =>
        \/ \E m \in Q : m.uid = c.uid /\ m.type = "CLOSE"
        \/ \E b \in B : b.uid = c.uid

\* Nobody disconnects.
Said(Q) == \A m \in Q : m.type \in Plain \cup Opening \cup {"CLOSE"}

Half(C, Q, B, W) ==
    /\ Single(C) /\ Said(Q)
    /\ Received(Q, C) /\ Fitting(Q, C)
    /\ Meant(Q, B) /\ First(Q, W) /\ Backed(Q, B)
    /\ Acquainted(C, B) /\ Met(C, B) /\ Awaited(C, Q, W)
    /\ Announced(C, B, W) /\ Released(C, B, Q)

Linked(C, Q, B, W) == Half(C, Q, B, W) /\ Half(B, W, C, Q)

\* Each kind of message, sent and taken.
LEMMA PlainSent ==
    ASSUME NEW C, NEW Q, NEW B, NEW W, NEW P, Linked(C, Q, B, W),
           \A m \in P : /\ m.type \in Plain
                        /\ \E c \in C : c.phase = "open" /\ m.id = c.peer /\ m.uid = c.uid
    PROVE  Linked(C, Q, B, W \cup P)
  BY DEF Linked, Half, Said, Single, Received, Fitting, Meant, First, Backed, Acquainted, Met, Awaited,
     Announced, Released, Opening, Answer, Ending, Naming, Plain

LEMMA CloseSent ==
    ASSUME NEW C, NEW Q, NEW B, NEW W, NEW c \in C, NEW d, NEW m, Linked(C, Q, B, W),
           c.phase = "open", d.phase = "closing", d.uid = c.uid, d.id = c.id, d.peer = c.peer,
           m.type = "CLOSE", m.id = c.peer, m.uid = c.uid
    PROVE  Linked((C \ {c}) \cup {d}, Q, B, W \cup {m})
  BY DEF Linked, Half, Said, Single, Received, Fitting, Meant, First, Backed, Acquainted, Met, Awaited,
     Announced, Released, Opening, Answer, Ending, Naming, Plain

LEMMA OpenSent ==
    ASSUME NEW C, NEW Q, NEW B, NEW W, NEW c, NEW m, Linked(C, Q, B, W),
           c.phase = "opening", m.type = "OPEN", m.from = c.id, m.uid = c.uid,
           \A x \in C \cup Q \cup B \cup W : x.uid # c.uid
    PROVE  Linked(C \cup {c}, Q, B, W \cup {m})
  BY DEF Linked, Half, Said, Single, Received, Fitting, Meant, First, Backed, Acquainted, Met, Awaited,
     Announced, Released, Opening, Answer, Ending, Naming, Plain

LEMMA OpenTaken ==
    ASSUME NEW C, NEW Q, NEW B, NEW W, NEW R, NEW c, NEW m, NEW n, Linked(C, Q, B, W),
           m.type = "OPEN", Q = R \cup {m}, \A x \in R : x.uid # m.uid,
           c.phase = "open", c.peer = m.from, c.uid = m.uid,
           n.type = "OPEN_CONF", n.id = m.from, n.from = c.id, n.uid = m.uid
    PROVE  Linked(C \cup {c}, R, B, W \cup {n})
  BY DEF Linked, Half, Said, Single, Received, Fitting, Meant, First, Backed, Acquainted, Met, Awaited,
     Announced, Released, Opening, Answer, Ending, Naming, Plain

LEMMA OpenRefused ==
    ASSUME NEW C, NEW Q, NEW B, NEW W, NEW R, NEW m, NEW n, Linked(C, Q, B, W),
           m.type = "OPEN", Q = R \cup {m}, \A x \in R : x.uid # m.uid,
           n.type = "OPEN_FAIL", n.id = m.from, n.uid = m.uid
    PROVE  Linked(C, R, B, W \cup {n})
  BY DEF Linked, Half, Said, Single, Received, Fitting, Meant, First, Backed, Acquainted, Met, Awaited,
     Announced, Released, Opening, Answer, Ending, Naming, Plain

LEMMA ConfTaken ==
    ASSUME NEW C, NEW Q, NEW B, NEW W, NEW R, NEW c \in C, NEW d, NEW m, Linked(C, Q, B, W),
           m.type = "OPEN_CONF", Q = R \cup {m}, \A x \in R : x.uid = m.uid => x.type \notin Opening,
           c.id = m.id, c.uid = m.uid,
           d.phase = "open", d.peer = m.from, d.uid = c.uid, d.id = c.id
    PROVE  Linked((C \ {c}) \cup {d}, R, B, W)
  BY DEF Linked, Half, Said, Single, Received, Fitting, Meant, First, Backed, Acquainted, Met, Awaited,
     Announced, Released, Opening, Answer, Ending, Naming, Plain

LEMMA FailTaken ==
    ASSUME NEW C, NEW Q, NEW B, NEW W, NEW R, NEW c \in C, NEW m, Linked(C, Q, B, W),
           m.type = "OPEN_FAIL", Q = R \cup {m}, \A x \in R : x.uid # m.uid,
           c.id = m.id, c.uid = m.uid
    PROVE  Linked(C \ {c}, R, B, W)
  BY DEF Linked, Half, Said, Single, Received, Fitting, Meant, First, Backed, Acquainted, Met, Awaited,
     Announced, Released, Opening, Answer, Ending, Naming, Plain

LEMMA CloseTaken ==
    ASSUME NEW C, NEW Q, NEW B, NEW W, NEW R, NEW c \in C, NEW m, Linked(C, Q, B, W),
           m.type = "CLOSE", Q = R \cup {m}, \A x \in R : x.uid # m.uid,
           c.id = m.id, c.uid = m.uid, c.phase = "closing"
    PROVE  Linked(C \ {c}, R, B, W)
  BY DEF Linked, Half, Said, Single, Received, Fitting, Meant, First, Backed, Acquainted, Met, Awaited,
     Announced, Released, Opening, Answer, Ending, Naming, Plain

LEMMA PlainTaken ==
    ASSUME NEW C, NEW Q, NEW B, NEW W, NEW R, NEW m, Linked(C, Q, B, W),
           m.type \in Plain, Q = R \cup {m}
    PROVE  Linked(C, R, B, W)
  BY DEF Linked, Half, Said, Single, Received, Fitting, Meant, First, Backed, Acquainted, Met, Awaited,
     Announced, Released, Opening, Answer, Ending, Naming, Plain

\* Which channel an id of one end was given to, as far as anybody still
\* knows: that end's list B, the peer's C, the messages Q to the peer.
Known(B, C, Q) ==
    {<<b.id, b.uid>> : b \in B} \cup
    {<<c.peer, c.uid>> : c \in {d \in C : d.phase # "opening"}} \cup
    {<<m.from, m.uid>> : m \in {n \in Q : n.type \in Naming}}

\* An id is given to one channel, and 0 to the session.
GivenOnce(K, next) ==
    /\ \A x \in K : x[1] \in Nat /\ x[1] < next
    /\ \A x \in K : x[1] = 0 => x[2] = SessionUid
    /\ \A x, y \in K : x[1] = y[1] => x[2] = y[2]

Sound(C, Q, B, W, nc, nb) ==
    /\ Linked(C, Q, B, W)
    /\ GivenOnce(Known(C, B, W), nc)
    /\ GivenOnce(Known(B, C, Q), nb)

LEMMA GivenLess ==
    ASSUME NEW K, NEW L, NEW n, GivenOnce(K, n), L \subseteq K
    PROVE  GivenOnce(L, n)
  BY DEF GivenOnce

LEMMA GivenMore ==
    ASSUME NEW K, NEW L, NEW n \in Nat, NEW u, GivenOnce(K, n), L \subseteq K \cup {<<n, u>>},
           n = 0 => u = SessionUid
    PROVE  GivenOnce(L, n + 1)
<1>1. ASSUME NEW x \in L PROVE x[1] \in Nat /\ x[1] < n + 1 /\ (x[1] = 0 => x[2] = SessionUid)
  <2>1. CASE x \in K
    BY <2>1 DEF GivenOnce
  <2>2. CASE x = <<n, u>>
    BY <2>2
  <2> QED BY <2>1, <2>2
<1>2. ASSUME NEW x \in L, NEW y \in L, x[1] = y[1] PROVE x[2] = y[2]
  <2>1. CASE x \in K /\ y \in K
    BY <1>2, <2>1 DEF GivenOnce
  <2>2. CASE x = <<n, u>> /\ y = <<n, u>>
    BY <2>2
  <2>3. CASE x \in K /\ y = <<n, u>>
    BY <1>2, <2>3 DEF GivenOnce
  <2>4. CASE x = <<n, u>> /\ y \in K
    BY <1>2, <2>4 DEF GivenOnce
  <2> QED BY <2>1, <2>2, <2>3, <2>4
<1> QED BY <1>1, <1>2 DEF GivenOnce

LEMMA KnownSame ==
    ASSUME NEW B, NEW C, NEW Q, NEW P, \A m \in P : m.type \notin Naming
    PROVE  Known(B, C, Q \cup P) = Known(B, C, Q)
  BY DEF Known

LEMMA KnownOne ==
    ASSUME NEW B, NEW C, NEW Q, NEW m, m.type \notin Naming
    PROVE  Known(B, C, Q \cup {m}) = Known(B, C, Q)
  BY DEF Known

LEMMA KnownSteps ==
    ASSUME NEW B, NEW C, NEW Q
    PROVE  /\ \A R : R \subseteq Q => Known(B, C, R) \subseteq Known(B, C, Q)
           /\ \A D : D \subseteq B => Known(D, C, Q) \subseteq Known(B, C, Q)
           /\ \A D : D \subseteq C => Known(B, D, Q) \subseteq Known(B, C, Q)
           /\ \A b : Known(B \cup {b}, C, Q) = Known(B, C, Q) \cup {<<b.id, b.uid>>}
           /\ \A c : Known(B, C \cup {c}, Q) \subseteq Known(B, C, Q) \cup {<<c.peer, c.uid>>}
           /\ \A c : c.phase = "opening" => Known(B, C \cup {c}, Q) = Known(B, C, Q)
           /\ \A m : Known(B, C, Q \cup {m}) \subseteq Known(B, C, Q) \cup {<<m.from, m.uid>>}
           /\ \A m \in Q : m.type \in Naming => <<m.from, m.uid>> \in Known(B, C, Q)
           /\ \A b \in B : <<b.id, b.uid>> \in Known(B, C, Q)
           /\ \A c \in C : c.phase # "opening" => <<c.peer, c.uid>> \in Known(B, C, Q)
<1>2. \A R : R \subseteq Q => Known(B, C, R) \subseteq Known(B, C, Q)
  BY DEF Known
<1>3. \A D : D \subseteq B => Known(D, C, Q) \subseteq Known(B, C, Q)
  BY DEF Known
<1>4. \A D : D \subseteq C => Known(B, D, Q) \subseteq Known(B, C, Q)
  BY DEF Known
<1>5. \A b : Known(B \cup {b}, C, Q) = Known(B, C, Q) \cup {<<b.id, b.uid>>}
  BY DEF Known
<1>6. \A c : Known(B, C \cup {c}, Q) \subseteq Known(B, C, Q) \cup {<<c.peer, c.uid>>}
  BY DEF Known
<1>7. \A c : c.phase = "opening" => Known(B, C \cup {c}, Q) = Known(B, C, Q)
  BY DEF Known
<1>8. \A m : Known(B, C, Q \cup {m}) \subseteq Known(B, C, Q) \cup {<<m.from, m.uid>>}
  BY DEF Known
<1>9. \A m \in Q : m.type \in Naming => <<m.from, m.uid>> \in Known(B, C, Q)
  BY DEF Known
<1>10. \A b \in B : <<b.id, b.uid>> \in Known(B, C, Q)
  BY DEF Known
<1>11. \A c \in C : c.phase # "opening" => <<c.peer, c.uid>> \in Known(B, C, Q)
  BY DEF Known
<1> QED BY <1>2, <1>3, <1>4, <1>5, <1>6, <1>7, <1>8, <1>9, <1>10, <1>11

----------------------------------------------------------------------------
(* The ids that are given, through each step of the conversation.          *)

LEMMA SoundPlainSent ==
    ASSUME NEW C, NEW Q, NEW B, NEW W, NEW nc, NEW nb, NEW P, Sound(C, Q, B, W, nc, nb),
           \A m \in P : /\ m.type \in Plain
                        /\ \E c \in C : c.phase = "open" /\ m.id = c.peer /\ m.uid = c.uid
    PROVE  Sound(C, Q, B, W \cup P, nc, nb)
<1>1. Known(C, B, W \cup P) = Known(C, B, W)
  <2>1. \A m \in P : m.type \notin Naming
    BY DEF Plain, Naming
  <2> QED BY <2>1, KnownSame
<1> QED BY <1>1, PlainSent DEF Sound

LEMMA SoundCloseSent ==
    ASSUME NEW C, NEW Q, NEW B, NEW W, NEW nc, NEW nb, NEW c \in C, NEW d, NEW m,
           Sound(C, Q, B, W, nc, nb),
           c.phase = "open", d.phase = "closing", d.uid = c.uid, d.id = c.id, d.peer = c.peer,
           m.type = "CLOSE", m.id = c.peer, m.uid = c.uid
    PROVE  Sound((C \ {c}) \cup {d}, Q, B, W \cup {m}, nc, nb)
<1> DEFINE D == (C \ {c}) \cup {d}
<1>1. Known(D, B, W \cup {m}) \subseteq Known(C, B, W)
  <2>1. Known(D, B, W \cup {m}) = Known(D, B, W)
    <3>1. m.type \notin Naming
      BY DEF Naming
    <3> QED BY <3>1, KnownOne
  <2>2. Known(D, B, W) = Known(C \ {c}, B, W) \cup {<<d.id, d.uid>>}
    BY KnownSteps
  <2>3. Known(C \ {c}, B, W) \subseteq Known(C, B, W) /\ <<c.id, c.uid>> \in Known(C, B, W)
    BY KnownSteps
  <2> QED BY <2>1, <2>2, <2>3
<1>2. Known(B, D, Q) \subseteq Known(B, C, Q)
  <2>1. Known(B, D, Q) \subseteq Known(B, C \ {c}, Q) \cup {<<d.peer, d.uid>>}
    BY KnownSteps
  <2>2. Known(B, C \ {c}, Q) \subseteq Known(B, C, Q) /\ <<c.peer, c.uid>> \in Known(B, C, Q)
    BY KnownSteps
  <2> QED BY <2>1, <2>2
<1>3. Linked(D, Q, B, W \cup {m})
  BY CloseSent DEF Sound
<1> QED BY <1>1, <1>2, <1>3, GivenLess DEF Sound

LEMMA SoundOpenSent ==
    ASSUME NEW C, NEW Q, NEW B, NEW W, NEW nc \in Nat, NEW nb, NEW c, NEW m,
           Sound(C, Q, B, W, nc, nb), nc = 0 => c.uid = SessionUid, c.id = nc,
           c.phase = "opening", m.type = "OPEN", m.from = c.id, m.uid = c.uid,
           \A x \in C \cup Q \cup B \cup W : x.uid # c.uid
    PROVE  Sound(C \cup {c}, Q, B, W \cup {m}, nc + 1, nb)
<1> DEFINE D == C \cup {c}
<1>1. Known(D, B, W \cup {m}) \subseteq Known(C, B, W) \cup {<<nc, c.uid>>}
  <2>1. Known(D, B, W \cup {m}) \subseteq Known(D, B, W) \cup {<<m.from, m.uid>>}
    BY KnownSteps
  <2>2. Known(D, B, W) = Known(C, B, W) \cup {<<c.id, c.uid>>}
    BY KnownSteps
  <2> QED BY <2>1, <2>2
<1>2. Known(B, D, Q) = Known(B, C, Q)
  BY KnownSteps
<1>3. Linked(D, Q, B, W \cup {m})
  BY OpenSent DEF Sound
<1> QED BY <1>1, <1>2, <1>3, GivenMore DEF Sound

LEMMA SoundOpenTaken ==
    ASSUME NEW C, NEW Q, NEW B, NEW W, NEW nc \in Nat, NEW nb, NEW R, NEW c, NEW m, NEW n,
           Sound(C, Q, B, W, nc, nb), nc = 0 => c.uid = SessionUid, c.id = nc,
           m.type = "OPEN", Q = R \cup {m}, \A x \in R : x.uid # m.uid,
           c.phase = "open", c.peer = m.from, c.uid = m.uid,
           n.type = "OPEN_CONF", n.id = m.from, n.from = c.id, n.uid = m.uid
    PROVE  Sound(C \cup {c}, R, B, W \cup {n}, nc + 1, nb)
<1> DEFINE D == C \cup {c}
<1>1. Known(D, B, W \cup {n}) \subseteq Known(C, B, W) \cup {<<nc, c.uid>>}
  <2>1. Known(D, B, W \cup {n}) \subseteq Known(D, B, W) \cup {<<n.from, n.uid>>}
    BY KnownSteps
  <2>2. Known(D, B, W) = Known(C, B, W) \cup {<<c.id, c.uid>>}
    BY KnownSteps
  <2> QED BY <2>1, <2>2
<1>2. Known(B, D, R) \subseteq Known(B, C, Q)
  <2>1. Known(B, D, R) \subseteq Known(B, C, R) \cup {<<c.peer, c.uid>>}
    BY KnownSteps
  <2>2. Known(B, C, R) \subseteq Known(B, C, Q)
    BY KnownSteps
  <2>3. <<m.from, m.uid>> \in Known(B, C, Q)
    <3>1. m \in Q /\ m.type \in Naming
      BY DEF Naming
    <3> QED BY <3>1, KnownSteps
  <2> QED BY <2>1, <2>2, <2>3
<1>3. Linked(D, R, B, W \cup {n})
  BY OpenTaken DEF Sound
<1> QED BY <1>1, <1>2, <1>3, GivenMore, GivenLess DEF Sound

\* A refusal may have spent an id.
LEMMA SoundOpenRefused ==
    ASSUME NEW C, NEW Q, NEW B, NEW W, NEW nc \in Nat, NEW nb, NEW R, NEW m, NEW n, NEW k \in {nc, nc + 1},
           Sound(C, Q, B, W, nc, nb),
           m.type = "OPEN", Q = R \cup {m}, \A x \in R : x.uid # m.uid,
           n.type = "OPEN_FAIL", n.id = m.from, n.uid = m.uid
    PROVE  Sound(C, R, B, W \cup {n}, k, nb)
<1>1. Known(C, B, W \cup {n}) = Known(C, B, W)
  <2>1. n.type \notin Naming
    BY DEF Naming
  <2> QED BY <2>1, KnownOne
<1>2. Known(B, C, R) \subseteq Known(B, C, Q)
  BY KnownSteps
<1>3. Linked(C, R, B, W \cup {n})
  BY OpenRefused DEF Sound
<1>4. GivenOnce(Known(C, B, W), k)
  BY DEF Sound, GivenOnce
<1> QED BY <1>1, <1>2, <1>3, <1>4, GivenLess DEF Sound

LEMMA SoundConfTaken ==
    ASSUME NEW C, NEW Q, NEW B, NEW W, NEW nc, NEW nb, NEW R, NEW c \in C, NEW d, NEW m,
           Sound(C, Q, B, W, nc, nb),
           m.type = "OPEN_CONF", Q = R \cup {m}, \A x \in R : x.uid = m.uid => x.type \notin Opening,
           c.id = m.id, c.uid = m.uid,
           d.phase = "open", d.peer = m.from, d.uid = c.uid, d.id = c.id
    PROVE  Sound((C \ {c}) \cup {d}, R, B, W, nc, nb)
<1> DEFINE D == (C \ {c}) \cup {d}
<1>1. Known(D, B, W) \subseteq Known(C, B, W)
  <2>1. Known(D, B, W) = Known(C \ {c}, B, W) \cup {<<d.id, d.uid>>}
    BY KnownSteps
  <2>2. Known(C \ {c}, B, W) \subseteq Known(C, B, W) /\ <<c.id, c.uid>> \in Known(C, B, W)
    BY KnownSteps
  <2> QED BY <2>1, <2>2
<1>2. Known(B, D, R) \subseteq Known(B, C, Q)
  <2>1. Known(B, D, R) \subseteq Known(B, C \ {c}, R) \cup {<<d.peer, d.uid>>}
    BY KnownSteps
  <2>2. Known(B, C \ {c}, R) \subseteq Known(B, C, R) /\ Known(B, C, R) \subseteq Known(B, C, Q)
    BY KnownSteps
  <2>3. <<m.from, m.uid>> \in Known(B, C, Q)
    <3>1. m \in Q /\ m.type \in Naming
      BY DEF Naming
    <3> QED BY <3>1, KnownSteps
  <2> QED BY <2>1, <2>2, <2>3
<1>3. Linked(D, R, B, W)
  BY ConfTaken DEF Sound
<1> QED BY <1>1, <1>2, <1>3, GivenLess DEF Sound

\* The channel is dropped, on a refusal of its open or on a close.
LEMMA SoundDropped ==
    ASSUME NEW C, NEW Q, NEW B, NEW W, NEW nc, NEW nb, NEW R, NEW c \in C, NEW m,
           Sound(C, Q, B, W, nc, nb),
           m.type = "OPEN_FAIL" \/ (m.type = "CLOSE" /\ c.phase = "closing"),
           Q = R \cup {m}, \A x \in R : x.uid # m.uid,
           c.id = m.id, c.uid = m.uid
    PROVE  Sound(C \ {c}, R, B, W, nc, nb)
<1>1. Known(C \ {c}, B, W) \subseteq Known(C, B, W)
  BY KnownSteps
<1>2. Known(B, C \ {c}, R) \subseteq Known(B, C, Q)
  <2>1. Known(B, C \ {c}, R) \subseteq Known(B, C, R) /\ Known(B, C, R) \subseteq Known(B, C, Q)
    BY KnownSteps
  <2> QED BY <2>1
<1>3. Linked(C \ {c}, R, B, W)
  BY FailTaken, CloseTaken DEF Sound
<1> QED BY <1>1, <1>2, <1>3, GivenLess DEF Sound

LEMMA SoundPlainTaken ==
    ASSUME NEW C, NEW Q, NEW B, NEW W, NEW nc, NEW nb, NEW R, NEW m, Sound(C, Q, B, W, nc, nb),
           m.type \in Plain, Q = R \cup {m}
    PROVE  Sound(C, R, B, W, nc, nb)
<1>1. Known(B, C, R) \subseteq Known(B, C, Q)
  BY KnownSteps
<1>2. Linked(C, R, B, W)
  BY PlainTaken DEF Sound
<1> QED BY <1>1, <1>2, GivenLess DEF Sound

----------------------------------------------------------------------------
(* Views of a session, and the order of a wire.                            *)

\* A channel as the conversation sees it.
Phase(c) == IF ~c.openConfirmed THEN "opening" ELSE IF c.closeTxd THEN "closing" ELSE "open"
View(c) == [id |-> c.channel, peer |-> c.peerChannel, uid |-> c.uid, phase |-> Phase(c)]
Views(s) == {View(s.channelList[i]) : i \in DOMAIN s.channelList}

Msgs(q) == {q[k] : k \in DOMAIN q}

\* On one wire nothing about a channel follows its end or precedes its start,
\* opens come in the order they were made and a shell is asked for once.
Follows(m, n) ==
    /\ m.uid = n.uid => m.type \notin Ending /\ n.type \notin Opening
    /\ m.type = "OPEN" /\ n.type = "OPEN" => m.uid[2] < n.uid[2]
    /\ ~(m.kind = "shell" /\ n.kind = "shell")

Ordered(q) == \A j, k \in DOMAIN q : j < k => Follows(q[j], q[k])

LEMMA MsgsAppend ==
    ASSUME NEW S, NEW q \in Seq(S), NEW m
    PROVE  Msgs(Append(q, m)) = Msgs(q) \cup {m}
<1> DEFINE n == Len(q)  r == Append(q, m)
<1>1. n \in Nat /\ DOMAIN q = 1 .. n /\ DOMAIN r = 1 .. n + 1 /\ r[n + 1] = m
      /\ \A k \in 1 .. n : r[k] = q[k]
  OBVIOUS
<1> HIDE DEF r
<1>2. ASSUME NEW x \in Msgs(r) PROVE x \in Msgs(q) \cup {m}
  <2>1. PICK k \in 1 .. n + 1 : x = r[k]
    BY <1>1, <1>2 DEF Msgs
  <2>2. k \in 1 .. n \/ k = n + 1
    BY <1>1
  <2> QED BY <2>1, <2>2, <1>1 DEF Msgs
<1>3. ASSUME NEW x \in Msgs(q) \cup {m} PROVE x \in Msgs(r)
  <2>1. CASE x = m
    <3>1. n + 1 \in DOMAIN r
      BY <1>1
    <3> QED BY <2>1, <3>1, <1>1 DEF Msgs
  <2>2. CASE x \in Msgs(q)
    <3>1. PICK k \in 1 .. n : x = q[k]
      BY <1>1, <2>2 DEF Msgs
    <3>2. k \in DOMAIN r /\ x = r[k]
      BY <1>1, <3>1
    <3> QED BY <3>2 DEF Msgs
  <2> QED BY <1>3, <2>1, <2>2
<1> QED BY <1>2, <1>3 DEF r

LEMMA MsgsConcat ==
    ASSUME NEW S, NEW q \in Seq(S), NEW p \in Seq(S)
    PROVE  Msgs(q \o p) = Msgs(q) \cup Msgs(p)
<1> DEFINE n == Len(q)  k == Len(p)  r == q \o p
<1>1. /\ n \in Nat /\ k \in Nat /\ DOMAIN q = 1 .. n /\ DOMAIN p = 1 .. k /\ DOMAIN r = 1 .. n + k
      /\ \A i \in 1 .. n : r[i] = q[i]
      /\ \A i \in 1 .. k : r[i + n] = p[i] /\ i + n \in 1 .. n + k
  OBVIOUS
<1> HIDE DEF r
<1>2. ASSUME NEW x \in Msgs(r) PROVE x \in Msgs(q) \cup Msgs(p)
  <2>1. PICK i \in 1 .. n + k : x = r[i]
    BY <1>1, <1>2 DEF Msgs
  <2>2. CASE i \in 1 .. n
    BY <2>1, <2>2, <1>1 DEF Msgs
  <2>3. CASE i \notin 1 .. n
    <3>1. i - n \in 1 .. k /\ (i - n) + n = i
      BY <1>1, <2>3
    <3>2. x = p[i - n]
      BY <3>1, <2>1, <1>1
    <3> QED BY <3>1, <3>2, <1>1 DEF Msgs
  <2> QED BY <2>2, <2>3
<1>3. ASSUME NEW x \in Msgs(q) PROVE x \in Msgs(r)
  <2>1. PICK i \in 1 .. n : x = q[i]
    BY <1>1, <1>3 DEF Msgs
  <2>2. i \in DOMAIN r /\ x = r[i]
    BY <1>1, <2>1
  <2> QED BY <2>2 DEF Msgs
<1>4. ASSUME NEW x \in Msgs(p) PROVE x \in Msgs(r)
  <2>1. PICK i \in 1 .. k : x = p[i]
    BY <1>1, <1>4 DEF Msgs
  <2>2. i + n \in DOMAIN r /\ x = r[i + n]
    BY <1>1, <2>1
  <2> QED BY <2>2 DEF Msgs
<1> QED BY <1>2, <1>3, <1>4 DEF r

LEMMA OrderedConcat ==
    ASSUME NEW S, NEW q \in Seq(S), NEW p \in Seq(S), Ordered(q), Ordered(p),
           \A m \in Msgs(q) : \A n \in Msgs(p) : Follows(m, n)
    PROVE  Ordered(q \o p)
<1> DEFINE n == Len(q)  k == Len(p)  r == q \o p
<1>1. /\ n \in Nat /\ k \in Nat /\ DOMAIN q = 1 .. n /\ DOMAIN p = 1 .. k /\ DOMAIN r = 1 .. n + k
      /\ \A i \in 1 .. n : r[i] = q[i]
      /\ \A i \in 1 .. k : r[i + n] = p[i] /\ i + n \in 1 .. n + k
  OBVIOUS
<1> HIDE DEF r
<1>2. ASSUME NEW i \in 1 .. n + k
      PROVE  \/ i \in 1 .. n /\ r[i] = q[i] /\ r[i] \in Msgs(q)
             \/ i > n /\ i - n \in 1 .. k /\ r[i] = p[i - n] /\ r[i] \in Msgs(p)
  <2>1. CASE i \in 1 .. n
    BY <2>1, <1>1 DEF Msgs
  <2>2. CASE i \notin 1 .. n
    <3>1. i > n /\ i - n \in 1 .. k /\ (i - n) + n = i
      BY <1>1, <2>2
    <3>2. r[i] = p[i - n]
      BY <3>1, <1>1
    <3> QED BY <3>1, <3>2, <1>1 DEF Msgs
  <2> QED BY <2>1, <2>2
<1>3. SUFFICES ASSUME NEW i \in 1 .. n + k, NEW j \in 1 .. n + k, i < j
               PROVE  Follows(r[i], r[j])
  BY <1>1 DEF Ordered, r
<1>4. CASE i \in 1 .. n /\ j \in 1 .. n
  BY <1>1, <1>3, <1>4 DEF Ordered
<1>5. CASE i \in 1 .. n /\ j > n
  <2>1. r[i] \in Msgs(q)
    BY <1>2, <1>5
  <2>2. r[j] \in Msgs(p)
    BY <1>2, <1>5
  <2> QED BY <2>1, <2>2
<1>6. CASE i > n /\ j > n
  <2>1. i - n \in 1 .. k /\ r[i] = p[i - n]
    BY <1>2, <1>6, <1>1
  <2>2. j - n \in 1 .. k /\ r[j] = p[j - n]
    BY <1>2, <1>6, <1>1
  <2>3. i - n < j - n
    BY <1>3, <1>1
  <2> QED BY <2>1, <2>2, <2>3, <1>1 DEF Ordered
<1>7. (i \in 1 .. n \/ i > n) /\ (j \in 1 .. n \/ j > n) /\ ~(i > n /\ j \in 1 .. n)
  BY <1>3, <1>1
<1> QED BY <1>4, <1>5, <1>6, <1>7

LEMMA OrderedAppend ==
    ASSUME NEW S, NEW q \in Seq(S), NEW m, Ordered(q), \A n \in Msgs(q) : Follows(n, m)
    PROVE  Ordered(Append(q, m))
<1> DEFINE n == Len(q)  r == Append(q, m)
<1>1. n \in Nat /\ DOMAIN q = 1 .. n /\ DOMAIN r = 1 .. n + 1 /\ r[n + 1] = m
      /\ \A k \in 1 .. n : r[k] = q[k]
  OBVIOUS
<1> HIDE DEF r
<1>2. SUFFICES ASSUME NEW i \in 1 .. n + 1, NEW j \in 1 .. n + 1, i < j
               PROVE  Follows(r[i], r[j])
  BY <1>1 DEF Ordered, r
<1>3. CASE j \in 1 .. n
  <2>1. i \in 1 .. n
    BY <1>1, <1>2, <1>3
  <2> QED BY <1>1, <1>2, <1>3, <2>1 DEF Ordered
<1>4. CASE j = n + 1
  <2>1. i \in 1 .. n
    BY <1>1, <1>2, <1>4
  <2>2. r[i] \in Msgs(q) /\ r[j] = m
    BY <2>1, <1>1, <1>4 DEF Msgs
  <2> QED BY <2>2
<1> QED BY <1>1, <1>3, <1>4

\* The first message is taken.
LEMMA HeadTaken ==
    ASSUME NEW S, NEW q \in Seq(S), q # <<>>
    PROVE  /\ Head(q) \in S /\ Tail(q) \in Seq(S)
           /\ Msgs(q) = Msgs(Tail(q)) \cup {Head(q)}
           /\ Ordered(q) => Ordered(Tail(q)) /\ \A n \in Msgs(Tail(q)) : Follows(Head(q), n)
<1> DEFINE n == Len(q)  r == Tail(q)
<1>1. /\ n \in Nat /\ n > 0 /\ DOMAIN q = 1 .. n /\ DOMAIN r = 1 .. n - 1 /\ r \in Seq(S)
      /\ Head(q) = q[1] /\ q[1] \in S
      /\ \A k \in 1 .. n - 1 : r[k] = q[k + 1] /\ k + 1 \in 1 .. n
  OBVIOUS
<1> HIDE DEF r
<1>2. ASSUME NEW x \in Msgs(q) PROVE x \in Msgs(r) \cup {q[1]}
  <2>1. PICK k \in 1 .. n : x = q[k]
    BY <1>1, <1>2 DEF Msgs
  <2>2. CASE k = 1
    BY <2>1, <2>2
  <2>3. CASE k # 1
    <3>1. k - 1 \in 1 .. n - 1 /\ (k - 1) + 1 = k
      BY <1>1, <2>3
    <3>2. x = r[k - 1]
      BY <3>1, <2>1, <1>1
    <3> QED BY <3>1, <3>2, <1>1 DEF Msgs
  <2> QED BY <2>2, <2>3
<1>3. ASSUME NEW x \in Msgs(r) PROVE \E k \in 1 .. n : k > 1 /\ x = q[k]
  <2>1. PICK k \in 1 .. n - 1 : x = r[k]
    BY <1>1, <1>3 DEF Msgs
  <2>2. k + 1 \in 1 .. n /\ k + 1 > 1 /\ x = q[k + 1]
    BY <1>1, <2>1
  <2> QED BY <2>2
<1>4. Msgs(q) = Msgs(r) \cup {q[1]}
  <2>1. Msgs(r) \subseteq Msgs(q)
    BY <1>1, <1>3 DEF Msgs
  <2>2. q[1] \in Msgs(q)
    BY <1>1 DEF Msgs
  <2> QED BY <1>2, <2>1, <2>2
<1>5. ASSUME Ordered(q) PROVE Ordered(r)
  <2>1. SUFFICES ASSUME NEW i \in 1 .. n - 1, NEW j \in 1 .. n - 1, i < j
                 PROVE  Follows(r[i], r[j])
    BY <1>1 DEF Ordered
  <2>2. i + 1 < j + 1
    BY <2>1, <1>1
  <2>3. Follows(q[i + 1], q[j + 1])
    BY <1>1, <1>5, <2>2 DEF Ordered
  <2> QED BY <2>3, <1>1
<1>6. ASSUME Ordered(q), NEW x \in Msgs(r) PROVE Follows(q[1], x)
  <2>1. PICK k \in 1 .. n : k > 1 /\ x = q[k]
    BY <1>3, <1>6
  <2>2. 1 \in 1 .. n /\ 1 < k
    BY <1>1, <2>1
  <2> QED BY <2>1, <2>2, <1>1, <1>6 DEF Ordered
<1> QED BY <1>1, <1>4, <1>5, <1>6 DEF r

LEMMA ConcatAppend ==
    ASSUME NEW S, NEW q \in Seq(S), NEW p \in Seq(S), NEW m \in S
    PROVE  q \o Append(p, m) = Append(q \o p, m)
  OBVIOUS

LEMMA ConcatAssoc ==
    ASSUME NEW S, NEW q \in Seq(S), NEW p \in Seq(S), NEW r \in Seq(S)
    PROVE  q \o (p \o r) = (q \o p) \o r
  OBVIOUS

----------------------------------------------------------------------------
(* An end in the midst of a call, and what it may send.                    *)

\* A channel at place i of its list; x is the one whose close is being answered.
Neat(c, i, keying, x) ==
    /\ ~c.openConfirmed => ~c.closeTxd /\ c.peerChannel = 0
    /\ c.closeTxd => c.eofTxd
    /\ c.pendingWindowAdjust => keying /\ c.openConfirmed /\ (c.closeTxd => c.uid = x)
    /\ c.channelType = "session" => c.uid = SessionUid
    /\ c.uid = SessionUid => i = 1

Tidy(s, x) ==
    /\ \A i \in DOMAIN s.channelList : Neat(s.channelList[i], i, s.isKeying, x)
    /\ \A i, j \in DOMAIN s.channelList : s.channelList[i].uid = s.channelList[j].uid => i = j
    /\ ~s.disconnected
    /\ s.refused = {}

\* An end is in s in the midst of a call: q is under way to it, its peer is
\* in t and is sent w and what the call has sent so far.
Talk(s, q, t, w, x) ==
    /\ s \in Session /\ t \in Session /\ q \in Seq(Packet) /\ w \in Seq(Packet)
    /\ Sound(Views(s), Msgs(q), Views(t), Msgs(w \o s.out), s.nextChannel, t.nextChannel)
    /\ Ordered(q) /\ Ordered(w \o s.out)
    /\ Tidy(s, x)

UidsOf(s) == {s.channelList[i].uid : i \in DOMAIN s.channelList}

\* A call opens nothing and asks for no shell.
Quiet(s, r) ==
    /\ r.nextChannel = s.nextChannel
    /\ r.connectState = s.connectState /\ r.serverState = s.serverState
    /\ r.acceptState = s.acceptState /\ r.clientState = s.clientState
    /\ UidsOf(r) \subseteq UidsOf(s)
    /\ \A m \in Msgs(r.out) :
          m \in Msgs(s.out) \/ (m.type # "OPEN" /\ m.kind # "shell" /\ m.uid \in UidsOf(s))

LEMMA QuietRefl ==
    ASSUME NEW s
    PROVE  Quiet(s, s)
  BY DEF Quiet

LEMMA QuietTrans ==
    ASSUME NEW s, NEW r, NEW t, Quiet(s, r), Quiet(r, t)
    PROVE  Quiet(s, t)
  BY DEF Quiet

LEMMA Flags ==
    ASSUME NEW c \in Channel
    PROVE  /\ c.openConfirmed \in BOOLEAN /\ c.closeTxd \in BOOLEAN /\ c.eofTxd \in BOOLEAN
           /\ c.pendingWindowAdjust \in BOOLEAN /\ c.unread \in BOOLEAN /\ c.eofRxd \in BOOLEAN
           /\ c.sessionGranted \in BOOLEAN
           /\ c.openConfirmed /\ ~c.closeTxd <=> Phase(c) = "open"
           /\ ~c.openConfirmed <=> Phase(c) = "opening"
           /\ c.openConfirmed /\ c.closeTxd <=> Phase(c) = "closing"
  BY DEF Channel, Phase

LEMMA ViewFields ==
    ASSUME NEW c
    PROVE  /\ View(c).id = c.channel /\ View(c).peer = c.peerChannel
           /\ View(c).uid = c.uid /\ View(c).phase = Phase(c)
  BY DEF View

\* The order of a new message about a channel that is open.
LEMMA PlainFollows ==
    ASSUME NEW C, NEW Q, NEW B, NEW W, NEW nc, NEW nb, Sound(C, Q, B, W, nc, nb),
           NEW c \in C, c.phase = "open", NEW m, m.uid = c.uid, m.type \in Plain \cup {"CLOSE"},
           m.kind = "shell" => \A n \in W : n.kind # "shell"
    PROVE  \A n \in W : Follows(n, m)
  BY DEF Sound, Linked, Half, Meant, Follows, Ending, Opening, Plain

\* r is s once m is sent.
Sent(s, r, w, m) ==
    /\ r \in Session /\ r.channelList = s.channelList /\ r.nextChannel = s.nextChannel
    /\ r.isKeying = s.isKeying /\ r.disconnected = s.disconnected /\ r.refused = s.refused
    /\ r.connectState = s.connectState /\ r.serverState = s.serverState
    /\ r.acceptState = s.acceptState /\ r.clientState = s.clientState
    /\ w \o s.out \in Seq(Packet)
    /\ w \o r.out = Append(w \o s.out, m)
    /\ Msgs(w \o r.out) = Msgs(w \o s.out) \cup {m}
    /\ Msgs(r.out) = Msgs(s.out) \cup {m}

LEMMA OutSent ==
    ASSUME NEW s \in Session, NEW w \in Seq(Packet), NEW m \in Packet
    PROVE  Sent(s, Send(s, m), w, m)
<1>1. s.out \in Seq(Packet) /\ Append(s.out, m) \in Seq(Packet) /\ w \o s.out \in Seq(Packet)
  BY Fields
<1>2. Send(s, m) = [s EXCEPT !.out = Append(s.out, m)]
  BY DEF Send
<1>3. /\ Send(s, m) \in Session
      /\ Send(s, m).channelList = s.channelList /\ Send(s, m).nextChannel = s.nextChannel
      /\ Send(s, m).isKeying = s.isKeying /\ Send(s, m).disconnected = s.disconnected
      /\ Send(s, m).refused = s.refused
      /\ Send(s, m).connectState = s.connectState /\ Send(s, m).serverState = s.serverState
      /\ Send(s, m).acceptState = s.acceptState /\ Send(s, m).clientState = s.clientState
      /\ Send(s, m).out = Append(s.out, m)
  BY <1>1, <1>2 DEF Session
<1>4. w \o Send(s, m).out = Append(w \o s.out, m)
  BY <1>1, <1>3, ConcatAppend
<1>5. /\ Msgs(w \o Send(s, m).out) = Msgs(w \o s.out) \cup {m}
      /\ Msgs(Send(s, m).out) = Msgs(s.out) \cup {m}
  BY <1>1, <1>3, <1>4, MsgsAppend
<1> HIDE DEF Send
<1> QED BY <1>1, <1>3, <1>4, <1>5 DEF Sent

\* Anything but an open or a close may be sent about a channel that is open.
LEMMA SendTalk ==
    ASSUME NEW s, NEW q, NEW t, NEW w, NEW x, Talk(s, q, t, w, x), NEW i \in DOMAIN s.channelList,
           Phase(s.channelList[i]) = "open", NEW m \in Packet, m.type \in Plain,
           m.id = s.channelList[i].peerChannel, m.uid = s.channelList[i].uid,
           m.kind = "shell" => \A n \in Msgs(w \o s.out) : n.kind # "shell"
    PROVE  /\ Talk(Send(s, m), q, t, w, x)
           /\ Send(s, m).channelList = s.channelList
           /\ m.kind # "shell" => Quiet(s, Send(s, m))
<1> DEFINE c == View(s.channelList[i])  W == Msgs(w \o s.out)  r == Send(s, m)
<1>1. s \in Session /\ t \in Session /\ q \in Seq(Packet) /\ w \in Seq(Packet)
  BY DEF Talk
<1>2. c \in Views(s) /\ c.phase = "open" /\ m.id = c.peer /\ m.uid = c.uid
  BY ViewFields DEF Views
<1>3. /\ r \in Session /\ r.channelList = s.channelList /\ r.nextChannel = s.nextChannel
      /\ r.isKeying = s.isKeying /\ r.disconnected = s.disconnected
      /\ r.refused = s.refused
      /\ r.connectState = s.connectState /\ r.serverState = s.serverState
      /\ r.acceptState = s.acceptState /\ r.clientState = s.clientState
      /\ w \o r.out = Append(w \o s.out, m)
      /\ w \o s.out \in Seq(Packet)
      /\ Msgs(w \o r.out) = W \cup {m}
      /\ Msgs(r.out) = Msgs(s.out) \cup {m}
  <2>1. Sent(s, r, w, m)
    BY <1>1, OutSent
  <2> HIDE DEF r
  <2> QED BY <2>1 DEF Sent
<1> HIDE DEF r, c
<1>4. Views(r) = Views(s) /\ UidsOf(r) = UidsOf(s) /\ (Tidy(s, x) => Tidy(r, x))
  BY <1>3 DEF Views, UidsOf, Tidy
<1>5. \A n \in W : Follows(n, m)
  BY <1>2, PlainFollows DEF Talk
<1>6. Ordered(w \o r.out)
  BY <1>3, <1>5, OrderedAppend DEF Talk
<1>7. Sound(Views(r), Msgs(q), Views(t), Msgs(w \o r.out), r.nextChannel, t.nextChannel)
  <2> DEFINE P == {m}
  <2>1. \A p \in P : p.type \in Plain /\ \E d \in Views(s) : d.phase = "open" /\ p.id = d.peer /\ p.uid = d.uid
    BY <1>2
  <2>2. Sound(Views(s), Msgs(q), Views(t), W, s.nextChannel, t.nextChannel)
    BY DEF Talk
  <2> HIDE DEF P, W
  <2>3. Sound(Views(s), Msgs(q), Views(t), W \cup P, s.nextChannel, t.nextChannel)
    BY <2>1, <2>2, SoundPlainSent
  <2> QED BY <2>3, <1>3, <1>4 DEF P
<1>8. Talk(r, q, t, w, x)
  BY <1>1, <1>3, <1>4, <1>6, <1>7 DEF Talk
<1>9. m.uid \in UidsOf(s) /\ m.type # "OPEN"
  BY DEF UidsOf, Plain
<1>10. m.kind # "shell" => Quiet(s, r)
  BY <1>3, <1>4, <1>9 DEF Quiet
<1> QED BY <1>3, <1>8, <1>10 DEF r

LEMMA PutFields ==
    ASSUME NEW s \in Session, NEW i \in DOMAIN s.channelList, NEW d \in Channel
    PROVE  LET r == [s EXCEPT !.channelList[i] = d] IN
           /\ r \in Session /\ r.channelList = [s.channelList EXCEPT ![i] = d]
           /\ r.nextChannel = s.nextChannel
           /\ r.isKeying = s.isKeying /\ r.disconnected = s.disconnected
           /\ r.refused = s.refused
           /\ r.connectState = s.connectState /\ r.serverState = s.serverState
           /\ r.acceptState = s.acceptState /\ r.clientState = s.clientState
           /\ r.out = s.out
           /\ DOMAIN r.channelList = DOMAIN s.channelList
           /\ \A j \in DOMAIN s.channelList : r.channelList[j] = IF j = i THEN d ELSE s.channelList[j]
<1> DEFINE l == [s.channelList EXCEPT ![i] = d]
           r == [s EXCEPT !.channelList[i] = d]
<1>1. /\ l \in Seq(Channel) /\ DOMAIN l = DOMAIN s.channelList
      /\ \A j \in DOMAIN s.channelList : l[j] = IF j = i THEN d ELSE s.channelList[j]
  BY Fields
<1>2. r = [s EXCEPT !.channelList = l]
  BY DEF Session
<1> HIDE DEF l
<1> QED BY <1>1, <1>2 DEF Session, l

\* One channel is replaced by another with its uid.
LEMMA PutViews ==
    ASSUME NEW s \in Session, NEW x, Tidy(s, x), NEW i \in DOMAIN s.channelList, NEW d \in Channel,
           d.uid = s.channelList[i].uid, Neat(d, i, s.isKeying, x)
    PROVE  LET r == [s EXCEPT !.channelList[i] = d] IN
           /\ Tidy(r, x) /\ UidsOf(r) = UidsOf(s)
           /\ Views(r) = (Views(s) \ {View(s.channelList[i])}) \cup {View(d)}
<1> DEFINE r == [s EXCEPT !.channelList[i] = d]  c == s.channelList[i]
<1>1. /\ r \in Session /\ DOMAIN r.channelList = DOMAIN s.channelList
      /\ r.isKeying = s.isKeying /\ r.disconnected = s.disconnected
      /\ r.refused = s.refused
      /\ \A j \in DOMAIN s.channelList : r.channelList[j] = IF j = i THEN d ELSE s.channelList[j]
  BY PutFields
<1> HIDE DEF r
<1>2. Tidy(r, x)
  BY <1>1 DEF Tidy
<1>3. UidsOf(r) = UidsOf(s)
  BY <1>1 DEF UidsOf
<1>4. ASSUME NEW j \in DOMAIN s.channelList, j # i PROVE View(s.channelList[j]) # View(c)
  <2>1. s.channelList[j].uid # c.uid
    BY <1>4 DEF Tidy
  <2> QED BY <2>1, ViewFields
<1>5. ASSUME NEW y \in Views(r) PROVE y \in (Views(s) \ {View(c)}) \cup {View(d)}
  <2>1. PICK j \in DOMAIN s.channelList : y = View(r.channelList[j])
    BY <1>1, <1>5 DEF Views
  <2>2. CASE j = i
    BY <2>1, <2>2, <1>1
  <2>3. CASE j # i
    BY <2>1, <2>3, <1>1, <1>4 DEF Views
  <2> QED BY <2>2, <2>3
<1>6. ASSUME NEW y \in Views(s), y # View(c) PROVE y \in Views(r)
  <2>1. PICK j \in DOMAIN s.channelList : y = View(s.channelList[j])
    BY <1>6 DEF Views
  <2>2. j # i
    BY <2>1, <1>6
  <2> QED BY <2>1, <2>2, <1>1 DEF Views
<1>7. View(d) \in Views(r)
  BY <1>1 DEF Views
<1> QED BY <1>2, <1>3, <1>5, <1>6, <1>7 DEF r

LEMMA PutViewsIs ==
    ASSUME NEW s \in Session, NEW x, Tidy(s, x), NEW i \in DOMAIN s.channelList, NEW d \in Channel,
           d.uid = s.channelList[i].uid, Neat(d, i, s.isKeying, x),
           NEW u, u = [s EXCEPT !.channelList[i] = d]
    PROVE  /\ Tidy(u, x) /\ UidsOf(u) = UidsOf(s)
           /\ Views(u) = (Views(s) \ {View(s.channelList[i])}) \cup {View(d)}
  BY PutViews

\* A flag the conversation does not see.
LEMMA PutTalk ==
    ASSUME NEW s, NEW q, NEW t, NEW w, NEW x, Talk(s, q, t, w, x), NEW i \in DOMAIN s.channelList,
           NEW d \in Channel, View(d) = View(s.channelList[i]), Neat(d, i, s.isKeying, x)
    PROVE  LET r == [s EXCEPT !.channelList[i] = d] IN
           Talk(r, q, t, w, x) /\ Quiet(s, r) /\ Views(r) = Views(s)
<1> DEFINE r == [s EXCEPT !.channelList[i] = d]  c == s.channelList[i]
<1>1. s \in Session /\ t \in Session /\ q \in Seq(Packet) /\ w \in Seq(Packet) /\ Tidy(s, x)
  BY DEF Talk
<1>2. /\ r \in Session /\ r.nextChannel = s.nextChannel /\ r.out = s.out
      /\ r.connectState = s.connectState /\ r.serverState = s.serverState
      /\ r.acceptState = s.acceptState /\ r.clientState = s.clientState
  BY <1>1, PutFields
<1>3. d.uid = c.uid
  BY ViewFields
<1>4. Tidy(r, x) /\ UidsOf(r) = UidsOf(s) /\ Views(r) = (Views(s) \ {View(c)}) \cup {View(d)}
  <2>1. s \in Session /\ Tidy(s, x) /\ d.uid = s.channelList[i].uid
    BY <1>1, <1>3
  <2>2. r = [s EXCEPT !.channelList[i] = d]
    OBVIOUS
  <2> HIDE DEF r
  <2> QED BY <2>1, <2>2, PutViewsIs
<1>5. View(c) \in Views(s)
  BY DEF Views
<1> HIDE DEF r, c
<1>6. Views(r) = Views(s)
  BY <1>4, <1>5 DEF c
<1> QED BY <1>1, <1>2, <1>4, <1>6 DEF Talk, Quiet, r

\* The close of channel i makes d of it and r of s.
Shut(s, i, d, r) ==
    LET c == s.channelList[i]
        m == Msg("CLOSE", c.peerChannel, 0, "none", c.uid)
    IN  d = [c EXCEPT !.closeTxd = TRUE] /\ r = [Send(s, m) EXCEPT !.channelList[i] = d]

\* The channel may be closed, x being the one whose close is being answered.
Closable(s, i, x) ==
    /\ Phase(s.channelList[i]) = "open" /\ s.channelList[i].eofTxd
    /\ s.channelList[i].pendingWindowAdjust => s.channelList[i].uid = x

Closed(s, i, d, r) ==
    /\ Quiet(s, r) /\ r.channelList = [s.channelList EXCEPT ![i] = d]
    /\ Views(r) = (Views(s) \ {View(s.channelList[i])}) \cup {View(d)}
    /\ Phase(d) = "closing"

\* The close of a channel that is open and at its end of file.
LEMMA CloseTalk ==
    ASSUME NEW s, NEW q, NEW t, NEW w, NEW x, Talk(s, q, t, w, x), NEW i \in DOMAIN s.channelList,
           Closable(s, i, x), NEW b, NEW y, Shut(s, i, b, y)
    PROVE  Talk(y, q, t, w, x) /\ Closed(s, i, b, y)
<1> DEFINE c == s.channelList[i]
           m == Msg("CLOSE", c.peerChannel, 0, "none", c.uid)
           d == [c EXCEPT !.closeTxd = TRUE]
           u == Send(s, m)
           r == [u EXCEPT !.channelList[i] = d]
           W == Msgs(w \o s.out)
<1> /\ Phase(s.channelList[i]) = "open" /\ s.channelList[i].eofTxd
    /\ s.channelList[i].pendingWindowAdjust => s.channelList[i].uid = x
  BY DEF Closable
<1>20. b = d /\ y = r
  BY DEF Shut
<1>1. s \in Session /\ t \in Session /\ q \in Seq(Packet) /\ w \in Seq(Packet) /\ Tidy(s, x) /\ c \in Channel
  BY Fields DEF Talk
<1>2. m \in Packet /\ m.type = "CLOSE" /\ m.id = c.peerChannel /\ m.uid = c.uid /\ m.kind = "none"
  <2>1. m \in Packet
    BY <1>1, ChannelFields, ZeroIsAnId, MsgIsPacket
  <2> QED BY <2>1 DEF Msg
<1>3. /\ u \in Session /\ u.channelList = s.channelList /\ u.nextChannel = s.nextChannel
      /\ u.isKeying = s.isKeying /\ u.disconnected = s.disconnected
      /\ u.refused = s.refused
      /\ u.connectState = s.connectState /\ u.serverState = s.serverState
      /\ u.acceptState = s.acceptState /\ u.clientState = s.clientState
      /\ w \o u.out = Append(w \o s.out, m)
      /\ w \o s.out \in Seq(Packet)
      /\ Msgs(w \o u.out) = W \cup {m}
      /\ Msgs(u.out) = Msgs(s.out) \cup {m}
  <2>1. Sent(s, u, w, m)
    <3> HIDE DEF m
    <3> QED BY <1>1, <1>2, OutSent
  <2> HIDE DEF u, m
  <2> QED BY <2>1 DEF Sent
<1>4. /\ d \in Channel /\ d.uid = c.uid /\ d.channel = c.channel /\ d.peerChannel = c.peerChannel
      /\ d.openConfirmed /\ d.closeTxd /\ d.eofTxd /\ d.pendingWindowAdjust = c.pendingWindowAdjust
      /\ d.channelType = c.channelType
  BY <1>1, Flags DEF Channel
<1>5. Phase(d) = "closing"
  BY <1>4 DEF Phase
<1>6. Neat(d, i, u.isKeying, x)
  <2>1. Neat(c, i, s.isKeying, x)
    BY <1>1 DEF Tidy
  <2> HIDE DEF d, c, u
  <2> QED BY <2>1, <1>1, <1>3, <1>4 DEF Neat, c
<1>7. /\ r \in Session /\ r.channelList = [u.channelList EXCEPT ![i] = d]
      /\ r.nextChannel = u.nextChannel
      /\ r.connectState = u.connectState /\ r.serverState = u.serverState
      /\ r.acceptState = u.acceptState /\ r.clientState = u.clientState
      /\ r.out = u.out
  <2> HIDE DEF u, d
  <2> QED BY <1>3, <1>4, PutFields
<1>8. Tidy(u, x) /\ UidsOf(u) = UidsOf(s) /\ Views(u) = Views(s)
  <2> HIDE DEF u
  <2> QED BY <1>1, <1>3 DEF Tidy, UidsOf, Views
<1>9. Tidy(r, x) /\ UidsOf(r) = UidsOf(u) /\ Views(r) = (Views(u) \ {View(c)}) \cup {View(d)}
  <2> HIDE DEF u, d
  <2>1. u.channelList[i] = c /\ i \in DOMAIN u.channelList /\ d.uid = u.channelList[i].uid
    BY <1>3, <1>4
  <2>2. u \in Session /\ d \in Channel /\ Tidy(u, x) /\ Neat(d, i, u.isKeying, x)
    BY <1>3, <1>4, <1>6, <1>8
  <2>3. /\ Tidy(r, x) /\ UidsOf(r) = UidsOf(u)
        /\ Views(r) = (Views(u) \ {View(u.channelList[i])}) \cup {View(d)}
    <3>1. r = [u EXCEPT !.channelList[i] = d]
      OBVIOUS
    <3> HIDE DEF c, r
    <3> QED BY <2>1, <2>2, <3>1, PutViewsIs
  <2> HIDE DEF c, r
  <2> QED BY <2>1, <2>3
<1>10. /\ View(c) \in Views(s) /\ View(c).phase = "open" /\ View(d).phase = "closing"
       /\ View(d).uid = View(c).uid /\ View(d).id = View(c).id /\ View(d).peer = View(c).peer
       /\ m.id = View(c).peer /\ m.uid = View(c).uid
  <2>1. View(c) \in Views(s)
    BY DEF Views
  <2> HIDE DEF c, d, m
  <2> QED BY <2>1, <1>2, <1>4, <1>5, ViewFields DEF c
<1>11. \A n \in W : Follows(n, m)
  <2> HIDE DEF c, m
  <2> QED BY <1>10, <1>2, PlainFollows DEF Talk
<1>12. Ordered(w \o u.out)
  <2> HIDE DEF u, m
  <2> QED BY <1>3, <1>11, OrderedAppend DEF Talk
<1>13. Sound(Views(r), Msgs(q), Views(t), Msgs(w \o r.out), r.nextChannel, t.nextChannel)
  <2>1. Sound(Views(s), Msgs(q), Views(t), W, s.nextChannel, t.nextChannel)
    BY DEF Talk
  <2> DEFINE a == View(c)  z == View(d)
  <2> HIDE DEF a, z, W, m, r, u
  <2>2. Sound((Views(s) \ {a}) \cup {z}, Msgs(q), Views(t), W \cup {m}, s.nextChannel, t.nextChannel)
    BY <2>1, <1>2, <1>10, SoundCloseSent DEF a, z
  <2> QED BY <2>2, <1>3, <1>7, <1>8, <1>9 DEF a, z
<1>14. Talk(r, q, t, w, x)
  <2> HIDE DEF r, u
  <2> QED BY <1>1, <1>7, <1>9, <1>12, <1>13 DEF Talk
<1>15. m.uid \in UidsOf(s) /\ m.type # "OPEN" /\ m.kind # "shell"
  <2>1. c.uid \in UidsOf(s)
    BY DEF UidsOf
  <2> QED BY <2>1, <1>2
<1>16. Quiet(s, r)
  <2> HIDE DEF r, u, m
  <2> QED BY <1>3, <1>7, <1>8, <1>9, <1>15 DEF Quiet
<1> HIDE DEF u
<1>17. r.channelList = [s.channelList EXCEPT ![i] = d]
  BY <1>3, <1>7
<1> HIDE DEF r, d
<1>18. Closed(s, i, d, r)
  BY <1>5, <1>8, <1>9, <1>16, <1>17 DEF Closed
<1> QED BY <1>14, <1>18, <1>20

\* ChannelFind() finds a channel by its own id.
LEMMA FoundSelf ==
    ASSUME NEW s, NEW q, NEW t, NEW w, NEW x, Talk(s, q, t, w, x), NEW i \in DOMAIN s.channelList
    PROVE  FindSelf(s, s.channelList[i].channel) = i
<1> DEFINE K == Known(Views(s), Views(t), Msgs(w \o s.out))
           k == FindSelf(s, s.channelList[i].channel)
<1>1. s \in Session
  BY DEF Talk
<1>2. k \in DOMAIN s.channelList /\ s.channelList[k].channel = s.channelList[i].channel
  BY <1>1, FindFinds
<1>3. ASSUME NEW j \in DOMAIN s.channelList
      PROVE  <<s.channelList[j].channel, s.channelList[j].uid>> \in K
  <2> DEFINE b == View(s.channelList[j])
  <2>1. b \in Views(s) /\ b.id = s.channelList[j].channel /\ b.uid = s.channelList[j].uid
    BY ViewFields DEF Views
  <2> HIDE DEF b
  <2> QED BY <2>1, KnownSteps
<1> DEFINE y == <<s.channelList[k].channel, s.channelList[k].uid>>
           z == <<s.channelList[i].channel, s.channelList[i].uid>>
<1>4. y \in K /\ z \in K /\ y[1] = z[1]
  BY <1>2, <1>3
<1>5. y[2] = z[2]
  <2> HIDE DEF y, z, K
  <2> QED BY <1>4 DEF Talk, Sound, GivenOnce, K
<1>6. s.channelList[k].uid = s.channelList[i].uid
  BY <1>5
<1> QED BY <1>2, <1>6 DEF Talk, Tidy

\* ChannelFind() finds a confirmed channel by its peer's id, although the
\* channels that wait for a confirmation all have peerChannel 0.
LEMMA FoundPeer ==
    ASSUME NEW s, NEW q, NEW t, NEW w, NEW x, Talk(s, q, t, w, x), NEW i \in DOMAIN s.channelList,
           Phase(s.channelList[i]) # "opening"
    PROVE  FindPeer(s, s.channelList[i].peerChannel) = i
<1> DEFINE K == Known(Views(t), Views(s), Msgs(q))
           p == s.channelList[i].peerChannel
           S == {j \in DOMAIN s.channelList : s.channelList[j].peerChannel = p}
<1>1. s \in Session /\ DOMAIN s.channelList \subseteq Nat
  <2>1. s \in Session
    BY DEF Talk
  <2> QED BY <2>1, Fields
<1>2. ASSUME NEW j \in DOMAIN s.channelList, Phase(s.channelList[j]) # "opening"
      PROVE  <<s.channelList[j].peerChannel, s.channelList[j].uid>> \in K
  <2> DEFINE b == View(s.channelList[j])
  <2>1. /\ b \in Views(s) /\ b.peer = s.channelList[j].peerChannel /\ b.uid = s.channelList[j].uid
        /\ b.phase # "opening"
    BY <1>2, ViewFields DEF Views
  <2> HIDE DEF b
  <2> QED BY <2>1, KnownSteps
<1>3. GivenOnce(K, t.nextChannel) /\ Tidy(s, x)
  BY DEF Talk, Sound
<1>4. ASSUME NEW j \in S PROVE i <= j
  <2> DEFINE c == s.channelList[j]
  <2>1. c \in Channel /\ j \in DOMAIN s.channelList /\ c.peerChannel = p /\ Neat(c, j, s.isKeying, x)
    BY <1>1, <1>3, Fields DEF Tidy
  <2>2. CASE Phase(c) = "opening"
    <3>1. p = 0
      BY <2>1, <2>2, Flags DEF Neat
    <3> DEFINE z == <<p, s.channelList[i].uid>>
    <3>2. z \in K /\ z[1] = 0
      BY <1>2, <3>1
    <3>3. z[2] = SessionUid
      <4> HIDE DEF z, K
      <4> QED BY <3>2, <1>3 DEF GivenOnce
    <3>4. s.channelList[i].uid = SessionUid
      BY <3>3
    <3>5. i = 1
      BY <3>4, <1>3 DEF Tidy, Neat
    <3>6. j >= 1
      BY <1>1, <2>1, Fields
    <3> QED BY <3>5, <3>6, <1>1
  <2>3. CASE Phase(c) # "opening"
    <3> DEFINE y == <<c.peerChannel, c.uid>>
               z == <<p, s.channelList[i].uid>>
    <3>1. y \in K /\ z \in K /\ y[1] = z[1]
      BY <1>2, <2>1, <2>3
    <3>2. y[2] = z[2]
      <4> HIDE DEF y, z, K
      <4> QED BY <3>1, <1>3 DEF GivenOnce
    <3>3. c.uid = s.channelList[i].uid
      BY <3>2
    <3>4. i = j
      BY <3>3, <2>1, <1>3 DEF Tidy
    <3> QED BY <3>4, <1>1
  <2> QED BY <2>2, <2>3
<1>5. i \in S /\ S \subseteq Nat
  BY <1>1
<1> HIDE DEF S
<1>6. FirstOf(S) = i
  <2>1. \A j \in S : i <= j
    BY <1>4
  <2>2. ASSUME NEW k \in S, \A j \in S : k <= j PROVE k = i
    <3>1. k <= i /\ i <= k /\ k \in Nat /\ i \in Nat
      BY <1>5, <2>1, <2>2
    <3> QED BY <3>1
  <2>3. S # {} /\ FirstOf(S) = CHOOSE k \in S : \A j \in S : k <= j
    BY <1>5 DEF FirstOf
  <2> QED BY <1>5, <2>1, <2>2, <2>3
<1> QED BY <1>6 DEF FindPeer, S

\* SendChannelEof() of a channel that is open.
LEMMA EofTalk ==
    ASSUME NEW s, NEW q, NEW t, NEW w, NEW x, Talk(s, q, t, w, x), NEW i \in DOMAIN s.channelList,
           Phase(s.channelList[i]) = "open"
    PROVE  LET r == SendChannelEof(s, s.channelList[i].peerChannel)
               c == s.channelList[i]
               d == [c EXCEPT !.eofTxd = TRUE]
           IN  /\ Talk(r, q, t, w, x) /\ Quiet(s, r) /\ Views(r) = Views(s)
               /\ i \in DOMAIN r.channelList /\ r.channelList[i] = d
               /\ Phase(d) = "open"
<1> DEFINE c == s.channelList[i]
           d == [c EXCEPT !.eofTxd = TRUE]
           r == SendChannelEof(s, c.peerChannel)
           m == Msg("EOF", c.peerChannel, 0, "none", c.uid)
           u == Send(s, m)
<1>1. s \in Session /\ Tidy(s, x) /\ c \in Channel /\ Neat(c, i, s.isKeying, x)
  <2>1. s \in Session /\ Tidy(s, x)
    BY DEF Talk
  <2> QED BY <2>1, Fields DEF Tidy
<1>2. FindPeer(s, c.peerChannel) = i /\ i # 0
  <2>1. FindPeer(s, c.peerChannel) = i
    BY FoundPeer
  <2> QED BY <1>1, <2>1, Fields
<1>3. /\ d \in Channel /\ d.channel = c.channel /\ d.peerChannel = c.peerChannel /\ d.uid = c.uid
      /\ d.openConfirmed = c.openConfirmed /\ d.closeTxd = c.closeTxd /\ d.eofTxd
      /\ d.pendingWindowAdjust = c.pendingWindowAdjust /\ d.channelType = c.channelType
  BY <1>1 DEF Channel
<1>4. View(d) = View(c) /\ Phase(d) = Phase(c) /\ Neat(d, i, s.isKeying, x)
  <2> HIDE DEF c, d
  <2> QED BY <1>1, <1>3 DEF View, Phase, Neat
<1>5. CASE c.eofTxd
  <2>1. r = s
    BY <1>2, <1>5 DEF SendChannelEof
  <2>2. d = c
    <3> HIDE DEF c
    <3> QED BY <1>1, <1>5 DEF Channel
  <2> QED BY <2>1, <2>2, QuietRefl
<1>6. CASE ~c.eofTxd
  <2>1. r = [u EXCEPT !.channelList[i].eofTxd = TRUE]
    BY <1>2, <1>6 DEF SendChannelEof, SendAbout
  <2>2. m \in Packet /\ m.type \in Plain /\ m.id = c.peerChannel /\ m.uid = c.uid /\ m.kind = "none"
    <3>1. m \in Packet
      BY <1>1, ChannelFields, ZeroIsAnId, MsgIsPacket
    <3> QED BY <3>1 DEF Msg, Plain
  <2>3. Talk(u, q, t, w, x) /\ u.channelList = s.channelList /\ Quiet(s, u)
    <3> HIDE DEF m
    <3> QED BY <2>2, SendTalk
  <2>4. u.isKeying = s.isKeying /\ u \in Session
    <3> HIDE DEF m
    <3>1. u.isKeying = s.isKeying
      BY <1>1 DEF Send, Session
    <3>2. u \in Session
      BY <2>3 DEF Talk
    <3> QED BY <3>1, <3>2
  <2> HIDE DEF u
  <2>5. r = [u EXCEPT !.channelList[i] = d]
    BY <2>1, <2>3, <2>4 DEF Session
  <2>6. Talk(r, q, t, w, x) /\ Quiet(u, r) /\ Views(r) = Views(u)
    <3>1. /\ i \in DOMAIN u.channelList /\ d \in Channel
          /\ View(d) = View(u.channelList[i]) /\ Neat(d, i, u.isKeying, x)
      BY <1>3, <1>4, <2>3, <2>4
    <3> HIDE DEF d
    <3> QED BY <3>1, <2>3, <2>5, PutTalk
  <2>7. i \in DOMAIN r.channelList /\ r.channelList[i] = d
    <3> HIDE DEF d
    <3> QED BY <1>3, <2>3, <2>4, <2>5, PutFields
  <2>8. Views(u) = Views(s)
    BY <2>3 DEF Views
  <2> HIDE DEF r, d
  <2> QED BY <1>4, <2>3, <2>6, <2>7, <2>8, QuietTrans DEF r, d
<1>7. c.eofTxd \/ ~c.eofTxd
  OBVIOUS
<1> QED BY <1>5, <1>6, <1>7

\* EOF and close, as wolfSSH_ChannelExit() and DoChannelClose() send them.
LEMMA EofCloseTalk ==
    ASSUME NEW s, NEW q, NEW t, NEW w, NEW x, Talk(s, q, t, w, x), NEW i \in DOMAIN s.channelList,
           Phase(s.channelList[i]) = "open",
           s.channelList[i].pendingWindowAdjust => s.channelList[i].uid = x
    PROVE  LET c == s.channelList[i]
               r == SendChannelClose(SendChannelEof(s, c.peerChannel), c.peerChannel)
               d == [c EXCEPT !.eofTxd = TRUE, !.closeTxd = TRUE]
           IN  /\ Talk(r, q, t, w, x) /\ Quiet(s, r)
               /\ i \in DOMAIN r.channelList /\ r.channelList[i] = d
               /\ Views(r) = (Views(s) \ {View(c)}) \cup {View(d)}
               /\ Phase(d) = "closing"
<1> DEFINE c == s.channelList[i]
           u == SendChannelEof(s, c.peerChannel)
           b == [c EXCEPT !.eofTxd = TRUE]
           r == SendChannelClose(u, c.peerChannel)
           d == [c EXCEPT !.eofTxd = TRUE, !.closeTxd = TRUE]
           m == Msg("CLOSE", b.peerChannel, 0, "none", b.uid)
           g == [b EXCEPT !.closeTxd = TRUE]
<1>1. s \in Session /\ c \in Channel
  <2>1. s \in Session
    BY DEF Talk
  <2> QED BY <2>1, Fields
<1>2. /\ Talk(u, q, t, w, x) /\ Quiet(s, u) /\ Views(u) = Views(s)
      /\ i \in DOMAIN u.channelList /\ u.channelList[i] = b
      /\ Phase(b) = "open"
  BY EofTalk
<1>3. /\ b \in Channel /\ b.peerChannel = c.peerChannel /\ b.eofTxd /\ b.uid = c.uid
      /\ b.pendingWindowAdjust = c.pendingWindowAdjust /\ View(b) = View(c) /\ d = g
      /\ ~b.closeTxd
  <2>1. /\ b \in Channel /\ b.peerChannel = c.peerChannel /\ b.eofTxd /\ b.uid = c.uid
        /\ b.pendingWindowAdjust = c.pendingWindowAdjust /\ b.channel = c.channel
        /\ b.openConfirmed = c.openConfirmed /\ b.closeTxd = c.closeTxd
    BY <1>1 DEF Channel
  <2>2. d = g
    BY <1>1 DEF Channel
  <2>3. ~b.closeTxd
    <3> HIDE DEF b
    <3> QED BY <1>2, <2>1, Flags
  <2>4. View(b) = View(c)
    <3> HIDE DEF b, c
    <3> QED BY <2>1 DEF View, Phase
  <2> QED BY <2>1, <2>2, <2>3, <2>4
<1>4. FindPeer(u, c.peerChannel) = i /\ i # 0 /\ u \in Session
  <2> HIDE DEF u, b, c
  <2>1. u \in Session
    BY <1>2 DEF Talk
  <2>2. FindPeer(u, u.channelList[i].peerChannel) = i
    BY <1>2, FoundPeer
  <2> QED BY <1>2, <1>3, <2>1, <2>2, Fields
<1>5. r = [Send(u, m) EXCEPT !.channelList[i] = g]
  <2> HIDE DEF u
  <2>1. r = [Send(u, m) EXCEPT !.channelList[i].closeTxd = TRUE]
    <3> HIDE DEF b, c
    <3> QED BY <1>2, <1>3, <1>4 DEF SendChannelClose, SendAbout
  <2>2. Send(u, m).channelList = u.channelList
    <3> HIDE DEF m
    <3> QED BY <1>4 DEF Send, Session
  <2>3. Send(u, m) = [u EXCEPT !.out = Append(u.out, m)]
    BY DEF Send
  <2> HIDE DEF m, b
  <2> QED BY <2>1, <2>2, <2>3, <1>2, <1>4 DEF Session
<1>6. /\ Talk(r, q, t, w, x) /\ Quiet(u, r)
      /\ r.channelList = [u.channelList EXCEPT ![i] = g]
      /\ Views(r) = (Views(u) \ {View(b)}) \cup {View(g)}
      /\ Phase(g) = "closing"
  <2>1. Closable(u, i, x)
    <3> HIDE DEF b, u
    <3> QED BY <1>2, <1>3 DEF Closable
  <2> HIDE DEF u, r
  <2>2. b = u.channelList[i]
    BY <1>2
  <2>3. Shut(u, i, g, r)
    BY <1>5, <2>2 DEF Shut
  <2> HIDE DEF b, g
  <2>4. Talk(r, q, t, w, x) /\ Closed(u, i, g, r)
    BY <2>1, <2>3, <1>2, CloseTalk
  <2> QED BY <2>2, <2>4 DEF Closed
<1>7. i \in DOMAIN r.channelList /\ r.channelList[i] = g
  <2> HIDE DEF u, r, g
  <2> QED BY <1>2, <1>4, <1>6, Fields
<1>8. Quiet(s, r)
  BY <1>2, <1>6, QuietTrans
<1> HIDE DEF r, g, b, u
<1>9. Views(r) = (Views(s) \ {View(c)}) \cup {View(g)}
  BY <1>2, <1>3, <1>6
<1>10. d = g
  BY <1>3
<1> HIDE DEF d
<1> QED BY <1>6, <1>7, <1>8, <1>9, <1>10 DEF r, u, d

\* SendChannelRequest() on a channel that is open.
LEMMA RequestTalk ==
    ASSUME NEW s, NEW q, NEW t, NEW w, NEW x, Talk(s, q, t, w, x), NEW i \in DOMAIN s.channelList,
           Phase(s.channelList[i]) = "open", NEW kind \in {"shell", "agent-req", "resize", "exit"},
           kind = "shell" => \A n \in Msgs(w \o s.out) : n.kind # "shell"
    PROVE  LET r == SendChannelRequest(s, s.channelList[i].peerChannel, kind)
               m == Msg("REQUEST", s.channelList[i].peerChannel, 0, kind, s.channelList[i].uid)
           IN  /\ r = Send(s, m) /\ m.kind = kind /\ m.type = "REQUEST" /\ m \in Packet
               /\ Talk(r, q, t, w, x) /\ r.channelList = s.channelList
               /\ Views(r) = Views(s)
               /\ kind # "shell" => Quiet(s, r)
<1> DEFINE c == s.channelList[i]
           r == SendChannelRequest(s, c.peerChannel, kind)
           m == Msg("REQUEST", c.peerChannel, 0, kind, c.uid)
<1>1. s \in Session /\ c \in Channel
  <2>1. s \in Session
    BY DEF Talk
  <2> QED BY <2>1, Fields
<1>2. FindPeer(s, c.peerChannel) = i /\ i # 0
  <2>1. FindPeer(s, c.peerChannel) = i
    BY FoundPeer
  <2> QED BY <1>1, <2>1, Fields
<1>3. r = Send(s, m)
  BY <1>2 DEF SendChannelRequest
<1>4. m \in Packet /\ m.type = "REQUEST" /\ m.id = c.peerChannel /\ m.uid = c.uid /\ m.kind = kind
  <2>1. m \in Packet
    BY <1>1, ChannelFields, ZeroIsAnId, MsgIsPacket
  <2> QED BY <2>1 DEF Msg
<1>5. m.type \in Plain
  BY <1>4 DEF Plain
<1>6. /\ Talk(Send(s, m), q, t, w, x) /\ Send(s, m).channelList = s.channelList
      /\ m.kind # "shell" => Quiet(s, Send(s, m))
  <2> HIDE DEF m
  <2> QED BY <1>4, <1>5, SendTalk
<1> HIDE DEF r, m
<1>7. Views(r) = Views(s)
  BY <1>3, <1>6 DEF Views
<1> QED BY <1>3, <1>4, <1>6, <1>7 DEF r, m

\* A state the conversation does not see.
LEMMA StateTalk ==
    ASSUME NEW s, NEW q, NEW t, NEW w, NEW x, Talk(s, q, t, w, x), NEW r \in Session,
           r.channelList = s.channelList, r.nextChannel = s.nextChannel, r.out = s.out,
           r.isKeying = s.isKeying, r.disconnected = s.disconnected, r.refused = s.refused
    PROVE  Talk(r, q, t, w, x) /\ Views(r) = Views(s) /\ UidsOf(r) = UidsOf(s)
<1>1. Views(r) = Views(s) /\ UidsOf(r) = UidsOf(s) /\ (Tidy(s, x) => Tidy(r, x))
  BY DEF Views, UidsOf, Tidy
<1> QED BY <1>1 DEF Talk

\* ChannelRead(): credit is sent, or parked until the key exchange is over.
LEMMA CreditTalk ==
    ASSUME NEW s, NEW q, NEW t, NEW w, NEW x, Talk(s, q, t, w, x), NEW i \in DOMAIN s.channelList,
           Phase(s.channelList[i]) = "open"
    PROVE  LET r == [ChannelCreditWindow(s, i) EXCEPT !.channelList[i].unread = FALSE]
           IN  Talk(r, q, t, w, x) /\ Quiet(s, r) /\ Views(r) = Views(s)
<1> DEFINE c == s.channelList[i]
           v == s.isKeying
           m == Msg("WINDOW_ADJUST", c.peerChannel, 0, "none", c.uid)
           u == IF v THEN s ELSE Send(s, m)
           g == ChannelCreditWindow(s, i)
           b == [c EXCEPT !.pendingWindowAdjust = v]
           d == [b EXCEPT !.unread = FALSE]
           r == [g EXCEPT !.channelList[i].unread = FALSE]
<1>1. s \in Session /\ Tidy(s, x) /\ c \in Channel /\ Neat(c, i, s.isKeying, x) /\ v \in BOOLEAN
  <2>1. s \in Session /\ Tidy(s, x)
    BY DEF Talk
  <2> QED BY <2>1, Fields DEF Tidy
<1>2. m \in Packet /\ m.type \in Plain /\ m.id = c.peerChannel /\ m.uid = c.uid /\ m.kind = "none"
  <2>1. m \in Packet
    BY <1>1, ChannelFields, ZeroIsAnId, MsgIsPacket
  <2> QED BY <2>1 DEF Msg, Plain
<1>3. /\ Talk(u, q, t, w, x) /\ Quiet(s, u) /\ u.channelList = s.channelList
      /\ u.isKeying = s.isKeying /\ u \in Session
  <2>1. Talk(Send(s, m), q, t, w, x) /\ Quiet(s, Send(s, m)) /\ Send(s, m).channelList = s.channelList
    <3> HIDE DEF m
    <3> QED BY <1>2, SendTalk
  <2>2. Send(s, m).isKeying = s.isKeying
    <3> HIDE DEF m
    <3> QED BY <1>1 DEF Send, Session
  <2>3. Talk(u, q, t, w, x) /\ Quiet(s, u) /\ u.channelList = s.channelList /\ u.isKeying = s.isKeying
    BY <2>1, <2>2, QuietRefl
  <2> QED BY <2>3 DEF Talk
<1>4. /\ b \in Channel /\ View(b) = View(c) /\ Neat(b, i, s.isKeying, x)
      /\ d \in Channel /\ View(d) = View(b) /\ Neat(d, i, s.isKeying, x)
  <2>1. /\ b \in Channel /\ b.channel = c.channel /\ b.peerChannel = c.peerChannel /\ b.uid = c.uid
        /\ b.openConfirmed = c.openConfirmed /\ b.closeTxd = c.closeTxd /\ b.eofTxd = c.eofTxd
        /\ b.pendingWindowAdjust = v /\ b.channelType = c.channelType
    BY <1>1 DEF Channel
  <2>2. c.openConfirmed /\ ~c.closeTxd
    <3> HIDE DEF c
    <3> QED BY <1>1, Flags DEF c
  <2>3. View(b) = View(c) /\ Neat(b, i, s.isKeying, x)
    <3> HIDE DEF b, c
    <3> QED BY <2>1, <2>2, <1>1 DEF View, Phase, Neat
  <2> HIDE DEF b
  <2>4. /\ d \in Channel /\ d.channel = b.channel /\ d.peerChannel = b.peerChannel /\ d.uid = b.uid
        /\ d.openConfirmed = b.openConfirmed /\ d.closeTxd = b.closeTxd /\ d.eofTxd = b.eofTxd
        /\ d.pendingWindowAdjust = b.pendingWindowAdjust /\ d.channelType = b.channelType
    BY <2>1 DEF Channel
  <2>5. View(d) = View(b) /\ Neat(d, i, s.isKeying, x)
    <3> HIDE DEF d
    <3> QED BY <2>3, <2>4 DEF View, Phase, Neat
  <2> QED BY <2>1, <2>3, <2>4, <2>5
<1>5. g = [u EXCEPT !.channelList[i] = b]
  <2>1. CASE v
    <3>1. g = [s EXCEPT !.channelList[i].pendingWindowAdjust = TRUE] /\ u = s /\ v = TRUE
      BY <2>1 DEF ChannelCreditWindow
    <3> QED BY <3>1, <1>1 DEF Session
  <2>2. CASE ~v
    <3>1. g = [u EXCEPT !.channelList[i].pendingWindowAdjust = FALSE]
      BY <2>2 DEF ChannelCreditWindow, SendAbout
    <3>2. v = FALSE
      BY <2>2, <1>1
    <3> HIDE DEF u, v
    <3> QED BY <3>1, <3>2, <1>3 DEF Session
  <2> QED BY <2>1, <2>2
<1> HIDE DEF u, g, b
<1>6. Talk(g, q, t, w, x) /\ Quiet(u, g) /\ Views(g) = Views(u)
  <2>1. i \in DOMAIN u.channelList /\ View(b) = View(u.channelList[i]) /\ Neat(b, i, u.isKeying, x)
    BY <1>3, <1>4
  <2> QED BY <2>1, <1>3, <1>4, <1>5, PutTalk
<1>7. /\ g \in Session /\ g.isKeying = s.isKeying /\ i \in DOMAIN g.channelList /\ g.channelList[i] = b
  BY <1>3, <1>4, <1>5, PutFields
<1>8. r = [g EXCEPT !.channelList[i] = d]
  BY <1>7 DEF Session
<1> HIDE DEF d, r
<1>9. Talk(r, q, t, w, x) /\ Quiet(g, r) /\ Views(r) = Views(g)
  <2>1. View(d) = View(g.channelList[i]) /\ Neat(d, i, g.isKeying, x) /\ d \in Channel
    BY <1>4, <1>7
  <2> QED BY <2>1, <1>6, <1>7, <1>8, PutTalk
<1>10. Views(u) = Views(s)
  BY <1>3 DEF Views
<1>11. Quiet(s, r)
  BY <1>3, <1>6, <1>9, QuietTrans
<1> QED BY <1>6, <1>9, <1>10, <1>11 DEF r, g

LEMMA UidNotEmpty ==
    ASSUME NEW u \in Uids
    PROVE  u # <<>>
<1>1. PICK e \in Ends : u \in {e} \X (1 .. MaxOpens(e))
  BY DEF Uids
<1>2. u = <<u[1], u[2]>>
  BY <1>1
<1>3. Len(<<u[1], u[2]>>) = 2 /\ Len(<<>>) = 0
  OBVIOUS
<1> QED BY <1>2, <1>3

\* The end of a key exchange: what was parked is sent.
LEMMA PendingTalk ==
    ASSUME NEW s, NEW q, NEW t, NEW w, Talk(s, q, t, w, <<>>), s.out = <<>>
    PROVE  LET r == SendPendingChannelWindowAdjust([s EXCEPT !.isKeying = FALSE])
           IN  Talk(r, q, t, w, <<>>) /\ Quiet(s, r) /\ Views(r) = Views(s)
<1> DEFINE u == [s EXCEPT !.isKeying = FALSE]
           r == SendPendingChannelWindowAdjust(u)
           p == PendingAdjusts(s.channelList)
           l == [i \in DOMAIN s.channelList |-> [s.channelList[i] EXCEPT !.pendingWindowAdjust = FALSE]]
           W == Msgs(w \o s.out)
           Adjust(i) == Msg("WINDOW_ADJUST", s.channelList[i].peerChannel, 0, "none", s.channelList[i].uid)
           P == {Adjust(i) : i \in {j \in DOMAIN s.channelList : s.channelList[j].pendingWindowAdjust}}
<1>1. /\ s \in Session /\ Tidy(s, <<>>) /\ t \in Session /\ q \in Seq(Packet) /\ w \in Seq(Packet)
      /\ Ordered(w) /\ w \o s.out = w
      /\ Sound(Views(s), Msgs(q), Views(t), W, s.nextChannel, t.nextChannel) /\ Ordered(q)
  BY DEF Talk
<1>2. /\ s.channelList \in Seq(Channel) /\ DOMAIN s.channelList = 1 .. Len(s.channelList)
      /\ \A i \in DOMAIN s.channelList : s.channelList[i] \in Channel
  BY <1>1, Fields
<1>3. p \in Seq(P) /\ p \in Seq(Packet)
  <2>1. \A n \in 1 .. Len(s.channelList) : s.channelList[n].pendingWindowAdjust => Adjust(n) \in P
    BY <1>2
  <2> HIDE DEF P
  <2> QED BY <1>2, <2>1, PendingAdjustsIn, PendingAdjustsType
<1>4. ASSUME NEW m \in P
      PROVE  /\ m.type \in Plain /\ m.type = "WINDOW_ADJUST" /\ m.kind = "none" /\ m.uid \in UidsOf(s)
             /\ \E d \in Views(s) : d.phase = "open" /\ m.id = d.peer /\ m.uid = d.uid
  <2>1. PICK i \in DOMAIN s.channelList : s.channelList[i].pendingWindowAdjust /\ m = Adjust(i)
    BY <1>4
  <2> DEFINE c == s.channelList[i]
  <2>2. c \in Channel /\ Neat(c, i, s.isKeying, <<>>) /\ c.uid # <<>>
    <3>1. c \in Channel /\ Neat(c, i, s.isKeying, <<>>)
      BY <1>1, <1>2 DEF Tidy
    <3>2. c.uid \in Uids
      <4> HIDE DEF c
      <4> QED BY <3>1 DEF Channel
    <3>3. c.uid # <<>>
      <4> HIDE DEF c
      <4> QED BY <3>2, UidNotEmpty
    <3> QED BY <3>1, <3>3
  <2>3. Phase(c) = "open"
    <3> HIDE DEF c
    <3> QED BY <2>1, <2>2, Flags DEF Neat, c
  <2>4. View(c) \in Views(s) /\ View(c).phase = "open" /\ View(c).peer = c.peerChannel /\ View(c).uid = c.uid
    BY <2>3, ViewFields DEF Views
  <2>5. m.type = "WINDOW_ADJUST" /\ m.id = c.peerChannel /\ m.uid = c.uid /\ m.kind = "none"
    BY <2>1 DEF Msg
  <2>6. c.uid \in UidsOf(s)
    BY DEF UidsOf
  <2> HIDE DEF c
  <2> QED BY <2>4, <2>5, <2>6 DEF Plain
<1> HIDE DEF P
<1>5. Msgs(p) \subseteq P
  BY <1>3 DEF Msgs
<1>6. ASSUME NEW i \in DOMAIN s.channelList
      PROVE  /\ l[i] \in Channel /\ View(l[i]) = View(s.channelList[i])
             /\ l[i].uid = s.channelList[i].uid /\ Neat(l[i], i, FALSE, <<>>)
  <2> DEFINE c == s.channelList[i]  d == [c EXCEPT !.pendingWindowAdjust = FALSE]
  <2>1. c \in Channel /\ Neat(c, i, s.isKeying, <<>>) /\ l[i] = d
    BY <1>1, <1>2 DEF Tidy
  <2> HIDE DEF c, l
  <2>2. /\ d \in Channel /\ d.channel = c.channel /\ d.peerChannel = c.peerChannel /\ d.uid = c.uid
        /\ d.openConfirmed = c.openConfirmed /\ d.closeTxd = c.closeTxd /\ d.eofTxd = c.eofTxd
        /\ d.pendingWindowAdjust = FALSE /\ d.channelType = c.channelType
    BY <2>1 DEF Channel
  <2> HIDE DEF d
  <2>3. View(d) = View(c) /\ Neat(d, i, FALSE, <<>>)
    BY <2>1, <2>2 DEF View, Phase, Neat
  <2> QED BY <2>1, <2>2, <2>3 DEF c
<1>7. l \in Seq(Channel) /\ DOMAIN l = DOMAIN s.channelList
  <2> DEFINE d(i) == [s.channelList[i] EXCEPT !.pendingWindowAdjust = FALSE]
  <2>1. \A i \in DOMAIN s.channelList : l[i] \in Channel
    BY <1>6
  <2>2. l = [i \in DOMAIN s.channelList |-> d(i)]
    OBVIOUS
  <2> HIDE DEF l, d
  <2>3. DOMAIN l = DOMAIN s.channelList /\ l = [i \in DOMAIN l |-> l[i]]
    BY <2>2
  <2>4. Len(s.channelList) \in Nat
    BY <1>2
  <2> QED BY <1>2, <2>1, <2>3, <2>4
<1>8. /\ r \in Session /\ r.channelList = l /\ r.out = p /\ r.nextChannel = s.nextChannel
      /\ r.isKeying = FALSE /\ r.disconnected = s.disconnected /\ r.refused = s.refused
      /\ r.connectState = s.connectState /\ r.serverState = s.serverState
      /\ r.acceptState = s.acceptState /\ r.clientState = s.clientState
  <2>1. u \in Session /\ u.channelList = s.channelList /\ u.out = <<>>
    BY <1>1 DEF Session
  <2>2. r = [u EXCEPT !.out = <<>> \o p, !.channelList = l]
    BY <2>1 DEF SendPendingChannelWindowAdjust, Session
  <2>3. <<>> \o p = p
    BY <1>3
  <2>4. r = [s EXCEPT !.isKeying = FALSE, !.out = p, !.channelList = l]
    <3> HIDE DEF p, l, r
    <3> QED BY <2>2, <2>3, <1>1 DEF Session
  <2> HIDE DEF p, l, r, u
  <2> QED BY <2>4, <1>1, <1>3, <1>7 DEF Session
<1> HIDE DEF r, l
<1>9. Views(r) = Views(s) /\ UidsOf(r) = UidsOf(s) /\ Tidy(r, <<>>)
  <2>1. Views(r) = Views(s)
    BY <1>6, <1>7, <1>8 DEF Views
  <2>2. UidsOf(r) = UidsOf(s)
    BY <1>6, <1>7, <1>8 DEF UidsOf
  <2>3. Tidy(r, <<>>)
    BY <1>1, <1>6, <1>7, <1>8 DEF Tidy
  <2> QED BY <2>1, <2>2, <2>3
<1> HIDE DEF p
<1>10. Msgs(w \o r.out) = W \cup Msgs(p)
  BY <1>1, <1>3, <1>8, MsgsConcat
<1>11. Sound(Views(r), Msgs(q), Views(t), Msgs(w \o r.out), r.nextChannel, t.nextChannel)
  <2>1. \A m \in Msgs(p) : m.type \in Plain /\ \E d \in Views(s) : d.phase = "open" /\ m.id = d.peer /\ m.uid = d.uid
    BY <1>4, <1>5
  <2> HIDE DEF W
  <2>2. Sound(Views(s), Msgs(q), Views(t), W \cup Msgs(p), s.nextChannel, t.nextChannel)
    BY <1>1, <2>1, SoundPlainSent
  <2> QED BY <2>2, <1>8, <1>9, <1>10
<1>12. Ordered(w \o r.out)
  <2>1. Ordered(p)
    <3>1. SUFFICES ASSUME NEW j \in DOMAIN p, NEW k \in DOMAIN p PROVE Follows(p[j], p[k])
      BY DEF Ordered
    <3>2. p[j] \in P /\ p[k] \in P
      BY <1>5 DEF Msgs
    <3>3. p[j].type = "WINDOW_ADJUST" /\ p[k].type = "WINDOW_ADJUST" /\ p[j].kind = "none"
      BY <3>2, <1>4
    <3> QED BY <3>3 DEF Follows, Ending, Opening
  <2>2. ASSUME NEW n \in Msgs(w), NEW m \in Msgs(p) PROVE Follows(n, m)
    <3>1. m.type \in Plain /\ m.kind = "none"
      BY <1>4, <1>5, <2>2
    <3>2. PICK d \in Views(s) : d.phase = "open" /\ m.id = d.peer /\ m.uid = d.uid
      BY <1>4, <1>5, <2>2
    <3>3. n \in W
      BY <1>1, <2>2
    <3> HIDE DEF W
    <3>4. \A k \in W : Follows(k, m)
      <4>1. m.type \in Plain \cup {"CLOSE"} /\ ~(m.kind = "shell")
        BY <3>1
      <4> QED BY <1>1, <3>2, <4>1, PlainFollows
    <3> QED BY <3>3, <3>4
  <2> QED BY <1>1, <1>3, <1>8, <2>1, <2>2, OrderedConcat
<1>13. Talk(r, q, t, w, <<>>)
  BY <1>1, <1>8, <1>9, <1>11, <1>12 DEF Talk
<1>14. Quiet(s, r)
  <2>1. \A m \in Msgs(r.out) : m.type # "OPEN" /\ m.kind # "shell" /\ m.uid \in UidsOf(s)
    BY <1>4, <1>5, <1>8
  <2> QED BY <2>1, <1>8, <1>9 DEF Quiet
<1> QED BY <1>9, <1>13, <1>14 DEF r

\* ChannelRemove().
LEMMA RemoveViews ==
    ASSUME NEW s, Good(s), NEW x, Tidy(s, x), NEW i \in DOMAIN s.channelList,
           NEW y, y = x \/ x = s.channelList[i].uid
    PROVE  LET r == ChannelRemove(s, i)
               c == s.channelList[i]
           IN  /\ r \in Session /\ Tidy(r, y) /\ Views(r) = Views(s) \ {View(c)}
               /\ UidsOf(r) \subseteq UidsOf(s)
               /\ r.nextChannel = s.nextChannel /\ r.out = s.out
               /\ r.connectState = s.connectState /\ r.serverState = s.serverState
               /\ r.acceptState = s.acceptState /\ r.clientState = s.clientState
<1> DEFINE n == Len(s.channelList)
           list == s.channelList
           c == list[i]
           l == SubSeq(list, 1, i - 1) \o SubSeq(list, i + 1, n)
           r == ChannelRemove(s, i)
           At(j) == IF j < i THEN j ELSE j + 1
           k == IF c.fwdSetupTxd THEN s.setups - 1 ELSE s.setups
<1>1. s \in Session /\ n \in Nat /\ list \in Seq(Channel) /\ DOMAIN list = 1 .. n /\ i \in 1 .. n
  BY Fields DEF Good
<1>2. l \in Seq(Channel) /\ Len(l) = n - 1 /\ DOMAIN l = 1 .. n - 1
  <2>1. l \in Seq(Channel) /\ Len(l) = n - 1
    BY <1>1, WithoutAt
  <2> HIDE DEF l
  <2> QED BY <2>1
<1>3. ASSUME NEW j \in 1 .. n - 1
      PROVE  At(j) \in 1 .. n /\ At(j) # i /\ l[j] = list[At(j)]
  <2>1. l[j] = IF j < i THEN list[j] ELSE list[j + 1]
    BY <1>1, WithoutAt
  <2> HIDE DEF l
  <2> QED BY <2>1, <1>1
<1>4. ASSUME NEW j \in 1 .. n, j # i
      PROVE  \E h \in 1 .. n - 1 : l[h] = list[j]
  <2>1. CASE j < i
    <3>1. j \in 1 .. n - 1 /\ At(j) = j
      BY <2>1, <1>1
    <3> HIDE DEF At, l
    <3> QED BY <3>1, <1>3
  <2>2. CASE j > i
    <3>1. j - 1 \in 1 .. n - 1 /\ At(j - 1) = j
      BY <2>2, <1>1
    <3> HIDE DEF At, l
    <3> QED BY <3>1, <1>3
  <2>3. j < i \/ j > i
    <3>1. j \in Int /\ i \in Int
      BY <1>1
    <3> HIDE DEF l
    <3> QED BY <1>4, <3>1
  <2> HIDE DEF l
  <2> QED BY <2>1, <2>2, <2>3
<1>5. r \in Session
  BY RemoveGood DEF Good
<1>6. r = [s EXCEPT !.setups = k, !.channelList = l]
  BY <1>1 DEF ChannelRemove, ChannelDelete, Session
<1>7. /\ r.channelList = l /\ r.nextChannel = s.nextChannel /\ r.out = s.out
      /\ r.connectState = s.connectState /\ r.serverState = s.serverState
      /\ r.acceptState = s.acceptState /\ r.clientState = s.clientState
      /\ r.isKeying = s.isKeying /\ r.disconnected = s.disconnected /\ r.refused = s.refused
  <2> HIDE DEF r, l, k
  <2> QED BY <1>1, <1>6 DEF Session
<1> HIDE DEF r, l
<1>8. \A j \in 1 .. n : j # i => list[j].uid # c.uid
  BY <1>1 DEF Tidy
<1>9. Views(r) = Views(s) \ {View(c)}
  <2>1. ASSUME NEW v \in Views(r) PROVE v \in Views(s) /\ v # View(c)
    <3>1. PICK j \in 1 .. n - 1 : v = View(l[j])
      BY <2>1, <1>2, <1>7 DEF Views
    <3>2. PICK h \in 1 .. n : h # i /\ v = View(list[h])
      <4> HIDE DEF At
      <4> QED BY <3>1, <1>3
    <3>3. list[h].uid # c.uid
      BY <3>2, <1>8
    <3> QED BY <3>2, <3>3, <1>1, ViewFields DEF Views
  <2>2. ASSUME NEW v \in Views(s), v # View(c) PROVE v \in Views(r)
    <3>1. PICK j \in 1 .. n : v = View(list[j])
      BY <2>2, <1>1 DEF Views
    <3>2. j # i
      BY <3>1, <2>2
    <3>3. PICK h \in 1 .. n - 1 : l[h] = list[j]
      BY <3>2, <1>4
    <3> QED BY <3>1, <3>3, <1>2, <1>7 DEF Views
  <2> QED BY <2>1, <2>2
<1>10. UidsOf(r) \subseteq UidsOf(s)
  <2>1. ASSUME NEW v \in UidsOf(r) PROVE v \in UidsOf(s)
    <3>1. PICK j \in 1 .. n - 1 : v = l[j].uid
      BY <2>1, <1>2, <1>7 DEF UidsOf
    <3>2. PICK h \in 1 .. n : v = list[h].uid
      <4> HIDE DEF At
      <4> QED BY <3>1, <1>3
    <3> QED BY <3>2, <1>1 DEF UidsOf
  <2> QED BY <2>1
<1>11. Tidy(r, y)
  <2>1. ASSUME NEW j \in 1 .. n - 1 PROVE Neat(l[j], j, s.isKeying, y)
    <3>1. At(j) \in 1 .. n /\ At(j) # i /\ l[j] = list[At(j)]
      BY <1>3
    <3>2. Neat(list[At(j)], At(j), s.isKeying, x) /\ list[At(j)].uid # c.uid
      <4> HIDE DEF At
      <4> QED BY <3>1, <1>1, <1>8 DEF Tidy
    <3>3. At(j) = 1 => j = 1
      BY <1>1
    <3> HIDE DEF At
    <3> QED BY <3>1, <3>2, <3>3 DEF Neat
  <2>2. ASSUME NEW j \in 1 .. n - 1, NEW h \in 1 .. n - 1, l[j].uid = l[h].uid PROVE j = h
    <3>1. At(j) \in 1 .. n /\ l[j] = list[At(j)] /\ At(h) \in 1 .. n /\ l[h] = list[At(h)]
      <4> HIDE DEF At
      <4> QED BY <1>3
    <3>2. At(j) = At(h)
      <4> HIDE DEF At
      <4> QED BY <3>1, <2>2, <1>1 DEF Tidy
    <3> QED BY <3>2, <1>1
  <2>3. ~s.disconnected /\ s.refused = {}
    BY DEF Tidy
  <2> QED BY <2>1, <2>2, <2>3, <1>2, <1>7 DEF Tidy
<1> QED BY <1>5, <1>7, <1>9, <1>10, <1>11 DEF r

----------------------------------------------------------------------------
(* The list grows; the next message; the list shrinks.                     *)

\* A channel joins the list.
LEMMA AppendViews ==
    ASSUME NEW s \in Session, NEW x, Tidy(s, x), NEW c \in Channel,
           Neat(c, Len(s.channelList) + 1, s.isKeying, x), c.uid \notin UidsOf(s),
           NEW r, r.channelList = Append(s.channelList, c), r.isKeying = s.isKeying,
           r.disconnected = s.disconnected, r.refused = s.refused
    PROVE  Tidy(r, x) /\ Views(r) = Views(s) \cup {View(c)} /\ UidsOf(r) = UidsOf(s) \cup {c.uid}
<1> DEFINE n == Len(s.channelList)  list == s.channelList  l == r.channelList
<1>1. n \in Nat /\ list \in Seq(Channel) /\ DOMAIN list = 1 .. n
  BY Fields
<1>2. DOMAIN l = 1 .. n + 1 /\ l[n + 1] = c /\ \A i \in 1 .. n : l[i] = list[i]
  BY <1>1
<1> HIDE DEF l
<1>3. \A i \in 1 .. n + 1 : i \in 1 .. n \/ i = n + 1
  BY <1>1
<1>4. n + 1 \in 1 .. n + 1 /\ \A i \in 1 .. n : i \in 1 .. n + 1
  BY <1>1
<1> HIDE DEF n
<1>5. Tidy(r, x)
  <2>1. ASSUME NEW i \in DOMAIN l PROVE Neat(l[i], i, s.isKeying, x)
    BY <1>1, <1>2, <1>3 DEF Tidy, n
  <2>2. \A i \in 1 .. n : list[i].uid # c.uid
    BY <1>1 DEF UidsOf
  <2>3. ASSUME NEW i \in DOMAIN l, NEW j \in DOMAIN l, l[i].uid = l[j].uid PROVE i = j
    BY <1>1, <1>2, <1>3, <2>2, <2>3 DEF Tidy
  <2>4. ~s.disconnected /\ s.refused = {}
    BY DEF Tidy
  <2> QED BY <2>1, <2>3, <2>4 DEF Tidy, l
<1>6. ASSUME NEW v PROVE v \in Views(r) <=> v \in Views(s) \cup {View(c)}
  <2>1. v \in Views(r) <=> \E i \in 1 .. n + 1 : v = View(l[i])
    BY <1>2 DEF Views, l
  <2>2. v \in Views(s) <=> \E i \in 1 .. n : v = View(list[i])
    BY <1>1 DEF Views
  <2> QED BY <2>1, <2>2, <1>2, <1>3, <1>4
<1>7. ASSUME NEW v PROVE v \in UidsOf(r) <=> v \in UidsOf(s) \cup {c.uid}
  <2>1. v \in UidsOf(r) <=> \E i \in 1 .. n + 1 : v = l[i].uid
    BY <1>2 DEF UidsOf, l
  <2>2. v \in UidsOf(s) <=> \E i \in 1 .. n : v = list[i].uid
    BY <1>1 DEF UidsOf
  <2> QED BY <2>1, <2>2, <1>2, <1>3, <1>4
<1>8. Views(r) = Views(s) \cup {View(c)}
  BY <1>6
<1>9. UidsOf(r) = UidsOf(s) \cup {c.uid}
  BY <1>7
<1> QED BY <1>5, <1>8, <1>9

\* While the counter has not wrapped, ChannelNew() gives ids in order.
LEMMA NewIdIsNext ==
    ASSUME NEW s, NEW q, NEW t, NEW w, NEW x, Talk(s, q, t, w, x)
    PROVE  ChannelNewId(s) = s.nextChannel
<1> DEFINE Nth(k) == (s.nextChannel + k) % IdSpace
           P(k) == Nth(k) \notin InUse(s) /\ \A j \in 0 .. k - 1 : Nth(j) \in InUse(s)
<1>1. s \in Session /\ s.nextChannel \in Ids /\ s.nextChannel \in Nat /\ s.nextChannel < IdSpace
  <2>1. s \in Session
    BY DEF Talk
  <2> QED BY <2>1, Fields, ZeroIsAnId DEF Ids
<1>2. s.nextChannel \notin InUse(s)
  <2>1. SUFFICES ASSUME NEW i \in DOMAIN s.channelList PROVE s.channelList[i].channel # s.nextChannel
    BY DEF InUse
  <2> DEFINE b == View(s.channelList[i])  z == <<b.id, b.uid>>
  <2>2. b \in Views(s) /\ b.id = s.channelList[i].channel
    BY ViewFields DEF Views
  <2>3. z \in Known(Views(s), Views(t), Msgs(w \o s.out)) /\ z[1] = b.id
    <3> HIDE DEF b
    <3> QED BY <2>2, KnownSteps
  <2>4. z[1] \in Nat /\ z[1] < s.nextChannel
    <3> HIDE DEF z
    <3> QED BY <2>3 DEF Talk, Sound, GivenOnce
  <2> HIDE DEF z, b
  <2> QED BY <2>2, <2>3, <2>4, <1>1
<1>3. Nth(0) = s.nextChannel
  BY <1>1, ZeroIsAnId, Modulo
<1>4. 0 \in Ids /\ P(0)
  BY <1>2, <1>3, ZeroIsAnId
<1>5. ASSUME NEW k \in Ids, P(k) PROVE k = 0
  <2>1. k \in Nat
    BY DEF Ids
  <2>2. k > 0 => 0 \in 0 .. k - 1
    BY <2>1
  <2> HIDE DEF Nth
  <2> QED BY <1>2, <1>3, <1>5, <2>1, <2>2
<1> DEFINE k0 == CHOOSE k \in Ids : P(k)
<1>6. k0 = 0
  <2> HIDE DEF P
  <2> QED BY <1>4, <1>5
<1>7. ChannelNewId(s) = Nth(k0)
  BY DEF ChannelNewId
<1> HIDE DEF k0
<1> QED BY <1>3, <1>6, <1>7

\* The message that is next finds the channel it is about, in a state that
\* takes it.
LEMMA HeadFinds ==
    ASSUME NEW s, NEW q, NEW t, NEW w, NEW x, Talk(s, q, t, w, x), q # <<>>, Head(q).type # "OPEN"
    PROVE  LET i == FindSelf(s, Head(q).id) IN
           /\ i \in DOMAIN s.channelList /\ i # 0
           /\ s.channelList[i].channel = Head(q).id /\ s.channelList[i].uid = Head(q).uid
           /\ Head(q).type \in Answer <=> Phase(s.channelList[i]) = "opening"
           /\ Head(q).type \in Plain \cup Answer \cup {"CLOSE"}
<1> DEFINE m == Head(q)  Q == Msgs(q)
<1>1. /\ s \in Session /\ Linked(Views(s), Q, Views(t), Msgs(w \o s.out))
      /\ q \in Seq(Packet) /\ Ordered(q)
  BY DEF Talk, Sound
<1>2. m \in Q /\ Q = Msgs(Tail(q)) \cup {m} /\ \A n \in Msgs(Tail(q)) : Follows(m, n)
  BY <1>1, HeadTaken
<1>3. m.type \in Plain \cup Opening \cup {"CLOSE"}
  BY <1>1, <1>2 DEF Linked, Half, Said
<1>4. PICK i \in DOMAIN s.channelList : s.channelList[i].channel = m.id /\ s.channelList[i].uid = m.uid
  <2>1. PICK c \in Views(s) : c.id = m.id /\ c.uid = m.uid
    BY <1>1, <1>2 DEF Linked, Half, Received
  <2> QED BY <2>1, ViewFields DEF Views
<1> DEFINE c == View(s.channelList[i])
<1>5. c \in Views(s) /\ c.uid = m.uid /\ c.phase = Phase(s.channelList[i])
  BY <1>4, ViewFields DEF Views
<1> HIDE DEF c, m, Q
<1>6. m.type \in Answer => c.phase = "opening"
  BY <1>1, <1>2, <1>5 DEF Linked, Half, Fitting
<1>7. c.phase = "opening" => m.type \in Answer
  <2>1. c.phase = "opening" => \E n \in Q : n.uid = c.uid /\ n.type \in Answer
    BY <1>1, <1>2, <1>5 DEF Linked, Half, Fitting
  <2>2. ASSUME NEW n \in Msgs(Tail(q)), n.uid = m.uid PROVE n.type \notin Answer
    BY <1>2, <2>2 DEF Follows, Opening, Answer
  <2> QED BY <2>1, <2>2, <1>2, <1>5
<1>8. FindSelf(s, m.id) = i /\ i # 0
  <2>1. FindSelf(s, m.id) = i
    BY <1>4, FoundSelf
  <2> QED BY <2>1, <1>1, Fields
<1>9. m.type # "OPEN"
  BY DEF m
<1>10. m.type \in Plain \cup Answer \cup {"CLOSE"}
  BY <1>3, <1>9 DEF Opening, Answer
<1> QED BY <1>4, <1>5, <1>6, <1>7, <1>8, <1>10 DEF m

\* A message that changes no channel is taken.
LEMMA PlainHeadTalk ==
    ASSUME NEW s, NEW q, NEW t, NEW w, NEW x, Talk(s, q, t, w, x), q # <<>>, Head(q).type \in Plain
    PROVE  Talk(s, Tail(q), t, w, x)
<1>1. /\ q \in Seq(Packet) /\ Ordered(q)
      /\ Sound(Views(s), Msgs(q), Views(t), Msgs(w \o s.out), s.nextChannel, t.nextChannel)
  BY DEF Talk
<1>2. Tail(q) \in Seq(Packet) /\ Msgs(q) = Msgs(Tail(q)) \cup {Head(q)} /\ Ordered(Tail(q))
  BY <1>1, HeadTaken
<1>3. Sound(Views(s), Msgs(Tail(q)), Views(t), Msgs(w \o s.out), s.nextChannel, t.nextChannel)
  BY <1>1, <1>2, SoundPlainTaken
<1> QED BY <1>2, <1>3 DEF Talk

\* DoChannelOpenFail() and the end of DoChannelClose(): the channel goes.
LEMMA DropTalk ==
    ASSUME NEW s, NEW q, NEW t, NEW w, NEW x, Talk(s, q, t, w, x), Good(s), q # <<>>,
           NEW i \in DOMAIN s.channelList, s.channelList[i].channel = Head(q).id,
           s.channelList[i].uid = Head(q).uid, x = <<>> \/ x = s.channelList[i].uid,
           Head(q).type = "OPEN_FAIL" \/ (Head(q).type = "CLOSE" /\ Phase(s.channelList[i]) = "closing")
    PROVE  LET r == ChannelRemove(s, i) IN
           /\ Talk(r, Tail(q), t, w, <<>>) /\ Quiet(s, r)
           /\ Views(r) = Views(s) \ {View(s.channelList[i])}
<1> DEFINE r == ChannelRemove(s, i)  m == Head(q)  c == View(s.channelList[i])
<1>1. /\ q \in Seq(Packet) /\ Ordered(q) /\ Tidy(s, x) /\ t \in Session /\ w \in Seq(Packet)
      /\ Sound(Views(s), Msgs(q), Views(t), Msgs(w \o s.out), s.nextChannel, t.nextChannel)
      /\ Ordered(w \o s.out)
  BY DEF Talk
<1>2. /\ Tail(q) \in Seq(Packet) /\ Msgs(q) = Msgs(Tail(q)) \cup {m} /\ Ordered(Tail(q))
      /\ \A n \in Msgs(Tail(q)) : Follows(m, n)
  BY <1>1, HeadTaken
<1>3. /\ r \in Session /\ Tidy(r, <<>>) /\ Views(r) = Views(s) \ {c}
      /\ UidsOf(r) \subseteq UidsOf(s)
      /\ r.nextChannel = s.nextChannel /\ r.out = s.out
      /\ r.connectState = s.connectState /\ r.serverState = s.serverState
      /\ r.acceptState = s.acceptState /\ r.clientState = s.clientState
  BY <1>1, RemoveViews
<1>4. /\ c \in Views(s) /\ c.id = m.id /\ c.uid = m.uid
      /\ m.type = "OPEN_FAIL" \/ (m.type = "CLOSE" /\ c.phase = "closing")
  BY ViewFields DEF Views
<1> HIDE DEF r, c, m
<1>5. \A n \in Msgs(Tail(q)) : n.uid # m.uid
  BY <1>2, <1>4 DEF Follows, Ending
<1>6. Sound(Views(s) \ {c}, Msgs(Tail(q)), Views(t), Msgs(w \o s.out), s.nextChannel, t.nextChannel)
  BY <1>1, <1>2, <1>4, <1>5, SoundDropped
<1>7. Talk(r, Tail(q), t, w, <<>>)
  BY <1>1, <1>2, <1>3, <1>6 DEF Talk
<1>8. Quiet(s, r)
  BY <1>3 DEF Quiet
<1> QED BY <1>3, <1>7, <1>8 DEF r, c

----------------------------------------------------------------------------
(* Opens, and the answers to them.                                         *)

\* What an open leaves alone in a session.
Alike(s, r) ==
    /\ r.isKeying = s.isKeying /\ r.disconnected = s.disconnected /\ r.refused = s.refused
    /\ r.connectState = s.connectState /\ r.serverState = s.serverState
    /\ r.acceptState = s.acceptState

\* ChannelNew() has taken the next id.
LEMMA AllocatedFields ==
    ASSUME NEW s, NEW q, NEW t, NEW w, NEW x, Talk(s, q, t, w, x), s.nextChannel + 1 < IdSpace
    PROVE  LET a == Allocated(s) IN
           /\ a \in Session /\ a.nextChannel = s.nextChannel + 1
           /\ a.channelList = s.channelList /\ a.out = s.out /\ Alike(s, a)
           /\ a.clientState = s.clientState
<1> DEFINE k == s.nextChannel + 1
<1>1. s \in Session /\ s.nextChannel \in Nat /\ k \in Ids
  <2>1. s \in Session
    BY DEF Talk
  <2>2. s.nextChannel \in Nat
    BY <2>1, Fields DEF Ids
  <2> QED BY <2>1, <2>2, ZeroIsAnId DEF Ids
<1>2. Allocated(s) = [s EXCEPT !.nextChannel = k]
  <2>1. ChannelNewId(s) = s.nextChannel
    BY NewIdIsNext
  <2>2. (s.nextChannel + 1) % IdSpace = k
    BY <1>1, ZeroIsAnId, Modulo
  <2> QED BY <2>1, <2>2 DEF Allocated
<1> HIDE DEF k
<1>3. /\ Allocated(s) \in Session /\ Allocated(s).nextChannel = k
      /\ Allocated(s).channelList = s.channelList /\ Allocated(s).out = s.out
      /\ Allocated(s).clientState = s.clientState
  BY <1>1, <1>2 DEF Session
<1>4. Alike(s, Allocated(s))
  BY <1>1, <1>2 DEF Session, Alike
<1> QED BY <1>3, <1>4 DEF k

LEMMA SoundSpent ==
    ASSUME NEW C, NEW Q, NEW B, NEW W, NEW nc \in Nat, NEW nb, Sound(C, Q, B, W, nc, nb)
    PROVE  Sound(C, Q, B, W, nc + 1, nb)
<1>1. GivenOnce(Known(C, B, W), nc + 1)
  BY DEF Sound, GivenOnce
<1> QED BY <1>1 DEF Sound

\* An id is spent on nothing.
LEMMA SpentTalk ==
    ASSUME NEW s, NEW q, NEW t, NEW w, NEW x, Talk(s, q, t, w, x), NEW r \in Session,
           r.nextChannel = s.nextChannel + 1, r.channelList = s.channelList, r.out = s.out,
           Alike(s, r)
    PROVE  Talk(r, q, t, w, x) /\ Views(r) = Views(s) /\ UidsOf(r) = UidsOf(s)
<1>1. s \in Session /\ s.nextChannel \in Nat
  <2>1. s \in Session
    BY DEF Talk
  <2> QED BY <2>1, Fields DEF Ids
<1>2. Views(r) = Views(s) /\ UidsOf(r) = UidsOf(s)
  BY DEF Views, UidsOf
<1>3. Tidy(r, x)
  BY DEF Talk, Tidy, Alike
<1>4. Sound(Views(s), Msgs(q), Views(t), Msgs(w \o s.out), s.nextChannel + 1, t.nextChannel)
  BY <1>1, SoundSpent DEF Talk
<1> QED BY <1>2, <1>3, <1>4 DEF Talk

\* uid is a channel nobody has heard of, after all that were opened.
Fresh(u, s, Q, t, W) ==
    /\ u \in Uids /\ s.nextChannel + 1 < IdSpace
    /\ \A y \in Views(s) \cup Q \cup Views(t) \cup W : y.uid # u
    /\ \A x \in W : x.type = "OPEN" => x.uid[2] < u[2]

\* s becomes r with one more channel, and the messages V become W.
Opened(s, r, V, W, kind, uid) ==
    /\ r.nextChannel = s.nextChannel + 1 /\ Alike(s, r) /\ r.clientState = s.clientState
    /\ UidsOf(r) = UidsOf(s) \cup {uid}
    /\ \A y \in Views(r) : y \in Views(s) \/ y.phase = "opening"
    /\ \A x \in W : x \in V \/ (x.type = "OPEN" /\ x.kind = kind /\ x.uid = uid)

\* The channel an end opens, at the end of its list.
LEMMA OpenedTalk ==
    ASSUME NEW s, NEW q, NEW t, NEW w, Talk(s, q, t, w, <<>>),
           Cardinality(InUse(s)) < IdSpace, NEW kind \in Kinds, NEW uid,
           Fresh(uid, s, Msgs(q), t, Msgs(w \o s.out)),
           s.nextChannel = 0 => uid = SessionUid, kind = "session" => uid = SessionUid,
           uid = SessionUid => s.channelList = <<>>
    PROVE  LET c == ChannelNew(s, kind, uid)
               r == SendChannelOpen(ChannelAppend(Allocated(s), c), c)
           IN  /\ Talk(r, q, t, w, <<>>)
               /\ Opened(s, r, Msgs(w \o s.out), Msgs(w \o r.out), kind, uid)
<1> /\ uid \in Uids /\ s.nextChannel + 1 < IdSpace
    /\ \A y \in Views(s) \cup Msgs(q) \cup Views(t) \cup Msgs(w \o s.out) : y.uid # uid
    /\ \A n \in Msgs(w \o s.out) : n.type = "OPEN" => n.uid[2] < uid[2]
  BY DEF Fresh
<1> DEFINE c == ChannelNew(s, kind, uid)
           a == Allocated(s)
           u == ChannelAppend(a, c)
           m == Msg("OPEN", 0, c.channel, kind, uid)
           r == SendChannelOpen(u, c)
<1>1. s \in Session /\ t \in Session /\ q \in Seq(Packet) /\ w \in Seq(Packet) /\ Tidy(s, <<>>)
  BY DEF Talk
<1>2. s.nextChannel \in Nat
  BY <1>1, Fields DEF Ids
<1>3. /\ a \in Session /\ a.nextChannel = s.nextChannel + 1
      /\ a.channelList = s.channelList /\ a.out = s.out /\ Alike(s, a)
      /\ a.clientState = s.clientState
  BY AllocatedFields
<1>4. /\ c \in Channel /\ c.channel = s.nextChannel /\ c.channelType = kind /\ c.uid = uid
      /\ c.peerChannel = 0 /\ ~c.openConfirmed /\ ~c.closeTxd /\ ~c.pendingWindowAdjust
  <2>1. c \in Channel /\ c.channel = ChannelNewId(s)
    BY <1>1, NewChannel
  <2>2. ChannelNewId(s) = s.nextChannel
    BY NewIdIsNext
  <2> QED BY <2>1, <2>2 DEF ChannelNew
<1> HIDE DEF c, a
<1>5. m \in Packet /\ m.type = "OPEN" /\ m.from = c.channel /\ m.uid = uid /\ m.kind = kind
  <2>1. m = [type |-> "OPEN", id |-> 0, from |-> c.channel, kind |-> kind, uid |-> uid]
    BY DEF Msg
  <2>2. c.channel \in Ids /\ 0 \in Ids
    BY <1>4, ChannelFields, ZeroIsAnId
  <2> QED BY <2>1, <2>2 DEF Packet, Message
<1>6. /\ u \in Session /\ u.channelList = Append(s.channelList, c) /\ u.out = s.out
      /\ u.nextChannel = s.nextChannel + 1 /\ Alike(s, u) /\ u.clientState = s.clientState
  <2>1. Append(a.channelList, c) \in Seq(Channel)
    BY <1>3, <1>4, Fields
  <2>2. u = [a EXCEPT !.channelList = Append(a.channelList, c)]
    BY DEF ChannelAppend
  <2> HIDE DEF u
  <2>3. /\ u \in Session /\ u.channelList = Append(a.channelList, c) /\ u.out = a.out
        /\ u.nextChannel = a.nextChannel /\ u.clientState = a.clientState
    BY <2>1, <2>2, <1>3 DEF Session
  <2>4. Alike(a, u)
    BY <2>2, <1>3 DEF Session, Alike
  <2> QED BY <2>3, <2>4, <1>3 DEF Alike
<1>7. r = Send(u, m)
  BY <1>4 DEF SendChannelOpen
<1> HIDE DEF u, m, r
<1>8. Sent(u, r, w, m)
  BY <1>1, <1>5, <1>6, <1>7, OutSent
<1>9. /\ r \in Session /\ r.channelList = Append(s.channelList, c) /\ Alike(s, r)
      /\ r.nextChannel = s.nextChannel + 1 /\ r.clientState = s.clientState
      /\ w \o s.out \in Seq(Packet) /\ w \o r.out = Append(w \o s.out, m)
      /\ Msgs(w \o r.out) = Msgs(w \o s.out) \cup {m}
  BY <1>6, <1>8 DEF Sent, Alike
<1>10. View(c).phase = "opening" /\ View(c).id = s.nextChannel /\ View(c).uid = uid
  BY <1>4, ViewFields DEF Phase
<1>11. Tidy(r, <<>>) /\ Views(r) = Views(s) \cup {View(c)} /\ UidsOf(r) = UidsOf(s) \cup {uid}
  <2>1. Neat(c, Len(s.channelList) + 1, s.isKeying, <<>>)
    <3>1. uid = SessionUid => Len(s.channelList) + 1 = 1
      OBVIOUS
    <3> QED BY <1>4, <3>1 DEF Neat
  <2>2. uid \notin UidsOf(s)
    <3>1. SUFFICES ASSUME NEW i \in DOMAIN s.channelList PROVE s.channelList[i].uid # uid
      BY DEF UidsOf
    <3>2. View(s.channelList[i]) \in Views(s) /\ View(s.channelList[i]).uid = s.channelList[i].uid
      BY ViewFields DEF Views
    <3> QED BY <3>2
  <2>3. /\ r.isKeying = s.isKeying /\ r.disconnected = s.disconnected /\ r.refused = s.refused
        /\ c.uid = uid /\ c.uid \notin UidsOf(s)
    BY <1>4, <1>9, <2>2 DEF Alike
  <2>4. Tidy(r, <<>>) /\ Views(r) = Views(s) \cup {View(c)} /\ UidsOf(r) = UidsOf(s) \cup {c.uid}
    BY <1>1, <1>4, <1>9, <2>1, <2>3, AppendViews
  <2> QED BY <2>3, <2>4
<1>12. Ordered(w \o r.out)
  <2>1. ASSUME NEW n \in Msgs(w \o s.out) PROVE Follows(n, m)
    <3>1. n.uid # m.uid /\ (n.type = "OPEN" => n.uid[2] < m.uid[2])
      BY <1>5
    <3>2. m.kind # "shell"
      BY <1>5 DEF Kinds, ForwardKinds
    <3> QED BY <3>1, <3>2 DEF Follows
  <2>2. Ordered(w \o s.out)
    BY DEF Talk
  <2> QED BY <1>9, <2>1, <2>2, OrderedAppend
<1>13. Sound(Views(r), Msgs(q), Views(t), Msgs(w \o r.out), r.nextChannel, t.nextChannel)
  <2> DEFINE b == View(c)  C == Views(s)  Q == Msgs(q)  B == Views(t)  W == Msgs(w \o s.out)
  <2>1. Sound(C, Q, B, W, s.nextChannel, t.nextChannel)
    BY DEF Talk
  <2>2. /\ b.uid = uid /\ b.id = s.nextChannel /\ b.phase = "opening"
        /\ m.type = "OPEN" /\ m.from = b.id /\ m.uid = b.uid
    BY <1>4, <1>5, <1>10
  <2>3. \A y \in C \cup Q \cup B \cup W : y.uid # b.uid
    BY <2>2
  <2> HIDE DEF b, C, Q, B, W
  <2>4. Sound(C \cup {b}, Q, B, W \cup {m}, s.nextChannel + 1, t.nextChannel)
    BY <1>2, <2>1, <2>2, <2>3, SoundOpenSent
  <2> QED BY <2>4, <1>9, <1>11 DEF b, C, Q, B, W
<1>14. Talk(r, q, t, w, <<>>)
  BY <1>1, <1>9, <1>11, <1>12, <1>13 DEF Talk
<1>15. Opened(s, r, Msgs(w \o s.out), Msgs(w \o r.out), kind, uid)
  BY <1>5, <1>9, <1>10, <1>11 DEF Opened
<1> QED BY <1>14, <1>15 DEF r, c, u, a

\* SendChannelOpenFail(): the peer's open is refused.
LEMMA RefusedTalk ==
    ASSUME NEW s, NEW q, NEW t, NEW w, Talk(s, q, t, w, <<>>), q # <<>>, Head(q).type = "OPEN"
    PROVE  LET m == Head(q)
               n == Msg("OPEN_FAIL", m.from, 0, "none", m.uid)
               r == SendChannelOpenFail(s, m)
           IN  /\ Talk(r, Tail(q), t, w, <<>>) /\ r.channelList = s.channelList
               /\ r.nextChannel = s.nextChannel /\ Alike(s, r) /\ r.clientState = s.clientState
               /\ Msgs(w \o r.out) = Msgs(w \o s.out) \cup {n}
<1> DEFINE m == Head(q)
           n == Msg("OPEN_FAIL", m.from, 0, "none", m.uid)
           r == SendChannelOpenFail(s, m)
           W == Msgs(w \o s.out)
<1>1. /\ s \in Session /\ t \in Session /\ q \in Seq(Packet) /\ w \in Seq(Packet) /\ Tidy(s, <<>>)
      /\ Ordered(q) /\ Ordered(w \o s.out)
      /\ Sound(Views(s), Msgs(q), Views(t), W, s.nextChannel, t.nextChannel)
  BY DEF Talk
<1>2. /\ m \in Packet /\ Tail(q) \in Seq(Packet) /\ Msgs(q) = Msgs(Tail(q)) \cup {m} /\ Ordered(Tail(q))
      /\ \A x \in Msgs(Tail(q)) : Follows(m, x)
  BY <1>1, HeadTaken
<1> HIDE DEF m
<1>3. m.type = "OPEN"
  BY DEF m
<1>4. n \in Packet /\ n.type = "OPEN_FAIL" /\ n.id = m.from /\ n.uid = m.uid /\ n.kind = "none"
  <2>1. n \in Packet
    BY <1>2, PacketFields, ZeroIsAnId, MsgIsPacket
  <2> QED BY <2>1 DEF Msg
<1>5. r = Send(s, n)
  BY DEF SendChannelOpenFail
<1> HIDE DEF n, r, W
<1>6. Sent(s, r, w, n)
  BY <1>1, <1>4, <1>5, OutSent
<1>7. /\ r \in Session /\ r.channelList = s.channelList /\ Alike(s, r)
      /\ r.nextChannel = s.nextChannel /\ r.clientState = s.clientState
      /\ w \o s.out \in Seq(Packet) /\ w \o r.out = Append(w \o s.out, n)
      /\ Msgs(w \o r.out) = W \cup {n}
  BY <1>6 DEF Sent, Alike, W
<1>8. m \in Msgs(q) /\ \A x \in W : x.uid # m.uid
  BY <1>1, <1>2, <1>3 DEF Sound, Linked, Half, First
<1>9. \A x \in Msgs(Tail(q)) : x.uid # m.uid
  <2>1. ASSUME NEW x \in Msgs(Tail(q)), x.uid = m.uid PROVE FALSE
    \* Nothing about the channel follows, for the peer waits for the answer.
    <3>1. x \in Msgs(q) /\ x.type # "OPEN"
      BY <1>2, <2>1 DEF Follows, Opening
    <3>2. \E b \in Views(t) : b.uid = m.uid
      BY <1>1, <1>3, <1>8 DEF Sound, Linked, Half, Backed, Naming
    <3> QED BY <1>1, <1>3, <1>8, <2>1, <3>1, <3>2 DEF Sound, Linked, Half, Meant
  <2> QED BY <2>1
<1>10. Sound(Views(s), Msgs(Tail(q)), Views(t), W \cup {n}, s.nextChannel, t.nextChannel)
  <2>1. s.nextChannel \in Nat
    BY <1>1, Fields DEF Ids
  <2> QED BY <1>1, <1>2, <1>3, <1>4, <1>9, <2>1, SoundOpenRefused
<1>11. Ordered(w \o r.out)
  <2>1. ASSUME NEW x \in Msgs(w \o s.out) PROVE Follows(x, n)
    BY <2>1, <1>4, <1>8 DEF Follows, W
  <2> QED BY <1>1, <1>7, <2>1, OrderedAppend
<1>12. Views(r) = Views(s) /\ Tidy(r, <<>>)
  BY <1>1, <1>7 DEF Views, Tidy, Alike
<1>13. Talk(r, Tail(q), t, w, <<>>)
  BY <1>1, <1>2, <1>7, <1>10, <1>11, <1>12 DEF Talk
<1> QED BY <1>7, <1>13 DEF r, n, m, W

\* An id is free, and the next one is.
Roomy(s) == s.nextChannel + 1 < IdSpace /\ Cardinality(InUse(s)) < IdSpace

\* The open m is refused after its channel was made.
Denial(e, m, o) == o # "accept" \/ (e = "server" /\ m.kind = "forwarded")

\* s becomes a: an id is spent.
SpentOne(s, a) ==
    /\ a.nextChannel = s.nextChannel + 1 /\ a.channelList = s.channelList
    /\ a.out = s.out /\ Alike(s, a) /\ a.clientState = s.clientState

\* The open m is one that s may take.
Takes(e, s, m) ==
    /\ ~(e = "server" /\ m.kind = "forwarded")
    /\ s.nextChannel = 0 => m.uid = SessionUid
    /\ m.kind = "session" => m.uid = SessionUid
    /\ m.uid = SessionUid => s.channelList = <<>>

\* DecideOpen() refuses: the channel is deleted, its id is spent.
LEMMA DeniedIs ==
    ASSUME NEW e, NEW s, NEW q, NEW t, NEW w, Talk(s, q, t, w, <<>>), Roomy(s),
           NEW m \in Packet, m.type = "OPEN", NEW o, Denial(e, m, o)
    PROVE  \E a \in Session : DecideOpen(e, s, m, o) = SendChannelOpenFail(a, m) /\ SpentOne(s, a)
<1> s.nextChannel + 1 < IdSpace /\ (o # "accept" \/ (e = "server" /\ m.kind = "forwarded"))
  BY DEF Roomy, Denial
<1> DEFINE wrongWay == e = "server" /\ m.kind = "forwarded"
           asked == ~wrongWay /\ o # "unregistered"
           setup == asked /\ SetupMade(m.kind, o)
           c == [ChannelUpdatePeer(ChannelNew(s, m.kind, m.uid), m.from) EXCEPT !.fwdSetupTxd = setup]
           a == Allocated(s)
           d == IF asked /\ s.channelList = <<>> THEN m.from ELSE a.defaultPeerChannelId
           k == IF setup THEN a.setups + 1 ELSE a.setups
           made == [a EXCEPT
                       !.defaultPeerChannelId = IF asked /\ s.channelList = <<>> THEN m.from ELSE @,
                       !.setups = IF setup THEN @ + 1 ELSE @]
           g == ChannelDelete(made, c)
<1>1. DecideOpen(e, s, m, o) = SendChannelOpenFail(g, m)
  BY DEF DecideOpen
<1>2. /\ a \in Session /\ a.nextChannel = s.nextChannel + 1
      /\ a.channelList = s.channelList /\ a.out = s.out /\ Alike(s, a)
      /\ a.clientState = s.clientState
  BY AllocatedFields
<1>3. m.from \in Ids
  BY PacketFields
<1>4. c.fwdSetupTxd = setup /\ setup \in BOOLEAN
  BY DEF SetupMade, ChannelUpdatePeer, ChannelNew
<1> HIDE DEF a, setup, asked, c
<1>5. made = [a EXCEPT !.defaultPeerChannelId = d, !.setups = k] /\ d \in Ids /\ k \in Nat
  <2>1. a.setups \in Nat /\ a.defaultPeerChannelId \in Ids
    BY <1>2, Fields
  <2>2. d \in Ids /\ k \in Nat
    BY <1>3, <1>4, <2>1
  <2> QED BY <1>2, <2>2 DEF Session
<1> HIDE DEF made, d
<1>6. made \in Session /\ made.setups = k
  BY <1>2, <1>5 DEF Session
<1>7. g = [made EXCEPT !.setups = a.setups]
  <2>1. g = [made EXCEPT !.setups = IF setup THEN made.setups - 1 ELSE made.setups]
    BY <1>4 DEF ChannelDelete
  <2>2. (IF setup THEN made.setups - 1 ELSE made.setups) = a.setups
    <3>1. a.setups \in Nat
      BY <1>2, Fields
    <3> QED BY <1>4, <1>6, <3>1
  <2> QED BY <2>1, <2>2
<1> HIDE DEF k, g
<1>8. g = [a EXCEPT !.defaultPeerChannelId = d]
  <2>1. g = [[a EXCEPT !.defaultPeerChannelId = d, !.setups = k] EXCEPT !.setups = a.setups]
    BY <1>5, <1>7
  <2> QED BY <2>1, <1>2 DEF Session
<1>9. /\ g \in Session /\ g.nextChannel = a.nextChannel /\ g.channelList = a.channelList
      /\ g.out = a.out /\ g.clientState = a.clientState
  BY <1>2, <1>5, <1>8 DEF Session
<1>10. Alike(a, g)
  BY <1>2, <1>8 DEF Session, Alike
<1>11. Alike(s, g)
  BY <1>2, <1>10 DEF Alike
<1>12. SpentOne(s, g)
  BY <1>2, <1>9, <1>11 DEF SpentOne
<1> QED BY <1>1, <1>9, <1>12

\* s becomes a with the channel c for the open m.
Accepted(s, m, a, c) ==
    /\ a.nextChannel = s.nextChannel + 1 /\ a.channelList = Append(s.channelList, c)
    /\ a.out = s.out /\ Alike(s, a) /\ a.clientState = "channel_open"
    /\ c.channel = s.nextChannel /\ c.peerChannel = m.from /\ c.uid = m.uid
    /\ c.channelType = m.kind /\ c.openConfirmed /\ ~c.closeTxd /\ ~c.pendingWindowAdjust

\* DecideOpen() accepts: the channel joins the list and is confirmed.
LEMMA AcceptedIs ==
    ASSUME NEW e, NEW s, NEW q, NEW t, NEW w, NEW x, Talk(s, q, t, w, x), s.nextChannel + 1 < IdSpace,
           Cardinality(InUse(s)) < IdSpace,
           NEW m \in Packet, m.type = "OPEN", ~(e = "server" /\ m.kind = "forwarded")
    PROVE  \E a \in Session, c \in Channel :
              /\ DecideOpen(e, s, m, "accept") = Send(a, Msg("OPEN_CONF", m.from, c.channel, "none", m.uid))
              /\ Accepted(s, m, a, c)
<1> DEFINE wrongWay == e = "server" /\ m.kind = "forwarded"
           asked == ~wrongWay /\ "accept" # "unregistered"
           setup == asked /\ SetupMade(m.kind, "accept")
           n == ChannelNew(s, m.kind, m.uid)
           c == [ChannelUpdatePeer(n, m.from) EXCEPT !.fwdSetupTxd = setup]
           a == Allocated(s)
           d == IF asked /\ s.channelList = <<>> THEN m.from ELSE a.defaultPeerChannelId
           k == IF setup THEN a.setups + 1 ELSE a.setups
           made == [a EXCEPT
                       !.defaultPeerChannelId = IF asked /\ s.channelList = <<>> THEN m.from ELSE @,
                       !.setups = IF setup THEN @ + 1 ELSE @]
           appended == [ChannelAppend(made, c) EXCEPT !.clientState = "channel_open"]
<1>1. DecideOpen(e, s, m, "accept") = SendChannelOpenConf(appended, c)
  <2>1. DecideOpen(e, s, m, "accept") =
          IF asked /\ "accept" = "accept" THEN SendChannelOpenConf(appended, c)
                                          ELSE SendChannelOpenFail(ChannelDelete(made, c), m)
    BY DEF DecideOpen
  <2>2. asked
    OBVIOUS
  <2> HIDE DEF asked, appended, c, made
  <2> QED BY <2>1, <2>2
<1>2. /\ a \in Session /\ a.nextChannel = s.nextChannel + 1
      /\ a.channelList = s.channelList /\ a.out = s.out /\ Alike(s, a)
  BY AllocatedFields
<1>3. m.from \in Ids /\ m.kind \in Kinds /\ m.uid \in Uids /\ s \in Session
  BY PacketFields DEF Talk
<1>4. setup \in BOOLEAN
  BY DEF SetupMade
<1>5. /\ c \in Channel /\ c.channel = s.nextChannel /\ c.peerChannel = m.from /\ c.uid = m.uid
      /\ c.channelType = m.kind /\ c.openConfirmed /\ ~c.closeTxd /\ ~c.pendingWindowAdjust
  <2>1. /\ n \in Channel /\ n.channel = ChannelNewId(s) /\ n.uid = m.uid /\ n.channelType = m.kind
        /\ ~n.closeTxd /\ ~n.pendingWindowAdjust
    <3>1. ASSUME NEW kind \in Kinds, NEW uid \in Uids
          PROVE  ChannelNew(s, kind, uid) \in Channel
      BY <1>3, NewChannel
    <3>2. n \in Channel
      BY <1>3, <3>1
    <3> QED BY <3>2 DEF ChannelNew
  <2>2. ChannelNewId(s) = s.nextChannel
    BY NewIdIsNext
  <2> HIDE DEF n, setup
  <2>3. c = [n EXCEPT !.peerChannel = m.from, !.openConfirmed = TRUE, !.fwdSetupTxd = setup]
    BY <2>1 DEF ChannelUpdatePeer, Channel
  <2> HIDE DEF c
  <2> QED BY <2>1, <2>2, <2>3, <1>3, <1>4 DEF Channel
<1> HIDE DEF a, setup, c, asked
<1>6. made = [a EXCEPT !.defaultPeerChannelId = d, !.setups = k] /\ d \in Ids /\ k \in Nat
  <2>1. a.setups \in Nat /\ a.defaultPeerChannelId \in Ids
    BY <1>2, Fields
  <2>2. d \in Ids /\ k \in Nat
    BY <1>3, <1>4, <2>1
  <2> QED BY <1>2, <2>2 DEF Session
<1> HIDE DEF made, d, k
<1>7. /\ made \in Session /\ made.channelList = a.channelList /\ made.nextChannel = a.nextChannel
      /\ made.out = a.out
  BY <1>2, <1>6 DEF Session
<1>8. Alike(a, made)
  BY <1>2, <1>6 DEF Session, Alike
<1> DEFINE l == Append(made.channelList, c)
<1>9. l \in Seq(Channel)
  BY <1>5, <1>7, Fields
<1>10. appended = [made EXCEPT !.channelList = l, !.clientState = "channel_open"]
  BY <1>7 DEF ChannelAppend, Session
<1> HIDE DEF l, appended
<1>11. /\ appended \in Session /\ appended.channelList = l /\ appended.nextChannel = made.nextChannel
       /\ appended.out = made.out /\ appended.clientState = "channel_open"
  BY <1>7, <1>9, <1>10 DEF Session, States
<1>12. Alike(made, appended)
  BY <1>7, <1>10 DEF Session, Alike
<1>13. Alike(s, appended)
  BY <1>2, <1>8, <1>12 DEF Alike
<1>14. /\ appended.nextChannel = s.nextChannel + 1 /\ appended.channelList = Append(s.channelList, c)
       /\ appended.out = s.out
  BY <1>2, <1>7, <1>11 DEF l
<1>15. DecideOpen(e, s, m, "accept") = Send(appended, Msg("OPEN_CONF", m.from, c.channel, "none", m.uid))
  BY <1>1, <1>5 DEF SendChannelOpenConf
<1>16. Accepted(s, m, appended, c)
  BY <1>5, <1>11, <1>13, <1>14 DEF Accepted
<1> QED BY <1>5, <1>11, <1>15, <1>16

\* The peer's open is the only thing anybody knows of the channel.
LEMMA OpenIsNew ==
    ASSUME NEW s, NEW q, NEW t, NEW w, NEW x, Talk(s, q, t, w, x), q # <<>>, Head(q).type = "OPEN"
    PROVE  /\ \A n \in Msgs(Tail(q)) : n.uid # Head(q).uid
           /\ \A n \in Msgs(w \o s.out) : n.uid # Head(q).uid
           /\ Head(q).uid \notin UidsOf(s)
<1> DEFINE m == Head(q)
<1>1. /\ q \in Seq(Packet) /\ Ordered(q)
      /\ Linked(Views(s), Msgs(q), Views(t), Msgs(w \o s.out))
  BY DEF Talk, Sound
<1>2. Msgs(q) = Msgs(Tail(q)) \cup {m} /\ \A n \in Msgs(Tail(q)) : Follows(m, n)
  BY <1>1, HeadTaken
<1> HIDE DEF m
<1>3. m \in Msgs(q) /\ m.type = "OPEN"
  BY <1>2 DEF m
<1>4. ASSUME NEW n \in Msgs(Tail(q)), n.uid = m.uid PROVE FALSE
  <2>1. n \in Msgs(q) /\ n.type # "OPEN"
    BY <1>2, <1>4 DEF Follows, Opening
  <2>2. \E b \in Views(t) : b.uid = m.uid
    BY <1>1, <1>3 DEF Linked, Half, Backed, Naming
  <2> QED BY <1>1, <1>3, <1>4, <2>1, <2>2 DEF Linked, Half, Meant
<1>5. \A n \in Msgs(w \o s.out) : n.uid # m.uid
  BY <1>1, <1>3 DEF Linked, Half, First
<1>6. ASSUME NEW i \in DOMAIN s.channelList PROVE s.channelList[i].uid # m.uid
  <2>1. View(s.channelList[i]) \in Views(s) /\ View(s.channelList[i]).uid = s.channelList[i].uid
    BY ViewFields DEF Views
  <2> QED BY <1>1, <1>3, <2>1 DEF Linked, Half, Fitting
<1> QED BY <1>4, <1>5, <1>6 DEF UidsOf, m

\* s becomes r with an open channel for m; what it has sent was V and is W.
Joined(s, r, m, V, W) ==
    /\ UidsOf(r) = UidsOf(s) \cup {m.uid}
    /\ r.nextChannel = s.nextChannel + 1 /\ Alike(s, r) /\ r.clientState = "channel_open"
    /\ \E v : v.phase = "open" /\ v.uid = m.uid /\ Views(r) = Views(s) \cup {v}
    /\ \E n : /\ n.type = "OPEN_CONF" /\ n.kind = "none" /\ n.uid = m.uid
              /\ W = V \cup {n}

\* DoChannelOpen(), the channel accepted.
LEMMA AcceptedTalk ==
    ASSUME NEW e, NEW s, NEW q, NEW t, NEW w, Talk(s, q, t, w, <<>>), Roomy(s),
           q # <<>>, Head(q).type = "OPEN", Takes(e, s, Head(q))
    PROVE  LET r == DecideOpen(e, s, Head(q), "accept") IN
           Talk(r, Tail(q), t, w, <<>>) /\ Joined(s, r, Head(q), Msgs(w \o s.out), Msgs(w \o r.out))
<1> /\ s.nextChannel + 1 < IdSpace /\ Cardinality(InUse(s)) < IdSpace
    /\ ~(e = "server" /\ Head(q).kind = "forwarded")
    /\ s.nextChannel = 0 => Head(q).uid = SessionUid
    /\ Head(q).kind = "session" => Head(q).uid = SessionUid
    /\ Head(q).uid = SessionUid => s.channelList = <<>>
  BY DEF Roomy, Takes
<1> DEFINE m == Head(q)
           r == DecideOpen(e, s, m, "accept")
           W == Msgs(w \o s.out)
<1>1. /\ s \in Session /\ t \in Session /\ q \in Seq(Packet) /\ w \in Seq(Packet) /\ Tidy(s, <<>>)
      /\ Ordered(q) /\ Ordered(w \o s.out)
      /\ Sound(Views(s), Msgs(q), Views(t), W, s.nextChannel, t.nextChannel)
  BY DEF Talk
<1>2. /\ m \in Packet /\ Tail(q) \in Seq(Packet) /\ Msgs(q) = Msgs(Tail(q)) \cup {m} /\ Ordered(Tail(q))
  BY <1>1, HeadTaken
<1>3. /\ \A n \in Msgs(Tail(q)) : n.uid # m.uid
      /\ \A n \in W : n.uid # m.uid
      /\ m.uid \notin UidsOf(s)
  BY OpenIsNew
<1>4. /\ m.type = "OPEN" /\ ~(e = "server" /\ m.kind = "forwarded")
      /\ s.nextChannel = 0 => m.uid = SessionUid
      /\ m.kind = "session" => m.uid = SessionUid
      /\ m.uid = SessionUid => s.channelList = <<>>
  OBVIOUS
<1> HIDE DEF m
<1>5. PICK a \in Session, c \in Channel :
              /\ r = Send(a, Msg("OPEN_CONF", m.from, c.channel, "none", m.uid))
              /\ Accepted(s, m, a, c)
  BY <1>2, <1>4, AcceptedIs
<1> DEFINE n == Msg("OPEN_CONF", m.from, c.channel, "none", m.uid)
           v == View(c)
<1>6. n \in Packet /\ n.type = "OPEN_CONF" /\ n.id = m.from /\ n.from = c.channel /\ n.uid = m.uid /\ n.kind = "none"
  <2>1. n \in Packet
    BY <1>2, PacketFields, ChannelFields, MsgIsPacket
  <2> QED BY <2>1 DEF Msg
<1>7. r = Send(a, n)
  BY <1>5
<1>8. v.phase = "open" /\ v.id = s.nextChannel /\ v.peer = m.from /\ v.uid = m.uid
  BY <1>5, ViewFields DEF Phase, Accepted
<1> HIDE DEF n, r, W, v
<1>9. Sent(a, r, w, n)
  BY <1>1, <1>5, <1>6, <1>7, OutSent
<1>10. /\ r \in Session /\ r.channelList = Append(s.channelList, c) /\ Alike(s, r)
       /\ r.nextChannel = s.nextChannel + 1 /\ r.clientState = "channel_open"
       /\ w \o s.out \in Seq(Packet) /\ w \o r.out = Append(w \o s.out, n)
       /\ Msgs(w \o r.out) = W \cup {n}
  BY <1>5, <1>9 DEF Sent, Alike, W, Accepted
<1>11. Tidy(r, <<>>) /\ Views(r) = Views(s) \cup {v} /\ UidsOf(r) = UidsOf(s) \cup {m.uid}
  <2>1. Neat(c, Len(s.channelList) + 1, s.isKeying, <<>>)
    <3>1. m.uid = SessionUid => Len(s.channelList) + 1 = 1
      BY <1>4
    <3> QED BY <1>4, <1>5, <3>1 DEF Neat, Accepted
  <2>2. c.uid = m.uid /\ c.uid \notin UidsOf(s)
    BY <1>3, <1>5 DEF Accepted
  <2>3. r.isKeying = s.isKeying /\ r.disconnected = s.disconnected /\ r.refused = s.refused
    BY <1>10 DEF Alike
  <2>4. Tidy(r, <<>>) /\ Views(r) = Views(s) \cup {View(c)} /\ UidsOf(r) = UidsOf(s) \cup {c.uid}
    BY <1>1, <1>10, <2>1, <2>2, <2>3, AppendViews
  <2> QED BY <2>2, <2>4 DEF v
<1>12. Sound(Views(s) \cup {v}, Msgs(Tail(q)), Views(t), W \cup {n}, s.nextChannel + 1, t.nextChannel)
  <2>1. s.nextChannel \in Nat
    BY <1>1, Fields DEF Ids
  <2>2. n.from = v.id /\ (s.nextChannel = 0 => v.uid = SessionUid)
    BY <1>4, <1>5, <1>6, <1>8 DEF Accepted
  <2> QED BY <1>1, <1>2, <1>3, <1>4, <1>6, <1>8, <2>1, <2>2, SoundOpenTaken
<1>13. Ordered(w \o r.out)
  <2>1. ASSUME NEW y \in Msgs(w \o s.out) PROVE Follows(y, n)
    BY <2>1, <1>3, <1>6 DEF Follows, W
  <2> QED BY <1>1, <1>10, <2>1, OrderedAppend
<1>14. Talk(r, Tail(q), t, w, <<>>)
  BY <1>1, <1>2, <1>10, <1>11, <1>12, <1>13 DEF Talk
<1>15. Joined(s, r, m, W, Msgs(w \o r.out))
  BY <1>6, <1>8, <1>10, <1>11 DEF Joined
<1> QED BY <1>14, <1>15 DEF r, m, W

\* DoChannelOpenConf()
LEMMA ConfTalk ==
    ASSUME NEW s, NEW q, NEW t, NEW w, Talk(s, q, t, w, <<>>), q # <<>>, Head(q).type = "OPEN_CONF"
    PROVE  LET r == DoChannelOpenConf(s, Head(q), "ok")
               i == FindSelf(s, Head(q).id)
               c == View(s.channelList[i])
           IN  /\ Talk(r, Tail(q), t, w, <<>>) /\ r.out = s.out /\ UidsOf(r) = UidsOf(s)
               /\ r.nextChannel = s.nextChannel /\ r.connectState = s.connectState
               /\ r.serverState = "channel_open" /\ r.acceptState = s.acceptState
               /\ r.clientState = s.clientState
               /\ c \in Views(s) /\ c.uid = Head(q).uid
               /\ \E v : v.phase = "open" /\ v.uid = c.uid /\ Views(r) = (Views(s) \ {c}) \cup {v}
<1> DEFINE m == Head(q)
           i == FindSelf(s, m.id)
           c == s.channelList[i]
           d == ChannelUpdatePeer(c, m.from)
           u == [s EXCEPT !.channelList[i] = ChannelUpdatePeer(@, m.from)]
           r == [u EXCEPT !.serverState = "channel_open", !.defaultPeerChannelId = m.from]
<1>1. /\ s \in Session /\ t \in Session /\ q \in Seq(Packet) /\ w \in Seq(Packet) /\ Tidy(s, <<>>)
      /\ Ordered(q) /\ Ordered(w \o s.out)
      /\ Sound(Views(s), Msgs(q), Views(t), Msgs(w \o s.out), s.nextChannel, t.nextChannel)
  BY DEF Talk
<1>2. /\ m \in Packet /\ Tail(q) \in Seq(Packet) /\ Msgs(q) = Msgs(Tail(q)) \cup {m} /\ Ordered(Tail(q))
      /\ \A n \in Msgs(Tail(q)) : Follows(m, n)
  BY <1>1, HeadTaken
<1>3. /\ i \in DOMAIN s.channelList /\ i # 0 /\ c.channel = m.id /\ c.uid = m.uid /\ Phase(c) = "opening"
  BY HeadFinds DEF Answer
<1>4. m.type = "OPEN_CONF" /\ m.from \in Ids
  BY <1>2, PacketFields
<1> HIDE DEF m, i
<1>5. c \in Channel /\ Neat(c, i, s.isKeying, <<>>) /\ ~c.openConfirmed /\ ~c.closeTxd
  <2>1. c \in Channel /\ Neat(c, i, s.isKeying, <<>>)
    BY <1>1, <1>3, Fields DEF Tidy
  <2>2. ~c.openConfirmed
    <3> HIDE DEF c
    <3> QED BY <1>3, <2>1, Flags
  <2> QED BY <2>1, <2>2 DEF Neat
<1>6. DoChannelOpenConf(s, m, "ok") = r
  BY <1>3, <1>5 DEF DoChannelOpenConf, i
<1>7. /\ d \in Channel /\ d.channel = c.channel /\ d.peerChannel = m.from /\ d.uid = c.uid
      /\ d.openConfirmed /\ d.closeTxd = c.closeTxd /\ d.eofTxd = c.eofTxd
      /\ d.pendingWindowAdjust = c.pendingWindowAdjust /\ d.channelType = c.channelType
  <2> HIDE DEF c
  <2> QED BY <1>4, <1>5 DEF ChannelUpdatePeer, Channel
<1>8. u = [s EXCEPT !.channelList[i] = d]
  BY <1>1, <1>3 DEF Session
<1>9. Neat(d, i, s.isKeying, <<>>) /\ Phase(d) = "open"
  <2> HIDE DEF c, d
  <2> QED BY <1>5, <1>7 DEF Neat, Phase
<1> DEFINE a == View(c)  v == View(d)
<1>10. /\ v.phase = "open" /\ v.uid = a.uid /\ v.id = a.id /\ v.peer = m.from
       /\ a \in Views(s) /\ a.id = m.id /\ a.uid = m.uid
  <2>1. a \in Views(s)
    BY <1>3 DEF Views
  <2> HIDE DEF c, d
  <2> QED BY <1>3, <1>7, <1>9, <2>1, ViewFields
<1>11. /\ u \in Session /\ u.nextChannel = s.nextChannel
       /\ u.isKeying = s.isKeying /\ u.disconnected = s.disconnected /\ u.refused = s.refused
       /\ u.connectState = s.connectState /\ u.acceptState = s.acceptState
       /\ u.clientState = s.clientState /\ u.out = s.out
  <2> HIDE DEF d, c, u
  <2> QED BY <1>1, <1>3, <1>7, <1>8, PutFields
<1>12. Tidy(u, <<>>) /\ UidsOf(u) = UidsOf(s) /\ Views(u) = (Views(s) \ {a}) \cup {v}
  <2>1. d.uid = s.channelList[i].uid /\ d \in Channel
    BY <1>7
  <2> HIDE DEF d, u, c
  <2>2. /\ Tidy(u, <<>>) /\ UidsOf(u) = UidsOf(s)
        /\ Views(u) = (Views(s) \ {View(s.channelList[i])}) \cup {View(d)}
    <3> DEFINE y == <<>>
    <3>1. s \in Session /\ Tidy(s, y) /\ i \in DOMAIN s.channelList /\ Neat(d, i, s.isKeying, y)
      BY <1>1, <1>3, <1>9
    <3> HIDE DEF y
    <3>2. /\ Tidy(u, y) /\ UidsOf(u) = UidsOf(s)
          /\ Views(u) = (Views(s) \ {View(s.channelList[i])}) \cup {View(d)}
      BY <1>8, <2>1, <3>1, PutViewsIs
    <3> QED BY <3>2 DEF y
  <2> QED BY <2>2 DEF c
<1> HIDE DEF u, d
<1>13. /\ r \in Session /\ r.nextChannel = u.nextChannel /\ r.channelList = u.channelList
       /\ r.isKeying = u.isKeying /\ r.disconnected = u.disconnected /\ r.refused = u.refused
       /\ r.connectState = u.connectState /\ r.acceptState = u.acceptState
       /\ r.serverState = "channel_open" /\ r.clientState = u.clientState /\ r.out = u.out
  BY <1>4, <1>11 DEF Session, States
<1> HIDE DEF r, a, v, c
<1>14. Tidy(r, <<>>) /\ UidsOf(r) = UidsOf(s) /\ Views(r) = (Views(s) \ {a}) \cup {v}
  <2>1. Tidy(r, <<>>)
    BY <1>12, <1>13 DEF Tidy
  <2>2. UidsOf(r) = UidsOf(s)
    BY <1>12, <1>13 DEF UidsOf
  <2>3. Views(r) = Views(u)
    BY <1>13 DEF Views
  <2> QED BY <1>12, <2>1, <2>2, <2>3
<1>15. Sound((Views(s) \ {a}) \cup {v}, Msgs(Tail(q)), Views(t), Msgs(w \o s.out), s.nextChannel, t.nextChannel)
  <2>1. \A x \in Msgs(Tail(q)) : x.uid = m.uid => x.type \notin Opening
    BY <1>2 DEF Follows
  <2> QED BY <1>1, <1>2, <1>4, <1>10, <2>1, SoundConfTaken
<1>16. Talk(r, Tail(q), t, w, <<>>)
  BY <1>1, <1>2, <1>11, <1>13, <1>14, <1>15 DEF Talk
<1> QED BY <1>6, <1>10, <1>11, <1>13, <1>14, <1>16 DEF i, m, a, c

\* DoChannelOpenFail()
LEMMA FailTalk ==
    ASSUME NEW s, NEW q, NEW t, NEW w, Talk(s, q, t, w, <<>>), Good(s), q # <<>>, Head(q).type = "OPEN_FAIL"
    PROVE  LET r == DoChannelOpenFail(s, Head(q), "ok") IN
           Talk(r, Tail(q), t, w, <<>>) /\ Quiet(s, r) /\ Views(r) \subseteq Views(s)
<1> DEFINE i == FindSelf(s, Head(q).id)
<1>1. /\ i \in DOMAIN s.channelList /\ i # 0
      /\ s.channelList[i].channel = Head(q).id /\ s.channelList[i].uid = Head(q).uid
      /\ Phase(s.channelList[i]) = "opening"
  BY HeadFinds DEF Answer
<1>2. ~s.channelList[i].openConfirmed
  <2>1. s.channelList[i] \in Channel
    BY <1>1, Fields DEF Good
  <2> HIDE DEF i
  <2> QED BY <1>1, <2>1, Flags
<1>3. DoChannelOpenFail(s, Head(q), "ok") = ChannelRemove(s, i)
  BY <1>1, <1>2 DEF DoChannelOpenFail
<1> HIDE DEF i
<1> QED BY <1>1, <1>3, DropTalk

\* DoChannelClose()
LEMMA ClosedTalk ==
    ASSUME NEW s, NEW q, NEW t, NEW w, Talk(s, q, t, w, <<>>), Good(s), q # <<>>, Head(q).type = "CLOSE"
    PROVE  LET r == DoChannelClose(s, FindSelf(s, Head(q).id)) IN
           Talk(r, Tail(q), t, w, <<>>) /\ Quiet(s, r) /\ Views(r) \subseteq Views(s)
<1> DEFINE m == Head(q)
           i == FindSelf(s, m.id)
           c == s.channelList[i]
           u == SendChannelClose(SendChannelEof(s, c.peerChannel), c.peerChannel)
           a == IF c.closeTxd \/ ~c.openConfirmed THEN s ELSE u
           d == [c EXCEPT !.eofTxd = TRUE, !.closeTxd = TRUE]
<1>1. /\ i \in DOMAIN s.channelList /\ i # 0
      /\ c.channel = m.id /\ c.uid = m.uid /\ Phase(c) # "opening" /\ m.type = "CLOSE"
  BY HeadFinds DEF Answer
<1>2. s \in Session /\ Tidy(s, <<>>)
  BY DEF Talk
<1>3. c \in Channel
  BY <1>1, <1>2, Fields
<1>4. DoChannelClose(s, i) = ChannelRemove(a, FindSelf(a, c.channel))
  BY DEF DoChannelClose
<1> HIDE DEF m, i
<1>5. c.openConfirmed
  <2> HIDE DEF c
  <2> QED BY <1>1, <1>3, Flags
<1>6. CASE c.closeTxd
  <2>1. a = s
    BY <1>6
  <2>2. FindSelf(s, c.channel) = i
    BY <1>1, FoundSelf
  <2>3. DoChannelClose(s, i) = ChannelRemove(s, i)
    BY <1>4, <2>1, <2>2
  <2>4. Phase(c) = "closing"
    <3> HIDE DEF c
    <3> QED BY <1>3, <1>5, <1>6, Flags
  <2>5. /\ Talk(ChannelRemove(s, i), Tail(q), t, w, <<>>) /\ Quiet(s, ChannelRemove(s, i))
        /\ Views(ChannelRemove(s, i)) = Views(s) \ {View(c)}
    <3>1. /\ s.channelList[i].channel = Head(q).id /\ s.channelList[i].uid = Head(q).uid
          /\ Head(q).type = "CLOSE" /\ Phase(s.channelList[i]) = "closing"
      BY <1>1, <2>4 DEF m
    <3> QED BY <1>1, <3>1, DropTalk
  <2> QED BY <2>3, <2>5 DEF i, m
<1>7. CASE ~c.closeTxd
  <2>1. a = u
    BY <1>5, <1>7
  <2>2. Phase(c) = "open"
    <3> HIDE DEF c
    <3> QED BY <1>3, <1>5, <1>7, Flags
  <2>3. Talk(s, q, t, w, c.uid)
    <3>1. Tidy(s, c.uid)
      <4>1. ASSUME NEW j \in DOMAIN s.channelList PROVE Neat(s.channelList[j], j, s.isKeying, c.uid)
        <5>1. s.channelList[j] \in Channel /\ Neat(s.channelList[j], j, s.isKeying, <<>>)
          BY <1>2, Fields DEF Tidy
        <5>2. s.channelList[j].uid # <<>>
          BY <5>1, ChannelFields, UidNotEmpty
        <5> HIDE DEF c
        <5> QED BY <5>1, <5>2 DEF Neat
      <4> HIDE DEF c
      <4> QED BY <1>2, <4>1 DEF Tidy
    <3> HIDE DEF c
    <3> QED BY <3>1 DEF Talk
  <2>4. /\ Talk(u, q, t, w, c.uid) /\ Quiet(s, u)
        /\ i \in DOMAIN u.channelList /\ u.channelList[i] = d
        /\ Views(u) = (Views(s) \ {View(c)}) \cup {View(d)}
        /\ Phase(d) = "closing"
    BY <1>1, <2>2, <2>3, EofCloseTalk
  <2>5. d.channel = c.channel /\ d.uid = c.uid
    <3> HIDE DEF c
    <3> QED BY <1>3 DEF Channel
  <2>6. Good(u)
    <3>1. Kept(s, SendChannelEof(s, c.peerChannel)) /\ SendChannelEof(s, c.peerChannel) \in Session
      BY <1>2, SendChannelEofKept DEF Kept
    <3>2. Kept(SendChannelEof(s, c.peerChannel), u)
      BY <3>1, SendChannelCloseKept
    <3> QED BY <1>2, <3>1, <3>2, KeptTrans, KeptGood
  <2> HIDE DEF u, d, c
  <2>7. FindSelf(u, c.channel) = i
    BY <2>4, <2>5, FoundSelf
  <2>8. DoChannelClose(s, i) = ChannelRemove(u, i)
    BY <1>4, <2>1, <2>7
  <2>9. /\ Talk(ChannelRemove(u, i), Tail(q), t, w, <<>>) /\ Quiet(u, ChannelRemove(u, i))
        /\ Views(ChannelRemove(u, i)) = Views(u) \ {View(d)}
    <3>1. /\ u.channelList[i].channel = Head(q).id /\ u.channelList[i].uid = Head(q).uid
          /\ Head(q).type = "CLOSE" /\ Phase(u.channelList[i]) = "closing"
          /\ c.uid = u.channelList[i].uid
      BY <1>1, <2>4, <2>5 DEF m
    <3> QED BY <2>4, <2>6, <3>1, DropTalk
  <2>10. Views(ChannelRemove(u, i)) \subseteq Views(s)
    BY <2>4, <2>9
  <2>11. Quiet(s, ChannelRemove(u, i))
    BY <2>4, <2>9, QuietTrans
  <2> QED BY <2>8, <2>9, <2>10, <2>11 DEF i, m
<1>8. c.closeTxd \/ ~c.closeTxd
  OBVIOUS
<1> QED BY <1>6, <1>7, <1>8

----------------------------------------------------------------------------
(* Messages that set a flag or a state.                                    *)

\* r is s with d for its i-th channel.
Put(s, i, d, r) == r = [s EXCEPT !.channelList[i] = d]

LEMMA PutTalkIs ==
    ASSUME NEW s, NEW q, NEW t, NEW w, NEW x, Talk(s, q, t, w, x), NEW i \in DOMAIN s.channelList,
           NEW d \in Channel, View(d) = View(s.channelList[i]), Neat(d, i, s.isKeying, x),
           NEW r, Put(s, i, d, r)
    PROVE  Talk(r, q, t, w, x) /\ Quiet(s, r) /\ Views(r) = Views(s) /\ r.out = s.out
<1>1. Talk(r, q, t, w, x) /\ Quiet(s, r) /\ Views(r) = Views(s)
  BY PutTalk DEF Put
<1>2. s \in Session
  BY DEF Talk
<1>3. r.out = s.out
  BY <1>2, PutFields DEF Put
<1> QED BY <1>1, <1>3

\* The flags of a channel that its peer does not hear of.
Flagged(s, i, r) ==
    \/ r = [s EXCEPT !.channelList[i].unread = TRUE]
    \/ r = [s EXCEPT !.channelList[i].eofRxd = TRUE]
    \/ r = [s EXCEPT !.channelList[i].sessionGranted = TRUE]

\* Such a flag is a channel put in its place.
LEMMA FlaggedIs ==
    ASSUME NEW s \in Session, NEW x, NEW i \in DOMAIN s.channelList,
           Neat(s.channelList[i], i, s.isKeying, x), NEW r, Flagged(s, i, r)
    PROVE  \E d \in Channel : /\ Put(s, i, d, r)
                              /\ View(d) = View(s.channelList[i])
                              /\ Neat(d, i, s.isKeying, x)
<1> DEFINE c == s.channelList[i]
           Fit(d) == /\ d \in Channel /\ d.channel = c.channel /\ d.peerChannel = c.peerChannel
                     /\ d.uid = c.uid /\ d.openConfirmed = c.openConfirmed
                     /\ d.closeTxd = c.closeTxd /\ d.eofTxd = c.eofTxd
                     /\ d.pendingWindowAdjust = c.pendingWindowAdjust
                     /\ d.channelType = c.channelType
<1>1. c \in Channel /\ Neat(c, i, s.isKeying, x)
  BY Fields
<1>2. ASSUME NEW d, Fit(d) PROVE View(d) = View(c) /\ Neat(d, i, s.isKeying, x)
  <2> HIDE DEF c
  <2> QED BY <1>1, <1>2 DEF View, Phase, Neat
<1>3. CASE r = [s EXCEPT !.channelList[i].unread = TRUE]
  <2> DEFINE d == [c EXCEPT !.unread = TRUE]
  <2>1. r = [s EXCEPT !.channelList[i] = d]
    BY <1>3, <1>1 DEF Session
  <2>2. Fit(d)
    <3> HIDE DEF c
    <3> QED BY <1>1 DEF Channel
  <2> HIDE DEF d, c
  <2> QED BY <1>2, <2>1, <2>2 DEF c, Put
<1>4. CASE r = [s EXCEPT !.channelList[i].eofRxd = TRUE]
  <2> DEFINE d == [c EXCEPT !.eofRxd = TRUE]
  <2>1. r = [s EXCEPT !.channelList[i] = d]
    BY <1>4, <1>1 DEF Session
  <2>2. Fit(d)
    <3> HIDE DEF c
    <3> QED BY <1>1 DEF Channel
  <2> HIDE DEF d, c
  <2> QED BY <1>2, <2>1, <2>2 DEF c, Put
<1>5. CASE r = [s EXCEPT !.channelList[i].sessionGranted = TRUE]
  <2> DEFINE d == [c EXCEPT !.sessionGranted = TRUE]
  <2>1. r = [s EXCEPT !.channelList[i] = d]
    BY <1>5, <1>1 DEF Session
  <2>2. Fit(d)
    <3> HIDE DEF c
    <3> QED BY <1>1 DEF Channel
  <2> HIDE DEF d, c
  <2> QED BY <1>2, <2>1, <2>2 DEF c, Put
<1> QED BY <1>3, <1>4, <1>5 DEF Flagged

LEMMA FlagTalk ==
    ASSUME NEW s, NEW q, NEW t, NEW w, NEW x, Talk(s, q, t, w, x), NEW i \in DOMAIN s.channelList,
           NEW r, Flagged(s, i, r)
    PROVE  Talk(r, q, t, w, x) /\ Quiet(s, r) /\ Views(r) = Views(s) /\ r.out = s.out
<1>1. s \in Session /\ Neat(s.channelList[i], i, s.isKeying, x)
  <2>1. s \in Session /\ Tidy(s, x)
    BY DEF Talk
  <2> QED BY <2>1, Fields DEF Tidy
<1>2. PICK d \in Channel : /\ Put(s, i, d, r)
                           /\ View(d) = View(s.channelList[i])
                           /\ Neat(d, i, s.isKeying, x)
  BY <1>1, FlaggedIs
<1> QED BY <1>2, PutTalkIs

\* A call that opens nothing, asks for no shell and goes no further with
\* connect or accept.
Modest(s, r) ==
    /\ r.nextChannel = s.nextChannel
    /\ r.connectState = s.connectState /\ r.acceptState = s.acceptState
    /\ UidsOf(r) \subseteq UidsOf(s)
    /\ \A m \in Msgs(r.out) :
          m \in Msgs(s.out) \/ (m.type # "OPEN" /\ m.kind # "shell" /\ m.uid \in UidsOf(s))

\* DoChannelRequest() of a shell, of a channel that is open.
LEMMA ShellTalk ==
    ASSUME NEW e, NEW s, NEW q, NEW t, NEW w, NEW x, Talk(s, q, t, w, x),
           NEW i \in DOMAIN s.channelList, Phase(s.channelList[i]) = "open",
           NEW m, m.kind = "shell", NEW o, o # "free"
    PROVE  LET r == DoChannelRequest(e, s, m, i, o) IN
           /\ Talk(r, q, t, w, x) /\ Modest(s, r) /\ Views(r) = Views(s)
           /\ r.serverState = s.serverState
           /\ r.clientState \in {s.clientState, "done"}
<1> DEFINE c == s.channelList[i]
           grant == e = "server" /\ o = "grant" /\ ~c.sessionGranted
           g == [s EXCEPT !.channelList[i].sessionGranted = TRUE]
           h == [g EXCEPT !.clientState = "done"]
           u == IF grant THEN [s EXCEPT !.channelList[i].sessionGranted = TRUE,
                                        !.clientState = "done"]
                ELSE s
           type == IF grant THEN "SUCCESS" ELSE "FAILURE"
           n == Msg(type, c.peerChannel, 0, "none", c.uid)
           r == DoChannelRequest(e, s, m, i, o)
<1>1. s \in Session /\ c \in Channel
  <2>1. s \in Session
    BY DEF Talk
  <2> QED BY <2>1, Fields
<1>2. r = Send(u, n)
  <2>1. r = SendChannelSuccess(u, c, grant)
    BY DEF DoChannelRequest
  <2> HIDE DEF u, c, grant
  <2> QED BY <2>1 DEF SendChannelSuccess, SendAbout
<1>3. /\ Talk(g, q, t, w, x) /\ Quiet(s, g) /\ Views(g) = Views(s) /\ g.out = s.out
      /\ g \in Session /\ g.channelList[i].uid = c.uid /\ g.channelList[i].peerChannel = c.peerChannel
      /\ Phase(g.channelList[i]) = "open" /\ DOMAIN g.channelList = DOMAIN s.channelList
  <2>1. Talk(g, q, t, w, x) /\ Quiet(s, g) /\ Views(g) = Views(s) /\ g.out = s.out
    <3>1. Flagged(s, i, g)
      BY DEF Flagged
    <3> QED BY <3>1, FlagTalk
  <2>2. g \in Session
    <3> HIDE DEF g
    <3> QED BY <2>1 DEF Talk
  <2> DEFINE d == [c EXCEPT !.sessionGranted = TRUE]
  <2>3. g = [s EXCEPT !.channelList[i] = d]
    BY <1>1 DEF Session
  <2>4. d \in Channel /\ d.uid = c.uid /\ d.peerChannel = c.peerChannel
        /\ d.openConfirmed = c.openConfirmed /\ d.closeTxd = c.closeTxd
    <3> HIDE DEF c
    <3> QED BY <1>1 DEF Channel
  <2> HIDE DEF g
  <2>5. Phase(d) = Phase(c)
    <3> HIDE DEF c, d
    <3> QED BY <2>4 DEF Phase
  <2> HIDE DEF d
  <2>6. DOMAIN g.channelList = DOMAIN s.channelList /\ g.channelList[i] = d
    BY <1>1, <2>3, <2>4, PutFields
  <2> QED BY <2>1, <2>2, <2>4, <2>5, <2>6
<1> HIDE DEF g
<1>4. h \in Session /\ h.channelList = g.channelList /\ h.nextChannel = g.nextChannel /\ h.out = g.out
      /\ h.isKeying = g.isKeying /\ h.disconnected = g.disconnected /\ h.refused = g.refused
      /\ h.connectState = g.connectState /\ h.serverState = g.serverState
      /\ h.acceptState = g.acceptState /\ h.clientState = "done"
  BY <1>3 DEF Session, States
<1>5. u = IF grant THEN h ELSE s
  <2>1. [s EXCEPT !.channelList[i].sessionGranted = TRUE, !.clientState = "done"]
            = [[s EXCEPT !.channelList[i].sessionGranted = TRUE] EXCEPT !.clientState = "done"]
    BY <1>1 DEF Session
  <2> QED BY <2>1 DEF g
<1> HIDE DEF h
<1>6. Talk(h, q, t, w, x) /\ Views(h) = Views(s) /\ UidsOf(h) \subseteq UidsOf(s)
  <2>1. Talk(h, q, t, w, x) /\ Views(h) = Views(g) /\ UidsOf(h) = UidsOf(g)
    BY <1>3, <1>4, StateTalk
  <2> QED BY <2>1, <1>3 DEF Quiet
<1> HIDE DEF u
<1>7. /\ Talk(u, q, t, w, x) /\ Views(u) = Views(s) /\ UidsOf(u) \subseteq UidsOf(s)
      /\ u.out = s.out /\ u.nextChannel = s.nextChannel
      /\ u.connectState = s.connectState /\ u.serverState = s.serverState
      /\ u.acceptState = s.acceptState /\ u.clientState \in {s.clientState, "done"}
      /\ i \in DOMAIN u.channelList /\ u.channelList[i].uid = c.uid
      /\ u.channelList[i].peerChannel = c.peerChannel /\ Phase(u.channelList[i]) = "open"
  <2>1. CASE grant
    BY <2>1, <1>3, <1>4, <1>5, <1>6 DEF Quiet
  <2>2. CASE ~grant
    BY <2>2, <1>5
  <2> QED BY <2>1, <2>2
<1>8. n \in Packet /\ n.type \in Plain /\ n.id = c.peerChannel /\ n.uid = c.uid /\ n.kind = "none"
  <2>1. type \in {"SUCCESS", "FAILURE"}
    OBVIOUS
  <2> HIDE DEF type
  <2>2. n \in Packet
    BY <1>1, <2>1, ChannelFields, ZeroIsAnId, MsgIsPacket
  <2> QED BY <2>1, <2>2 DEF Msg, Plain
<1> HIDE DEF n, c, r
<1>9. Talk(r, q, t, w, x) /\ Quiet(u, r) /\ r.channelList = u.channelList
  BY <1>2, <1>7, <1>8, SendTalk
<1>10. Views(r) = Views(s)
  BY <1>7, <1>9 DEF Views
<1>11. Modest(s, r) /\ r.serverState = s.serverState /\ r.clientState \in {s.clientState, "done"}
  BY <1>7, <1>9 DEF Quiet, Modest
<1> QED BY <1>9, <1>10, <1>11 DEF r

LEMMA QuietIsModest ==
    ASSUME NEW s, NEW r, Quiet(s, r)
    PROVE  Modest(s, r)
  BY DEF Quiet, Modest

\* A shell is asked for on an open channel.
ShellOpen(s, m) == m.kind = "shell" => Phase(s.channelList[FindSelf(s, m.id)]) = "open"

\* What plain message m may change in s.
Heeded(s, m, r) ==
    /\ Modest(s, r) /\ Views(r) = Views(s)
    /\ r.serverState \in {s.serverState, "done"} /\ r.clientState \in {s.clientState, "done"}
    /\ r.serverState # s.serverState => m.type = "SUCCESS"
    /\ r.clientState # s.clientState => m.kind = "shell"

\* The handlers that only set a flag or a state.
LEMMA PlainTalk ==
    ASSUME NEW e, NEW s, NEW q, NEW t, NEW w, Talk(s, q, t, w, <<>>), q # <<>>,
           Head(q).type \in Plain, NEW o, o # "free",
           ShellOpen(s, Head(q))
    PROVE  LET r == OnChannel(e, s, Head(q), o) IN
           Talk(r, Tail(q), t, w, <<>>) /\ Heeded(s, Head(q), r)
<1> DEFINE m == Head(q)
           i == FindSelf(s, m.id)
           p == Tail(q)
           r == OnChannel(e, s, m, o)
<1>1. s \in Session /\ i \in DOMAIN s.channelList /\ i # 0 /\ m.type \in Plain
  <2>1. i \in DOMAIN s.channelList /\ i # 0
    <3>1. m.type # "OPEN"
      BY DEF Plain
    <3> QED BY <3>1, HeadFinds
  <2> QED BY <2>1 DEF Talk
<1>2. Talk(s, p, t, w, <<>>)
  BY PlainHeadTalk
<1>3. m.kind = "shell" => Phase(s.channelList[i]) = "open"
  BY DEF ShellOpen
<1> HIDE DEF i, p
<1>4. r = CASE m.type = "EOF" -> DoChannelEof(s, i)
           [] m.type = "CLOSE" -> DoChannelClose(s, i)
           [] m.type = "DATA" -> [s EXCEPT !.channelList[i].unread = TRUE]
           [] m.type = "WINDOW_ADJUST" -> s
           [] m.type = "REQUEST" -> DoChannelRequest(e, s, m, i, o)
           [] m.type = "SUCCESS" -> [s EXCEPT !.serverState = "done"]
           [] m.type = "FAILURE" -> s
  BY <1>1 DEF OnChannel, i
<1> HIDE DEF m, r
<1> DEFINE Fine(u) == Talk(u, p, t, w, <<>>) /\ Quiet(s, u) /\ Views(u) = Views(s)
           Goal == /\ Talk(r, p, t, w, <<>>) /\ Modest(s, r) /\ Views(r) = Views(s)
                   /\ r.serverState \in {s.serverState, "done"} /\ r.clientState \in {s.clientState, "done"}
                   /\ r.serverState # s.serverState => m.type = "SUCCESS"
                   /\ r.clientState # s.clientState => m.kind = "shell"
<1>10. SUFFICES Goal
  BY DEF m, r, p, Heeded
<1>5. ASSUME Fine(r) PROVE Goal
  BY <1>5, QuietIsModest DEF Quiet
<1>6. CASE m.type \in {"WINDOW_ADJUST", "FAILURE"}
  <2>1. r = s
    BY <1>4, <1>6
  <2> QED BY <2>1, <1>2, <1>5, QuietRefl
<1>7. CASE m.type \in {"EOF", "DATA"}
  <2>1. Flagged(s, i, r)
    BY <1>4, <1>7 DEF DoChannelEof, Flagged
  <2>2. Fine(r)
    BY <2>1, <1>1, <1>2, FlagTalk
  <2> QED BY <2>2, <1>5
<1>8. CASE m.type = "SUCCESS"
  <2>1. r = [s EXCEPT !.serverState = "done"]
    BY <1>4, <1>8
  <2>2. /\ r \in Session /\ r.channelList = s.channelList /\ r.nextChannel = s.nextChannel /\ r.out = s.out
        /\ r.isKeying = s.isKeying /\ r.disconnected = s.disconnected /\ r.refused = s.refused
        /\ r.connectState = s.connectState /\ r.serverState = "done"
        /\ r.acceptState = s.acceptState /\ r.clientState = s.clientState
    BY <1>1, <2>1 DEF Session, States
  <2>3. Talk(r, p, t, w, <<>>) /\ Views(r) = Views(s) /\ UidsOf(r) = UidsOf(s)
    BY <1>2, <2>2, StateTalk
  <2>4. Modest(s, r)
    BY <2>2, <2>3 DEF Modest
  <2> QED BY <1>8, <2>2, <2>3, <2>4
<1>9. CASE m.type = "REQUEST"
  <2>1. r = DoChannelRequest(e, s, m, i, o)
    BY <1>4, <1>9
  <2>2. CASE m.kind = "shell"
    <3>1. /\ Talk(r, p, t, w, <<>>) /\ Modest(s, r) /\ Views(r) = Views(s)
          /\ r.serverState = s.serverState
          /\ r.clientState \in {s.clientState, "done"}
      BY <1>1, <1>2, <1>3, <2>1, <2>2, ShellTalk
    <3> QED BY <2>2, <3>1
  <2>3. CASE m.kind = "agent-req"
    <3>1. r = [s EXCEPT !.useAgent = TRUE]
      BY <2>1, <2>3 DEF DoChannelRequest
    <3>2. /\ r \in Session /\ r.channelList = s.channelList /\ r.nextChannel = s.nextChannel /\ r.out = s.out
          /\ r.isKeying = s.isKeying /\ r.disconnected = s.disconnected /\ r.refused = s.refused
          /\ r.connectState = s.connectState /\ r.serverState = s.serverState
          /\ r.acceptState = s.acceptState /\ r.clientState = s.clientState
      BY <1>1, <3>1 DEF Session
    <3>3. Talk(r, p, t, w, <<>>) /\ Views(r) = Views(s) /\ UidsOf(r) = UidsOf(s)
      BY <1>2, <3>2, StateTalk
    <3>4. Quiet(s, r)
      BY <3>2, <3>3 DEF Quiet
    <3> QED BY <3>3, <3>4, <1>5
  <2>4. CASE m.kind \notin {"shell", "agent-req"}
    <3>1. r = s
      BY <2>1, <2>4 DEF DoChannelRequest
    <3> QED BY <3>1, <1>2, <1>5, QuietRefl
  <2> QED BY <2>2, <2>3, <2>4
<1> QED BY <1>1, <1>6, <1>7, <1>8, <1>9 DEF Plain

\* The rules of the conversation are the same for both ends.
LEMMA SoundSwap ==
    ASSUME NEW C, NEW Q, NEW B, NEW W, NEW nc, NEW nb, Sound(C, Q, B, W, nc, nb)
    PROVE  Sound(B, W, C, Q, nb, nc)
  BY DEF Sound, Linked

LEMMA TalkSwap ==
    ASSUME NEW s, NEW q, NEW t, NEW w, NEW x, Talk(s, q, t, w, x), s.out = <<>>, t.out = <<>>,
           NEW y, Tidy(t, y)
    PROVE  Talk(t, w, s, q, y)
<1>1. /\ s \in Session /\ t \in Session /\ q \in Seq(Packet) /\ w \in Seq(Packet)
      /\ Sound(Views(s), Msgs(q), Views(t), Msgs(w \o s.out), s.nextChannel, t.nextChannel)
      /\ Ordered(q) /\ Ordered(w \o s.out)
  BY DEF Talk
<1>2. w \o s.out = w /\ q \o t.out = q
  BY <1>1
<1>3. Sound(Views(t), Msgs(w), Views(s), Msgs(q), t.nextChannel, s.nextChannel)
  BY <1>1, <1>2, SoundSwap
<1> QED BY <1>1, <1>2, <1>3 DEF Talk

\* The call is over: what it sent is on the wire.
LEMMA TalkReturned ==
    ASSUME NEW r, NEW q, NEW t, NEW w, NEW x, Talk(r, q, t, w, x),
           NEW s, s = [r EXCEPT !.out = <<>>]
    PROVE  /\ Talk(s, q, t, w \o r.out, x) /\ Views(s) = Views(r) /\ UidsOf(s) = UidsOf(r)
           /\ s.out = <<>> /\ s \in Session /\ s.nextChannel = r.nextChannel
           /\ s.connectState = r.connectState /\ s.serverState = r.serverState
           /\ s.acceptState = r.acceptState /\ s.clientState = r.clientState
<1>1. /\ r \in Session /\ t \in Session /\ q \in Seq(Packet) /\ w \in Seq(Packet)
      /\ Sound(Views(r), Msgs(q), Views(t), Msgs(w \o r.out), r.nextChannel, t.nextChannel)
      /\ Ordered(q) /\ Ordered(w \o r.out) /\ Tidy(r, x)
  BY DEF Talk
<1>2. /\ s \in Session /\ s.out = <<>> /\ s.channelList = r.channelList
      /\ s.nextChannel = r.nextChannel /\ s.isKeying = r.isKeying
      /\ s.disconnected = r.disconnected /\ s.refused = r.refused
      /\ s.connectState = r.connectState /\ s.serverState = r.serverState
      /\ s.acceptState = r.acceptState /\ s.clientState = r.clientState
  <2>1. <<>> \in Seq(Packet)
    OBVIOUS
  <2>2. r \in Session /\ s = [r EXCEPT !.out = <<>>]
    BY <1>1
  <2> QED BY <2>1, <2>2 DEF Session
<1>3. Views(s) = Views(r) /\ UidsOf(s) = UidsOf(r) /\ Tidy(s, x)
  BY <1>1, <1>2 DEF Views, UidsOf, Tidy
<1>4. w \o r.out \in Seq(Packet) /\ (w \o r.out) \o s.out = w \o r.out
  <2>1. r.out \in Seq(Packet)
    BY <1>1, Fields
  <2> QED BY <1>1, <1>2, <2>1
<1> QED BY <1>1, <1>2, <1>3, <1>4 DEF Talk

----------------------------------------------------------------------------
(* What the two ends have got to together.                                 *)

\* u is one of the channels that e, which has opened n, and its peer, which
\* has opened m, have opened.
Within(u, e, n, m) == u \in Uids /\ u[2] <= IF u[1] = e THEN n ELSE m

\* Channels are opened in order, and the ids are not used up: e is in s and
\* is sent Q.
Counted(e, s, Q, n, m) ==
    /\ \A u \in UidsOf(s) : Within(u, e, n, m)
    /\ \A x \in Q : Within(x.uid, e, n, m)
    /\ \A x \in Q : x.type = "OPEN" => x.uid[1] = Other(e) /\ s.nextChannel < n + x.uid[2]
    /\ s.nextChannel <= n + m
    /\ n <= MaxOpens(e)

Underway(s) == s.connectState \in {"userauth_done", "open_sent"}

\* How far the connect of client c, which has opened k channels and is sent
\* R, and the accept of server v, which is sent P, have got.
Begun(c, v, P, R, k) ==
    /\ c.connectState = "userauth_done" => UidsOf(c) = {} /\ k = 0 /\ c.serverState = "userauth_done"
    /\ c.connectState # "userauth_done" => k > 0 /\ c.nextChannel > 0
    /\ Underway(c) => v.clientState # "done" /\ v.acceptState # "done"
    /\ Underway(c) => \A m \in P : m.kind # "shell"
    /\ Underway(c) => \A m \in R : m.type # "OPEN"
    /\ Underway(c) => \A u \in UidsOf(c) : u = SessionUid
    /\ c.connectState # "done" => \A x \in Views(c) : x.phase # "closing"
    /\ c.connectState = "open_sent" /\ c.serverState # "userauth_done" =>
          \A x \in Views(c) : x.phase = "open"
    /\ ~Underway(c) => c.serverState # "userauth_done"
    /\ c.serverState # "userauth_done" => v.nextChannel > 0
    /\ v.clientState = "done" \/ v.acceptState = "done" => v.nextChannel > 0
    /\ v.acceptState # "done" => \A x \in Views(v) : x.phase # "closing"
    /\ \A m \in P : m.type = "OPEN" /\ m.kind # "session" => v.nextChannel > 0
    /\ \A m \in P : m.type = "OPEN" => (m.kind = "session" <=> m.uid = SessionUid)
    /\ \A m \in P : m.kind = "shell" => v.clientState # "done" /\ v.acceptState # "done"
    /\ \A m \in R : m.type = "OPEN" => m.kind # "session"
    /\ \A m \in R : m.kind # "shell"

\* e, in s and sent Q, has opened n; its peer, in t and sent W, has opened m.
Joint(e, s, Q, t, W, n, m) ==
    /\ Counted(e, s, Q, n, m) /\ Counted(Other(e), t, W, m, n)
    /\ IF e = "client" THEN Begun(s, t, W, Q, n) ELSE Begun(t, s, Q, W, m)

LEMMA JointSwap ==
    ASSUME NEW e \in Ends, NEW s, NEW Q, NEW t, NEW W, NEW n, NEW m, Joint(e, s, Q, t, W, n, m)
    PROVE  Joint(Other(e), t, W, s, Q, m, n)
  BY DEF Joint, Ends, Other

LEMMA JointSame ==
    ASSUME NEW e \in Ends, NEW s, NEW Q, NEW t, NEW W, NEW n, NEW m, Joint(e, s, Q, t, W, n, m),
           NEW r, Views(r) = Views(s), UidsOf(r) = UidsOf(s), r.nextChannel = s.nextChannel,
           r.connectState = s.connectState, r.serverState = s.serverState,
           r.acceptState = s.acceptState, r.clientState = s.clientState
    PROVE  Joint(e, r, Q, t, W, n, m)
<1>1. Counted(e, r, Q, n, m)
  BY DEF Joint, Counted
<1>2. CASE e = "client"
  <2>1. Begun(r, t, W, Q, n)
    BY <1>2 DEF Joint, Begun, Underway
  <2> QED BY <1>1, <1>2, <2>1 DEF Joint
<1>3. CASE e # "client"
  <2>1. Begun(t, r, Q, W, m)
    BY <1>3 DEF Joint, Begun, Underway
  <2> QED BY <1>1, <1>3, <2>1 DEF Joint
<1> QED BY <1>2, <1>3

\* The inductive invariant of two well behaved ends.
CInv ==
    /\ IInv
    /\ \A e \in Ends : Talk(session[e], wire[e], session[Other(e)], wire[Other(e)], <<>>)
    /\ \A e \in Ends : Joint(e, session[e], Msgs(wire[e]), session[Other(e)], Msgs(wire[Other(e)]),
                             used[e].opens, used[Other(e)].opens)

\* What a call has to keep for the invariant to hold when it returns.
LEMMA Returns ==
    ASSUME CInv, IInv', NEW e \in Ends, NEW r, NEW rest, Return(e, r, rest),
           Talk(r, rest, session[Other(e)], wire[Other(e)], <<>>),
           Joint(e, r, Msgs(rest), session[Other(e)], Msgs(wire[Other(e)] \o r.out),
                 used'[e].opens, used'[Other(e)].opens)
    PROVE  CInv'
<1> DEFINE f == Other(e)
           s == session'[e]
           t == session'[f]
           q == wire'[e]
           w == wire'[f]
<1>1. f \in Ends /\ f # e /\ Other(f) = e /\ Ends = {e, f}
  BY DEF Ends, Other
<1>2. /\ session \in [Ends -> Session] /\ wire \in [Ends -> Seq(Packet)]
      /\ session[f].out = <<>> /\ t.out = <<>>
  BY <1>1 DEF CInv, IInv
<1>3. /\ s = [r EXCEPT !.out = <<>>] /\ t = session[f]
      /\ q = rest /\ w = wire[f] \o r.out
  BY <1>1, <1>2 DEF Return
<1>4. Tidy(t, <<>>)
  BY <1>1, <1>3 DEF CInv, Talk
<1> DEFINE n == used'[e].opens  m == used'[f].opens
<1> HIDE DEF f, s, t, q, w, n, m
<1>5. /\ Talk(s, q, t, w, <<>>) /\ Views(s) = Views(r) /\ UidsOf(s) = UidsOf(r)
      /\ s.out = <<>> /\ s \in Session /\ s.nextChannel = r.nextChannel
      /\ s.connectState = r.connectState /\ s.serverState = r.serverState
      /\ s.acceptState = r.acceptState /\ s.clientState = r.clientState
  <2>1. Talk(r, rest, session[f], wire[f], <<>>)
    BY DEF f
  <2> QED BY <2>1, <1>3, TalkReturned
<1>6. Talk(t, w, s, q, <<>>)
  BY <1>2, <1>4, <1>5, TalkSwap
<1>7. Joint(e, s, Msgs(q), t, Msgs(w), n, m)
  <2>1. Joint(e, r, Msgs(q), t, Msgs(w), n, m)
    BY <1>3 DEF f, n, m
  <2> QED BY <2>1, <1>5, JointSame
<1>8. Joint(f, t, Msgs(w), s, Msgs(q), m, n)
  BY <1>7, JointSwap DEF f
<1>9. \A d \in Ends : Talk(session'[d], wire'[d], session'[Other(d)], wire'[Other(d)], <<>>)
  BY <1>1, <1>5, <1>6 DEF f, s, t, q, w
<1>10. \A d \in Ends : Joint(d, session'[d], Msgs(wire'[d]), session'[Other(d)], Msgs(wire'[Other(d)]),
                             used'[d].opens, used'[Other(d)].opens)
  BY <1>1, <1>7, <1>8 DEF f, s, t, q, w, n, m
<1> QED BY <1>9, <1>10 DEF CInv

LEMMA WithinSwap ==
    ASSUME NEW e \in Ends, NEW u, NEW n, NEW m
    PROVE  Within(u, e, n, m) <=> Within(u, Other(e), m, n)
  BY DEF Within, Uids, Ends, Other

\* The end goes from s to r, has taken all but R of Q and made W of V.
LEMMA CountedModest ==
    ASSUME NEW e \in Ends, NEW s, NEW Q, NEW t, NEW V, NEW n, NEW m,
           Counted(e, s, Q, n, m), Counted(Other(e), t, V, m, n),
           NEW r, r.nextChannel = s.nextChannel, UidsOf(r) \subseteq UidsOf(s),
           NEW R, R \subseteq Q, NEW W,
           \A x \in W : x \in V \/ (x.type # "OPEN" /\ x.uid \in UidsOf(s))
    PROVE  Counted(e, r, R, n, m) /\ Counted(Other(e), t, W, m, n)
<1>1. Counted(e, r, R, n, m)
  BY DEF Counted
<1>2. \A x \in W : Within(x.uid, Other(e), m, n)
  BY WithinSwap DEF Counted
<1> QED BY <1>1, <1>2 DEF Counted

\* wolfSSH_connect() or wolfSSH_accept() has returned to the application of s.
Done(e, s) == IF e = "client" THEN s.connectState = "done" ELSE s.acceptState = "done"

LEMMA JointQuiet ==
    ASSUME NEW e \in Ends, NEW s, NEW Q, NEW t, NEW V, NEW n, NEW m, Joint(e, s, Q, t, V, n, m),
           NEW r, Quiet(s, r), Done(e, s) \/ Views(r) \subseteq Views(s),
           NEW R, R \subseteq Q, NEW W,
           \A x \in W : x \in V \/ (x.type # "OPEN" /\ x.kind # "shell" /\ x.uid \in UidsOf(s))
    PROVE  Joint(e, r, R, t, W, n, m)
<1>1. Counted(e, r, R, n, m) /\ Counted(Other(e), t, W, m, n)
  <2>1. Counted(e, s, Q, n, m) /\ Counted(Other(e), t, V, m, n)
    BY DEF Joint
  <2> QED BY <2>1, CountedModest DEF Quiet
<1>2. CASE e = "client"
  <2>1. Begun(s, t, V, Q, n)
    BY <1>2 DEF Joint
  <2>2. Begun(r, t, W, R, n)
    BY <1>2, <2>1 DEF Begun, Underway, Quiet, Done
  <2> QED BY <1>1, <1>2, <2>2 DEF Joint
<1>3. CASE e # "client"
  <2>1. Begun(t, s, Q, V, m)
    BY <1>3 DEF Joint
  <2>2. Begun(t, r, R, W, m)
    BY <1>3, <2>1 DEF Begun, Underway, Quiet, Done
  <2> QED BY <1>1, <1>3, <2>2 DEF Joint
<1> QED BY <1>2, <1>3

\* What the invariant says of an end and its peer.
LEMMA Standing ==
    ASSUME CInv, NEW e \in Ends
    PROVE  LET s == session[e]
               f == Other(e)
           IN  /\ f \in Ends /\ Other(f) = e /\ f # e
               /\ Talk(s, wire[e], session[f], wire[f], <<>>)
               /\ Joint(e, s, Msgs(wire[e]), session[f], Msgs(wire[f]), used[e].opens, used[f].opens)
               /\ s.out = <<>> /\ s \in Session /\ Good(s) /\ session[f] \in Session
               /\ wire[e] \in Seq(Packet) /\ wire[f] \in Seq(Packet)
               /\ used[e] \in Budget /\ used[f] \in Budget
               /\ used[e].opens \in Nat /\ used[f].opens \in Nat
               /\ used \in [Ends -> Budget]
<1>1. Other(e) \in Ends /\ Other(Other(e)) = e /\ Other(e) # e
  BY DEF Ends, Other
<1>2. IInv
  BY DEF CInv
<1>3. used[e] \in Budget /\ used[Other(e)] \in Budget /\ used \in [Ends -> Budget]
  BY <1>1, <1>2 DEF IInv
<1>4. used[e].opens \in Nat /\ used[Other(e)].opens \in Nat
  BY <1>3 DEF Budget
<1>5. /\ session[e] \in Session /\ session[Other(e)] \in Session
      /\ wire[e] \in Seq(Packet) /\ wire[Other(e)] \in Seq(Packet)
      /\ session[e].out = <<>> /\ Good(session[e])
  BY <1>1, <1>2 DEF IInv, Good
<1>6. /\ Talk(session[e], wire[e], session[Other(e)], wire[Other(e)], <<>>)
      /\ Joint(e, session[e], Msgs(wire[e]), session[Other(e)], Msgs(wire[Other(e)]),
               used[e].opens, used[Other(e)].opens)
  BY DEF CInv
<1> QED BY <1>1, <1>3, <1>4, <1>5, <1>6

\* What is on the wire once the call has returned.
LEMMA OutMsgs ==
    ASSUME NEW s, NEW q, NEW t, NEW w, NEW x, Talk(s, q, t, w, x)
    PROVE  Msgs(w \o s.out) = Msgs(w) \cup Msgs(s.out)
<1>1. w \in Seq(Packet) /\ s.out \in Seq(Packet)
  BY Fields DEF Talk
<1> QED BY <1>1, MsgsConcat

LEMMA NoMsgs ==
    Msgs(<<>>) = {}
  BY DEF Msgs

\* A call that is quiet keeps the invariant.
LEMMA QuietReturns ==
    ASSUME CInv, IInv', NEW e \in Ends, NEW r, NEW rest, Return(e, r, rest),
           Msgs(rest) \subseteq Msgs(wire[e]),
           Talk(r, rest, session[Other(e)], wire[Other(e)], <<>>),
           Quiet(session[e], r), Done(e, session[e]) \/ Views(r) \subseteq Views(session[e]),
           used'[e].opens = used[e].opens, used'[Other(e)].opens = used[Other(e)].opens
    PROVE  CInv'
<1> DEFINE f == Other(e)  s == session[e]  V == Msgs(wire[f])  W == Msgs(wire[f] \o r.out)
<1>1. Joint(e, s, Msgs(wire[e]), session[f], V, used[e].opens, used[f].opens) /\ s.out = <<>>
  BY Standing
<1>2. W = V \cup Msgs(r.out)
  BY OutMsgs
<1>3. \A x \in W : x \in V \/ (x.type # "OPEN" /\ x.kind # "shell" /\ x.uid \in UidsOf(s))
  BY <1>1, <1>2, NoMsgs DEF Quiet
<1>4. Joint(e, r, Msgs(rest), session[f], W, used[e].opens, used[f].opens)
  <2> HIDE DEF s, f, V, W
  <2>1. Quiet(s, r) /\ (Done(e, s) \/ Views(r) \subseteq Views(s))
    BY DEF s
  <2> QED BY <1>1, <1>3, <2>1, JointQuiet
<1>5. Joint(e, r, Msgs(rest), session[f], W, used'[e].opens, used'[f].opens)
  BY <1>4
<1> QED BY <1>5, Returns

\* The same for a call of the application, which takes no message.
LEMMA QuietCall ==
    ASSUME CInv, IInv', NEW e \in Ends, NEW r, Call(e, r),
           Talk(r, wire[e], session[Other(e)], wire[Other(e)], <<>>),
           Quiet(session[e], r), Done(e, session[e]) \/ Views(r) \subseteq Views(session[e]),
           used'[e].opens = used[e].opens, used'[Other(e)].opens = used[Other(e)].opens
    PROVE  CInv'
  BY QuietReturns DEF Call

LEMMA SpendOther ==
    ASSUME CInv, NEW e \in Ends, NEW what \in {"data", "requests", "rekeys"}, NEW max, Spend(e, what, max)
    PROVE  used'[e].opens = used[e].opens /\ used'[Other(e)].opens = used[Other(e)].opens
<1>1. used \in [Ends -> Budget] /\ Other(e) \in Ends /\ Other(e) # e
  BY Standing
<1>2. used' = [used EXCEPT ![e][what] = @ + 1]
  BY DEF Spend
<1>3. used'[Other(e)] = used[Other(e)]
  BY <1>1, <1>2
<1>4. used'[e] = [used[e] EXCEPT ![what] = @ + 1]
  BY <1>1, <1>2
<1>5. used[e] \in Budget /\ what # "opens"
  BY <1>1
<1>6. used'[e].opens = used[e].opens
  BY <1>4, <1>5 DEF Budget
<1> QED BY <1>3, <1>6

LEMMA SpendOpens ==
    ASSUME CInv, NEW e \in Ends, Spend(e, "opens", MaxOpens(e))
    PROVE  /\ used'[e].opens = used[e].opens + 1 /\ used'[Other(e)].opens = used[Other(e)].opens
           /\ used[e].opens < MaxOpens(e)
<1>1. used \in [Ends -> Budget] /\ Other(e) \in Ends /\ Other(e) # e
  BY Standing
<1>2. used' = [used EXCEPT ![e]["opens"] = @ + 1] /\ used[e]["opens"] < MaxOpens(e)
  BY DEF Spend
<1>3. used'[Other(e)] = used[Other(e)]
  BY <1>1, <1>2
<1>4. used'[e] = [used[e] EXCEPT !["opens"] = @ + 1]
  BY <1>1, <1>2
<1>5. used[e] \in Budget
  BY <1>1
<1>6. used'[e].opens = used[e].opens + 1
  BY <1>4, <1>5 DEF Budget
<1> QED BY <1>2, <1>3, <1>6

----------------------------------------------------------------------------
(* The calls of the applications.                                          *)

\* What an application is asked to do: it keeps the rules, leaves the end of a
\* channel to the library, and lets the callbacks on an answer succeed.  No
\* short write cuts the open of a forwarded channel, and fewer than 2^32
\* channels are opened.
WellBehaved ==
    /\ Careful
    /\ RespOutcomes \subseteq {"ok"}
    /\ "free" \notin ReqOutcomes
    /\ OpenFaults \subseteq {"none", "memory"}
    /\ "free" \notin AppCalls
    /\ ClientOpens + ServerOpens < IdSpace

LEMMA EstablishedIsDone ==
    ASSUME NEW e \in Ends, Established(e)
    PROVE  Done(e, session[e])
  BY DEF Established, Done

\* A channel of a session that talks.
LEMMA OneNeat ==
    ASSUME NEW s, NEW q, NEW t, NEW w, NEW x, Talk(s, q, t, w, x), NEW i \in DOMAIN s.channelList
    PROVE  /\ s \in Session /\ s.channelList[i] \in Channel
           /\ Neat(s.channelList[i], i, s.isKeying, x)
<1>1. s \in Session /\ Tidy(s, x)
  BY DEF Talk
<1> QED BY <1>1, Fields DEF Tidy

LEMMA CarefulIsOpen ==
    ASSUME WellBehaved, NEW c \in Channel, CarefulWith(c)
    PROVE  Phase(c) = "open"
  BY Flags DEF WellBehaved, CarefulWith

LEMMA SendCloses ==
    ASSUME CInv, IInv', NEW e \in Ends, NEW i, ChannelSend(e, i)
    PROVE  CInv'
<1> DEFINE s == session[e]  c == s.channelList[i]
           m == Msg("DATA", c.peerChannel, 0, "none", c.uid)
           f == Other(e)
           r == Send(s, m)
<1>1. /\ i \in DOMAIN s.channelList /\ Established(e) /\ c.openConfirmed /\ ~c.eofTxd
      /\ Spend(e, "data", MaxData) /\ Call(e, r)
  BY DEF ChannelSend, CallOn, May, SendAbout
<1>2. Talk(s, wire[e], session[f], wire[f], <<>>)
  BY Standing
<1> HIDE DEF s, f
<1>3. c \in Channel /\ Neat(c, i, s.isKeying, <<>>)
  BY <1>1, <1>2, OneNeat
<1>4. Phase(c) = "open"
  BY <1>1, <1>3, Flags DEF Neat
<1>5. m \in Packet /\ m.type \in Plain /\ m.id = c.peerChannel /\ m.uid = c.uid /\ m.kind = "none"
  <2>1. m \in Packet
    BY <1>3, ChannelFields, ZeroIsAnId, MsgIsPacket
  <2> QED BY <2>1 DEF Msg, Plain
<1> HIDE DEF m
<1>6. Talk(r, wire[e], session[f], wire[f], <<>>) /\ Quiet(s, r)
  BY <1>1, <1>2, <1>4, <1>5, SendTalk
<1>7. Done(e, s)
  BY <1>1, EstablishedIsDone DEF s
<1>8. used'[e].opens = used[e].opens /\ used'[f].opens = used[f].opens
  BY <1>1, SpendOther DEF f
<1> HIDE DEF r
<1> QED BY <1>1, <1>6, <1>7, <1>8, QuietCall DEF s, f

LEMMA ReadCloses ==
    ASSUME CInv, IInv', WellBehaved, NEW e \in Ends, NEW i, ChannelRead(e, i)
    PROVE  CInv'
<1> DEFINE s == session[e]  f == Other(e)
           r == [ChannelCreditWindow(s, i) EXCEPT !.channelList[i].unread = FALSE]
<1>1. /\ i \in DOMAIN s.channelList /\ Established(e) /\ CarefulWith(s.channelList[i])
      /\ used' = used /\ Call(e, r)
  BY DEF ChannelRead, CallOn, May
<1>2. Talk(s, wire[e], session[f], wire[f], <<>>)
  BY Standing
<1>3. Done(e, s)
  BY <1>1, EstablishedIsDone
<1> HIDE DEF s, f
<1>4. Phase(s.channelList[i]) = "open"
  BY <1>1, <1>2, OneNeat, CarefulIsOpen
<1>5. Talk(r, wire[e], session[f], wire[f], <<>>) /\ Quiet(s, r)
  BY <1>1, <1>2, <1>4, CreditTalk
<1> HIDE DEF r
<1> QED BY <1>1, <1>3, <1>5, QuietCall DEF s, f

LEMMA EofCloses ==
    ASSUME CInv, IInv', NEW e \in Ends, NEW i, ChannelSendEof(e, i)
    PROVE  CInv'
<1> DEFINE s == session[e]  c == s.channelList[i]  f == Other(e)
           r == SendChannelEof(s, c.peerChannel)
<1>1. /\ i \in DOMAIN s.channelList /\ Established(e) /\ c.openConfirmed /\ ~c.eofTxd
      /\ used' = used /\ Call(e, r)
  BY DEF ChannelSendEof, CallOn, May
<1>2. Talk(s, wire[e], session[f], wire[f], <<>>)
  BY Standing
<1>3. Done(e, s)
  BY <1>1, EstablishedIsDone
<1> HIDE DEF s, f
<1>4. Phase(c) = "open"
  <2>1. c \in Channel /\ Neat(c, i, s.isKeying, <<>>)
    BY <1>1, <1>2, OneNeat
  <2> QED BY <1>1, <2>1, Flags DEF Neat
<1>5. Talk(r, wire[e], session[f], wire[f], <<>>) /\ Quiet(s, r)
  BY <1>1, <1>2, <1>4, EofTalk
<1> HIDE DEF r
<1> QED BY <1>1, <1>3, <1>5, QuietCall DEF s, f

\* No credit is parked outside a key exchange.
LEMMA TearDownReady ==
    ASSUME WellBehaved, NEW e \in Ends, NEW q, NEW t, NEW w, Talk(session[e], q, t, w, <<>>),
           NEW i \in DOMAIN session[e].channelList, CarefulTearDown(e, session[e].channelList[i])
    PROVE  /\ Phase(session[e].channelList[i]) = "open"
           /\ ~session[e].channelList[i].pendingWindowAdjust
<1> DEFINE s == session[e]  c == s.channelList[i]
<1>1. c \in Channel /\ Neat(c, i, s.isKeying, <<>>)
  BY OneNeat
<1>2. CarefulWith(c) /\ ~s.isKeying
  BY DEF CarefulTearDown, WellBehaved
<1>3. Phase(c) = "open"
  BY <1>1, <1>2, CarefulIsOpen
<1> QED BY <1>1, <1>2, <1>3 DEF Neat

LEMMA ExitCloses ==
    ASSUME CInv, IInv', WellBehaved, NEW e \in Ends, NEW i, ChannelExit(e, i)
    PROVE  CInv'
<1> DEFINE s == session[e]  c == s.channelList[i]  f == Other(e)
           r == SendChannelEof(s, c.peerChannel)
           u == SendChannelClose(r, c.peerChannel)
<1>1. /\ i \in DOMAIN s.channelList /\ Established(e) /\ CarefulTearDown(e, c)
      /\ used' = used /\ (Call(e, r) \/ Call(e, u))
  BY DEF ChannelExit, CallOn, May
<1>2. Talk(s, wire[e], session[f], wire[f], <<>>)
  BY Standing
<1>3. Done(e, s)
  BY <1>1, EstablishedIsDone
<1>4. Phase(c) = "open" /\ ~c.pendingWindowAdjust
  BY <1>1, <1>2, TearDownReady
<1> HIDE DEF s, f
<1>5. Talk(r, wire[e], session[f], wire[f], <<>>) /\ Quiet(s, r)
  BY <1>1, <1>2, <1>4, EofTalk
<1>6. Talk(u, wire[e], session[f], wire[f], <<>>) /\ Quiet(s, u)
  BY <1>1, <1>2, <1>4, EofCloseTalk
<1> HIDE DEF r, u
<1> QED BY <1>1, <1>3, <1>5, <1>6, QuietCall DEF s, f

\* EofCloseTalk, of a channel that is known.
LEMMA TornDown ==
    ASSUME NEW s, NEW q, NEW t, NEW w, Talk(s, q, t, w, <<>>), NEW i \in DOMAIN s.channelList,
           NEW c, s.channelList[i] = c, Phase(c) = "open", ~c.pendingWindowAdjust
    PROVE  LET r == SendChannelClose(SendChannelEof(s, c.peerChannel), c.peerChannel)
           IN  Talk(r, q, t, w, <<>>) /\ Quiet(s, r)
<1> DEFINE r == SendChannelClose(SendChannelEof(s, s.channelList[i].peerChannel), s.channelList[i].peerChannel)
<1>1. Phase(s.channelList[i]) = "open"
      /\ (s.channelList[i].pendingWindowAdjust => s.channelList[i].uid = <<>>)
  OBVIOUS
<1>2. Talk(r, q, t, w, <<>>) /\ Quiet(s, r)
  BY <1>1, EofCloseTalk
<1> QED BY <1>2

\* EofTalk, of a channel that is known.
LEMMA EofSent ==
    ASSUME NEW s, NEW q, NEW t, NEW w, Talk(s, q, t, w, <<>>), NEW i \in DOMAIN s.channelList,
           NEW c, s.channelList[i] = c, Phase(c) = "open"
    PROVE  LET r == SendChannelEof(s, c.peerChannel)
           IN  Talk(r, q, t, w, <<>>) /\ Quiet(s, r)
<1> DEFINE r == SendChannelEof(s, s.channelList[i].peerChannel)
<1>1. Phase(s.channelList[i]) = "open"
  OBVIOUS
<1>2. Talk(r, q, t, w, <<>>) /\ Quiet(s, r)
  BY <1>1, EofTalk
<1> QED BY <1>2

LEMMA HeadIsFirst ==
    ASSUME NEW s \in Session, s.channelList # <<>>
    PROVE  1 \in DOMAIN s.channelList /\ Head(s.channelList) = s.channelList[1]
  BY Fields

LEMMA StreamExitCloses ==
    ASSUME CInv, IInv', WellBehaved, NEW e \in Ends, StreamExit(e)
    PROVE  CInv'
<1> DEFINE s == session[e]  c == s.channelList[1]  f == Other(e)
           r == SendChannelRequest(s, c.peerChannel, "exit")
           u == SendChannelEof(r, c.peerChannel)
           v == SendChannelClose(u, c.peerChannel)
<1>1. Talk(s, wire[e], session[f], wire[f], <<>>) /\ s \in Session
  BY Standing
<1>2. /\ 1 \in DOMAIN s.channelList /\ Established(e) /\ CarefulTearDown(e, c)
      /\ Spend(e, "requests", MaxRequests) /\ (Call(e, r) \/ Call(e, u) \/ Call(e, v))
  <2>1. s.channelList # <<>> /\ CarefulTearDown(e, Head(s.channelList)) /\ Established(e)
    BY DEF StreamExit, TearDownHead, May
  <2>2. 1 \in DOMAIN s.channelList /\ Head(s.channelList) = c
    BY <1>1, <2>1, HeadIsFirst
  <2> QED BY <2>1, <2>2 DEF StreamExit
<1>3. Done(e, s)
  BY <1>2, EstablishedIsDone
<1>4. Phase(c) = "open" /\ ~c.pendingWindowAdjust
  BY <1>1, <1>2, TearDownReady
<1>5. used'[e].opens = used[e].opens /\ used'[f].opens = used[f].opens
  BY <1>2, SpendOther
<1> HIDE DEF s, f
<1>6. Talk(r, wire[e], session[f], wire[f], <<>>) /\ Quiet(s, r) /\ r.channelList = s.channelList
  BY <1>1, <1>2, <1>4, RequestTalk
<1> HIDE DEF r
<1>7. 1 \in DOMAIN r.channelList /\ r.channelList[1] = c
  BY <1>2, <1>6
<1>8. Talk(u, wire[e], session[f], wire[f], <<>>) /\ Quiet(r, u)
  <2> HIDE DEF c
  <2> QED BY <1>4, <1>6, <1>7, EofSent
<1>9. Talk(v, wire[e], session[f], wire[f], <<>>) /\ Quiet(r, v)
  <2> HIDE DEF c
  <2> QED BY <1>4, <1>6, <1>7, TornDown
<1> HIDE DEF u, v
<1>10. Quiet(s, u) /\ Quiet(s, v)
  BY <1>6, <1>8, <1>9, QuietTrans
<1> QED BY <1>2, <1>3, <1>5, <1>6, <1>8, <1>9, <1>10, QuietCall DEF s, f

LEMMA ShutdownCloses ==
    ASSUME CInv, IInv', WellBehaved, NEW e \in Ends, Shutdown(e)
    PROVE  CInv'
<1> DEFINE s == session[e]  c == s.channelList[1]  f == Other(e)
           id == c.peerChannel
           r == SendChannelEof(s, id)
           u == SendChannelRequest(r, id, "exit")
           v == SendChannelClose(u, id)
           d == [c EXCEPT !.eofTxd = TRUE]
<1>1. Talk(s, wire[e], session[f], wire[f], <<>>) /\ s \in Session
  BY Standing
<1>2. /\ 1 \in DOMAIN s.channelList /\ Established(e) /\ CarefulTearDown(e, c)
      /\ Spend(e, "requests", MaxRequests) /\ Call(e, v)
  <2>1. s.channelList # <<>> /\ CarefulTearDown(e, Head(s.channelList)) /\ Established(e)
    BY DEF Shutdown, TearDownHead, May
  <2>2. 1 \in DOMAIN s.channelList /\ Head(s.channelList) = c
    BY <1>1, <2>1, HeadIsFirst
  <2> QED BY <2>1, <2>2 DEF Shutdown
<1>3. Done(e, s)
  BY <1>2, EstablishedIsDone
<1>4. Phase(c) = "open" /\ ~c.pendingWindowAdjust
  BY <1>1, <1>2, TearDownReady
<1>5. used'[e].opens = used[e].opens /\ used'[f].opens = used[f].opens
  BY <1>2, SpendOther
<1> HIDE DEF s, f
<1>6. /\ Talk(r, wire[e], session[f], wire[f], <<>>) /\ Quiet(s, r)
      /\ 1 \in DOMAIN r.channelList /\ r.channelList[1] = d /\ Phase(d) = "open"
  BY <1>1, <1>2, <1>4, EofTalk
<1>7. d.peerChannel = id /\ d.eofTxd /\ ~d.pendingWindowAdjust
  <2>1. c \in Channel
    BY <1>1, <1>2, Fields
  <2> HIDE DEF c
  <2> QED BY <1>4, <2>1 DEF Channel
<1> HIDE DEF r, d, id
<1>8. Talk(u, wire[e], session[f], wire[f], <<>>) /\ Quiet(r, u) /\ u.channelList = r.channelList
  BY <1>6, <1>7, RequestTalk
<1> HIDE DEF u
<1>9. 1 \in DOMAIN u.channelList /\ u.channelList[1] = d
  BY <1>6, <1>8
<1>10. SendChannelEof(u, id) = u
  <2>1. FindPeer(u, id) = 1
    BY <1>6, <1>7, <1>8, <1>9, FoundPeer
  <2> QED BY <1>7, <1>9, <2>1 DEF SendChannelEof
<1>11. Talk(v, wire[e], session[f], wire[f], <<>>) /\ Quiet(u, v)
  <2>1. v = SendChannelClose(SendChannelEof(u, d.peerChannel), d.peerChannel)
    BY <1>7, <1>10
  <2>2. Talk(SendChannelClose(SendChannelEof(u, d.peerChannel), d.peerChannel),
             wire[e], session[f], wire[f], <<>>)
        /\ Quiet(u, SendChannelClose(SendChannelEof(u, d.peerChannel), d.peerChannel))
    BY <1>6, <1>7, <1>8, <1>9, TornDown
  <2> QED BY <2>1, <2>2
<1> HIDE DEF v
<1>12. Quiet(s, v)
  BY <1>6, <1>8, <1>11, QuietTrans
<1> QED BY <1>2, <1>3, <1>5, <1>11, <1>12, QuietCall DEF s, f

LEMMA ResizeCloses ==
    ASSUME CInv, IInv', WellBehaved, ChangeTerminalSize
    PROVE  CInv'
<1> DEFINE e == "client"  s == session["client"]  f == Other("client")
           i == FindPeer(s, s.defaultPeerChannelId)
           r == SendChannelRequest(s, s.defaultPeerChannelId, "resize")
<1>1. /\ i # 0 /\ Established(e) /\ CarefulWith(s.channelList[i])
      /\ Spend(e, "requests", MaxRequests) /\ Call(e, r)
  BY DEF ChangeTerminalSize, May
<1>2. e \in Ends
  BY DEF Ends
<1>3. Talk(s, wire[e], session[f], wire[f], <<>>) /\ s \in Session
  BY <1>2, Standing
<1>4. Done(e, s)
  BY <1>1, <1>2, EstablishedIsDone
<1>5. used'[e].opens = used[e].opens /\ used'[f].opens = used[f].opens
  BY <1>1, <1>2, SpendOther
<1> HIDE DEF s, f
<1>6. i \in DOMAIN s.channelList /\ s.channelList[i].peerChannel = s.defaultPeerChannelId
  BY <1>1, <1>3, FindFinds
<1> HIDE DEF i
<1>7. Phase(s.channelList[i]) = "open"
  BY <1>1, <1>3, <1>6, OneNeat, CarefulIsOpen
<1>8. Talk(r, wire[e], session[f], wire[f], <<>>) /\ Quiet(s, r)
  <2>1. r = SendChannelRequest(s, s.channelList[i].peerChannel, "resize")
    BY <1>6
  <2> QED BY <2>1, <1>3, <1>6, <1>7, RequestTalk
<1> HIDE DEF r
<1> QED BY <1>1, <1>2, <1>4, <1>5, <1>8, QuietCall DEF s, f

\* A key exchange begins.
LEMMA KeyingTalk ==
    ASSUME NEW s, NEW q, NEW t, NEW w, NEW x, Talk(s, q, t, w, x), NEW r, r = [s EXCEPT !.isKeying = TRUE]
    PROVE  Talk(r, q, t, w, x) /\ Quiet(s, r) /\ Views(r) = Views(s)
<1>1. s \in Session /\ Tidy(s, x)
  BY DEF Talk
<1>2. /\ r \in Session /\ r.channelList = s.channelList /\ r.isKeying
      /\ r.nextChannel = s.nextChannel /\ r.out = s.out
      /\ r.disconnected = s.disconnected /\ r.refused = s.refused
      /\ r.connectState = s.connectState /\ r.serverState = s.serverState
      /\ r.acceptState = s.acceptState /\ r.clientState = s.clientState
  <2>1. s \in Session /\ r = [s EXCEPT !.isKeying = TRUE]
    BY <1>1
  <2> QED BY <2>1 DEF Session
<1>3. Tidy(r, x)
  BY <1>1, <1>2 DEF Tidy, Neat
<1>4. Views(r) = Views(s) /\ UidsOf(r) = UidsOf(s)
  BY <1>2 DEF Views, UidsOf
<1>5. Talk(r, q, t, w, x)
  BY <1>2, <1>3, <1>4 DEF Talk
<1> QED BY <1>2, <1>4, <1>5 DEF Quiet

LEMMA RekeyCloses ==
    ASSUME CInv, IInv', NEW e \in Ends, StartRekey(e) \/ EndRekey(e)
    PROVE  CInv'
<1> DEFINE s == session[e]  f == Other(e)
           r == [s EXCEPT !.isKeying = TRUE]
           u == SendPendingChannelWindowAdjust([s EXCEPT !.isKeying = FALSE])
<1>1. Talk(s, wire[e], session[f], wire[f], <<>>) /\ s.out = <<>>
  BY Standing
<1>2. CASE StartRekey(e)
  <2>1. Call(e, r) /\ Spend(e, "rekeys", MaxRekeys)
    BY <1>2 DEF StartRekey
  <2>2. used'[e].opens = used[e].opens /\ used'[f].opens = used[f].opens
    BY <2>1, SpendOther
  <2> HIDE DEF s, f
  <2>3. Talk(r, wire[e], session[f], wire[f], <<>>) /\ Quiet(s, r) /\ Views(r) = Views(s)
    BY <1>1, KeyingTalk
  <2> HIDE DEF r
  <2> QED BY <2>1, <2>2, <2>3, QuietCall DEF s, f
<1>3. CASE EndRekey(e)
  <2>1. Call(e, u) /\ used' = used
    BY <1>3 DEF EndRekey
  <2> HIDE DEF s, f
  <2>3. Talk(u, wire[e], session[f], wire[f], <<>>) /\ Quiet(s, u) /\ Views(u) = Views(s)
    BY <1>1, PendingTalk
  <2> HIDE DEF u
  <2> QED BY <2>1, <2>3, QuietCall DEF s, f
<1> QED BY <1>2, <1>3

----------------------------------------------------------------------------
(* Opens of either end, wolfSSH_connect() and wolfSSH_accept().            *)

\* The channel e opens after its first n.
NthUid(e, n) == <<e, n + 1>>

LEMMA WithinMore ==
    ASSUME NEW e, NEW u, NEW n \in Nat, NEW m \in Nat, Within(u, e, n, m)
    PROVE  Within(u, e, n + 1, m) /\ Within(u, e, n, m + 1) /\ u # NthUid(e, n)
<1>1. u \in Uids /\ u[2] \in Nat
  BY DEF Uids, Within
<1> QED BY <1>1 DEF Within, NthUid

\* The end e may open its next channel, u.
Ready(e, s, Q, t, W, n, m, u) ==
    /\ e \in Ends /\ s \in Session /\ t \in Session /\ n \in Nat /\ m \in Nat
    /\ Counted(e, s, Q, n, m) /\ Counted(Other(e), t, W, m, n)
    /\ n < MaxOpens(e) /\ u = NthUid(e, n)

\* One more channel is opened, or its id spent on nothing.
LEMMA CountedOpened ==
    ASSUME NEW e, NEW s, NEW Q, NEW t, NEW V, NEW n, NEW m, NEW u, Ready(e, s, Q, t, V, n, m, u),
           NEW r, r.nextChannel = s.nextChannel + 1,
           UidsOf(r) \subseteq UidsOf(s) \cup {u}, NEW W, \A x \in W : x \in V \/ x.uid = u
    PROVE  Counted(e, r, Q, n + 1, m) /\ Counted(Other(e), t, W, m, n + 1)
<1>0. /\ e \in Ends /\ n \in Nat /\ m \in Nat /\ s.nextChannel \in Nat /\ t.nextChannel \in Nat
      /\ Counted(e, s, Q, n, m) /\ Counted(Other(e), t, V, m, n)
      /\ n < MaxOpens(e) /\ u = NthUid(e, n)
  BY Fields DEF Ready, Ids
<1>1. MaxOpens(e) \in Nat /\ u \in Uids /\ u[1] = e /\ u[2] = n + 1 /\ Other(Other(e)) = e /\ Other(e) # e
  <2>1. MaxOpens(e) \in Nat
    BY <1>0, ChannelsAssumption DEF MaxOpens
  <2>2. u \in {e} \X (1 .. MaxOpens(e)) /\ u[2] = n + 1 /\ u[1] = e
    BY <1>0, <2>1 DEF NthUid
  <2> QED BY <1>0, <2>1, <2>2 DEF Uids, Ends, Other
<1>2. Within(u, e, n + 1, m) /\ Within(u, Other(e), m, n + 1)
  BY <1>0, <1>1 DEF Within
<1>3. \A x \in UidsOf(r) : Within(x, e, n + 1, m)
  BY <1>0, <1>2, WithinMore DEF Counted
<1>4. \A x \in Q : Within(x.uid, e, n + 1, m) /\ x.uid[2] \in Nat
  BY <1>0, WithinMore DEF Counted, Within, Uids
<1>5. \A x \in UidsOf(t) : Within(x, Other(e), m, n + 1)
  BY <1>0, WithinMore DEF Counted
<1>6. \A x \in W : Within(x.uid, Other(e), m, n + 1) /\ x.uid[2] \in Nat
  BY <1>0, <1>1, <1>2, WithinMore DEF Counted, Within, Uids
<1>7. Counted(e, r, Q, n + 1, m)
  <2>1. \A x \in Q : x.type = "OPEN" => x.uid[1] = Other(e) /\ r.nextChannel < (n + 1) + x.uid[2]
    BY <1>0, <1>4 DEF Counted
  <2>2. r.nextChannel <= (n + 1) + m /\ n + 1 <= MaxOpens(e)
    BY <1>0, <1>1 DEF Counted
  <2> QED BY <1>0, <1>3, <1>4, <2>1, <2>2 DEF Counted
<1>8. Counted(Other(e), t, W, m, n + 1)
  <2>1. \A x \in W : x.type = "OPEN" => x.uid[1] = Other(Other(e)) /\ t.nextChannel < m + x.uid[2]
    <3>1. ASSUME NEW x \in W, x \in V, x.type = "OPEN"
          PROVE  x.uid[1] = Other(Other(e)) /\ t.nextChannel < m + x.uid[2]
      BY <1>0, <3>1 DEF Counted
    <3>2. ASSUME NEW x \in W, x.uid = u
          PROVE  x.uid[1] = Other(Other(e)) /\ t.nextChannel < m + x.uid[2]
      BY <1>0, <3>2, <1>1 DEF Counted
    <3> QED BY <1>0, <3>1, <3>2
  <2>2. t.nextChannel <= m + (n + 1) /\ m <= MaxOpens(Other(e))
    BY <1>0 DEF Counted
  <2> QED BY <1>0, <1>5, <1>6, <2>1, <2>2 DEF Counted
<1> QED BY <1>7, <1>8

\* There is room for one more, and nobody has heard of it.
LEMMA OpenIsFresh ==
    ASSUME WellBehaved, NEW e, NEW s, NEW Q, NEW t, NEW W, NEW n, NEW m, NEW u,
           Ready(e, s, Q, t, W, n, m, u)
    PROVE  Fresh(u, s, Q, t, W)
<1>0. /\ e \in Ends /\ s \in Session /\ t \in Session /\ n \in Nat /\ m \in Nat
      /\ Counted(e, s, Q, n, m) /\ Counted(Other(e), t, W, m, n)
      /\ n < MaxOpens(e) /\ u = NthUid(e, n)
  BY DEF Ready
<1>1. /\ MaxOpens(e) \in Nat /\ MaxOpens(Other(e)) \in Nat
      /\ MaxOpens(e) + MaxOpens(Other(e)) = ClientOpens + ServerOpens
      /\ Other(Other(e)) = e /\ Other(e) # e
  BY <1>0, ChannelsAssumption DEF MaxOpens, Ends, Other
<1>2. u \in Uids /\ u[1] = e /\ u[2] = n + 1
  <2>1. u \in {e} \X (1 .. MaxOpens(e)) /\ u[2] = n + 1 /\ u[1] = e
    BY <1>0, <1>1 DEF NthUid
  <2> QED BY <1>0, <2>1 DEF Uids
<1>3. s.nextChannel + 1 < IdSpace
  <2>1. s.nextChannel \in Nat /\ IdSpace \in Nat
    BY <1>0, Fields, ChannelsAssumption DEF Ids
  <2>2. s.nextChannel <= n + m /\ m <= MaxOpens(Other(e)) /\ ClientOpens + ServerOpens < IdSpace
    BY <1>0 DEF Counted, WellBehaved
  <2> QED BY <1>0, <1>1, <2>1, <2>2
<1>4. \A y \in Views(s) : y.uid # u
  <2>1. \A y \in Views(s) : y.uid \in UidsOf(s)
    BY <1>0, ViewFields DEF Views, UidsOf
  <2> QED BY <1>0, <2>1, WithinMore DEF Counted
<1>5. \A y \in Q : y.uid # u
  BY <1>0, WithinMore DEF Counted
<1>6. \A y \in Views(t) : y.uid # u
  <2>1. \A y \in Views(t) : y.uid \in UidsOf(t)
    BY <1>0, ViewFields DEF Views, UidsOf
  <2> QED BY <1>0, <2>1, WithinSwap, WithinMore DEF Counted
<1>7. \A y \in W : y.uid # u
  BY <1>0, WithinSwap, WithinMore DEF Counted
<1>8. ASSUME NEW x \in W, x.type = "OPEN" PROVE x.uid[2] < u[2]
  <2>1. x.uid[1] = e /\ Within(x.uid, Other(e), m, n)
    BY <1>0, <1>1, <1>8 DEF Counted
  <2>2. x.uid[2] \in Nat /\ x.uid[2] <= n
    BY <1>0, <1>1, <2>1 DEF Within, Uids
  <2> QED BY <1>0, <1>2, <2>2
<1> QED BY <1>2, <1>3, <1>4, <1>5, <1>6, <1>7, <1>8 DEF Fresh

\* The channel that e opens next.
OpenOf(e, kind) == ChannelNew(session[e], kind, NextUid(e))

LEMMA OpenTalk ==
    ASSUME CInv, WellBehaved, NEW e \in Ends, HasId(e), used[e].opens < MaxOpens(e), NEW kind \in Kinds,
           session[e].nextChannel = 0 => NextUid(e) = SessionUid,
           kind = "session" => NextUid(e) = SessionUid,
           NextUid(e) = SessionUid => session[e].channelList = <<>>,
           NEW r, r = SendChannelOpen(ChannelAppend(Allocated(session[e]), OpenOf(e, kind)), OpenOf(e, kind))
    PROVE  /\ Talk(r, wire[e], session[Other(e)], wire[Other(e)], <<>>)
           /\ Opened(session[e], r, Msgs(wire[Other(e)]), Msgs(wire[Other(e)] \o r.out), kind, NextUid(e))
<1> DEFINE s == session[e]  f == Other(e)  t == session[f]  q == wire[e]  w == wire[f]
           n == used[e].opens  m == used[f].opens  uid == NextUid(e)
<1>1. /\ Talk(s, q, t, w, <<>>) /\ s \in Session /\ t \in Session /\ s.out = <<>>
      /\ n \in Nat /\ m \in Nat
      /\ Joint(e, s, Msgs(q), t, Msgs(w), n, m)
  BY Standing
<1>2. /\ n < MaxOpens(e) /\ uid = NthUid(e, n) /\ Cardinality(InUse(s)) < IdSpace
      /\ s.nextChannel = 0 => uid = SessionUid
      /\ kind = "session" => uid = SessionUid
      /\ uid = SessionUid => s.channelList = <<>>
      /\ r = SendChannelOpen(ChannelAppend(Allocated(s), ChannelNew(s, kind, uid)),
                             ChannelNew(s, kind, uid))
  BY DEF NextUid, NthUid, HasId, OpenOf
<1> HIDE DEF s, f, t, q, w, n, m, uid
<1>3. Ready(e, s, Msgs(q), t, Msgs(w), n, m, uid)
  BY <1>1, <1>2 DEF Ready, Joint
<1>4. Fresh(uid, s, Msgs(q), t, Msgs(w))
  BY <1>3, OpenIsFresh
<1>5. w \o s.out = w
  <2>1. w \in Seq(Packet)
    BY <1>1 DEF Talk
  <2> QED BY <1>1, <2>1
<1>6. Talk(r, q, t, w, <<>>) /\ Opened(s, r, Msgs(w), Msgs(w \o r.out), kind, uid)
  <2> DEFINE c == ChannelNew(s, kind, uid)
             u == SendChannelOpen(ChannelAppend(Allocated(s), c), c)
  <2>1. Talk(u, q, t, w, <<>>) /\ Opened(s, u, Msgs(w \o s.out), Msgs(w \o u.out), kind, uid)
    BY <1>1, <1>2, <1>4, <1>5, OpenedTalk
  <2> QED BY <2>1, <1>2, <1>5
<1> QED BY <1>6 DEF s, f, t, q, w, uid

\* wolfSSH_connect() opens the session channel.
LEMMA BegunConnectOpen ==
    ASSUME NEW c, NEW v, NEW P, NEW R, NEW k \in Nat, Begun(c, v, P, R, k), c.nextChannel \in Nat,
           c.connectState = "userauth_done", NEW r, r.connectState = "open_sent",
           r.serverState = c.serverState, r.nextChannel = c.nextChannel + 1,
           UidsOf(r) = UidsOf(c) \cup {SessionUid},
           \A y \in Views(r) : y \in Views(c) \/ y.phase = "opening",
           NEW W, \A x \in W : x \in P \/ (x.type = "OPEN" /\ x.kind = "session" /\ x.uid = SessionUid)
    PROVE  Begun(r, v, W, R, k + 1)
  BY DEF Begun, Underway

\* The client opens a channel once it is connected.
LEMMA BegunClientOpen ==
    ASSUME NEW c, NEW v, NEW P, NEW R, NEW k \in Nat, Begun(c, v, P, R, k), c.nextChannel \in Nat,
           c.connectState = "done", NEW r, r.connectState = "done",
           r.serverState = c.serverState, r.nextChannel = c.nextChannel + 1,
           NEW W, NEW kind, kind \notin {"session", "shell"},
           \A x \in W : x \in P \/ (x.type = "OPEN" /\ x.kind = kind /\ x.uid # SessionUid)
    PROVE  Begun(r, v, W, R, k + 1)
  BY DEF Begun, Underway

\* The server opens a channel once it has seen the shell request.
LEMMA BegunServerOpen ==
    ASSUME NEW c, NEW v, NEW P, NEW R, NEW k, Begun(c, v, P, R, k), v.nextChannel \in Nat,
           v.clientState = "done" \/ v.acceptState = "done",
           NEW r, r.clientState = v.clientState, r.acceptState = v.acceptState,
           r.nextChannel = v.nextChannel + 1,
           \A y \in Views(r) : y \in Views(v) \/ y.phase = "opening",
           NEW W, NEW kind, kind \notin {"session", "shell"},
           \A x \in W : x \in R \/ (x.type = "OPEN" /\ x.kind = kind)
    PROVE  Begun(c, r, P, W, k)
  BY DEF Begun, Underway

LEMMA OpenCloses ==
    ASSUME CInv, IInv', NEW e \in Ends, Spend(e, "opens", MaxOpens(e)), NEW r, Call(e, r),
           Talk(r, wire[e], session[Other(e)], wire[Other(e)], <<>>),
           r.nextChannel = session[e].nextChannel + 1,
           UidsOf(r) \subseteq UidsOf(session[e]) \cup {NextUid(e)},
           \A x \in Msgs(wire[Other(e)] \o r.out) : x \in Msgs(wire[Other(e)]) \/ x.uid = NextUid(e),
           IF e = "client"
           THEN Begun(r, session["server"], Msgs(wire["server"] \o r.out), Msgs(wire["client"]),
                      used["client"].opens + 1)
           ELSE Begun(session["client"], r, Msgs(wire["server"]), Msgs(wire["client"] \o r.out),
                      used["client"].opens)
    PROVE  CInv'
<1> DEFINE s == session[e]  f == Other(e)  t == session[f]  q == wire[e]  w == wire[f]
           n == used[e].opens  m == used[f].opens  W == Msgs(w \o r.out)
<1>1. /\ s \in Session /\ t \in Session /\ n \in Nat /\ m \in Nat
      /\ Joint(e, s, Msgs(q), t, Msgs(w), n, m)
  BY Standing
<1>2. n < MaxOpens(e) /\ used'[e].opens = n + 1 /\ used'[f].opens = m
  BY SpendOpens
<1>3. NextUid(e) = NthUid(e, n)
  BY DEF NextUid, NthUid
<1>4. Counted(e, r, Msgs(q), n + 1, m) /\ Counted(f, t, W, m, n + 1)
  <2>1. Ready(e, s, Msgs(q), t, Msgs(w), n, m, NextUid(e))
    <3> HIDE DEF s, t, q, w, n, m
    <3> QED BY <1>1, <1>2, <1>3 DEF Ready, Joint
  <2>2. /\ r.nextChannel = s.nextChannel + 1 /\ UidsOf(r) \subseteq UidsOf(s) \cup {NextUid(e)}
        /\ \A x \in W : x \in Msgs(w) \/ x.uid = NextUid(e)
    OBVIOUS
  <2> HIDE DEF s, t, q, w, n, m, W
  <2> QED BY <2>1, <2>2, CountedOpened
<1>5. IF e = "client" THEN Begun(r, t, W, Msgs(q), n + 1) ELSE Begun(t, r, Msgs(q), W, m)
  BY DEF Other, Ends
<1>6. Joint(e, r, Msgs(q), t, W, n + 1, m)
  <2> HIDE DEF s, t, q, w, n, m, W
  <2> QED BY <1>4, <1>5 DEF Joint
<1>7. Joint(e, r, Msgs(q), t, W, used'[e].opens, used'[f].opens)
  BY <1>2, <1>6
<1> QED BY <1>7, Returns DEF Call

\* r is s but for connectState, acceptState and agent.
Restated(s, r) ==
    /\ r \in Session /\ r.channelList = s.channelList /\ r.nextChannel = s.nextChannel /\ r.out = s.out
    /\ r.isKeying = s.isKeying /\ r.disconnected = s.disconnected /\ r.refused = s.refused
    /\ r.serverState = s.serverState /\ r.clientState = s.clientState

LEMMA RestatedTalk ==
    ASSUME NEW s, NEW q, NEW t, NEW w, NEW x, Talk(s, q, t, w, x), NEW r, Restated(s, r)
    PROVE  Talk(r, q, t, w, x) /\ Views(r) = Views(s) /\ UidsOf(r) = UidsOf(s)
<1>1. /\ r \in Session /\ r.channelList = s.channelList /\ r.nextChannel = s.nextChannel /\ r.out = s.out
      /\ r.isKeying = s.isKeying /\ r.disconnected = s.disconnected /\ r.refused = s.refused
  BY DEF Restated
<1> QED BY <1>1, StateTalk

LEMMA ConnectStateIs ==
    ASSUME NEW s \in Session, NEW v \in States
    PROVE  LET r == [s EXCEPT !.connectState = v] IN
           Restated(s, r) /\ r.connectState = v /\ r.acceptState = s.acceptState
  BY DEF Session, Restated

LEMMA AcceptStateIs ==
    ASSUME NEW s \in Session, NEW v \in States
    PROVE  LET r == [s EXCEPT !.acceptState = v] IN
           Restated(s, r) /\ r.acceptState = v /\ r.connectState = s.connectState
  BY DEF Session, Restated

LEMMA AgentIs ==
    ASSUME NEW s \in Session
    PROVE  LET r == [s EXCEPT !.agent = TRUE] IN
           Restated(s, r) /\ r.acceptState = s.acceptState /\ r.connectState = s.connectState
  BY DEF Session, Restated

LEMMA ClientBegun ==
    ASSUME CInv
    PROVE  /\ Begun(session["client"], session["server"], Msgs(wire["server"]), Msgs(wire["client"]),
                    used["client"].opens)
           /\ "client" \in Ends /\ "server" \in Ends /\ Other("client") = "server" /\ Other("server") = "client"
           /\ session["client"].nextChannel \in Nat /\ session["server"].nextChannel \in Nat
           /\ used["client"].opens \in Nat
<1>1. "client" \in Ends /\ "server" \in Ends /\ Other("client") = "server" /\ Other("server") = "client"
  BY DEF Ends, Other
<1>2. /\ session["client"] \in Session /\ session["server"] \in Session /\ used["client"].opens \in Nat
      /\ Joint("client", session["client"], Msgs(wire["client"]), session["server"], Msgs(wire["server"]),
               used["client"].opens, used["server"].opens)
  BY <1>1, Standing
<1>3. Begun(session["client"], session["server"], Msgs(wire["server"]), Msgs(wire["client"]),
            used["client"].opens)
  BY <1>2 DEF Joint
<1> QED BY <1>1, <1>2, <1>3, Fields DEF Ids

LEMMA NoUidsNoList ==
    ASSUME NEW s \in Session, UidsOf(s) = {}
    PROVE  s.channelList = <<>>
<1> DEFINE l == s.channelList
<1>1. DOMAIN l = {} /\ l \in Seq(Channel) /\ DOMAIN l = 1 .. Len(l) /\ Len(l) \in Nat
  BY Fields DEF UidsOf
<1> HIDE DEF l
<1>2. Len(l) = 0
  <2>1. 1 \notin 1 .. Len(l)
    BY <1>1
  <2> QED BY <1>1, <2>1
<1>3. l = <<>>
  BY <1>1, <1>2
<1> QED BY <1>3 DEF l

LEMMA ConnectOpenCloses ==
    ASSUME CInv, IInv', WellBehaved, ConnectOpen
    PROVE  CInv'
<1> DEFINE e == "client"  s == session["client"]  c == OpenOf("client", "session")
           o == SendChannelOpen(ChannelAppend(Allocated(s), c), c)
           r == [o EXCEPT !.connectState = "open_sent"]
           v == session["server"]  q == wire["client"]  w == wire["server"]
           k == used["client"].opens
<1>1. /\ s.connectState = "userauth_done" /\ HasId(e) /\ Spend(e, "opens", MaxOpens(e)) /\ Call(e, r)
  BY DEF ConnectOpen, CanOpen, OpenOf
<1>2. /\ e \in Ends /\ Other(e) = "server" /\ k \in Nat /\ s.nextChannel \in Nat
      /\ Begun(s, v, Msgs(w), Msgs(q), k)
  BY ClientBegun
<1>3. s \in Session
  BY <1>2, Standing
<1>4. k = 0 /\ UidsOf(s) = {}
  BY <1>1, <1>2 DEF Begun
<1>5. NextUid(e) = SessionUid /\ s.channelList = <<>> /\ k < MaxOpens(e)
  <2>1. NextUid(e) = SessionUid
    BY <1>4 DEF NextUid, SessionUid
  <2>2. s.channelList = <<>>
    BY <1>3, <1>4, NoUidsNoList
  <2>3. k < MaxOpens(e)
    BY <1>1, <1>2, SpendOpens
  <2> QED BY <2>1, <2>2, <2>3
<1>6. /\ Talk(o, q, v, w, <<>>)
      /\ Opened(s, o, Msgs(w), Msgs(w \o o.out), "session", NextUid(e))
  <2>1. "session" \in Kinds
    BY DEF Kinds
  <2>2. /\ Talk(o, wire[e], session[Other(e)], wire[Other(e)], <<>>)
        /\ Opened(session[e], o, Msgs(wire[Other(e)]), Msgs(wire[Other(e)] \o o.out), "session", NextUid(e))
    BY <1>1, <1>2, <1>5, <2>1, OpenTalk
  <2> QED BY <2>2, <1>2
<1> HIDE DEF o
<1>7. Restated(o, r) /\ r.connectState = "open_sent"
  <2>1. o \in Session
    BY <1>6 DEF Talk
  <2> QED BY <2>1, ConnectStateIs DEF States
<1> HIDE DEF r
<1>8. Talk(r, q, v, w, <<>>) /\ Views(r) = Views(o) /\ UidsOf(r) = UidsOf(o)
  BY <1>6, <1>7, RestatedTalk
<1>9. /\ r.serverState = s.serverState /\ r.nextChannel = s.nextChannel + 1
      /\ UidsOf(r) = UidsOf(s) \cup {SessionUid}
      /\ \A y \in Views(r) : y \in Views(s) \/ y.phase = "opening"
      /\ \A x \in Msgs(w \o r.out) : x \in Msgs(w) \/ (x.type = "OPEN" /\ x.kind = "session" /\ x.uid = SessionUid)
  BY <1>5, <1>6, <1>7, <1>8 DEF Opened, Restated, Alike
<1>10. Begun(r, v, Msgs(w \o r.out), Msgs(q), k + 1)
  <2> HIDE DEF s, v, q, w, k
  <2> QED BY <1>1, <1>2, <1>7, <1>9, BegunConnectOpen
<1>11. /\ Talk(r, wire[e], session[Other(e)], wire[Other(e)], <<>>)
       /\ r.nextChannel = session[e].nextChannel + 1
       /\ UidsOf(r) \subseteq UidsOf(session[e]) \cup {NextUid(e)}
       /\ \A x \in Msgs(wire[Other(e)] \o r.out) : x \in Msgs(wire[Other(e)]) \/ x.uid = NextUid(e)
  BY <1>2, <1>5, <1>8, <1>9
<1> QED BY <1>1, <1>2, <1>10, <1>11, OpenCloses

\* ConnectDone and AcceptDone.
LEMMA BegunConnectDone ==
    ASSUME NEW c, NEW v, NEW P, NEW R, NEW k, Begun(c, v, P, R, k),
           c.connectState = "request_sent", NEW r, r.connectState = "done",
           r.serverState = c.serverState, r.nextChannel = c.nextChannel, Views(r) = Views(c),
           UidsOf(r) = UidsOf(c)
    PROVE  Begun(r, v, P, R, k)
  BY DEF Begun, Underway

LEMMA BegunAcceptDone ==
    ASSUME NEW c, NEW v, NEW P, NEW R, NEW k, Begun(c, v, P, R, k),
           v.clientState = "done", NEW r, r.acceptState = "done",
           r.clientState = v.clientState, r.nextChannel = v.nextChannel, Views(r) = Views(v)
    PROVE  Begun(c, r, P, R, k)
  BY DEF Begun, Underway

\* A state is changed and nothing is sent.
LEMMA SilentCloses ==
    ASSUME CInv, IInv', NEW e \in Ends, NEW r, Call(e, r), used' = used, Restated(session[e], r),
           IF e = "client"
           THEN Begun(r, session["server"], Msgs(wire["server"]), Msgs(wire["client"]),
                      used["client"].opens)
           ELSE Begun(session["client"], r, Msgs(wire["server"]), Msgs(wire["client"]),
                      used["client"].opens)
    PROVE  CInv'
<1> DEFINE s == session[e]  f == Other(e)  t == session[f]  q == wire[e]  w == wire[f]
           n == used[e].opens  m == used[f].opens
<1>1. /\ Talk(s, q, t, w, <<>>) /\ s.out = <<>> /\ w \in Seq(Packet)
      /\ Joint(e, s, Msgs(q), t, Msgs(w), n, m)
  BY Standing
<1>2. w \o r.out = w /\ r.nextChannel = s.nextChannel
  BY <1>1 DEF Restated
<1>3. IF e = "client" THEN Begun(r, t, Msgs(w), Msgs(q), n) ELSE Begun(t, r, Msgs(q), Msgs(w), m)
  BY DEF Other, Ends
<1>4. used'[e].opens = n /\ used'[f].opens = m
  OBVIOUS
<1>10. Restated(s, r)
  OBVIOUS
<1> HIDE DEF s, t, q, w, n, m
<1>5. Talk(r, q, t, w, <<>>) /\ UidsOf(r) = UidsOf(s)
  BY <1>1, <1>10, RestatedTalk
<1>6. Counted(e, r, Msgs(q), n, m) /\ Counted(f, t, Msgs(w), m, n)
  BY <1>1, <1>2, <1>5 DEF Joint, Counted
<1>7. Joint(e, r, Msgs(q), t, Msgs(w \o r.out), used'[e].opens, used'[f].opens)
  BY <1>2, <1>3, <1>4, <1>6 DEF Joint
<1> QED BY <1>5, <1>7, Returns DEF Call, s, t, q, w

LEMMA ConnectDoneCloses ==
    ASSUME CInv, IInv', ConnectDone
    PROVE  CInv'
<1> DEFINE e == "client"  s == session["client"]  r == [s EXCEPT !.connectState = "done"]
           v == session["server"]  P == Msgs(wire["server"])  R == Msgs(wire["client"])
           k == used["client"].opens
<1>1. s.connectState = "request_sent" /\ Call(e, r) /\ used' = used
  BY DEF ConnectDone
<1>2. e \in Ends /\ Begun(s, v, P, R, k)
  BY ClientBegun
<1>3. s \in Session /\ Talk(s, wire[e], session[Other(e)], wire[Other(e)], <<>>)
  BY <1>2, Standing
<1>4. Restated(s, r) /\ r.connectState = "done"
  BY <1>3, ConnectStateIs DEF States
<1> HIDE DEF r
<1>5. Views(r) = Views(s) /\ UidsOf(r) = UidsOf(s)
  BY <1>3, <1>4, RestatedTalk
<1>6. r.serverState = s.serverState /\ r.nextChannel = s.nextChannel
  BY <1>4 DEF Restated
<1>7. Begun(r, v, P, R, k)
  <2> HIDE DEF s, v, P, R, k
  <2> QED BY <1>1, <1>2, <1>4, <1>5, <1>6, BegunConnectDone
<1> QED BY <1>1, <1>2, <1>4, <1>7, SilentCloses

LEMMA AcceptDoneCloses ==
    ASSUME CInv, IInv', AcceptDone
    PROVE  CInv'
<1> DEFINE e == "server"  s == session["server"]  r == [s EXCEPT !.acceptState = "done"]
           c == session["client"]  P == Msgs(wire["server"])  R == Msgs(wire["client"])
           k == used["client"].opens
<1>1. s.clientState = "done" /\ Call(e, r) /\ used' = used
  BY DEF AcceptDone
<1>2. e \in Ends /\ Begun(c, s, P, R, k)
  BY ClientBegun
<1>3. s \in Session /\ Talk(s, wire[e], session[Other(e)], wire[Other(e)], <<>>)
  BY <1>2, Standing
<1>4. Restated(s, r) /\ r.acceptState = "done"
  BY <1>3, AcceptStateIs DEF States
<1> HIDE DEF r
<1>5. Views(r) = Views(s)
  BY <1>3, <1>4, RestatedTalk
<1>6. r.clientState = s.clientState /\ r.nextChannel = s.nextChannel
  BY <1>4 DEF Restated
<1>7. Begun(c, r, P, R, k)
  <2> HIDE DEF s, c, P, R, k
  <2> QED BY <1>1, <1>2, <1>4, <1>5, <1>6, BegunAcceptDone
<1> QED BY <1>1, <1>2, <1>4, <1>7, SilentCloses

\* wolfSSH_accept() opens the agent's channel.
LEMMA AgentOpenCloses ==
    ASSUME CInv, IInv', WellBehaved, AgentChannelOpen
    PROVE  CInv'
<1> DEFINE e == "server"  s == session["server"]  c == OpenOf("server", "agent")
           o == SendChannelOpen(ChannelAppend(Allocated(s), c), c)
           r == [o EXCEPT !.agent = TRUE]
           t == session["client"]  q == wire["server"]  w == wire["client"]
           k == used["client"].opens
<1>1. s.clientState = "done" /\ HasId(e) /\ Spend(e, "opens", MaxOpens(e)) /\ Call(e, r)
  BY DEF AgentChannelOpen, CanOpen, OpenOf
<1>2. /\ e \in Ends /\ Other(e) = "client" /\ s.nextChannel \in Nat
      /\ Begun(t, s, Msgs(q), Msgs(w), k)
  BY ClientBegun
<1>3. s.nextChannel > 0
  <2> HIDE DEF s, t, q, w, k
  <2> QED BY <1>1, <1>2 DEF Begun
<1>4. NextUid(e) # SessionUid /\ used[e].opens < MaxOpens(e)
  <2>1. NextUid(e) # SessionUid
    BY DEF NextUid, SessionUid
  <2> QED BY <1>1, <1>2, <2>1, SpendOpens
<1>5. /\ Talk(o, q, t, w, <<>>)
      /\ Opened(s, o, Msgs(w), Msgs(w \o o.out), "agent", NextUid(e))
  <2>1. "agent" \in Kinds /\ (session[e].nextChannel = 0 => NextUid(e) = SessionUid)
    BY <1>2, <1>3 DEF Kinds
  <2>2. /\ Talk(o, wire[e], session[Other(e)], wire[Other(e)], <<>>)
        /\ Opened(session[e], o, Msgs(wire[Other(e)]), Msgs(wire[Other(e)] \o o.out), "agent", NextUid(e))
    BY <1>1, <1>2, <1>4, <2>1, OpenTalk
  <2> QED BY <2>2, <1>2
<1> HIDE DEF o
<1>6. Restated(o, r) /\ r.acceptState = o.acceptState
  <2>1. o \in Session
    BY <1>5 DEF Talk
  <2> QED BY <2>1, AgentIs
<1> HIDE DEF r
<1>7. Talk(r, q, t, w, <<>>) /\ Views(r) = Views(o) /\ UidsOf(r) = UidsOf(o)
  BY <1>5, <1>6, RestatedTalk
<1>8. /\ r.clientState = s.clientState /\ r.acceptState = s.acceptState
      /\ r.nextChannel = s.nextChannel + 1
      /\ UidsOf(r) = UidsOf(s) \cup {NextUid(e)}
      /\ \A y \in Views(r) : y \in Views(s) \/ y.phase = "opening"
      /\ \A x \in Msgs(w \o r.out) : x \in Msgs(w) \/ (x.type = "OPEN" /\ x.kind = "agent" /\ x.uid = NextUid(e))
  BY <1>5, <1>6, <1>7 DEF Opened, Restated, Alike
<1>9. Begun(t, r, Msgs(q), Msgs(w \o r.out), k)
  <2> DEFINE kind == "agent"  W == Msgs(w \o r.out)  R == Msgs(w)  P == Msgs(q)
  <2>1. /\ \A x \in W : x \in R \/ (x.type = "OPEN" /\ x.kind = kind)
        /\ kind \notin {"session", "shell"}
        /\ s.clientState = "done" /\ r.clientState = s.clientState
        /\ r.acceptState = s.acceptState /\ r.nextChannel = s.nextChannel + 1
        /\ \A y \in Views(r) : y \in Views(s) \/ y.phase = "opening"
    BY <1>1, <1>8
  <2>2. Begun(t, s, P, R, k) /\ s.nextChannel \in Nat
    BY <1>2
  <2> HIDE DEF s, t, q, w, k, kind, W, R, P
  <2>3. Begun(t, r, P, W, k)
    BY <2>1, <2>2, BegunServerOpen
  <2> QED BY <2>3 DEF P, W
<1>10. /\ Talk(r, wire[e], session[Other(e)], wire[Other(e)], <<>>)
       /\ r.nextChannel = session[e].nextChannel + 1
       /\ UidsOf(r) \subseteq UidsOf(session[e]) \cup {NextUid(e)}
       /\ \A x \in Msgs(wire[Other(e)] \o r.out) : x \in Msgs(wire[Other(e)]) \/ x.uid = NextUid(e)
  BY <1>2, <1>7, <1>8
<1> QED BY <1>1, <1>2, <1>9, <1>10, OpenCloses

\* r may have opened a channel of this kind, or only spent its id.
Tried(s, r, V, W, kind, uid) ==
    /\ r.nextChannel = s.nextChannel + 1 /\ Alike(s, r) /\ r.clientState = s.clientState
    /\ UidsOf(r) \subseteq UidsOf(s) \cup {uid}
    /\ \A y \in Views(r) : y \in Views(s) \/ y.phase = "opening"
    /\ \A x \in W : x \in V \/ (x.type = "OPEN" /\ x.kind = kind /\ x.uid = uid)

LEMMA TriedCloses ==
    ASSUME CInv, IInv', NEW e \in Ends, Spend(e, "opens", MaxOpens(e)), NEW r, Call(e, r), Established(e),
           Talk(r, wire[e], session[Other(e)], wire[Other(e)], <<>>), NEW kind \in ForwardKinds,
           Tried(session[e], r, Msgs(wire[Other(e)]), Msgs(wire[Other(e)] \o r.out), kind, NextUid(e))
    PROVE  CInv'
<1> DEFINE s == session[e]  f == Other(e)  W == Msgs(wire[f] \o r.out)  uid == NextUid(e)
           c == session["client"]  v == session["server"]
           P == Msgs(wire["server"])  R == Msgs(wire["client"])  k == used["client"].opens
<1>1. /\ Begun(c, v, P, R, k) /\ k \in Nat /\ c.nextChannel \in Nat /\ v.nextChannel \in Nat
      /\ Other("client") = "server" /\ Other("server") = "client"
  BY ClientBegun
<1>2. kind \notin {"session", "shell"}
  BY DEF ForwardKinds
<1>3. Tried(s, r, Msgs(wire[f]), W, kind, uid)
  OBVIOUS
<1> HIDE DEF W
<1>4. CASE e = "client"
  <2>1. uid # SessionUid
    <3>1. c.connectState = "done"
      BY <1>4 DEF Established
    <3>2. k > 0
      <4> HIDE DEF c, v, P, R, k
      <4> QED BY <1>1, <3>1 DEF Begun
    <3> QED BY <1>1, <1>4, <3>2 DEF NextUid, SessionUid
  <2>2. /\ c.connectState = "done" /\ r.connectState = "done" /\ r.serverState = c.serverState
        /\ r.nextChannel = c.nextChannel + 1
        /\ \A x \in W : x \in P \/ (x.type = "OPEN" /\ x.kind = kind /\ x.uid # SessionUid)
    BY <1>1, <1>3, <1>4, <2>1 DEF Established, Tried, Alike
  <2>3. Begun(r, v, W, R, k + 1)
    <3> HIDE DEF c, v, P, R, k
    <3> QED BY <1>1, <1>2, <2>2, BegunClientOpen
  <2>4. Begun(r, session["server"], Msgs(wire["server"] \o r.out), Msgs(wire["client"]),
              used["client"].opens + 1)
    BY <1>1, <1>4, <2>3 DEF W
  <2>5. /\ r.nextChannel = session[e].nextChannel + 1
        /\ UidsOf(r) \subseteq UidsOf(session[e]) \cup {NextUid(e)}
        /\ \A x \in Msgs(wire[Other(e)] \o r.out) : x \in Msgs(wire[Other(e)]) \/ x.uid = NextUid(e)
    BY <1>3 DEF Tried, W
  <2> QED BY <1>4, <2>4, <2>5, OpenCloses
<1>5. CASE e # "client"
  <2>1. e = "server"
    BY <1>5 DEF Ends
  <2>2. /\ v.acceptState = "done" /\ r.acceptState = v.acceptState /\ r.clientState = v.clientState
        /\ r.nextChannel = v.nextChannel + 1
        /\ \A y \in Views(r) : y \in Views(v) \/ y.phase = "opening"
        /\ \A x \in W : x \in R \/ (x.type = "OPEN" /\ x.kind = kind)
    BY <1>1, <1>3, <2>1 DEF Established, Tried, Alike
  <2>3. Begun(c, r, P, W, k)
    <3> HIDE DEF c, v, P, R, k
    <3> QED BY <1>1, <1>2, <2>2, BegunServerOpen
  <2>4. Begun(session["client"], r, Msgs(wire["server"]), Msgs(wire["client"] \o r.out),
              used["client"].opens)
    BY <1>1, <2>1, <2>3 DEF W
  <2>5. /\ r.nextChannel = session[e].nextChannel + 1
        /\ UidsOf(r) \subseteq UidsOf(session[e]) \cup {NextUid(e)}
        /\ \A x \in Msgs(wire[Other(e)] \o r.out) : x \in Msgs(wire[Other(e)]) \/ x.uid = NextUid(e)
    BY <1>3 DEF Tried, W
  <2> QED BY <1>5, <2>4, <2>5, OpenCloses
<1> QED BY <1>4, <1>5

\* wolfSSH_ChannelFwdNewLocal() and wolfSSH_ChannelFwdNewRemote().
LEMMA FwdNewCloses ==
    ASSUME CInv, IInv', WellBehaved, NEW e \in Ends, NEW kind \in ForwardKinds, ChannelFwdNew(e, kind)
    PROVE  CInv'
<1> DEFINE s == session[e]  f == Other(e)  c == OpenOf(e, kind)
           a == Allocated(s)
           o == SendChannelOpen(ChannelAppend(a, c), c)
           t == session[f]  q == wire[e]  w == wire[f]
           n == used[e].opens  m == used[f].opens  uid == NextUid(e)
<1>1. Established(e) /\ HasId(e) /\ Spend(e, "opens", MaxOpens(e)) /\ (Call(e, o) \/ Call(e, a))
  <2>1. PICK fault \in OpenFaults :
               Call(e, CASE fault = "none" -> o [] fault = "memory" -> a
                         [] OTHER -> SendChannelOpen(a, c))
    BY DEF ChannelFwdNew, OpenOf
  <2>2. fault \in {"none", "memory"}
    BY DEF WellBehaved
  <2> HIDE DEF o, a, c
  <2>3. Call(e, o) \/ Call(e, a)
    BY <2>1, <2>2
  <2> QED BY <2>3 DEF ChannelFwdNew, CanOpen, May
<1>2. /\ Talk(s, q, t, w, <<>>) /\ s \in Session /\ t \in Session /\ s.out = <<>>
      /\ n \in Nat /\ m \in Nat /\ w \in Seq(Packet)
      /\ Joint(e, s, Msgs(q), t, Msgs(w), n, m)
  BY Standing
<1>3. n < MaxOpens(e) /\ uid = NthUid(e, n)
  BY <1>1, SpendOpens DEF NextUid, NthUid
<1>4. s.nextChannel > 0 /\ uid # SessionUid /\ s.nextChannel \in Nat
  <2> DEFINE k == used["client"].opens
  <2>1. Begun(session["client"], session["server"], Msgs(wire["server"]), Msgs(wire["client"]), k)
        /\ k \in Nat
    BY ClientBegun
  <2>2. CASE e = "client"
    <3>1. s.connectState = "done"
      BY <1>1, <2>2 DEF Established
    <3>2. k > 0 /\ s.nextChannel > 0
      BY <2>1, <2>2, <3>1 DEF Begun
    <3> QED BY <1>2, <2>1, <2>2, <3>2, Fields DEF NextUid, SessionUid, Ids
  <2>3. CASE e # "client"
    <3>1. e = "server"
      BY <2>3 DEF Ends
    <3>2. s.acceptState = "done"
      BY <1>1, <3>1 DEF Established
    <3>3. s.nextChannel > 0
      BY <2>1, <3>1, <3>2 DEF Begun
    <3> QED BY <1>2, <2>3, <3>3, Fields DEF NextUid, SessionUid, Ids
  <2> QED BY <2>2, <2>3
<1>5. CASE Call(e, o)
  <2>1. kind \in Kinds /\ kind # "session"
    BY DEF Kinds, ForwardKinds
  <2>2. /\ Talk(o, q, t, w, <<>>)
        /\ Opened(s, o, Msgs(w), Msgs(w \o o.out), kind, uid)
    BY <1>1, <1>3, <1>4, <2>1, OpenTalk
  <2> HIDE DEF o
  <2>3. Tried(s, o, Msgs(w), Msgs(w \o o.out), kind, uid)
    BY <2>2 DEF Opened, Tried
  <2> QED BY <1>1, <1>5, <2>2, <2>3, TriedCloses
<1>6. CASE Call(e, a)
  <2>1. Fresh(uid, s, Msgs(q), t, Msgs(w))
    <3> HIDE DEF s, f, t, q, w, n, m, uid
    <3>1. Ready(e, s, Msgs(q), t, Msgs(w), n, m, uid)
      BY <1>2, <1>3 DEF Ready, Joint, f
    <3> QED BY <3>1, OpenIsFresh
  <2>2. s.nextChannel + 1 < IdSpace
    BY <2>1 DEF Fresh
  <2>3. /\ a \in Session /\ a.nextChannel = s.nextChannel + 1
        /\ a.channelList = s.channelList /\ a.out = s.out /\ Alike(s, a)
        /\ a.clientState = s.clientState
    <3> HIDE DEF s, f, t, q, w
    <3> QED BY <1>2, <2>2, AllocatedFields
  <2> HIDE DEF a
  <2>4. Talk(a, q, t, w, <<>>) /\ Views(a) = Views(s) /\ UidsOf(a) = UidsOf(s)
    <3> HIDE DEF s, f, t, q, w
    <3> QED BY <1>2, <2>3, SpentTalk
  <2>5. w \o a.out = w
    BY <1>2, <2>3
  <2>6. Tried(s, a, Msgs(w), Msgs(w \o a.out), kind, uid)
    BY <2>3, <2>4, <2>5 DEF Tried
  <2> QED BY <1>1, <1>6, <2>4, <2>6, TriedCloses
<1> QED BY <1>1, <1>5, <1>6

\* wolfSSH_connect() asks for a shell.
LEMMA BegunRequest ==
    ASSUME NEW c, NEW v, NEW P, NEW R, NEW k, Begun(c, v, P, R, k),
           c.connectState = "open_sent", c.serverState # "userauth_done",
           NEW r, r.connectState = "request_sent",
           r.serverState = c.serverState, r.nextChannel = c.nextChannel, Views(r) = Views(c),
           NEW W, \A x \in W : x \in P \/ x.type # "OPEN"
    PROVE  Begun(r, v, W, R, k)
  BY DEF Begun, Underway

LEMMA ConnectRequestCloses ==
    ASSUME CInv, IInv', ConnectRequest
    PROVE  CInv'
<1> DEFINE e == "client"  s == session["client"]  id == s.defaultPeerChannelId
           a == IF AgentEnabled THEN SendChannelRequest(s, id, "agent-req") ELSE s
           b == SendChannelRequest(a, id, "shell")
           r == [b EXCEPT !.connectState = "request_sent"]
           v == session["server"]  q == wire["client"]  w == wire["server"]
           n == used["client"].opens  m == used["server"].opens
           i == FindPeer(s, id)
<1>1. /\ s.connectState = "open_sent" /\ s.serverState # "userauth_done" /\ i # 0
      /\ Call(e, r) /\ used' = used
  BY DEF ConnectRequest
<1>2. /\ e \in Ends /\ Other(e) = "server" /\ Begun(s, v, Msgs(w), Msgs(q), n)
  BY ClientBegun
<1>3. /\ Talk(s, q, v, w, <<>>) /\ s \in Session /\ s.out = <<>> /\ w \in Seq(Packet)
      /\ Joint(e, s, Msgs(q), v, Msgs(w), n, m)
  BY <1>2, Standing
<1>4. i \in DOMAIN s.channelList /\ s.channelList[i].peerChannel = id
  BY <1>1, <1>3, FindFinds
<1> HIDE DEF i, s, v, q, w, n, m
<1>5. Phase(s.channelList[i]) = "open" /\ \A x \in Msgs(w) : x.kind # "shell"
  <2>1. View(s.channelList[i]) \in Views(s) /\ View(s.channelList[i]).phase = Phase(s.channelList[i])
    BY <1>4, ViewFields DEF Views
  <2> QED BY <1>1, <1>2, <2>1 DEF Begun, Underway
<1>6. Talk(a, q, v, w, <<>>) /\ Quiet(s, a) /\ a.channelList = s.channelList
  <2>1. CASE AgentEnabled
    <3> DEFINE u == SendChannelRequest(s, s.channelList[i].peerChannel, "agent-req")
    <3>1. Talk(u, q, v, w, <<>>) /\ u.channelList = s.channelList /\ Quiet(s, u)
      BY <1>3, <1>4, <1>5, RequestTalk
    <3> HIDE DEF id
    <3>2. a = u
      BY <1>4, <2>1
    <3> HIDE DEF a, u
    <3> QED BY <3>1, <3>2
  <2>2. CASE ~AgentEnabled
    BY <2>2, <1>3, QuietRefl
  <2> QED BY <2>1, <2>2
<1> HIDE DEF a, id
<1>7. \A x \in Msgs(w \o a.out) : x \in Msgs(w) \/ (x.type # "OPEN" /\ x.kind # "shell" /\ x.uid \in UidsOf(s))
  <2>1. Msgs(w \o a.out) = Msgs(w) \cup Msgs(a.out)
    BY <1>6, OutMsgs
  <2> QED BY <2>1, <1>3, <1>6, NoMsgs DEF Quiet
<1>8. /\ i \in DOMAIN a.channelList /\ a.channelList[i].peerChannel = id /\ a \in Session
      /\ Phase(a.channelList[i]) = "open" /\ a.channelList[i].uid \in UidsOf(s)
  BY <1>4, <1>5, <1>6 DEF UidsOf, Talk
<1> DEFINE x == Msg("REQUEST", id, 0, "shell", a.channelList[i].uid)
<1>9. /\ b = Send(a, x) /\ x.type = "REQUEST" /\ x \in Packet
      /\ Talk(b, q, v, w, <<>>) /\ b.channelList = a.channelList
  <2> DEFINE u == SendChannelRequest(a, a.channelList[i].peerChannel, "shell")
             y == Msg("REQUEST", a.channelList[i].peerChannel, 0, "shell", a.channelList[i].uid)
  <2>1. \A z \in Msgs(w \o a.out) : z.kind # "shell"
    BY <1>5, <1>7
  <2>2. /\ u = Send(a, y) /\ y.type = "REQUEST" /\ y \in Packet
        /\ Talk(u, q, v, w, <<>>) /\ u.channelList = a.channelList
    BY <1>6, <1>8, <2>1, RequestTalk
  <2>3. u = b /\ x = y
    BY <1>8
  <2> HIDE DEF u, b, x, y
  <2> QED BY <2>2, <2>3
<1>10. x.uid \in UidsOf(s)
  BY <1>8 DEF Msg
<1> HIDE DEF x
<1>11. /\ Msgs(w \o b.out) = Msgs(w \o a.out) \cup {x} /\ b \in Session
       /\ b.nextChannel = a.nextChannel /\ b.serverState = a.serverState
  <2>1. Sent(a, b, w, x)
    BY <1>3, <1>8, <1>9, OutSent
  <2> QED BY <2>1 DEF Sent
<1> HIDE DEF b
<1>12. Restated(b, r) /\ r.connectState = "request_sent"
  BY <1>11, ConnectStateIs DEF States
<1> HIDE DEF r
<1>13. Talk(r, q, v, w, <<>>) /\ Views(r) = Views(b) /\ UidsOf(r) = UidsOf(b)
  BY <1>9, <1>12, RestatedTalk
<1>14. Views(b) = Views(s) /\ UidsOf(b) = UidsOf(s)
  BY <1>6, <1>9 DEF Views, UidsOf
<1>15. /\ r.nextChannel = s.nextChannel /\ r.serverState = s.serverState /\ r.out = b.out
  BY <1>6, <1>11, <1>12 DEF Restated, Quiet
<1> DEFINE W == Msgs(w \o r.out)
<1>16. \A z \in W : z \in Msgs(w) \/ (z.type # "OPEN" /\ z.uid \in UidsOf(s))
  BY <1>7, <1>9, <1>10, <1>11, <1>15
<1> HIDE DEF W
<1>17. Begun(r, v, W, Msgs(q), n)
  BY <1>1, <1>2, <1>12, <1>13, <1>14, <1>15, <1>16, BegunRequest
<1>18. Counted(e, r, Msgs(q), n, m) /\ Counted(Other(e), v, W, m, n)
  <2>1. Counted(e, s, Msgs(q), n, m) /\ Counted(Other(e), v, Msgs(w), m, n)
    BY <1>3 DEF Joint
  <2>2. UidsOf(r) \subseteq UidsOf(s) /\ Msgs(q) \subseteq Msgs(q)
    BY <1>13, <1>14
  <2> QED BY <1>2, <1>15, <1>16, <2>1, <2>2, CountedModest
<1>19. Joint(e, r, Msgs(q), v, W, n, m)
  BY <1>17, <1>18 DEF Joint
<1>20. Joint(e, r, Msgs(wire[e]), session[Other(e)], Msgs(wire[Other(e)] \o r.out),
             used'[e].opens, used'[Other(e)].opens)
  BY <1>1, <1>2, <1>19 DEF W, v, q, w, n, m
<1>21. Talk(r, wire[e], session[Other(e)], wire[Other(e)], <<>>)
  BY <1>2, <1>13 DEF v, q, w
<1> QED BY <1>1, <1>2, <1>20, <1>21, Returns DEF Call

----------------------------------------------------------------------------
(* Receive: what either end makes of the message that is next.             *)

\* s has answered the peer's open uid.
Answered(s, r, V, W, uid) ==
    /\ r.nextChannel \in {s.nextChannel, s.nextChannel + 1}
    /\ r.connectState = s.connectState /\ r.serverState = s.serverState
    /\ r.acceptState = s.acceptState /\ r.clientState \in {s.clientState, "channel_open"}
    /\ UidsOf(r) \subseteq UidsOf(s) \cup {uid}
    /\ \A y \in Views(r) : y \in Views(s) \/ y.phase = "open"
    /\ \A x \in W : x \in V \/ (x.type # "OPEN" /\ x.kind = "none" /\ x.uid = uid)

\* The open m is the first of Q, R is the rest.
Taken(Q, R, m) ==
    /\ Q = R \cup {m} /\ m.type = "OPEN"
    /\ \A x \in R : x.type = "OPEN" => m.uid[2] < x.uid[2]

LEMMA CountedAnswered ==
    ASSUME NEW e \in Ends, NEW s, NEW Q, NEW t, NEW V, NEW n, NEW m, n \in Nat, m \in Nat,
           s.nextChannel \in Nat,
           Counted(e, s, Q, n, m), Counted(Other(e), t, V, m, n),
           NEW R, NEW h, Taken(Q, R, h), NEW r, NEW W, Answered(s, r, V, W, h.uid)
    PROVE  Counted(e, r, R, n, m) /\ Counted(Other(e), t, W, m, n)
<1>1. /\ h \in Q /\ h.uid \in Uids /\ h.uid[1] = Other(e) /\ h.uid[2] \in Nat /\ h.uid[2] <= m
      /\ s.nextChannel < n + h.uid[2] /\ Within(h.uid, e, n, m)
  <2>1. h \in Q /\ h.type = "OPEN"
    BY DEF Taken
  <2>2. Within(h.uid, e, n, m) /\ h.uid[1] = Other(e) /\ s.nextChannel < n + h.uid[2]
    BY <2>1 DEF Counted
  <2>3. h.uid \in Uids /\ h.uid[2] \in Nat /\ h.uid[2] <= m
    BY <2>2 DEF Within, Uids, Other, Ends
  <2> QED BY <2>1, <2>2, <2>3
<1>2. r.nextChannel <= s.nextChannel + 1 /\ r.nextChannel \in Nat
  BY DEF Answered
<1>3. \A u \in UidsOf(r) : Within(u, e, n, m)
  BY <1>1 DEF Answered, Counted
<1>4. \A x \in R : Within(x.uid, e, n, m) /\ x.uid[2] \in Nat
  BY DEF Taken, Counted, Within, Uids
<1>5. ASSUME NEW x \in R, x.type = "OPEN"
      PROVE  x.uid[1] = Other(e) /\ r.nextChannel < n + x.uid[2]
  <2>1. x \in Q /\ h.uid[2] < x.uid[2]
    BY <1>5 DEF Taken
  <2> QED BY <1>1, <1>2, <1>4, <1>5, <2>1 DEF Counted
<1>6. r.nextChannel <= n + m
  BY <1>1, <1>2
<1>7. Counted(e, r, R, n, m)
  BY <1>3, <1>4, <1>5, <1>6 DEF Counted
<1>8. Within(h.uid, Other(e), m, n)
  BY <1>1, WithinSwap
<1>9. Counted(Other(e), t, W, m, n)
  BY <1>8 DEF Answered, Counted
<1> QED BY <1>7, <1>9

LEMMA BegunClientAnswered ==
    ASSUME NEW c, NEW v, NEW P, NEW R, NEW k, Begun(c, v, P, R, k), c.nextChannel \in Nat,
           NEW S, NEW h, Taken(R, S, h), NEW r, NEW W, Answered(c, r, P, W, h.uid)
    PROVE  Begun(r, v, W, S, k)
<1>1. ~Underway(c) /\ r.connectState = c.connectState
  BY DEF Begun, Taken, Answered
<1>2. c.connectState # "userauth_done" /\ r.nextChannel > 0
  BY <1>1 DEF Underway, Begun, Answered
<1> QED BY <1>1, <1>2 DEF Begun, Underway, Answered, Taken

LEMMA BegunServerAnswered ==
    ASSUME NEW c, NEW v, NEW P, NEW R, NEW k, Begun(c, v, P, R, k), v.nextChannel \in Nat,
           NEW S, NEW h, Taken(P, S, h), NEW r, NEW W, Answered(v, r, R, W, h.uid)
    PROVE  Begun(c, r, S, W, k)
<1>1. v.nextChannel > 0 => r.nextChannel > 0
  BY DEF Answered
<1>2. r.clientState = "done" => v.clientState = "done"
  BY DEF Answered
<1>3. r.acceptState = v.acceptState /\ S \subseteq P
  BY DEF Answered, Taken
<1>4. \A x \in Views(r) : x.phase = "closing" => x \in Views(v)
  BY DEF Answered
<1>5. \A x \in W : x \in R \/ (x.type # "OPEN" /\ x.kind = "none")
  BY DEF Answered
<1> QED BY <1>1, <1>2, <1>3, <1>4, <1>5 DEF Begun, Underway

\* An end that has answered an open.
LEMMA AnsweredReturns ==
    ASSUME CInv, IInv', NEW e \in Ends, wire[e] # <<>>, Head(wire[e]).type = "OPEN",
           NEW r, Return(e, r, Tail(wire[e])), used' = used,
           Talk(r, Tail(wire[e]), session[Other(e)], wire[Other(e)], <<>>),
           Answered(session[e], r, Msgs(wire[Other(e)]), Msgs(wire[Other(e)] \o r.out), Head(wire[e]).uid)
    PROVE  CInv'
<1> DEFINE s == session[e]  f == Other(e)  t == session[f]
           Q == Msgs(wire[e])  R == Msgs(Tail(wire[e]))  V == Msgs(wire[f])  W == Msgs(wire[f] \o r.out)
           n == used[e].opens  m == used[f].opens  h == Head(wire[e])
<1>1. /\ s \in Session /\ t \in Session /\ n \in Nat /\ m \in Nat /\ wire[e] \in Seq(Packet)
      /\ Joint(e, s, Q, t, V, n, m) /\ Talk(s, wire[e], t, wire[f], <<>>)
  BY Standing
<1>2. s.nextChannel \in Nat
  BY <1>1, Fields DEF Ids
<1>3. Taken(Q, R, h)
  <2>1. Ordered(wire[e])
    BY <1>1 DEF Talk
  <2>2. Q = R \cup {h} /\ \A x \in R : Follows(h, x)
    BY <1>1, <2>1, HeadTaken
  <2> QED BY <2>2 DEF Taken, Follows
<1>4. Answered(s, r, V, W, h.uid)
  OBVIOUS
<1> HIDE DEF s, t, Q, R, V, W, n, m, h
<1>5. Counted(e, r, R, n, m) /\ Counted(f, t, W, m, n)
  <2>1. Counted(e, s, Q, n, m) /\ Counted(f, t, V, m, n)
    BY <1>1 DEF Joint
  <2> QED BY <1>1, <1>2, <1>3, <1>4, <2>1, CountedAnswered
<1>6. CASE e = "client"
  <2>1. Begun(s, t, V, Q, n)
    BY <1>1, <1>6 DEF Joint
  <2>2. Begun(r, t, W, R, n)
    BY <1>2, <1>3, <1>4, <2>1, BegunClientAnswered
  <2> QED BY <1>5, <1>6, <2>2, Returns DEF Joint, s, t, R, W, n, m
<1>7. CASE e # "client"
  <2>1. Begun(t, s, Q, V, m)
    BY <1>1, <1>7 DEF Joint
  <2>2. Begun(t, r, R, W, m)
    BY <1>2, <1>3, <1>4, <2>1, BegunServerAnswered
  <2> QED BY <1>5, <1>7, <2>2, Returns DEF Joint, s, t, R, W, n, m
<1> QED BY <1>6, <1>7

\* The session from which an open is refused: s, or s with an id spent.
Spared(s, a) ==
    /\ a.nextChannel \in {s.nextChannel, s.nextChannel + 1} /\ a.channelList = s.channelList
    /\ a.out = s.out /\ Alike(s, a) /\ a.clientState = s.clientState

LEMMA RefusedAnswers ==
    ASSUME NEW s, NEW q, NEW t, NEW w, NEW a, Spared(s, a), Talk(a, q, t, w, <<>>), s.out = <<>>,
           q # <<>>, Head(q).type = "OPEN", NEW r, r = SendChannelOpenFail(a, Head(q))
    PROVE  Talk(r, Tail(q), t, w, <<>>) /\ Answered(s, r, Msgs(w), Msgs(w \o r.out), Head(q).uid)
<1> DEFINE h == Head(q)
           n == Msg("OPEN_FAIL", h.from, 0, "none", h.uid)
           u == SendChannelOpenFail(a, h)
<1>1. /\ Talk(u, Tail(q), t, w, <<>>) /\ u.channelList = a.channelList
      /\ u.nextChannel = a.nextChannel /\ Alike(a, u) /\ u.clientState = a.clientState
      /\ Msgs(w \o u.out) = Msgs(w \o a.out) \cup {n}
  BY RefusedTalk
<1>2. n.type = "OPEN_FAIL" /\ n.kind = "none" /\ n.uid = h.uid
  BY DEF Msg
<1>3. r = u
  OBVIOUS
<1>4. w \o a.out = w
  <2>1. w \in Seq(Packet) /\ a.out = <<>>
    BY DEF Talk, Spared
  <2> QED BY <2>1
<1> HIDE DEF u, n, h
<1>5. Views(u) = Views(s) /\ UidsOf(u) = UidsOf(s)
  BY <1>1 DEF Views, UidsOf, Spared
<1>6. Answered(s, u, Msgs(w), Msgs(w \o u.out), h.uid)
  BY <1>1, <1>2, <1>4, <1>5 DEF Answered, Spared, Alike
<1> QED BY <1>1, <1>3, <1>6 DEF h

\* What the open that is next says.
LEMMA OpenSays ==
    ASSUME CInv, WellBehaved, NEW e \in Ends, wire[e] # <<>>, Head(wire[e]).type = "OPEN"
    PROVE  LET s == session[e]
               h == Head(wire[e])
           IN  /\ s.nextChannel + 1 < IdSpace /\ h \in Packet
               /\ s.nextChannel = 0 => h.uid = SessionUid
               /\ h.kind = "session" => h.uid = SessionUid
               /\ h.uid = SessionUid => e = "server" /\ h.kind = "session"
<1> DEFINE s == session[e]  f == Other(e)  h == Head(wire[e])
           n == used[e].opens  m == used[f].opens
<1>1. /\ s \in Session /\ n \in Nat /\ m \in Nat /\ wire[e] \in Seq(Packet)
      /\ Joint(e, s, Msgs(wire[e]), session[f], Msgs(wire[f]), n, m)
  BY Standing
<1>2. h \in Packet /\ h \in Msgs(wire[e]) /\ h.type = "OPEN"
  BY <1>1, HeadTaken
<1>3. s.nextChannel \in Nat /\ IdSpace \in Nat
  BY <1>1, Fields, ChannelsAssumption DEF Ids
<1>4. /\ h.uid[1] = f /\ s.nextChannel < n + h.uid[2] /\ Within(h.uid, e, n, m)
      /\ n <= MaxOpens(e) /\ m <= MaxOpens(f)
  <2> HIDE DEF s, n, m, h
  <2> QED BY <1>1, <1>2 DEF Joint, Counted
<1>5. h.uid[2] \in Nat /\ h.uid[2] <= m
  <2>1. f # e
    BY DEF Other, Ends
  <2> HIDE DEF s, n, m, h, f
  <2> QED BY <1>4, <2>1 DEF Within, Uids
<1>6. s.nextChannel + 1 < IdSpace
  <2>1. /\ MaxOpens(e) \in Nat /\ MaxOpens(f) \in Nat
        /\ MaxOpens(e) + MaxOpens(f) = ClientOpens + ServerOpens
    BY ChannelsAssumption DEF MaxOpens, Ends, Other
  <2>2. ClientOpens + ServerOpens < IdSpace
    BY DEF WellBehaved
  <2> HIDE DEF s, n, m, h, f
  <2> QED BY <1>1, <1>3, <1>4, <1>5, <2>1, <2>2
<1>7. CASE e = "client"
  <2>1. h.uid # SessionUid
    BY <1>4, <1>7 DEF Other, SessionUid
  <2>2. Begun(s, session[f], Msgs(wire[f]), Msgs(wire[e]), n)
    BY <1>1, <1>7 DEF Joint
  <2>3. h.kind # "session" /\ s.nextChannel > 0
    <3> HIDE DEF s, n, m, h, f
    <3> QED BY <1>2, <2>2 DEF Begun, Underway
  <2> QED BY <1>2, <1>3, <1>6, <2>1, <2>3
<1>8. CASE e # "client"
  <2>1. e = "server"
    BY <1>8 DEF Ends
  <2>2. Begun(session[f], s, Msgs(wire[e]), Msgs(wire[f]), m)
    BY <1>1, <1>8 DEF Joint
  <2>3. /\ h.kind # "session" => s.nextChannel > 0
        /\ h.kind = "session" <=> h.uid = SessionUid
    <3> HIDE DEF s, n, m, h, f
    <3> QED BY <1>2, <2>2 DEF Begun
  <2> QED BY <1>2, <1>3, <1>6, <2>1, <2>3
<1> QED BY <1>7, <1>8

LEMMA AcceptedAnswers ==
    ASSUME NEW e, NEW s, NEW q, NEW t, NEW w, Talk(s, q, t, w, <<>>), Roomy(s), s.out = <<>>,
           q # <<>>, Head(q).type = "OPEN", Takes(e, s, Head(q))
    PROVE  LET r == DecideOpen(e, s, Head(q), "accept") IN
           Talk(r, Tail(q), t, w, <<>>) /\ Answered(s, r, Msgs(w), Msgs(w \o r.out), Head(q).uid)
<1> DEFINE u == DecideOpen(e, s, Head(q), "accept")
<1>1. Talk(u, Tail(q), t, w, <<>>) /\ Joined(s, u, Head(q), Msgs(w \o s.out), Msgs(w \o u.out))
  BY AcceptedTalk
<1>2. /\ UidsOf(u) = UidsOf(s) \cup {Head(q).uid}
      /\ u.nextChannel = s.nextChannel + 1 /\ Alike(s, u) /\ u.clientState = "channel_open"
      /\ \E v : v.phase = "open" /\ v.uid = Head(q).uid /\ Views(u) = Views(s) \cup {v}
      /\ \E n : /\ n.type = "OPEN_CONF" /\ n.kind = "none" /\ n.uid = Head(q).uid
                /\ Msgs(w \o u.out) = Msgs(w \o s.out) \cup {n}
  BY <1>1 DEF Joined
<1> HIDE DEF u
<1>3. w \o s.out = w
  BY DEF Talk
<1>4. \A y \in Views(u) : y \in Views(s) \/ y.phase = "open"
  BY <1>2
<1>5. \A x \in Msgs(w \o u.out) : x \in Msgs(w) \/ (x.type # "OPEN" /\ x.kind = "none" /\ x.uid = Head(q).uid)
  BY <1>2, <1>3
<1>6. Answered(s, u, Msgs(w), Msgs(w \o u.out), Head(q).uid)
  BY <1>2, <1>4, <1>5 DEF Answered, Alike
<1> QED BY <1>1, <1>6 DEF u

\* DoChannelOpen()
LEMMA OpenAnswers ==
    ASSUME CInv, WellBehaved, NEW e \in Ends, wire[e] # <<>>, Head(wire[e]).type = "OPEN", HasId(e), NEW o,
           NEW r, r = DoChannelOpen(e, session[e], Head(wire[e]), o)
    PROVE  /\ Talk(r, Tail(wire[e]), session[Other(e)], wire[Other(e)], <<>>)
           /\ Answered(session[e], r, Msgs(wire[Other(e)]), Msgs(wire[Other(e)] \o r.out), Head(wire[e]).uid)
<1> DEFINE s == session[e]  f == Other(e)  t == session[f]  q == wire[e]  w == wire[f]  h == Head(q)
           Goal == Talk(r, Tail(q), t, w, <<>>) /\ Answered(s, r, Msgs(w), Msgs(w \o r.out), h.uid)
<1> SUFFICES Goal
  OBVIOUS
<1>1. /\ Talk(s, q, t, w, <<>>) /\ s \in Session /\ s.out = <<>> /\ w \in Seq(Packet)
      /\ Cardinality(InUse(s)) < IdSpace /\ q # <<>> /\ h.type = "OPEN"
  BY Standing DEF HasId
<1>2. /\ s.nextChannel + 1 < IdSpace /\ h \in Packet
      /\ s.nextChannel = 0 => h.uid = SessionUid
      /\ h.kind = "session" => h.uid = SessionUid
      /\ h.uid = SessionUid => e = "server" /\ h.kind = "session"
  BY OpenSays
<1>3. r = IF TurnedAway(e, s, h.kind) THEN SendChannelOpenFail(s, h) ELSE DecideOpen(e, s, h, o)
  BY DEF DoChannelOpen
<1> DEFINE wrongWay == e = "server" /\ h.kind = "forwarded"
<1> HIDE DEF s, f, t, q, w
<1>7. Roomy(s)
  BY <1>1, <1>2 DEF Roomy
<1>4. CASE TurnedAway(e, s, h.kind)
  <2>1. Spared(s, s) /\ r = SendChannelOpenFail(s, Head(q))
    BY <1>3, <1>4 DEF Spared, Alike
  <2> QED BY <1>1, <2>1, RefusedAnswers
<1>5. CASE ~TurnedAway(e, s, h.kind) /\ (o # "accept" \/ wrongWay)
  <2>1. r = DecideOpen(e, s, h, o)
    BY <1>3, <1>5
  <2>2. Denial(e, h, o) /\ h \in Packet /\ h.type = "OPEN"
    BY <1>1, <1>2, <1>5 DEF Denial
  <2>3. PICK a \in Session : DecideOpen(e, s, h, o) = SendChannelOpenFail(a, h) /\ SpentOne(s, a)
    <3> HIDE DEF h, Goal
    <3> QED BY <1>1, <1>7, <2>2, DeniedIs
  <2>4. Talk(a, q, t, w, <<>>)
    BY <1>1, <2>3, SpentTalk DEF SpentOne
  <2>5. Spared(s, a) /\ r = SendChannelOpenFail(a, Head(q))
    BY <2>1, <2>3 DEF Spared, SpentOne
  <2> QED BY <1>1, <2>4, <2>5, RefusedAnswers
<1>6. CASE ~TurnedAway(e, s, h.kind) /\ o = "accept" /\ ~wrongWay
  <2> DEFINE u == DecideOpen(e, s, Head(q), "accept")
  <2>1. r = u
    BY <1>3, <1>6
  <2>2. h.uid = SessionUid => s.channelList = <<>>
    <3>1. e = "server" /\ h.kind = "session" => s.channelList = <<>>
      BY <1>6 DEF TurnedAway
    <3> QED BY <1>2, <3>1
  <2>3. Takes(e, s, h)
    BY <1>2, <1>6, <2>2 DEF Takes
  <2>4. Talk(u, Tail(q), t, w, <<>>) /\ Answered(s, u, Msgs(w), Msgs(w \o u.out), h.uid)
    <3> HIDE DEF Goal
    <3> QED BY <1>1, <1>7, <2>3, AcceptedAnswers
  <2> HIDE DEF u
  <2> QED BY <2>1, <2>4
<1> QED BY <1>4, <1>5, <1>6

\* The end goes from s to r and its peer is in t: it was sent Q, has taken a
\* message about channel uid, S is left.
Told(s, r, t, Q, S, uid) ==
    /\ r.nextChannel = s.nextChannel
    /\ r.connectState = s.connectState /\ r.acceptState = s.acceptState
    /\ UidsOf(r) \subseteq UidsOf(s) /\ uid \in UidsOf(s)
    /\ \A y \in Views(r) : y \in Views(s) \/ y.phase = "open"
    /\ \A y \in Views(r) : y.uid = uid => y.phase # "opening"
    /\ r.serverState = s.serverState \/ r.serverState # "userauth_done"
    /\ r.clientState # s.clientState =>
          (\E m \in Q : m.kind = "shell") /\ (\A m \in S : m.kind # "shell")
    /\ t.nextChannel > 0 /\ S \subseteq Q

\* V has become W by messages that open nothing and ask for no shell.
Spoken(s, V, W) ==
    \A x \in W : x \in V \/ (x.type # "OPEN" /\ x.kind # "shell" /\ x.uid \in UidsOf(s))

LEMMA ViewsHaveUids ==
    ASSUME NEW s, NEW y \in Views(s)
    PROVE  y.uid \in UidsOf(s) /\ y.phase \in {"opening", "open", "closing"}
<1>1. PICK i \in DOMAIN s.channelList : y = View(s.channelList[i])
  BY DEF Views
<1>2. y.uid = s.channelList[i].uid /\ y.phase = Phase(s.channelList[i])
  BY <1>1, ViewFields
<1> QED BY <1>2 DEF UidsOf, Phase

LEMMA BegunClientTold ==
    ASSUME NEW c, NEW v, NEW P, NEW R, NEW k, Begun(c, v, P, R, k),
           NEW r, NEW S, NEW uid, Told(c, r, v, R, S, uid), NEW W, Spoken(c, P, W)
    PROVE  Begun(r, v, W, S, k)
<1>1. c.connectState # "userauth_done"
  BY DEF Begun, Told
<1>2. ASSUME Underway(c), NEW y \in Views(r) PROVE y.phase = "open"
  <2>1. y.uid \in UidsOf(r) /\ y.phase \in {"opening", "open", "closing"}
    BY ViewsHaveUids
  <2>2. y.uid = SessionUid /\ uid = SessionUid
    BY <1>2, <2>1 DEF Begun, Told
  <2>3. c.connectState # "done"
    BY <1>2 DEF Underway
  <2>4. y.phase # "closing"
    BY <2>3 DEF Begun, Told
  <2> QED BY <2>1, <2>2, <2>4 DEF Told
<1>3. c.connectState # "done" => \A x \in Views(r) : x.phase # "closing"
  BY DEF Begun, Told
<1>4. S \subseteq R /\ \A x \in W : x \in P \/ (x.type # "OPEN" /\ x.kind # "shell")
  BY DEF Told, Spoken
<1>5. r.connectState = c.connectState /\ r.nextChannel = c.nextChannel /\ UidsOf(r) \subseteq UidsOf(c)
      /\ v.nextChannel > 0 /\ (r.serverState = c.serverState \/ r.serverState # "userauth_done")
  BY DEF Told
<1> QED BY <1>1, <1>2, <1>3, <1>4, <1>5 DEF Begun, Underway

LEMMA BegunServerTold ==
    ASSUME NEW c, NEW v, NEW P, NEW R, NEW k, Begun(c, v, P, R, k),
           NEW r, NEW S, NEW uid, Told(v, r, c, P, S, uid), NEW W, Spoken(v, R, W)
    PROVE  Begun(c, r, S, W, k)
<1>1. r.clientState # v.clientState =>
          /\ ~Underway(c) /\ v.nextChannel > 0
          /\ v.acceptState # "done"
          /\ \A m \in S : m.kind # "shell"
  BY DEF Told, Begun
<1>2. v.acceptState # "done" => \A x \in Views(r) : x.phase # "closing"
  BY DEF Begun, Told
<1>3. S \subseteq P /\ \A x \in W : x \in R \/ (x.type # "OPEN" /\ x.kind # "shell")
  BY DEF Told, Spoken
<1>4. r.acceptState = v.acceptState /\ r.nextChannel = v.nextChannel
  BY DEF Told
<1> QED BY <1>1, <1>2, <1>3, <1>4 DEF Begun, Underway

\* An end that has taken a message about a channel it keeps.
LEMMA ToldReturns ==
    ASSUME CInv, IInv', NEW e \in Ends, wire[e] # <<>>,
           NEW r, Return(e, r, Tail(wire[e])), used' = used,
           Talk(r, Tail(wire[e]), session[Other(e)], wire[Other(e)], <<>>),
           NEW uid, Told(session[e], r, session[Other(e)], Msgs(wire[e]), Msgs(Tail(wire[e])), uid),
           Spoken(session[e], Msgs(wire[Other(e)]), Msgs(wire[Other(e)] \o r.out))
    PROVE  CInv'
<1> DEFINE s == session[e]  f == Other(e)  t == session[f]
           Q == Msgs(wire[e])  R == Msgs(Tail(wire[e]))  V == Msgs(wire[f])  W == Msgs(wire[f] \o r.out)
           n == used[e].opens  m == used[f].opens
<1>1. Joint(e, s, Q, t, V, n, m)
  BY Standing
<1>2. Told(s, r, t, Q, R, uid) /\ Spoken(s, V, W)
  OBVIOUS
<1> HIDE DEF s, t, Q, R, V, W, n, m
<1>3. Counted(e, r, R, n, m) /\ Counted(f, t, W, m, n)
  <2>1. Counted(e, s, Q, n, m) /\ Counted(f, t, V, m, n)
    BY <1>1 DEF Joint
  <2> QED BY <1>2, <2>1, CountedModest DEF Told, Spoken
<1>4. CASE e = "client"
  <2>1. Begun(s, t, V, Q, n)
    BY <1>1, <1>4 DEF Joint
  <2>2. Begun(r, t, W, R, n)
    BY <1>2, <2>1, BegunClientTold
  <2> QED BY <1>3, <1>4, <2>2, Returns DEF Joint, s, t, R, W, n, m
<1>5. CASE e # "client"
  <2>1. Begun(t, s, Q, V, m)
    BY <1>1, <1>5 DEF Joint
  <2>2. Begun(t, r, R, W, m)
    BY <1>2, <2>1, BegunServerTold
  <2> QED BY <1>3, <1>5, <2>2, Returns DEF Joint, s, t, R, W, n, m
<1> QED BY <1>4, <1>5

LEMMA OutSpoken ==
    ASSUME NEW s, s.out = <<>>, NEW r, NEW q, NEW t, NEW w, Talk(r, q, t, w, <<>>), Modest(s, r)
    PROVE  Spoken(s, Msgs(w), Msgs(w \o r.out))
<1>1. Msgs(w \o r.out) = Msgs(w) \cup Msgs(r.out)
  BY OutMsgs
<1> QED BY <1>1, NoMsgs DEF Modest, Spoken

\* Whoever speaks of a channel has given it an id.
LEMMA PeerHasGiven ==
    ASSUME NEW s, NEW q, NEW t, NEW w, Talk(s, q, t, w, <<>>), q # <<>>,
           Head(q).type \notin {"OPEN", "OPEN_FAIL"}
    PROVE  t.nextChannel > 0
<1> DEFINE m == Head(q)  i == FindSelf(s, m.id)  c == View(s.channelList[i])
           K == Known(Views(t), Views(s), Msgs(q))
<1>1. /\ i \in DOMAIN s.channelList
      /\ m.type \in Answer <=> Phase(s.channelList[i]) = "opening"
  BY HeadFinds
<1>2. q \in Seq(Packet) /\ t \in Session /\ GivenOnce(K, t.nextChannel)
  BY DEF Talk, Sound
<1>3. t.nextChannel \in Nat
  BY <1>2, Fields DEF Ids
<1>4. m \in Msgs(q)
  BY <1>2, HeadTaken
<1>5. c \in Views(s) /\ c.phase = Phase(s.channelList[i])
  BY <1>1, ViewFields DEF Views
<1> HIDE DEF m, c
<1>6. m.type \notin {"OPEN", "OPEN_FAIL"}
  BY DEF m
<1>7. CASE m.type = "OPEN_CONF"
  <2>1. <<m.from, m.uid>> \in K
    BY <1>4, <1>7, KnownSteps DEF Naming
  <2> HIDE DEF K
  <2>2. <<m.from, m.uid>>[1] \in Nat /\ <<m.from, m.uid>>[1] < t.nextChannel
    BY <1>2, <2>1 DEF GivenOnce
  <2> QED BY <1>3, <2>2
<1>8. CASE m.type # "OPEN_CONF"
  <2>1. c.phase # "opening"
    BY <1>1, <1>5, <1>6, <1>8 DEF Answer
  <2>2. <<c.peer, c.uid>> \in K
    BY <1>5, <2>1, KnownSteps
  <2> HIDE DEF K
  <2>3. <<c.peer, c.uid>>[1] \in Nat /\ <<c.peer, c.uid>>[1] < t.nextChannel
    BY <1>2, <2>2 DEF GivenOnce
  <2> QED BY <1>3, <2>3
<1> QED BY <1>7, <1>8

LEMMA PlainTold ==
    ASSUME NEW e, NEW s, NEW q, NEW t, NEW w, Talk(s, q, t, w, <<>>), s.out = <<>>, q # <<>>,
           Head(q).type \in Plain, NEW o, o # "free",
           ShellOpen(s, Head(q)), NEW r, r = OnChannel(e, s, Head(q), o)
    PROVE  /\ Talk(r, Tail(q), t, w, <<>>)
           /\ Told(s, r, t, Msgs(q), Msgs(Tail(q)), Head(q).uid)
           /\ Spoken(s, Msgs(w), Msgs(w \o r.out))
<1> DEFINE m == Head(q)  i == FindSelf(s, m.id)  c == View(s.channelList[i])
<1>1. /\ Talk(r, Tail(q), t, w, <<>>) /\ Modest(s, r) /\ Views(r) = Views(s)
      /\ r.serverState \in {s.serverState, "done"} /\ r.clientState \in {s.clientState, "done"}
      /\ r.serverState # s.serverState => m.type = "SUCCESS"
      /\ r.clientState # s.clientState => m.kind = "shell"
  <2>1. Head(q).type \in Plain /\ ShellOpen(s, Head(q)) /\ q # <<>> /\ Talk(s, q, t, w, <<>>) /\ o # "free"
    OBVIOUS
  <2>2. Talk(OnChannel(e, s, Head(q), o), Tail(q), t, w, <<>>) /\ Heeded(s, Head(q), OnChannel(e, s, Head(q), o))
    BY ONLY <2>1, PlainTalk
  <2>3. Talk(r, Tail(q), t, w, <<>>) /\ Heeded(s, Head(q), r)
    BY <2>2
  <2> QED BY <2>3 DEF Heeded
<1>2. m.type \in Plain /\ m.type \notin {"OPEN", "OPEN_FAIL"} /\ m.type # "OPEN" /\ m.type \notin Answer
  BY DEF Plain, Answer
<1>3. /\ i \in DOMAIN s.channelList /\ s.channelList[i].uid = m.uid
      /\ Phase(s.channelList[i]) # "opening"
  BY <1>2, HeadFinds
<1>4. t.nextChannel > 0
  BY <1>2, PeerHasGiven
<1>5. /\ q \in Seq(Packet) /\ Ordered(q)
      /\ Single(Views(s))
  BY DEF Talk, Sound, Linked, Half
<1>6. Msgs(q) = Msgs(Tail(q)) \cup {m} /\ \A x \in Msgs(Tail(q)) : Follows(m, x)
  BY <1>5, HeadTaken
<1>7. c \in Views(s) /\ c.phase # "opening" /\ c.uid = m.uid /\ m.uid \in UidsOf(s)
  BY <1>3, ViewFields DEF Views, UidsOf
<1> HIDE DEF m, c, i
<1>8. \A y \in Views(r) : y.uid = m.uid => y.phase # "opening"
  BY <1>1, <1>5, <1>7 DEF Single
<1>9. m.kind = "shell" => \A x \in Msgs(Tail(q)) : x.kind # "shell"
  BY <1>6 DEF Follows
<1>10. Told(s, r, t, Msgs(q), Msgs(Tail(q)), m.uid)
  BY <1>1, <1>4, <1>6, <1>7, <1>8, <1>9 DEF Told, Modest
<1>11. Spoken(s, Msgs(w), Msgs(w \o r.out))
  BY <1>1, OutSpoken
<1> QED BY <1>1, <1>10, <1>11 DEF m

LEMMA ConfTold ==
    ASSUME NEW s, NEW q, NEW t, NEW w, Talk(s, q, t, w, <<>>), s.out = <<>>, q # <<>>,
           Head(q).type = "OPEN_CONF", NEW r, r = DoChannelOpenConf(s, Head(q), "ok")
    PROVE  /\ Talk(r, Tail(q), t, w, <<>>)
           /\ Told(s, r, t, Msgs(q), Msgs(Tail(q)), Head(q).uid)
           /\ Spoken(s, Msgs(w), Msgs(w \o r.out))
<1> DEFINE m == Head(q)  c == View(s.channelList[FindSelf(s, Head(q).id)])
<1>1. /\ Talk(r, Tail(q), t, w, <<>>) /\ r.out = s.out /\ UidsOf(r) = UidsOf(s)
      /\ r.nextChannel = s.nextChannel /\ r.connectState = s.connectState
      /\ r.serverState = "channel_open" /\ r.acceptState = s.acceptState
      /\ r.clientState = s.clientState
      /\ c \in Views(s) /\ c.uid = m.uid
      /\ \E v : v.phase = "open" /\ v.uid = c.uid /\ Views(r) = (Views(s) \ {c}) \cup {v}
  BY ConfTalk
<1> HIDE DEF c
<1>2. t.nextChannel > 0
  BY PeerHasGiven
<1>3. q \in Seq(Packet) /\ Single(Views(s)) /\ w \in Seq(Packet)
  BY DEF Talk, Sound, Linked, Half
<1>4. Msgs(q) = Msgs(Tail(q)) \cup {m}
  BY <1>3, HeadTaken
<1> HIDE DEF m
<1>5. PICK v : v.phase = "open" /\ v.uid = c.uid /\ Views(r) = (Views(s) \ {c}) \cup {v}
  BY <1>1
<1>6. /\ \A y \in Views(r) : y \in Views(s) \/ y.phase = "open"
      /\ \A y \in Views(r) : y.uid = m.uid => y.phase # "opening"
  BY <1>1, <1>3, <1>5 DEF Single
<1>7. m.uid \in UidsOf(s)
  BY <1>1, ViewsHaveUids
<1>8. Told(s, r, t, Msgs(q), Msgs(Tail(q)), m.uid)
  BY <1>1, <1>2, <1>4, <1>6, <1>7 DEF Told
<1>9. Spoken(s, Msgs(w), Msgs(w \o r.out))
  <2>1. w \o r.out = w
    BY <1>1, <1>3
  <2> QED BY <2>1 DEF Spoken
<1> QED BY <1>1, <1>8, <1>9 DEF m

\* What the callbacks of well behaved applications answer.
LEMMA OutcomeIs ==
    ASSUME WellBehaved, NEW m, NEW o \in Outcomes(m)
    PROVE  /\ m.type \in Answer => o = "ok"
           /\ m.type \in Plain => o # "free"
<1>1. ASSUME m.type \in Answer PROVE o = "ok"
  <2>1. Outcomes(m) = RespOutcomes
    BY <1>1 DEF Outcomes, Answer
  <2> QED BY <2>1 DEF WellBehaved
<1>2. ASSUME m.type \in Plain PROVE o # "free"
  <2>1. Outcomes(m) \in {ReqOutcomes, {"none"}}
    BY <1>2 DEF Outcomes, Plain
  <2> QED BY <2>1 DEF WellBehaved
<1> QED BY <1>1, <1>2

\* r is what the handler of m makes of s.
Dispatched(e, s, m, o, r) ==
    /\ m.type \in Plain \cup Opening \cup {"CLOSE"}
    /\ m.type = "OPEN" => r = DoChannelOpen(e, s, m, o)
    /\ m.type = "OPEN_CONF" => r = DoChannelOpenConf(s, m, o)
    /\ m.type = "OPEN_FAIL" => r = DoChannelOpenFail(s, m, o)
    /\ m.type \in Plain => r = OnChannel(e, s, m, o)
    /\ m.type = "CLOSE" => r = DoChannelClose(s, FindSelf(s, m.id))

\* DoPacket() of a session that talks.
LEMMA PacketIs ==
    ASSUME NEW e, NEW s, NEW q, NEW t, NEW w, Talk(s, q, t, w, <<>>), q # <<>>, NEW o
    PROVE  Dispatched(e, s, Head(q), o, DoPacket(e, s, Head(q), o))
<1> DEFINE m == Head(q)  r == DoPacket(e, s, m, o)  i == FindSelf(s, m.id)
<1>1. ~s.disconnected
  BY DEF Talk, Tidy
<1>2. m.type \in Plain \cup Opening \cup {"CLOSE"} /\ (m.type # "OPEN" => i # 0)
  BY HeadFinds DEF Opening, Answer
<1> HIDE DEF m, i
<1>3. /\ m.type = "OPEN" => r = DoChannelOpen(e, s, m, o)
      /\ m.type = "OPEN_CONF" => r = DoChannelOpenConf(s, m, o)
      /\ m.type = "OPEN_FAIL" => r = DoChannelOpenFail(s, m, o)
      /\ m.type \in Plain \cup {"CLOSE"} => r = OnChannel(e, s, m, o)
  BY <1>1 DEF DoPacket, Plain
<1>4. m.type = "CLOSE" => r = DoChannelClose(s, i)
  <2>1. m.type = "CLOSE" => OnChannel(e, s, m, o) = DoChannelClose(s, i)
    BY <1>2 DEF OnChannel, i
  <2> QED BY <1>3, <2>1
<1> HIDE DEF r
<1>5. Dispatched(e, s, m, o, r)
  BY <1>2, <1>3, <1>4 DEF Dispatched, i
<1> QED BY <1>5 DEF m, r

\* A shell is asked for while the server is in wolfSSH_accept().
LEMMA ShellIsOpen ==
    ASSUME CInv, NEW e \in Ends, wire[e] # <<>>, Head(wire[e]).type \in Plain
    PROVE  ShellOpen(session[e], Head(wire[e]))
<1> DEFINE s == session[e]  m == Head(wire[e])  i == FindSelf(s, m.id)  c == s.channelList[i]
           f == Other(e)
<1> SUFFICES ASSUME m.kind = "shell" PROVE Phase(c) = "open"
  BY DEF ShellOpen
<1>1. /\ Talk(s, wire[e], session[f], wire[f], <<>>) /\ wire[e] \in Seq(Packet)
      /\ Joint(e, s, Msgs(wire[e]), session[f], Msgs(wire[f]), used[e].opens, used[f].opens)
  BY Standing
<1>2. m \in Msgs(wire[e]) /\ m.type # "OPEN" /\ m.type \notin Answer
  BY <1>1, HeadTaken DEF Plain, Answer
<1>3. i \in DOMAIN s.channelList /\ Phase(c) # "opening"
  <2> HIDE DEF s, f
  <2> QED BY <1>1, <1>2, HeadFinds
<1>4. View(c) \in Views(s) /\ View(c).phase = Phase(c)
  BY <1>3, ViewFields DEF Views
<1> HIDE DEF s, m, i, c, f
<1>5. s.acceptState # "done" /\ e # "client"
  BY <1>1, <1>2 DEF Joint, Begun
<1>6. View(c).phase # "closing"
  BY <1>1, <1>4, <1>5 DEF Joint, Begun
<1> QED BY <1>3, <1>4, <1>6 DEF Phase

\* wolfSSH_worker(): whatever comes is taken.
LEMMA ReceiveCloses ==
    ASSUME CInv, IInv', WellBehaved, NEW e \in Ends, Receive(e)
    PROVE  CInv'
<1> DEFINE s == session[e]  m == Head(wire[e])  f == Other(e)  q == wire[e]  t == session[f]  w == wire[f]
<1>1. q # <<>> /\ (m.type = "OPEN" => HasId(e)) /\ used' = used
  BY DEF Receive
<1>2. PICK o \in Outcomes(m) : Return(e, DoPacket(e, s, m, o), Tail(q))
  BY DEF Receive, Handled
<1> DEFINE r == DoPacket(e, s, m, o)  i == FindSelf(s, m.id)
<1>3. /\ Talk(s, q, t, w, <<>>) /\ s.out = <<>> /\ Good(s) /\ q \in Seq(Packet)
  BY Standing
<1>4. /\ m.type \in Plain \cup Opening \cup {"CLOSE"}
      /\ m.type = "OPEN" => r = DoChannelOpen(e, s, m, o)
      /\ m.type = "OPEN_CONF" => r = DoChannelOpenConf(s, m, o)
      /\ m.type = "OPEN_FAIL" => r = DoChannelOpenFail(s, m, o)
      /\ m.type \in Plain => r = OnChannel(e, s, m, o)
      /\ m.type = "CLOSE" => r = DoChannelClose(s, i)
  <2>1. Dispatched(e, s, Head(q), o, DoPacket(e, s, Head(q), o))
    <3> HIDE DEF s, t, q, w
    <3> QED BY <1>1, <1>3, PacketIs
  <2> HIDE DEF s, q
  <2> QED BY <2>1 DEF Dispatched, q
<1>5. Msgs(Tail(q)) \subseteq Msgs(q)
  BY <1>1, <1>3, HeadTaken
<1>6. /\ m.type \in Answer => o = "ok"
      /\ m.type \in Plain => o # "free"
  BY OutcomeIs
<1>7. Return(e, r, Tail(q))
  BY <1>2
<1> HIDE DEF r
<1>8. CASE m.type = "OPEN"
  <2>1. /\ Talk(r, Tail(q), t, w, <<>>)
        /\ Answered(s, r, Msgs(w), Msgs(w \o r.out), m.uid)
    BY <1>1, <1>4, <1>8, OpenAnswers
  <2> QED BY <1>1, <1>7, <1>8, <2>1, AnsweredReturns
<1>9. CASE m.type = "OPEN_CONF"
  <2>1. r = DoChannelOpenConf(s, m, "ok")
    BY <1>4, <1>6, <1>9 DEF Answer
  <2>2. Talk(r, Tail(q), t, w, <<>>) /\ Told(s, r, t, Msgs(q), Msgs(Tail(q)), m.uid) /\ Spoken(s, Msgs(w), Msgs(w \o r.out))
    <3>1. Talk(s, q, t, w, <<>>) /\ s.out = <<>> /\ q # <<>> /\ Head(q).type = "OPEN_CONF"
      BY <1>1, <1>3, <1>9
    <3> HIDE DEF s, t, w
    <3> QED BY <2>1, <3>1, ConfTold
  <2> QED BY <1>1, <1>7, <2>2, ToldReturns
<1>10. CASE m.type = "OPEN_FAIL"
  <2>1. r = DoChannelOpenFail(s, m, "ok")
    BY <1>4, <1>6, <1>10 DEF Answer
  <2>2. Talk(r, Tail(q), t, w, <<>>) /\ Quiet(s, r) /\ Views(r) \subseteq Views(s)
    <3> DEFINE u == DoChannelOpenFail(s, Head(q), "ok")
    <3>1. Talk(s, q, t, w, <<>>) /\ Good(s) /\ q # <<>> /\ Head(q).type = "OPEN_FAIL"
      BY <1>1, <1>3, <1>10
    <3>2. Talk(u, Tail(q), t, w, <<>>) /\ Quiet(s, u) /\ Views(u) \subseteq Views(s)
      <4> HIDE DEF s, t, w, q
      <4> QED BY <3>1, FailTalk
    <3> QED BY <2>1, <3>2
  <2> QED BY <1>1, <1>5, <1>7, <2>2, QuietReturns
<1>11. CASE m.type = "CLOSE"
  <2>1. r = DoChannelClose(s, i)
    BY <1>4, <1>11
  <2>2. Talk(r, Tail(q), t, w, <<>>) /\ Quiet(s, r) /\ Views(r) \subseteq Views(s)
    <3> DEFINE u == DoChannelClose(s, FindSelf(s, Head(q).id))
    <3>1. Talk(s, q, t, w, <<>>) /\ Good(s) /\ q # <<>> /\ Head(q).type = "CLOSE"
      BY <1>1, <1>3, <1>11
    <3>2. Talk(u, Tail(q), t, w, <<>>) /\ Quiet(s, u) /\ Views(u) \subseteq Views(s)
      <4> HIDE DEF s, t, w, q
      <4> QED BY <3>1, ClosedTalk
    <3> QED BY <2>1, <3>2
  <2> QED BY <1>1, <1>5, <1>7, <2>2, QuietReturns
<1>12. CASE m.type \in Plain
  <2>1. r = OnChannel(e, s, m, o) /\ o # "free"
    BY <1>4, <1>6, <1>12
  <2>2. ShellOpen(s, m)
    BY <1>1, <1>12, ShellIsOpen
  <2>3. Talk(r, Tail(q), t, w, <<>>) /\ Told(s, r, t, Msgs(q), Msgs(Tail(q)), m.uid) /\ Spoken(s, Msgs(w), Msgs(w \o r.out))
    <3>1. Talk(s, q, t, w, <<>>) /\ s.out = <<>> /\ q # <<>> /\ Head(q).type \in Plain
      BY <1>1, <1>3, <1>12
    <3> HIDE DEF s, t, w
    <3> QED BY <2>1, <2>2, <3>1, PlainTold
  <2> QED BY <1>1, <1>7, <2>3, ToldReturns
<1> QED BY <1>4, <1>8, <1>9, <1>10, <1>11, <1>12 DEF Opening

----------------------------------------------------------------------------
(* The conversation goes on, step by step.                                 *)

LEMMA StayCloses ==
    ASSUME CInv, UNCHANGED vars
    PROVE  CInv'
<1>1. session' = session /\ wire' = wire /\ used' = used
  BY DEF vars
<1>2. IInv'
  BY <1>1 DEF CInv, IInv
<1> QED BY <1>1, <1>2 DEF CInv

LEMMA NextCloses ==
    ASSUME CInv, WellBehaved, [Next]_vars
    PROVE  CInv'
<1>1. IInv'
  BY NextKeeps DEF CInv
<1>2. CASE Connect
  BY <1>1, <1>2, ConnectOpenCloses, ConnectRequestCloses, ConnectDoneCloses DEF Connect
<1>3. CASE Accept
  BY <1>1, <1>3, AgentOpenCloses, AcceptDoneCloses DEF Accept
<1>4. CASE ChangeTerminalSize
  BY <1>1, <1>4, ResizeCloses
<1>5. ASSUME NEW e \in Ends, Receive(e) \/ StartRekey(e) \/ EndRekey(e)
      PROVE  CInv'
  BY <1>1, <1>5, ReceiveCloses, RekeyCloses
<1>6. ASSUME NEW e \in Ends, AppStep(e)
      PROVE  CInv'
  <2>1. ASSUME NEW kind \in ForwardKinds, ChannelFwdNew(e, kind) PROVE CInv'
    BY <1>1, <2>1, FwdNewCloses
  <2>2. CASE StreamExit(e) \/ Shutdown(e)
    BY <1>1, <2>2, StreamExitCloses, ShutdownCloses
  <2>3. ASSUME NEW i \in DOMAIN session[e].channelList,
               \/ ChannelSend(e, i) \/ ChannelRead(e, i) \/ ChannelSendEof(e, i)
               \/ ChannelExit(e, i) \/ ChannelFree(e, i)
        PROVE  CInv'
    <3>1. ~ChannelFree(e, i)
      BY DEF ChannelFree, CallOn, May, WellBehaved
    <3>2. CASE ChannelSend(e, i)
      BY <1>1, <3>2, SendCloses
    <3>3. CASE ChannelRead(e, i)
      BY <1>1, <3>3, ReadCloses
    <3>4. CASE ChannelSendEof(e, i)
      BY <1>1, <3>4, EofCloses
    <3>5. CASE ChannelExit(e, i)
      BY <1>1, <3>5, ExitCloses
    <3> QED BY <2>3, <3>1, <3>2, <3>3, <3>4, <3>5
  <2> QED BY <1>6, <2>1, <2>2, <2>3 DEF AppStep
<1>7. CASE UNCHANGED vars
  BY <1>7, StayCloses
<1> QED BY <1>2, <1>3, <1>4, <1>5, <1>6, <1>7 DEF Next

LEMMA InitCInv ==
    ASSUME Init
    PROVE  CInv
<1> DEFINE n == NewSession
<1>1. IInv
  BY InitIInv
<1>2. \A e \in Ends : /\ session[e] = n /\ wire[e] = <<>> /\ used[e].opens = 0
                      /\ session[Other(e)] = n /\ wire[Other(e)] = <<>> /\ used[Other(e)].opens = 0
  BY DEF Init, Ends, Other
<1>3. /\ n \in Session /\ n.channelList = <<>> /\ n.nextChannel = 0 /\ n.out = <<>>
      /\ ~n.disconnected /\ n.refused = {}
      /\ n.connectState = "userauth_done" /\ n.serverState = "userauth_done"
      /\ n.acceptState = "accepting" /\ n.clientState = "userauth_done"
  <2>1. n \in Session
    BY <1>1, <1>2 DEF IInv, Ends
  <2> QED BY <2>1 DEF NewSession
<1> HIDE DEF n
<1>4. Views(n) = {} /\ UidsOf(n) = {} /\ Tidy(n, <<>>) /\ Msgs(<<>>) = {}
  BY <1>3, NoMsgs DEF Views, UidsOf, Tidy
<1>5. Sound({}, {}, {}, {}, 0, 0)
  BY DEF Sound, Linked, Half, Said, Single, Received, Fitting, Meant, First, Backed, Acquainted, Met, Awaited,
     Announced, Released, Known, GivenOnce
<1>6. Talk(n, <<>>, n, <<>>, <<>>)
  <2>1. <<>> \in Seq(Packet) /\ <<>> \o n.out = <<>>
    BY <1>3
  <2>2. Ordered(<<>>)
    BY DEF Ordered
  <2> QED BY <1>3, <1>4, <1>5, <2>1, <2>2 DEF Talk
<1>7. ASSUME NEW e \in Ends PROVE Joint(e, n, {}, n, {}, 0, 0)
  <2>1. Other(e) \in Ends /\ \A d \in Ends : MaxOpens(d) \in Nat
    BY ChannelsAssumption DEF Ends, Other, MaxOpens
  <2>2. \A d \in Ends : Counted(d, n, {}, 0, 0)
    BY <1>3, <1>4, <2>1 DEF Counted
  <2>3. Begun(n, n, {}, {}, 0)
    BY <1>3, <1>4 DEF Begun, Underway
  <2> QED BY <2>1, <2>2, <2>3 DEF Joint
<1>8. \A e \in Ends : Talk(session[e], wire[e], session[Other(e)], wire[Other(e)], <<>>)
  BY <1>2, <1>6
<1>9. \A e \in Ends : Joint(e, session[e], Msgs(wire[e]), session[Other(e)], Msgs(wire[Other(e)]),
                            used[e].opens, used[Other(e)].opens)
  BY <1>2, <1>4, <1>7
<1> QED BY <1>1, <1>8, <1>9 DEF CInv

\* What the invariant says of the conversation, to both ends.
LEMMA BothTalk ==
    ASSUME CInv, NEW e \in Ends
    PROVE  /\ Sound(Views(session[e]), Msgs(wire[e]), Views(session[Other(e)]), Msgs(wire[Other(e)]),
                    session[e].nextChannel, session[Other(e)].nextChannel)
           /\ Tidy(session[e], <<>>) /\ session[e] \in Session
           /\ Talk(session[e], wire[e], session[Other(e)], wire[Other(e)], <<>>)
<1>1. /\ Talk(session[e], wire[e], session[Other(e)], wire[Other(e)], <<>>)
      /\ wire[Other(e)] \in Seq(Packet) /\ session[e].out = <<>>
  BY Standing
<1>2. wire[Other(e)] \o session[e].out = wire[Other(e)]
  BY <1>1
<1> QED BY <1>1, <1>2 DEF Talk

LEMMA CInvAddressed ==
    ASSUME CInv
    PROVE  Addressed
<1>1. Paired
  <2> SUFFICES ASSUME NEW a \in ChannelsOf("client"), NEW b \in ChannelsOf("server"),
                      a.uid = b.uid, a.openConfirmed, b.openConfirmed
               PROVE  a.peerChannel = b.channel /\ b.peerChannel = a.channel
    BY DEF Paired
  <2> DEFINE C == Views(session["client"])  B == Views(session["server"])
  <2>1. Acquainted(C, B) /\ Acquainted(B, C)
    <3>1. "client" \in Ends /\ Other("client") = "server"
      BY DEF Ends, Other
    <3> QED BY <3>1, BothTalk DEF Sound, Linked, Half
  <2>2. View(a) \in C /\ View(b) \in B
    BY DEF ChannelsOf, Views
  <2>3. /\ View(a).uid = a.uid /\ View(a).id = a.channel /\ View(a).peer = a.peerChannel
        /\ View(b).uid = b.uid /\ View(b).id = b.channel /\ View(b).peer = b.peerChannel
        /\ View(a).phase # "opening" /\ View(b).phase # "opening"
    BY ViewFields DEF Phase
  <2> HIDE DEF C, B
  <2> QED BY <2>1, <2>2, <2>3 DEF Acquainted
<1>2. ASSUME NEW e \in Ends, wire[e] # <<>>
      PROVE  LET m == Head(wire[e])
                 i == FindSelf(session[e], m.id)
             IN  m.type \notin {"OPEN", "DISCONNECT"} /\ i # 0 =>
                     session[e].channelList[i].uid = m.uid
  <2>1. Talk(session[e], wire[e], session[Other(e)], wire[Other(e)], <<>>)
    BY BothTalk
  <2> QED BY <1>2, <2>1, HeadFinds
<1> QED BY <1>1, <1>2 DEF Addressed

LEMMA CInvAgreement ==
    ASSUME CInv
    PROVE  Agreement
<1>1. SessionFirst
  <2>1. ASSUME NEW e \in Ends, NEW i \in DOMAIN session[e].channelList,
               session[e].channelList[i].channelType = "session"
        PROVE  i = 1
    <3>1. Neat(session[e].channelList[i], i, session[e].isKeying, <<>>)
      BY BothTalk DEF Tidy
    <3> QED BY <2>1, <3>1 DEF Neat
  <2> QED BY <2>1 DEF SessionFirst
<1>2. ASSUME \A e \in Ends : wire[e] = <<>>
      PROVE  /\ \A e \in Ends : \A c \in ChannelsOf(e) : c.openConfirmed
             /\ {c.uid : c \in ChannelsOf("client")} = {c.uid : c \in ChannelsOf("server")}
  <2>1. ASSUME NEW e \in Ends, NEW c \in ChannelsOf(e)
        PROVE  c.openConfirmed /\ \E b \in ChannelsOf(Other(e)) : b.uid = c.uid
    <3> DEFINE C == Views(session[e])  B == Views(session[Other(e)])
    <3>1. Other(e) \in Ends
      BY DEF Ends, Other
    <3>2. Sound(C, {}, B, {}, session[e].nextChannel, session[Other(e)].nextChannel)
      BY <1>2, <3>1, BothTalk, NoMsgs
    <3>3. Half(C, {}, B, {})
      BY <3>2 DEF Sound, Linked
    <3>4. View(c) \in C
      BY DEF ChannelsOf, Views
    <3> HIDE DEF C
    <3>5. View(c).phase # "opening"
      BY <3>3, <3>4 DEF Half, Awaited
    <3>6. \E b \in B : b.uid = View(c).uid
      <4>1. View(c).phase \in {"opening", "open", "closing"}
        BY ViewFields DEF Phase
      <4> HIDE DEF B
      <4> QED BY <3>3, <3>4, <3>5, <4>1 DEF Half, Met, Announced, Released
    <3>7. View(c).uid = c.uid /\ View(c).phase = Phase(c)
      BY ViewFields
    <3>8. c.openConfirmed
      BY <3>5, <3>7 DEF Phase
    <3>9. PICK j \in DOMAIN session[Other(e)].channelList :
                  View(session[Other(e)].channelList[j]).uid = c.uid
      BY <3>6, <3>7 DEF Views
    <3>10. session[Other(e)].channelList[j] \in ChannelsOf(Other(e))
      BY DEF ChannelsOf
    <3> QED BY <3>8, <3>9, <3>10, ViewFields
  <2>2. "client" \in Ends /\ "server" \in Ends /\ Other("client") = "server" /\ Other("server") = "client"
    BY DEF Ends, Other
  <2> QED BY <2>1, <2>2
<1> QED BY <1>1, <1>2 DEF Agreement

----------------------------------------------------------------------------
(* The theorems about the conversation.                                    *)

\* The inductive invariant of the conversation: between two well behaved ends
\* what each holds and what is under way fit together after every call,
\* however opens, refusals and closes cross.
THEOREM ChannelsConverse ==
    ASSUME WellBehaved
    PROVE  Spec => []CInv
<1>1. Init => CInv
  BY InitCInv
<1>2. CInv /\ [Next]_vars => CInv'
  BY NextCloses
<1> QED BY <1>1, <1>2, PTL DEF Spec

\* A message finds the channel its sender meant and the ends of a confirmed
\* channel know each other's ids, although ChannelFind() by the peer's id also
\* sees channels that are not confirmed and have 0 there.
THEOREM AddressedAlways ==
    ASSUME WellBehaved
    PROVE  Spec => []Addressed
<1>1. CInv => Addressed
  BY CInvAddressed
<1>2. Spec => []CInv
  BY ChannelsConverse
<1> QED BY <1>1, <1>2, PTL

\* No handler turns an error: DoChannelOpenConf(), DoChannelOpenFail() and the
\* handlers of a channel's messages always find it, in a state that takes
\* the message.
THEOREM NobodyRefuses ==
    ASSUME WellBehaved
    PROVE  Spec => []Healthy
<1>1. CInv => Healthy
  <2>1. ASSUME CInv, NEW e \in Ends PROVE session[e].refused = {}
    BY <2>1, BothTalk DEF Tidy
  <2> QED BY <2>1 DEF Healthy
<1>2. Spec => []CInv
  BY ChannelsConverse
<1> QED BY <1>1, <1>2, PTL

\* When nothing is under way both ends hold the same channels, all confirmed;
\* a session is at the head of its list, where wolfSSH_shutdown() and the
\* stream calls take it for granted.
THEOREM AgreementAlways ==
    ASSUME WellBehaved
    PROVE  Spec => []Agreement
<1>1. CInv => Agreement
  BY CInvAgreement
<1>2. Spec => []CInv
  BY ChannelsConverse
<1> QED BY <1>1, <1>2, PTL
=============================================================================
