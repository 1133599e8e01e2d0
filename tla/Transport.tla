----------------------------- MODULE Transport -----------------------------
(***************************************************************************)
(* The SSH transport of wolfSSH: key exchange, re-exchange, sequence       *)
(* numbers and the high water marks, for one client and one server joined  *)
(* by two reliable FIFO streams.                                           *)
(*                                                                         *)
(* Each endpoint is a WOLFSSH session (src/wolfssh/internal.h): a record   *)
(* whose fields keep the names of the C struct.  Each C function that      *)
(* changes a session is an operator from a session to a session, and the   *)
(* operators are composed exactly where the C functions call each other;   *)
(* a step of the specification is one call of the library that runs to its *)
(* return (the library is single threaded per session).                    *)
(*                                                                         *)
(* Data that is abstracted: an exchange hash H, and the keys derived from  *)
(* it, are named by the pair of KEXINIT packets that were hashed; every    *)
(* packet is one unit long, so the byte counter txCount and the packet     *)
(* counter txMsgCount are one field; a flush of the output buffer always   *)
(* completes, so that "out" is output buffer and network together.         *)
(***************************************************************************)
EXTENDS Naturals, Sequences

CONSTANTS
    Marks,          \* the high water marks a session may be configured with
    KexIds,         \* the key exchange methods a session may negotiate
    StrictChoices,  \* the values sendStrictKex may have
    MatchChoices,   \* FALSE: the algorithm lists have nothing in common
    AuthRounds,     \* request/reply rounds between CONNECT_KEYED and done
    MaxTrigger,     \* wolfSSH_TriggerKeyExchange() calls per application
    MaxData,        \* wolfSSH_stream_send() calls per application
    MaxIgnore,      \* wolfSSH_SendIgnore() calls per application
    MaxDisconnect,  \* wolfSSH_SendDisconnect() calls per application
    TriggerAnytime  \* FALSE: applications ask wolfSSH_RekeyPending() first

ASSUME ConstantsAssumption ==
    /\ Marks \subseteq [byte : Nat, msg : Nat]
    /\ KexIds \subseteq {"DH", "GEX"}
    /\ StrictChoices \subseteq BOOLEAN
    /\ MatchChoices \subseteq BOOLEAN
    /\ AuthRounds \in Nat \ {0}
    /\ MaxTrigger \in Nat
    /\ MaxData \in Nat
    /\ MaxIgnore \in Nat
    /\ MaxDisconnect \in Nat
    /\ TriggerAnytime \in BOOLEAN

VARIABLES
    ssh,    \* ssh[e]: the session of endpoint e
    spent   \* spent[e]: the calls endpoint e's application has made

vars == <<ssh, spent>>

Endpoints == {"client", "server"}

Peer(e) == IF e = "client" THEN "server" ELSE "client"

----------------------------------------------------------------------------
(* Message identifiers.  KEXDH_REPLY and GEX_GROUP are both message 31:    *)
(* the receiver tells them apart by the negotiated method.  AUTH_REQ and   *)
(* AUTH_REP stand for the service, userauth and channel messages that      *)
(* wolfSSH_connect() and wolfSSH_accept() exchange once keyed.             *)

TransGen == {"DISCONNECT", "IGNORE", "EXT_INFO"}
TransKex == {"KEXDH_INIT", "KEXDH_REPLY", "GEX_REQUEST", "GEX_INIT", "GEX_REPLY"}
Trans == {"KEXINIT", "NEWKEYS"} \cup TransKex
Conn == {"DATA", "WINDOW_ADJUST"}
MsgIds == TransGen \cup Trans \cup {"AUTH_REQ", "AUTH_REP"} \cup Conn

\* The name of an exchange hash, and of the keys derived from it: the
\* number of the client's KEXINIT and the number of the server's.
Keys == Nat \X Nat
NoKeys == <<0, 0>>

Handshake == [live : BOOLEAN, expectMsgId : MsgIds \cup {"NONE"},
              kexInit : Nat, hash : Keys, keys : Keys]

HandshakeInfoNew == [live |-> TRUE, expectMsgId |-> "NONE",
                     kexInit |-> 0, hash |-> NoKeys, keys |-> NoKeys]

\* ssh->handshake == NULL
NoHandshake == [HandshakeInfoNew EXCEPT !.live = FALSE]

\* What a packet is on the wire: sealed under keys at a sequence number.
Packets == [id : MsgIds, keys : Keys, seq : Nat,
            kexInit : Nat, strict : BOOLEAN, hash : Keys]

Packet(id) == [id |-> id, keys |-> NoKeys, seq |-> 0,
               kexInit |-> 0, strict |-> FALSE, hash |-> NoKeys]

----------------------------------------------------------------------------
(* Sending.                                                                *)

\* BundlePacket(): seal the packet under the current keys and count it.
BundlePacket(s, p) ==
    [s EXCEPT !.out = Append(@, [p EXCEPT !.keys = s.keys, !.seq = s.seq]),
              !.seq = @ + 1,
              !.txCount = @ + 1]

\* SendKexInit() up to its high water check: build a KEXINIT into the
\* handshake, allocating one if there is none, and send it.  The strict KEX
\* marker goes only into the initial KEXINIT.  Nothing here looks at
\* isKeying.
SendKexInitPacket(s) ==
    LET n == s.kexCount + 1
        h == IF s.handshake.live THEN s.handshake ELSE HandshakeInfoNew
        k == [s EXCEPT !.handshake = [h EXCEPT !.kexInit = n],
                       !.kexCount = n,
                       !.isKeying = @ \cup {"SELF"}]
    IN  BundlePacket(k, [Packet("KEXINIT") EXCEPT
                            !.kexInit = n,
                            !.strict = s.sessionId = NoKeys /\ s.sendStrictKex])

\* The two tests of HighwaterCheck() and the flags they latch.
OverByteMark(s) ==
    /\ ~s.highwaterFlag
    /\ s.mark.byte # 0
    /\ s.txCount >= s.mark.byte \/ s.rxCount >= s.mark.byte

OverMsgMark(s) ==
    /\ ~s.msgHighwaterFlag
    /\ s.mark.msg # 0
    /\ s.txCount >= s.mark.msg \/ s.rxMsgCount >= s.mark.msg

Marked(s) == [s EXCEPT !.highwaterFlag = @ \/ OverByteMark(s),
                       !.msgHighwaterFlag = @ \/ OverMsgMark(s)]

Fires(s) == (OverByteMark(s) \/ OverMsgMark(s)) /\ ~s.disconnected

\* HighwaterCheck() with the default callback, wsHighwater(): the callback
\* calls wolfSSH_TriggerKeyExchange(), whose SendKexInit() runs the check
\* again on the packet it sent.  A flag fires once, and there are two, so
\* the check nests at most twice.
HighwaterCheckNested(s) ==
    IF Fires(s) THEN SendKexInitPacket(Marked(s)) ELSE Marked(s)

HighwaterCheck(s) ==
    IF Fires(s) THEN HighwaterCheckNested(SendKexInitPacket(Marked(s)))
                ELSE Marked(s)

\* BundlePacket() followed by wolfSSH_SendPacket(): the end of every sender.
SendPacket(s, p) == HighwaterCheck(BundlePacket(s, p))

SendKexInit(s) == HighwaterCheck(SendKexInitPacket(s))

\* SendDisconnect(): the session is over before the packet is built.
SendDisconnect(s) ==
    SendPacket([s EXCEPT !.disconnected = TRUE], Packet("DISCONNECT"))

\* ChannelCreditWindow(): the receive window credit the session owes is sent
\* at once, or parked while a key exchange runs or after a disconnect.
ChannelCreditWindow(s, amount) ==
    LET total == s.pendingWindowAdjust + amount
    IN  IF total = 0 THEN s
        ELSE IF s.isKeying # {} \/ s.disconnected
             THEN [s EXCEPT !.pendingWindowAdjust = total]
             ELSE SendPacket([s EXCEPT !.pendingWindowAdjust = 0],
                             Packet("WINDOW_ADJUST"))

\* SendPendingChannelWindowAdjust(): flush parked credit once keying is over.
SendPendingChannelWindowAdjust(s) ==
    IF s.isKeying # {} THEN s ELSE ChannelCreditWindow(s, 0)

\* Mutant: the sequence number is reset and the old keys stay.
SendNewKeysOldKeys(s) ==
    LET b == BundlePacket(s, [Packet("NEWKEYS") EXCEPT !.strict = s.useStrictKex])
    IN  [b EXCEPT !.seq = 0, !.txCount = 0, !.isKeying = @ \ {"SELF"}]

\* SendNewKeys(): NEWKEYS goes out under the old keys, then the new keys and,
\* under strict KEX, sequence number zero take over; SELF_IS_KEYING is
\* cleared after the send, whatever its high water check did.
SendNewKeys(s) ==
    LET b == BundlePacket(s, [Packet("NEWKEYS") EXCEPT !.strict = s.useStrictKex])
        k == [b EXCEPT !.seq = IF s.useStrictKex THEN 0 ELSE @,
                       !.keys = s.handshake.keys,
                       !.txCount = 0]
        f == HighwaterCheck(k)
    IN  SendPendingChannelWindowAdjust([f EXCEPT !.isKeying = @ \ {"SELF"}])

SetExpect(s, id) == [s EXCEPT !.handshake.expectMsgId = id]

\* SendKexDhInit(), and SendKexDhGexRequest() for group exchange.
SendKexDhInit(s) ==
    IF s.kexId = "GEX"
    THEN SendPacket(SetExpect(s, "GEX_REPLY"), Packet("GEX_INIT"))
    ELSE SendPacket(SetExpect(s, "KEXDH_REPLY"), Packet("KEXDH_INIT"))

SendKexDhGexRequest(s) ==
    SendPacket(SetExpect(s, "KEXDH_REPLY"), Packet("GEX_REQUEST"))

StartKexDh(s) ==
    IF s.kexId = "GEX" THEN SendKexDhGexRequest(s) ELSE SendKexDhInit(s)

\* SendKexDhGexGroup()
SendKexDhGexGroup(s) ==
    SendPacket(SetExpect(s, "GEX_INIT"), Packet("KEXDH_REPLY"))

\* Mutant: every exchange replaces the session identifier.
GenerateKeysNewSession(s) ==
    [s EXCEPT !.sessionId = s.handshake.hash, !.handshake.keys = s.handshake.hash]

\* The exchange hash H becomes the session identifier if there is none, and
\* GenerateKeys() derives both directions' keys from it.
GenerateKeys(s) ==
    [s EXCEPT !.sessionId = IF @ = NoKeys THEN s.handshake.hash ELSE @,
              !.handshake.keys = s.handshake.hash]

\* SendExtInfo(): once per session, and never on a later exchange.
SendExtInfo(s) ==
    IF s.extInfoSent THEN s
    ELSE SendPacket([s EXCEPT !.extInfoSent = TRUE], Packet("EXT_INFO"))

\* SendKexDhReply(): the reply, signed over H, NEWKEYS and EXT_INFO.
SendKexDhReply(s) ==
    LET id == IF s.kexId = "GEX" THEN "GEX_REPLY" ELSE "KEXDH_REPLY"
        g == GenerateKeys(s)
        r == BundlePacket(g, [Packet(id) EXCEPT !.hash = s.handshake.hash])
    IN  SendExtInfo(SendNewKeys(SetExpect(r, "NEWKEYS")))

----------------------------------------------------------------------------
(* Receiving.                                                              *)

Failed(s) == [s EXCEPT !.error = TRUE]

\* ssh->kexHash covers the client's KEXINIT and then the server's; own is
\* the one saved in the handshake, peer the one just received.
Transcript(e, own, peer) == IF e = "client" THEN <<own, peer>> ELSE <<peer, own>>

\* ExpectClientKexMsg()
ExpectClientKexMsg(s) ==
    SetExpect(s, IF s.kexId = "GEX" THEN "GEX_REQUEST" ELSE "KEXDH_INIT")

\* The strict KEX marker counts only in the initial exchange.
NegotiateStrictKex(s, p) ==
    IF s.sessionId = NoKeys
    THEN [s EXCEPT !.useStrictKex = p.strict /\ s.sendStrictKex]
    ELSE s

\* Mutant: answers even when its own KEXINIT is already out.
DoKexInitAlwaysAnswers(e, s, p) ==
    LET k == [s EXCEPT !.isKeying = @ \cup {"PEER"},
                       !.handshake = IF @.live THEN @ ELSE HandshakeInfoNew]
        r == SendKexInit(NegotiateStrictKex(k, p))
        h == [r EXCEPT !.handshake.hash =
                           Transcript(e, r.handshake.kexInit, p.kexInit)]
    IN  IF e = "server" THEN ExpectClientKexMsg(h) ELSE h

\* DoKexInit(): the peer is keying; answer with our KEXINIT unless we sent
\* one already; start the exchange hash.
DoKexInit(e, s, p) ==
    LET k == [s EXCEPT !.isKeying = @ \cup {"PEER"},
                       !.handshake = IF @.live THEN @ ELSE HandshakeInfoNew]
        n == NegotiateStrictKex(k, p)
        r == IF "SELF" \in n.isKeying THEN n ELSE SendKexInit(n)
        h == [r EXCEPT !.handshake.hash =
                           Transcript(e, r.handshake.kexInit, p.kexInit)]
    IN  IF s.sessionId = NoKeys /\ n.useStrictKex /\ s.peerSeq # 0
        THEN Failed(SendDisconnect(n))
        ELSE IF ~s.match THEN Failed(SendDisconnect(n))
        ELSE IF e = "server" THEN ExpectClientKexMsg(h) ELSE h

\* Mutant: a connected client waits for somebody else to go on.
DispatchKexInitStops(e, s, p) == DoKexInit(e, s, p)

\* The MSGID_KEXINIT case of DoPacket(): a connected client goes on with the
\* exchange itself.  Before that wolfSSH_connect() does, in the one state
\* that starts the initial exchange.
DispatchKexInit(e, s, p) ==
    LET k == DoKexInit(e, s, p)
    IN  IF e = "client" /\ s.match /\ s.state = "DONE" THEN StartKexDh(k) ELSE k

\* DoKexDhReply(): the signature is over the server's H and is verified
\* against ours.
DoKexDhReply(s, p) ==
    IF p.hash # s.handshake.hash THEN Failed(s)
    ELSE SendNewKeys(SetExpect(GenerateKeys(s), "NEWKEYS"))

\* DoNewKeys(): the peer's keys take over, and the exchange is done with.
NewKeysAccepted(s) == s.handshake.live /\ "SELF" \notin s.isKeying

\* Mutant: the latches of the high water marks are never released.
DoNewKeysLatched(s) ==
    IF ~NewKeysAccepted(s) THEN Failed(s)
    ELSE SendPendingChannelWindowAdjust(
            [s EXCEPT !.peerKeys = s.handshake.keys, !.rxCount = 0, !.rxMsgCount = 0,
                      !.isKeying = @ \ {"PEER"}, !.handshake = NoHandshake])

DoNewKeys(s) ==
    IF ~NewKeysAccepted(s) THEN Failed(s)
    ELSE SendPendingChannelWindowAdjust(
            [s EXCEPT !.peerKeys = s.handshake.keys,
                      !.rxCount = 0,
                      !.rxMsgCount = 0,
                      !.highwaterFlag = FALSE,
                      !.msgHighwaterFlag = FALSE,
                      !.isKeying = @ \ {"PEER"},
                      !.handshake = NoHandshake])

\* DoDisconnect()
DoDisconnect(s) == [s EXCEPT !.disconnected = TRUE, !.error = TRUE]

\* The switch of DoPacket().
Dispatch(e, s, p) ==
    CASE p.id = "DISCONNECT" -> DoDisconnect(s)
      [] p.id = "KEXINIT" -> DispatchKexInit(e, s, p)
      [] p.id \in {"KEXDH_INIT", "GEX_INIT"} -> SendKexDhReply(s)
      [] p.id = "GEX_REQUEST" -> SendKexDhGexGroup(s)
      [] p.id = "KEXDH_REPLY" -> IF s.kexId = "GEX" THEN SendKexDhInit(s)
                                                    ELSE DoKexDhReply(s, p)
      [] p.id = "GEX_REPLY" -> DoKexDhReply(s, p)
      [] p.id = "NEWKEYS" -> DoNewKeys(s)
      [] p.id \in {"AUTH_REQ", "AUTH_REP"} -> [s EXCEPT !.peerRound = @ + 1]
      [] p.id = "DATA" -> [s EXCEPT !.unread = @ + 1]
      [] OTHER -> s

\* IsMessageAllowedServer() and IsMessageAllowedClient() for a message of
\* the key exchange.  With nothing expected the server lets one through.
KexMessageAllowed(e, s, id) ==
    IF "PEER" \in s.isKeying
    THEN /\ id # "KEXINIT"
         /\ IF s.handshake.live /\ s.handshake.expectMsgId # "NONE"
            THEN id = s.handshake.expectMsgId
            ELSE e = "server"
    ELSE id = "KEXINIT"

NeverAllowed(e) ==
    IF e = "server" THEN {"KEXDH_REPLY", "GEX_REPLY", "AUTH_REP"}
                    ELSE {"KEXDH_INIT", "GEX_INIT", "GEX_REQUEST", "AUTH_REQ"}

\* IsMessageAllowed().  The first round is the service request and accept,
\* which are refused once the peer's KEXINIT has landed.
IsMessageAllowed(e, s, id) ==
    /\ s.useStrictKex /\ ~s.initialKexDone
         => id \in {"DISCONNECT", "KEXINIT", "NEWKEYS"} \cup TransKex
    /\ id \notin NeverAllowed(e)
    /\ id \in Trans => KexMessageAllowed(e, s, id)
    /\ id \in {"AUTH_REQ", "AUTH_REP"}
         => s.state = "KEYED" /\ (s.peerRound = 0 => "PEER" \notin s.isKeying)
    /\ id \in Conn => s.state = "DONE"

\* Got the expected message, clear expectation.
ClearExpect(s, id) ==
    IF id \in Trans /\ s.handshake.live /\ id = s.handshake.expectMsgId
    THEN SetExpect(s, "NONE") ELSE s

\* Mutant: strict KEX resets only the sender's sequence number.
ConsumePacketNoReset(s, newKeysDone) ==
    HighwaterCheck([s EXCEPT !.peerSeq = @ + 1,
                             !.initialKexDone = @ \/ newKeysDone,
                             !.rxMsgCount = @ + 1])

\* The end of DoPacket(): step over the packet, count it, check the marks.
ConsumePacket(s, newKeysDone) ==
    HighwaterCheck([s EXCEPT !.peerSeq = IF newKeysDone /\ s.useStrictKex
                                         THEN 0 ELSE @ + 1,
                             !.initialKexDone = @ \/ newKeysDone,
                             !.rxMsgCount = @ + 1])

DoPacket(e, s, p) ==
    IF ~IsMessageAllowed(e, s, p.id)
    THEN Failed(IF s.disconnected THEN s ELSE SendDisconnect(s))
    ELSE LET c == ClearExpect(s, p.id)
             newKeysDone == p.id = "NEWKEYS" /\ ~s.disconnected
                                             /\ NewKeysAccepted(c)
         IN  ConsumePacket(IF s.disconnected /\ p.id # "DISCONNECT"
                           THEN c ELSE Dispatch(e, c, p),
                           newKeysDone)

\* VerifyMac() and DecryptAead(): the packet opens only under the keys and
\* the sequence number it was sealed with.
Authentic(s, p) == p.keys = s.peerKeys /\ p.seq = s.peerSeq

\* DoReceive() for one whole packet.
DoReceive(e, s, p) ==
    IF Authentic(s, p)
    THEN DoPacket(e, [s EXCEPT !.rxCount = @ + 1], p)
    ELSE Failed([s EXCEPT !.highwaterFlag = TRUE, !.msgHighwaterFlag = TRUE])

----------------------------------------------------------------------------
(* The specification.                                                      *)

\* wolfSSH_new(), and the version exchange that precedes the first packet.
NewSession(mark, kexId, strict, match) ==
    [state |-> "VERSION_DONE", round |-> 0, peerRound |-> 0,
     isKeying |-> {}, handshake |-> NoHandshake,
     keys |-> NoKeys, peerKeys |-> NoKeys, seq |-> 0, peerSeq |-> 0,
     txCount |-> 0, rxCount |-> 0, rxMsgCount |-> 0, mark |-> mark,
     highwaterFlag |-> FALSE, msgHighwaterFlag |-> FALSE,
     sendStrictKex |-> strict, useStrictKex |-> FALSE,
     initialKexDone |-> FALSE, sessionId |-> NoKeys, kexCount |-> 0,
     kexId |-> kexId, match |-> match, extInfoSent |-> FALSE,
     pendingWindowAdjust |-> 0, unread |-> 0,
     disconnected |-> FALSE, error |-> FALSE, out |-> <<>>]

NothingSpent == [trigger |-> 0, data |-> 0, ignore |-> 0, disconnect |-> 0]

Init ==
    /\ \E cm, sm \in Marks, k \in KexIds, cs, ss \in StrictChoices, m \in MatchChoices :
          ssh = [e \in Endpoints |->
                    IF e = "client" THEN NewSession(cm, k, cs, m)
                                    ELSE NewSession(sm, k, ss, m)]
    /\ spent = [e \in Endpoints |-> NothingSpent]

Update(e, s) == ssh' = [ssh EXCEPT ![e] = s]

\* A session the application still drives.
Running(e) == ~ssh[e].disconnected /\ ~ssh[e].error

\* wolfSSH_connect() and wolfSSH_accept(): the first KEXINIT.
StartKex(e) ==
    /\ Running(e)
    /\ ssh[e].state = "VERSION_DONE"
    /\ Update(e, [SendKexInit(ssh[e]) EXCEPT !.state = "KEXINIT_SENT"])
    /\ UNCHANGED spent

\* CONNECT_SERVER_KEXINIT_DONE, once the loop of CONNECT_CLIENT_KEXINIT_SENT
\* has seen the server's KEXINIT.
ConnectKexInitDone(s) == s.state = "KEXINIT_SENT" /\ s.handshake.hash # NoKeys

ConnectKexDh ==
    /\ Running("client")
    /\ ConnectKexInitDone(ssh["client"])
    /\ Update("client", [StartKexDh(ssh["client"]) EXCEPT !.state = "KEXDH_INIT_SENT"])
    /\ UNCHANGED spent

\* The loops on isKeying of the initial exchange.
KexLoopDone(e, s) ==
    /\ s.state = IF e = "client" THEN "KEXDH_INIT_SENT" ELSE "KEXINIT_SENT"
    /\ s.isKeying = {}

BecomeKeyed(e) ==
    /\ Running(e)
    /\ KexLoopDone(e, ssh[e])
    /\ Update(e, [ssh[e] EXCEPT !.state = "KEYED"])
    /\ UNCHANGED spent

\* wolfSSH_connect() after CONNECT_KEYED: a request, then wait for its
\* reply; wolfSSH_accept() after ACCEPT_KEYED: a reply to each request.
\* None of these sends asks whether a key exchange is running.
AuthReady(e, s) ==
    /\ s.state = "KEYED"
    /\ IF e = "client" THEN s.round = s.peerRound ELSE s.round < s.peerRound

AuthStep(e) ==
    /\ Running(e)
    /\ AuthReady(e, ssh[e])
    /\ LET s == ssh[e]
           p == Packet(IF e = "client" THEN "AUTH_REQ" ELSE "AUTH_REP")
           done == s.round + 1 = AuthRounds
       IN  IF e = "client" /\ s.round = AuthRounds
           THEN Update(e, [s EXCEPT !.state = "DONE"])
           ELSE Update(e, [SendPacket(s, p) EXCEPT
                               !.round = @ + 1,
                               !.state = IF e = "server" /\ done THEN "DONE" ELSE @])
    /\ UNCHANGED spent

\* The library reads only inside a loop that still waits for something.
Waiting(e, s) ==
    /\ s.state # "VERSION_DONE"
    /\ ~(e = "client" /\ ConnectKexInitDone(s))
    /\ ~KexLoopDone(e, s)
    /\ ~AuthReady(e, s)

\* DoReceive() from whichever call is waiting, wolfSSH_worker() included.
Receive(e) ==
    /\ ~ssh[e].error
    /\ Waiting(e, ssh[e])
    /\ ssh[Peer(e)].out # <<>>
    /\ ssh' = [ssh EXCEPT ![e] = DoReceive(e, @, Head(ssh[Peer(e)].out)),
                          ![Peer(e)].out = Tail(@)]
    /\ UNCHANGED spent

\* The application's calls, each a bounded number of times.
Spend(e, what, max) ==
    /\ spent[e][what] < max
    /\ spent' = [spent EXCEPT ![e][what] = @ + 1]

\* wolfSSH_TriggerKeyExchange()
Trigger(e) ==
    /\ Running(e)
    /\ ssh[e].state = "DONE"
    /\ TriggerAnytime \/ ssh[e].isKeying = {}
    /\ Spend(e, "trigger", MaxTrigger)
    /\ Update(e, SendKexInit(ssh[e]))

\* wolfSSH_stream_send(): SendChannelData() refuses while keying.
StreamSend(e) ==
    /\ Running(e)
    /\ ssh[e].state = "DONE"
    /\ ssh[e].isKeying = {}
    /\ Spend(e, "data", MaxData)
    /\ Update(e, SendPacket(ssh[e], Packet("DATA")))

\* wolfSSH_ChannelIdRead(): it has no isKeying gate, so the credit for what
\* was read may have to be parked.
ChannelIdRead(e) ==
    /\ ~ssh[e].error
    /\ ssh[e].unread > 0
    /\ Update(e, ChannelCreditWindow([ssh[e] EXCEPT !.unread = 0], ssh[e].unread))
    /\ UNCHANGED spent

\* wolfSSH_SendIgnore(): refused before the initial exchange is over when
\* the strict KEX marker was offered.
SendIgnore(e) ==
    /\ Running(e)
    /\ ssh[e].state # "VERSION_DONE"
    /\ ssh[e].sendStrictKex => ssh[e].state \in {"KEYED", "DONE"}
    /\ Spend(e, "ignore", MaxIgnore)
    /\ Update(e, SendPacket(ssh[e], Packet("IGNORE")))

\* wolfSSH_SendDisconnect()
AppDisconnect(e) ==
    /\ Running(e)
    /\ ssh[e].state = "DONE"
    /\ Spend(e, "disconnect", MaxDisconnect)
    /\ Update(e, SendDisconnect(ssh[e]))

LibraryStep(e) ==
    \/ StartKex(e)
    \/ e = "client" /\ ConnectKexDh
    \/ BecomeKeyed(e)
    \/ AuthStep(e)
    \/ Receive(e)

AppStep(e) ==
    \/ Trigger(e)
    \/ StreamSend(e)
    \/ ChannelIdRead(e)
    \/ SendIgnore(e)
    \/ AppDisconnect(e)

Next == \E e \in Endpoints : LibraryStep(e) \/ AppStep(e)

\* The guards of the library's own steps.
Ready(e) ==
    \/ Running(e) /\ ssh[e].state = "VERSION_DONE"
    \/ Running(e) /\ e = "client" /\ ConnectKexInitDone(ssh[e])
    \/ Running(e) /\ KexLoopDone(e, ssh[e])
    \/ Running(e) /\ AuthReady(e, ssh[e])
    \/ ~ssh[e].error /\ Waiting(e, ssh[e]) /\ ssh[Peer(e)].out # <<>>

\* An application that keeps turning the crank, as the headers ask of it:
\* connect, accept and worker are called again until they are done.
WeakFairness == \A e \in Endpoints : WF_vars(LibraryStep(e))

\* The same with its ENABLED written out, which TLC evaluates a thousand
\* times faster.
Fairness ==
    \A e \in Endpoints : []<>~Ready(e) \/ []<><<LibraryStep(e)>>_vars

Spec == Init /\ [][Next]_vars

FairSpec == Spec /\ Fairness

WeakFairSpec == Spec /\ WeakFairness

----------------------------------------------------------------------------
(* Properties.                                                             *)

States == {"VERSION_DONE", "KEXINIT_SENT", "KEXDH_INIT_SENT", "KEYED", "DONE"}

Session ==
    [state : States, round : Nat, peerRound : Nat,
     isKeying : SUBSET {"SELF", "PEER"}, handshake : Handshake,
     keys : Keys, peerKeys : Keys, seq : Nat, peerSeq : Nat,
     txCount : Nat, rxCount : Nat, rxMsgCount : Nat,
     mark : [byte : Nat, msg : Nat],
     highwaterFlag : BOOLEAN, msgHighwaterFlag : BOOLEAN,
     sendStrictKex : BOOLEAN, useStrictKex : BOOLEAN,
     initialKexDone : BOOLEAN, sessionId : Keys, kexCount : Nat,
     kexId : {"DH", "GEX"}, match : BOOLEAN, extInfoSent : BOOLEAN,
     pendingWindowAdjust : Nat, unread : Nat,
     disconnected : BOOLEAN, error : BOOLEAN, out : Seq(Packets)]

\* Every session field has the type its C member has.
TypeOK ==
    /\ ssh \in [Endpoints -> Session]
    /\ spent \in [Endpoints -> [trigger : Nat, data : Nat, ignore : Nat, disconnect : Nat]]

\* However rekeys, strict KEX resets, crossing KEXINITs and ordinary traffic
\* interleave, the next packet on the wire opens at a session that is still
\* alive: sender and receiver agree on its keys and its sequence number, so
\* VerifyMac()/DecryptAead() never ends a session between honest peers.
NextOpens ==
    \A e \in Endpoints :
        (Running(e) /\ ssh[Peer(e)].out # <<>>)
            => Authentic(ssh[e], Head(ssh[Peer(e)].out))

\* wolfSSH_SetHighwater(ssh, 0) and wolfSSH_SetMsgHighwater(ssh, 0)
Unmarked(s) == s.mark.byte = 0 /\ s.mark.msg = 0

\* The j-th packet of a stream comes between a KEXINIT and its NEWKEYS;
\* keying: a KEXINIT came before the stream begins.
Between(q, j, keying) ==
    \/ keying /\ \A k \in 1..j : q[k].id # "NEWKEYS"
    \/ \E i \in 1..j : q[i].id = "KEXINIT" /\ \A k \in (i + 1)..j : q[k].id # "NEWKEYS"

\* RFC 4253 section 7.1, which SendChannelData(), ChannelCreditWindow() and
\* SendPendingChannelWindowAdjust() all gate on isKeying for: between its
\* KEXINIT and its NEWKEYS an endpoint puts no channel data and no window
\* adjust on the wire, credit parked during the exchange included.  This is
\* said of an endpoint without high water marks: a mark that is reached by
\* the last message of an exchange fires inside SendNewKeys(), which then
\* clears SELF_IS_KEYING although another KEXINIT is out.
QuietWhileKeying ==
    \A e \in Endpoints :
        LET s == ssh[e]
            r == ssh[Peer(e)]
        IN  (Unmarked(s) /\ Running(Peer(e))) =>
                \A j \in 1..Len(s.out) :
                    s.out[j].id \in Conn => ~Between(s.out, j, "PEER" \in r.isKeying)

\* The two ends stay in step: what the one sends next opens at the other, and
\* comes at a moment of the key exchange at which it may (SendChannelData(),
\* ChannelCreditWindow(), SendNewKeys(), DoNewKeys()).
InSync == NextOpens /\ QuietWhileKeying

\* The session identifier is the first exchange's H, and both ends keep the
\* same one through every later exchange; an end that is between exchanges
\* and has read everything seals and opens with the keys its peer does.
SessionAgreement ==
    LET c == ssh["client"]
        v == ssh["server"]
    IN  (Running("client") /\ Running("server"))
          => /\ (c.sessionId # NoKeys /\ v.sessionId # NoKeys)
                   => c.sessionId = v.sessionId
             /\ (c.isKeying = {} /\ v.isKeying = {} /\ c.out = <<>> /\ v.out = <<>>)
                   => {c.keys, c.peerKeys} = {v.keys, v.peerKeys}
                      /\ c.keys = c.peerKeys

\* No nonce is used twice under one key: an endpoint's outgoing sequence
\* number goes back (strict KEX sets it to zero in SendNewKeys()) only in a
\* step that also moves to keys neither end's KEXINIT contributed to before.
FreshNonces ==
    [][\A e \in Endpoints :
          LET s == ssh[e]
              t == ssh'[e]
          IN  IF t.keys = s.keys THEN t.seq >= s.seq
              ELSE t.keys[1] > s.keys[1] /\ t.keys[2] > s.keys[2]]_vars

\* Two wolfSSH peers with algorithms in common, whose applications do not
\* disconnect, never end the session themselves: no message either sends is
\* one the other refuses, and no exchange fails.
Healthy ==
    (\A e \in Endpoints : ssh[e].match /\ spent[e].disconnect = 0)
        => \A e \in Endpoints : Running(e)

AllRunning == \A e \in Endpoints : Running(e)

\* A key exchange that starts is finished by both sides' NEWKEYS
\* (wolfSSH_RekeyPending() falls back to 0), unless the session ends: no
\* exchange waits for a message that nobody will send.
RekeyCompletes ==
    \A e \in Endpoints : (ssh[e].isKeying # {}) ~> (ssh[e].isKeying = {} \/ ~AllRunning)

OverMark(s) ==
    /\ s.mark.msg # 0
    /\ s.txCount >= s.mark.msg \/ s.rxMsgCount >= s.mark.msg

\* A key that has carried its high water mark of packets is retired: the
\* mark fires a key exchange that resets the counters
\* (HighwaterCheck(), SendNewKeys(), DoNewKeys()).
KeyRetired ==
    \A e \in Endpoints : OverMark(ssh[e]) ~> (~OverMark(ssh[e]) \/ ~AllRunning)
============================================================================
