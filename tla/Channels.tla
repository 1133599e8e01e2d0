------------------------------ MODULE Channels ------------------------------
(***************************************************************************)
(* The life cycle of channels between two wolfSSH sessions, from the end   *)
(* of user authentication: the client's session channel and its requests,  *)
(* forwarded and agent channels opened from either end, confirmation and   *)
(* failure, EOF, close, and the application calls that use the list.       *)
(*                                                                         *)
(* A session is a record whose fields carry the names of the C struct; a C *)
(* function is an operator from session to session, and what it sends is   *)
(* collected in out.  One step is one library call run to its return.  A   *)
(* wire is a reliable FIFO: the output buffer of one end, the network and  *)
(* the input buffer of the other.  Windows are ChannelWindow's subject;    *)
(* here a channel only knows that it holds unread data.                    *)
(*                                                                         *)
(* uid names a channel across both ends: it is history, carried by every   *)
(* message and read by no guard.                                           *)
(***************************************************************************)
EXTENDS Integers, Sequences, FiniteSets

CONSTANTS
    IdSpace,       \* channel ids are counted modulo this (word32: 2^32)
    AgentEnabled,  \* the client asks for agent forwarding
    OpenOutcomes,  \* what the callbacks answer to a peer's open
    RespOutcomes,  \* what the callbacks answer to a confirmation or a failure
    ReqOutcomes,   \* what the callbacks answer to a shell request
    OpenFaults,    \* what may become of the send of a forwarding open
    AppCalls,      \* the calls the applications make; "exit_short": a short
                   \* write may cut wolfSSH_ChannelExit() in two
    Careful,       \* the applications keep the rules of CarefulWith
    ClientOpens,   \* bound: channels the client opens
    ServerOpens,   \* bound: channels the server opens
    MaxData,       \* bound: data packets each end sends
    MaxRequests,   \* bound: window changes and exit statuses each end sends
    MaxRekeys      \* bound: key exchanges of each end

ASSUME ChannelsAssumption ==
    /\ IdSpace \in Nat \ {0}
    /\ AgentEnabled \in BOOLEAN
    /\ Careful \in BOOLEAN
    /\ OpenOutcomes \subseteq {"accept", "refuse", "unregistered", "setup_fails", "id_fails"}
    /\ RespOutcomes \subseteq {"ok", "fails"}
    /\ ReqOutcomes \subseteq {"grant", "reject", "free"}
    /\ OpenFaults \subseteq {"none", "memory", "want_write", "id_fails"}
    /\ AppCalls \subseteq {"send", "read", "eof", "exit", "exit_short", "stream_exit",
                           "shutdown", "forward", "resize", "free"}
    /\ ClientOpens \in Nat /\ ServerOpens \in Nat
    /\ MaxData \in Nat /\ MaxRequests \in Nat /\ MaxRekeys \in Nat

VARIABLES
    session,  \* session[e]: the WOLFSSH of each end
    wire,     \* wire[e]: messages under way to e
    used      \* used[e]: budget of e spent so far

vars == <<session, wire, used>>

Ends == {"client", "server"}
Other(e) == IF e = "client" THEN "server" ELSE "client"

Ids == 0 .. IdSpace - 1
ForwardKinds == {"direct", "forwarded"}
Kinds == {"session", "agent"} \cup ForwardKinds
MaxOpens(e) == IF e = "client" THEN ClientOpens ELSE ServerOpens
Uids == UNION {{e} \X (1 .. MaxOpens(e)) : e \in Ends}

Channel ==
    [channel : Ids, peerChannel : Ids, channelType : Kinds, uid : Uids,
     openConfirmed : BOOLEAN, eofTxd : BOOLEAN, eofRxd : BOOLEAN, closeTxd : BOOLEAN,
     sessionGranted : BOOLEAN, fwdSetupTxd : BOOLEAN,
     unread : BOOLEAN,               \* data is buffered
     pendingWindowAdjust : BOOLEAN]  \* credit is parked

\* id names the recipient's channel, from the sender's.
Message ==
    [type : {"OPEN", "OPEN_CONF", "OPEN_FAIL", "EOF", "CLOSE", "DATA", "WINDOW_ADJUST",
             "REQUEST", "SUCCESS", "FAILURE", "DISCONNECT"},
     id : Ids, from : Ids, kind : Kinds \cup {"shell", "agent-req", "resize", "exit", "none"},
     uid : Uids \cup {<<>>}]

----------------------------------------------------------------------------
\* The channel list.

InUse(s) == {s.channelList[i].channel : i \in DOMAIN s.channelList}

\* Mutant: the id counter is used as it stands.
ChannelNewIdNoSkip(s) == s.nextChannel

\* ChannelNew(): the next id that no channel of the list holds.
ChannelNewId(s) ==
    LET Nth(k) == (s.nextChannel + k) % IdSpace
        k0 == CHOOSE k \in Ids : /\ Nth(k) \notin InUse(s)
                                 /\ \A j \in 0 .. k - 1 : Nth(j) \in InUse(s)
    IN  Nth(k0)

ChannelNew(s, kind, uid) ==
    [channel |-> ChannelNewId(s), peerChannel |-> 0, channelType |-> kind, uid |-> uid,
     openConfirmed |-> FALSE, eofTxd |-> FALSE, eofRxd |-> FALSE, closeTxd |-> FALSE,
     sessionGranted |-> FALSE, fwdSetupTxd |-> FALSE,
     unread |-> FALSE, pendingWindowAdjust |-> FALSE]

\* The session once ChannelNew() has taken an id.
Allocated(s) == [s EXCEPT !.nextChannel = (ChannelNewId(s) + 1) % IdSpace]

\* Mutant: the peer's id is not kept.
ChannelUpdatePeerBlind(c, peerId) == [c EXCEPT !.openConfirmed = TRUE]

ChannelUpdatePeer(c, peerId) == [c EXCEPT !.peerChannel = peerId, !.openConfirmed = TRUE]

ChannelAppend(s, c) == [s EXCEPT !.channelList = Append(@, c)]

\* ChannelFind(): the first match, so an index; 0 when there is none.
FirstOf(S) == IF S = {} THEN 0 ELSE CHOOSE i \in S : \A j \in S : i <= j
FindSelf(s, id) == FirstOf({i \in DOMAIN s.channelList : s.channelList[i].channel = id})
FindPeer(s, id) == FirstOf({i \in DOMAIN s.channelList : s.channelList[i].peerChannel = id})

\* Mutant: the application is not told.
ChannelDeleteSilent(s, c) == s

\* ChannelDelete() as the application sees it: NotifyFwdLocalCleanup() gives
\* back what WOLFSSH_FWD_LOCAL_SETUP made.
ChannelDelete(s, c) == [s EXCEPT !.setups = IF c.fwdSetupTxd THEN @ - 1 ELSE @]

ChannelRemove(s, i) ==
    LET list == s.channelList IN
    [ChannelDelete(s, list[i]) EXCEPT !.channelList =
        SubSeq(list, 1, i - 1) \o SubSeq(list, i + 1, Len(list))]

----------------------------------------------------------------------------
\* Senders.

Msg(type, id, from, kind, uid) ==
    [type |-> type, id |-> id, from |-> from, kind |-> kind, uid |-> uid]

Send(s, m) == [s EXCEPT !.out = Append(@, m)]

\* A message about channel c that carries nothing but its peer's id.
SendAbout(s, type, c) == Send(s, Msg(type, c.peerChannel, 0, "none", c.uid))

SendChannelOpen(s, c) == Send(s, Msg("OPEN", 0, c.channel, c.channelType, c.uid))

SendChannelOpenConf(s, c) ==
    Send(s, Msg("OPEN_CONF", c.peerChannel, c.channel, "none", c.uid))

SendChannelOpenFail(s, m) == Send(s, Msg("OPEN_FAIL", m.from, 0, "none", m.uid))

\* SendChannelEof() and SendChannelClose() look their channel up by the
\* peer's id.  Nothing is sent twice.
SendChannelEof(s, peerId) ==
    LET i == FindPeer(s, peerId) IN
    IF i = 0 \/ s.channelList[i].eofTxd THEN s
    ELSE [SendAbout(s, "EOF", s.channelList[i]) EXCEPT !.channelList[i].eofTxd = TRUE]

\* Mutant: the close is not remembered.
SendChannelCloseForgets(s, peerId) ==
    LET i == FindPeer(s, peerId) IN
    IF i = 0 THEN s ELSE SendAbout(s, "CLOSE", s.channelList[i])

SendChannelClose(s, peerId) ==
    LET i == FindPeer(s, peerId) IN
    IF i = 0 \/ s.channelList[i].closeTxd THEN s
    ELSE [SendAbout(s, "CLOSE", s.channelList[i]) EXCEPT !.channelList[i].closeTxd = TRUE]

\* SendChannelExit(), SendChannelRequest(), SendChannelAgentRequest() and
\* SendChannelTerminalResize(): a request, by the peer's id too.
SendChannelRequest(s, peerId, kind) ==
    LET i == FindPeer(s, peerId) IN
    IF i = 0 THEN s
    ELSE Send(s, Msg("REQUEST", peerId, 0, kind, s.channelList[i].uid))

SendChannelSuccess(s, c, success) == SendAbout(s, IF success THEN "SUCCESS" ELSE "FAILURE", c)

\* ChannelCreditWindow(): credit waits for the end of a key exchange.
ChannelCreditWindow(s, i) ==
    IF s.isKeying THEN [s EXCEPT !.channelList[i].pendingWindowAdjust = TRUE]
    ELSE [SendAbout(s, "WINDOW_ADJUST", s.channelList[i])
            EXCEPT !.channelList[i].pendingWindowAdjust = FALSE]

\* The adjusts owed on a list of channels, in its order.
PendingAdjusts(list) ==
    LET sent[n \in 0 .. Len(list)] ==
            IF n = 0 THEN <<>>
            ELSE IF list[n].pendingWindowAdjust
            THEN Append(sent[n - 1], Msg("WINDOW_ADJUST", list[n].peerChannel, 0, "none", list[n].uid))
            ELSE sent[n - 1]
    IN  sent[Len(list)]

\* SendPendingChannelWindowAdjust(): all of the list, in its order.
SendPendingChannelWindowAdjust(s) ==
    [s EXCEPT !.out = @ \o PendingAdjusts(s.channelList),
              !.channelList = [i \in DOMAIN @ |-> [@[i] EXCEPT !.pendingWindowAdjust = FALSE]]]

SendDisconnect(s) ==
    [Send(s, Msg("DISCONNECT", 0, 0, "none", <<>>)) EXCEPT !.disconnected = TRUE]

\* A handler's error: the application sees it and may go on.
Refuse(s, code) == [s EXCEPT !.refused = @ \cup {code}]

----------------------------------------------------------------------------
\* Handlers.  o is what the application's callbacks answer.

\* The opens DoChannelOpen() turns away before it makes a channel: a wrong
\* direction, a session when there is a channel, an agent nobody asked for.
TurnedAway(e, s, kind) ==
    \/ e = "client" /\ kind \in {"session", "direct"}
    \/ e = "server" /\ kind = "agent"
    \/ e = "server" /\ kind = "session" /\ s.channelList # <<>>
    \/ e = "client" /\ kind = "agent"
         /\ ~(AgentEnabled /\ s.connectState \in {"request_sent", "done"})

\* WOLFSSH_FWD_LOCAL_SETUP succeeded.
SetupMade(kind, o) == kind \in ForwardKinds /\ o \in {"accept", "id_fails"}

\* Mutant: a refusal deletes the channel and tells nobody.
DecideOpenSilent(e, s, m, o) ==
    LET c == ChannelUpdatePeer(ChannelNew(s, m.kind, m.uid), m.from) IN
    IF o = "accept" THEN SendChannelOpenConf(ChannelAppend(Allocated(s), c), c)
                    ELSE Allocated(s)

\* A channel was made: it joins the list, or is deleted and its id spent.
DecideOpen(e, s, m, o) ==
    LET wrongWay == e = "server" /\ m.kind = "forwarded"
        asked == ~wrongWay /\ o # "unregistered"
        setup == asked /\ SetupMade(m.kind, o)
        c == [ChannelUpdatePeer(ChannelNew(s, m.kind, m.uid), m.from)
                EXCEPT !.fwdSetupTxd = setup]
        made == [Allocated(s) EXCEPT
                    !.defaultPeerChannelId = IF asked /\ s.channelList = <<>> THEN m.from ELSE @,
                    !.setups = IF setup THEN @ + 1 ELSE @]
        appended == [ChannelAppend(made, c) EXCEPT !.clientState = "channel_open"]
    IN  IF asked /\ o = "accept" THEN SendChannelOpenConf(appended, c)
                                 ELSE SendChannelOpenFail(ChannelDelete(made, c), m)

DoChannelOpen(e, s, m, o) ==
    IF TurnedAway(e, s, m.kind) THEN SendChannelOpenFail(s, m) ELSE DecideOpen(e, s, m, o)

\* An answer to an open that is not outstanding ends the session.
NotOutstanding(s) == Refuse(SendDisconnect(s), "WS_INVALID_STATE_E")

DoChannelOpenConf(s, m, o) ==
    LET i == FindSelf(s, m.id)
        confirmed == [s EXCEPT !.channelList[i] = ChannelUpdatePeer(@, m.from)]
    IN  CASE i = 0 -> Refuse(s, "WS_INVALID_CHANID")
          [] i # 0 /\ s.channelList[i].openConfirmed -> NotOutstanding(s)
          [] OTHER -> IF o = "fails" THEN confirmed
                      ELSE [confirmed EXCEPT !.serverState = "channel_open",
                                             !.defaultPeerChannelId = m.from]

DoChannelOpenFail(s, m, o) ==
    LET i == FindSelf(s, m.id) IN
    CASE i = 0 -> Refuse(s, "WS_INVALID_CHANID")
      [] i # 0 /\ s.channelList[i].openConfirmed -> NotOutstanding(s)
      [] OTHER -> IF o = "fails" THEN s ELSE ChannelRemove(s, i)

DoChannelEof(s, i) == [s EXCEPT !.channelList[i].eofRxd = TRUE]

\* Mutant: a close is not answered.
DoChannelCloseSilent(s, i) == ChannelRemove(s, i)

\* A close is answered once, and the channel is gone.
DoChannelClose(s, i) ==
    LET c == s.channelList[i]
        answered == IF c.closeTxd \/ ~c.openConfirmed THEN s
                    ELSE SendChannelClose(SendChannelEof(s, c.peerChannel), c.peerChannel)
    IN  ChannelRemove(answered, FindSelf(answered, c.channel))

\* DoChannelRequest() and DoChannelRequestSession().  Only a shell request
\* wants a reply; the callback may free the channel, and the reply then
\* finds none.
DoChannelRequest(e, s, m, i, o) ==
    LET c == s.channelList[i]
        grant == e = "server" /\ o = "grant" /\ ~c.sessionGranted
        decided == IF grant THEN [s EXCEPT !.channelList[i].sessionGranted = TRUE,
                                           !.clientState = "done"]
                   ELSE s
    IN  CASE m.kind = "agent-req" -> [s EXCEPT !.useAgent = TRUE]
          [] m.kind = "shell" /\ o = "free" ->
                Refuse(ChannelRemove(s, i), "WS_INVALID_CHANID")
          [] m.kind = "shell" /\ o # "free" -> SendChannelSuccess(decided, c, grant)
          [] OTHER -> s

\* The handlers that need their channel to exist.
OnChannel(e, s, m, o) ==
    LET i == FindSelf(s, m.id) IN
    IF i = 0 THEN Refuse(s, "WS_INVALID_CHANID")
    ELSE CASE m.type = "EOF" -> DoChannelEof(s, i)
           [] m.type = "CLOSE" -> DoChannelClose(s, i)
           [] m.type = "DATA" -> [s EXCEPT !.channelList[i].unread = TRUE]
           [] m.type = "WINDOW_ADJUST" -> s
           [] m.type = "REQUEST" -> DoChannelRequest(e, s, m, i, o)
           [] m.type = "SUCCESS" -> [s EXCEPT !.serverState = "done"]
           [] m.type = "FAILURE" -> s

\* What the callbacks that m reaches may answer.
Outcomes(m) ==
    CASE m.type = "OPEN" /\ m.kind = "forwarded" -> OpenOutcomes
      [] m.type = "OPEN" /\ m.kind = "direct" -> OpenOutcomes \ {"unregistered"}
      [] m.type = "OPEN" /\ m.kind \notin ForwardKinds -> OpenOutcomes \cap {"accept", "refuse"}
      [] m.type \in {"OPEN_CONF", "OPEN_FAIL"} -> RespOutcomes
      [] m.type = "REQUEST" /\ m.kind = "shell" -> ReqOutcomes
      [] OTHER -> {"none"}

DoPacket(e, s, m, o) ==
    CASE s.disconnected -> s
      [] ~s.disconnected /\ m.type = "DISCONNECT" -> [s EXCEPT !.disconnected = TRUE]
      [] ~s.disconnected /\ m.type = "OPEN" -> DoChannelOpen(e, s, m, o)
      [] ~s.disconnected /\ m.type = "OPEN_CONF" -> DoChannelOpenConf(s, m, o)
      [] ~s.disconnected /\ m.type = "OPEN_FAIL" -> DoChannelOpenFail(s, m, o)
      [] OTHER -> OnChannel(e, s, m, o)

----------------------------------------------------------------------------
\* Steps.

\* SshInit(), user authentication done; connectState is the
\* client's; acceptState, useAgent and agent are the server's.
NewSession ==
    [channelList |-> <<>>, nextChannel |-> 0, defaultPeerChannelId |-> 0,
     isKeying |-> FALSE, disconnected |-> FALSE,
     connectState |-> "userauth_done", serverState |-> "userauth_done",
     acceptState |-> "accepting", clientState |-> "userauth_done",
     useAgent |-> FALSE, agent |-> FALSE,
     setups |-> 0,     \* history: LOCAL_SETUPs made less LOCAL_CLEANUPs
     refused |-> {},   \* history: errors of the handlers
     out |-> <<>>]

Init ==
    /\ session = [e \in Ends |-> NewSession]
    /\ wire = [e \in Ends |-> <<>>]
    /\ used = [e \in Ends |-> [opens |-> 0, data |-> 0, requests |-> 0, rekeys |-> 0]]

\* The call leaves end e in s, and what it sent is under way; rest is what
\* remains of e's own wire.
Return(e, s, rest) ==
    /\ session' = [session EXCEPT ![e] = [s EXCEPT !.out = <<>>]]
    /\ wire' = [wire EXCEPT ![e] = rest, ![Other(e)] = @ \o s.out]

Call(e, s) == Return(e, s, wire[e])

Spend(e, what, max) ==
    /\ used[e][what] < max
    /\ used' = [used EXCEPT ![e][what] = @ + 1]

Running(e) == ~session[e].disconnected

\* wolfSSH_connect() or wolfSSH_accept() has returned.
Established(e) ==
    IF e = "client" THEN session[e].connectState = "done"
                    ELSE session[e].acceptState = "done"

\* The application of e may make this call on its i-th channel.
May(e, call) == call \in AppCalls /\ Running(e) /\ Established(e)
CallOn(e, call, i) == May(e, call) /\ i \in DOMAIN session[e].channelList

\* The rules a careful application keeps: it does not use a channel it has
\* exited, nor tear one down before it is confirmed or in a key exchange.
CarefulWith(c) == Careful => c.openConfirmed /\ ~c.closeTxd
CarefulTearDown(e, c) == CarefulWith(c) /\ (Careful => ~session[e].isKeying)

\* What e may be once it has handled m.
Handled(e, m) == {DoPacket(e, session[e], m, o) : o \in Outcomes(m)}

\* wolfSSH_connect() and wolfSSH_accept() take packets until the state they
\* wait for is there, and then none before their next step.
Polls(e) ==
    LET s == session[e] IN
    \/ Established(e)
    \/ e = "client" /\ s.connectState = "open_sent"
         /\ s.serverState = "userauth_done"
    \/ e = "client" /\ s.connectState = "request_sent"
         /\ s.serverState # "done"
    \/ e = "server" /\ s.clientState # "done"

\* Some id is free: with all 2^32 in use ChannelNew() would not return.
HasId(e) == Cardinality(InUse(session[e])) < IdSpace

\* wolfSSH_worker(), or the loop of wolfSSH_connect() or wolfSSH_accept()
Receive(e) ==
    /\ wire[e] # <<>>
    /\ Polls(e)
    /\ Head(wire[e]).type = "OPEN" => HasId(e)
    /\ \E s \in Handled(e, Head(wire[e])) : Return(e, s, Tail(wire[e]))
    /\ UNCHANGED used

NextUid(e) == <<e, used[e].opens + 1>>
CanOpen(e) == HasId(e) /\ Spend(e, "opens", MaxOpens(e))

\* wolfSSH_connect() opens the session channel; a short write keeps it.
ConnectOpen ==
    LET s == session["client"]
        c == ChannelNew(s, "session", NextUid("client"))
    IN  /\ Running("client")
        /\ s.connectState = "userauth_done"
        /\ CanOpen("client")
        /\ Call("client", [SendChannelOpen(ChannelAppend(Allocated(s), c), c)
                             EXCEPT !.connectState = "open_sent"])

\* wolfSSH_connect() asks for the agent and the shell, on the default channel.
ConnectRequest ==
    LET s == session["client"]
        id == s.defaultPeerChannelId
        agent == IF AgentEnabled THEN SendChannelRequest(s, id, "agent-req") ELSE s
    IN  /\ Running("client")
        /\ s.connectState = "open_sent"
        /\ s.serverState # "userauth_done"
        /\ FindPeer(s, id) # 0
        /\ Call("client", [SendChannelRequest(agent, id, "shell")
                             EXCEPT !.connectState = "request_sent"])
        /\ UNCHANGED used

\* wolfSSH_connect() returns WS_SUCCESS.
ConnectDone ==
    LET s == session["client"] IN
    /\ Running("client")
    /\ s.connectState = "request_sent"
    /\ s.serverState = "done"
    /\ Call("client", [s EXCEPT !.connectState = "done"])
    /\ UNCHANGED used

\* wolfSSH_ChannelFwdNewLocal() and wolfSSH_ChannelFwdNewRemote(), which any
\* side may call.  Whatever is not WS_SUCCESS deletes the channel: no memory
\* for the packet, a short write with the OPEN queued, a callback's refusal
\* of the new id.
ChannelFwdNew(e, kind) ==
    LET s == session[e]
        c == ChannelNew(s, kind, NextUid(e))
        new == Allocated(s)
    IN  /\ May(e, "forward")
        /\ CanOpen(e)
        /\ \E fault \in OpenFaults :
              /\ fault = "id_fails" => kind = "forwarded"
              /\ Call(e, CASE fault = "none" -> SendChannelOpen(ChannelAppend(new, c), c)
                           [] fault = "memory" -> new
                           [] OTHER -> SendChannelOpen(new, c))

\* wolfSSH_AGENT_ChannelOpen(), called by wolfSSH_accept(): once, and kept
\* whatever became of the flush.
AgentChannelOpen ==
    LET s == session["server"]
        c == ChannelNew(s, "agent", NextUid("server"))
    IN  /\ Running("server")
        /\ s.acceptState = "accepting" /\ s.clientState = "done"
        /\ s.useAgent /\ ~s.agent
        /\ CanOpen("server")
        /\ Call("server", [SendChannelOpen(ChannelAppend(Allocated(s), c), c)
                             EXCEPT !.agent = TRUE])

\* wolfSSH_accept() returns WS_SUCCESS.
AcceptDone ==
    LET s == session["server"] IN
    /\ Running("server")
    /\ s.acceptState = "accepting" /\ s.clientState = "done"
    /\ s.useAgent => s.agent
    /\ Call("server", [s EXCEPT !.acceptState = "done"])
    /\ UNCHANGED used

\* wolfSSH_ChannelSend()
ChannelSend(e, i) ==
    LET c == session[e].channelList[i] IN
    /\ CallOn(e, "send", i)
    /\ ~session[e].isKeying
    /\ c.openConfirmed /\ ~c.eofTxd
    /\ Spend(e, "data", MaxData)
    /\ Call(e, SendAbout(session[e], "DATA", c))

\* wolfSSH_ChannelRead(), where it gives credit back.
ChannelRead(e, i) ==
    LET s == session[e] IN
    /\ CallOn(e, "read", i)
    /\ s.channelList[i].unread
    /\ CarefulWith(s.channelList[i])
    /\ Call(e, [ChannelCreditWindow(s, i) EXCEPT !.channelList[i].unread = FALSE])
    /\ UNCHANGED used

\* wolfSSH_ChannelSendEof()
ChannelSendEof(e, i) ==
    LET c == session[e].channelList[i] IN
    /\ CallOn(e, "eof", i)
    /\ ~session[e].isKeying
    /\ c.openConfirmed /\ ~c.eofTxd
    /\ Call(e, SendChannelEof(session[e], c.peerChannel))
    /\ UNCHANGED used

\* wolfSSH_ChannelExit(): a short write of the EOF leaves the close to a
\* later call.
ChannelExit(e, i) ==
    LET s == session[e]
        c == s.channelList[i]
        eof == SendChannelEof(s, c.peerChannel)
    IN  /\ CallOn(e, "exit", i)
        /\ CarefulTearDown(e, c)
        /\ c.openConfirmed /\ ~c.closeTxd
        /\ \/ "exit_short" \in AppCalls /\ ~c.eofTxd /\ Call(e, eof)
           \/ Call(e, SendChannelClose(eof, c.peerChannel))
        /\ UNCHANGED used

\* The head of the list, which wolfSSH_stream_exit() and wolfSSH_shutdown()
\* take for the session channel.
TearDownHead(e, call) ==
    /\ May(e, call)
    /\ session[e].channelList # <<>>
    /\ CarefulTearDown(e, Head(session[e].channelList))

\* wolfSSH_stream_exit(): exit status, EOF, close, each once the one before
\* it is away.
StreamExit(e) ==
    LET s == session[e]
        id == Head(s.channelList).peerChannel
        exit == SendChannelRequest(s, id, "exit")
        eof == SendChannelEof(exit, id)
    IN  /\ TearDownHead(e, "stream_exit")
        /\ Spend(e, "requests", MaxRequests)
        /\ \/ Call(e, exit)
           \/ Call(e, eof)
           \/ Call(e, SendChannelClose(eof, id))

\* wolfSSH_shutdown() up to its wait for the answer, which is a Receive.
Shutdown(e) ==
    LET s == session[e]
        id == Head(s.channelList).peerChannel
        exit == SendChannelRequest(SendChannelEof(s, id), id, "exit")
    IN  /\ TearDownHead(e, "shutdown")
        /\ ~Head(s.channelList).closeTxd
        /\ Spend(e, "requests", MaxRequests)
        /\ Call(e, SendChannelClose(exit, id))

\* wolfSSH_ChangeTerminalSize()
ChangeTerminalSize ==
    LET s == session["client"]
        i == FindPeer(s, s.defaultPeerChannelId)
    IN  /\ May("client", "resize")
        /\ i # 0
        /\ CarefulWith(s.channelList[i])
        /\ Spend("client", "requests", MaxRequests)
        /\ Call("client", SendChannelRequest(s, s.defaultPeerChannelId, "resize"))

\* wolfSSH_ChannelFree()
ChannelFree(e, i) ==
    /\ CallOn(e, "free", i)
    /\ Call(e, ChannelRemove(session[e], i))
    /\ UNCHANGED used

\* Transport's key exchange, as far as the channels see it.
StartRekey(e) ==
    /\ Running(e)
    /\ ~session[e].isKeying
    /\ Spend(e, "rekeys", MaxRekeys)
    /\ Call(e, [session[e] EXCEPT !.isKeying = TRUE])

EndRekey(e) ==
    /\ Running(e)
    /\ session[e].isKeying
    /\ Call(e, SendPendingChannelWindowAdjust([session[e] EXCEPT !.isKeying = FALSE]))
    /\ UNCHANGED used

Connect == ConnectOpen \/ ConnectRequest \/ ConnectDone
Accept == AgentChannelOpen \/ AcceptDone

AppStep(e) ==
    \/ \E kind \in ForwardKinds : ChannelFwdNew(e, kind)
    \/ \E i \in DOMAIN session[e].channelList :
          \/ ChannelSend(e, i)
          \/ ChannelRead(e, i)
          \/ ChannelSendEof(e, i)
          \/ ChannelExit(e, i)
          \/ ChannelFree(e, i)
    \/ StreamExit(e)
    \/ Shutdown(e)

Next ==
    \/ Connect
    \/ Accept
    \/ ChangeTerminalSize
    \/ \E e \in Ends : Receive(e) \/ AppStep(e) \/ StartRekey(e) \/ EndRekey(e)

Spec == Init /\ [][Next]_vars

\* Both ends call wolfSSH_connect() or wolfSSH_accept() until it returns and
\* wolfSSH_worker() from then on.  The second conjunct is weak fairness of
\* Receive(e), spelled out because TLC is slow to evaluate ENABLED on it.
Fairness ==
    /\ WF_vars(Connect) /\ WF_vars(Accept)
    /\ \A e \in Ends :
          []<>(wire[e] = <<>> \/ ~Polls(e)) \/ []<><<Receive(e)>>_vars

FairSpec == Spec /\ Fairness

----------------------------------------------------------------------------
\* Properties.

ChannelsOf(e) ==
    {session[e].channelList[i] : i \in DOMAIN session[e].channelList}

\* Fields hold what the C types admit; no more than IdSpace channels are live
\* and no call leaves output behind.
TypeOK ==
    \A e \in Ends :
        /\ ChannelsOf(e) \subseteq Channel
        /\ session[e].nextChannel \in Ids
        /\ session[e].defaultPeerChannelId \in Ids
        /\ session[e].setups \in Nat
        /\ session[e].out = <<>>
        /\ \A k \in DOMAIN wire[e] : wire[e][k] \in Message

\* Two channels of a session never share an id, also after nextChannel has
\* wrapped around onto channels that are still open (ChannelNew()).
UniqueIds ==
    \A e \in Ends : \A i, j \in DOMAIN session[e].channelList :
        session[e].channelList[i].channel = session[e].channelList[j].channel => i = j

\* The two ends of a confirmed channel know each other's ids.
Paired ==
    \A a \in ChannelsOf("client") : \A b \in ChannelsOf("server") :
        a.uid = b.uid /\ a.openConfirmed /\ b.openConfirmed =>
            a.peerChannel = b.channel /\ b.peerChannel = a.channel

\* A message that arrives and finds a channel finds the one its sender meant:
\* no id is taken for another channel's, because it was used again or because
\* an unconfirmed channel has peerChannel 0 (ChannelFind() by either id), and
\* the two ends of a confirmed channel know each other's ids.
Addressed == Paired /\
    \A e \in Ends : wire[e] # <<>> =>
        LET m == Head(wire[e])
            i == FindSelf(session[e], m.id)
        IN  m.type \notin {"OPEN", "DISCONNECT"} /\ i # 0 =>
                session[e].channelList[i].uid = m.uid

\* No handler of either end turns an error: every message finds its channel
\* in a state that takes it, whatever closes, opens and refusals cross.
Healthy == \A e \in Ends : session[e].refused = {}

\* A session channel is at the head of its list, where wolfSSH_shutdown() and
\* the stream calls look for it; a server never holds two.
SessionFirst ==
    \A e \in Ends : \A i \in DOMAIN session[e].channelList :
        session[e].channelList[i].channelType = "session" => i = 1

\* When nothing is under way both ends hold the same channels, all of them
\* confirmed: no open is left unanswered, no close half done; and a session
\* is where the stream calls look for it.
Agreement ==
  /\ SessionFirst
  /\ (\A e \in Ends : wire[e] = <<>>) =>
        /\ \A e \in Ends : \A c \in ChannelsOf(e) : c.openConfirmed
        /\ {c.uid : c \in ChannelsOf("client")} = {c.uid : c \in ChannelsOf("server")}

\* The application is owed one cleanup for each setup it made, and gets it
\* however the channel goes (NotifyFwdLocalCleanup()).
SetupsOwed ==
    \A e \in Ends :
        session[e].setups = Cardinality({c \in ChannelsOf(e) : c.fwdSetupTxd})

Live(u) == \E e \in Ends : \E c \in ChannelsOf(e) : c.uid = u
Closing(u) == \E e \in Ends : \E c \in ChannelsOf(e) : c.uid = u /\ c.closeTxd

\* A channel that either end has closed is dropped by both.
CloseCompletes == \A u \in Uids : Closing(u) ~> ~Live(u)

\* Every open is answered: no channel waits for ever to be confirmed.
OpenAnswered ==
    \A e \in Ends : \A u \in Uids :
        (\E c \in ChannelsOf(e) : c.uid = u /\ ~c.openConfirmed) ~>
            ~(\E c \in ChannelsOf(e) : c.uid = u /\ ~c.openConfirmed)

\* No channel is left half way: an open is confirmed or refused, and a close
\* by either end, or by both at once, makes both drop the channel, whatever
\* key exchange or data is under way (DoChannelClose(), DoChannelOpenFail()).
ChannelsSettle == CloseCompletes /\ OpenAnswered
=============================================================================
