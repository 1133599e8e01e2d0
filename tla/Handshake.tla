----------------------------- MODULE Handshake -----------------------------
(***************************************************************************)
(* wolfSSH_connect() against wolfSSH_accept(): the two state machines that *)
(* carry a session from the version line to an open shell, user            *)
(* authentication included.  Both are written to be called again: a send   *)
(* the socket cut short returns WS_WANT_WRITE, a read with nothing to read *)
(* WS_WANT_READ, an authentication the application has not decided yet     *)
(* WS_AUTH_PENDING, and the next call must go on exactly where the last    *)
(* one stopped.                                                            *)
(*                                                                         *)
(* A session is a record whose fields carry the names of the C struct.     *)
(* outputBuffer holds whole packets: bytes of a packet that are out while  *)
(* others are not leave the packet in the buffer.  What a socket takes is  *)
(* chosen anew in every step (io): room packets, then fail.  The result of *)
(* the C function is in ret; error is ssh->error, and "NONE" while the     *)
(* call is still running.                                                  *)
(*                                                                         *)
(* The peer of the server is either a wolfSSH client or, from the          *)
(* authentication on, one that sends any legal message in any order.       *)
(***************************************************************************)
EXTENDS Integers, Sequences, FiniteSets

CONSTANTS
    Kinds,            \* the clients: subset of {"wolfssh", "any"}
    Methods,          \* the methods a wolfSSH client supports
    Verdicts,         \* what the server's authentication callback answers
    Users,            \* names a peer may log in under
    MaxAuthAttempts,  \* ssh->maxAuthAttempts
    KbAttempts,       \* keyboard rounds a client starts (3 in the code)
    AgentEnabled,     \* the client asks for agent forwarding
    Terminal,         \* the client asks for a terminal
    AppChannels,      \* ssh->appChannels: accept stops once the user is known
    MaxShort,         \* bound: sends the sockets cut short or fail
    MaxPending,       \* bound: verdicts put off, and second challenges
    MaxKeepalive,     \* bound: IGNORE messages of the applications
    MaxRequests       \* bound: authentication messages of an "any" client

ASSUME HandshakeAssumption ==
    /\ Kinds \subseteq {"wolfssh", "any"}
    /\ Methods \subseteq {"password", "keyboard", "publickey"}
    /\ Verdicts \subseteq {"SUCCESS", "PARTIAL", "FAILURE", "REJECTED", "WOULD_BLOCK", "ANOTHER"}
    /\ MaxAuthAttempts \in Nat \ {0} /\ KbAttempts \in Nat
    /\ {AgentEnabled, Terminal, AppChannels} \subseteq BOOLEAN
    /\ {MaxShort, MaxPending, MaxKeepalive, MaxRequests} \subseteq Nat

VARIABLES
    client, server,      \* the two WOLFSSH sessions
    toServer, toClient,  \* packets under way
    kind,                \* which client this is
    left                 \* what the bounds still allow

vars == <<client, server, toServer, toClient, kind, left>>

----------------------------------------------------------------------------
(* The states, numbered as the enumerations number them: both machines     *)
(* only ever go to the next one.                                           *)

Connect ==
    [BEGIN |-> 0, VERSION_SENT |-> 1, VERSION_DONE |-> 2, KEXINIT_SENT |-> 3,
     KEXINIT_DONE |-> 4, KEXDH_INIT_SENT |-> 5, KEYED |-> 6, USERAUTH_REQUEST_SENT |-> 7,
     USERAUTH_REQUEST_DONE |-> 8, USERAUTH_SENT |-> 9, USERAUTH_ACCEPT_DONE |-> 10,
     CHANNEL_OPEN_SENT |-> 11, CHANNEL_OPEN_DONE |-> 12, AGENT_REQUEST_SENT |-> 13,
     TERMINAL_REQUEST_SENT |-> 14, CHANNEL_REQUEST_SENT |-> 15, CHANNEL_REQUEST_DONE |-> 16]

Accept ==
    [BEGIN |-> 0, VERSION_SENT |-> 1, VERSION_DONE |-> 2, KEXINIT_SENT |-> 3, KEYED |-> 4,
     USERAUTH_REQUEST_DONE |-> 5, USERAUTH_ACCEPT_SENT |-> 6, USERAUTH_DONE |-> 7,
     USERAUTH_SENT |-> 8, CHANNEL_ACCEPT_SENT |-> 9, ESTABLISHED |-> 10]

\* ssh->clientState at the server, ssh->serverState at the client.
ClientStates ==
    [BEGIN |-> 0, VERSION_DONE |-> 1, KEXINIT_DONE |-> 2, KEXDH_INIT_DONE |-> 3,
     USERAUTH_REQUEST_DONE |-> 4, USERAUTH_DONE |-> 5, CHANNEL_OPEN_DONE |-> 6, DONE |-> 7]

ServerStates ==
    [BEGIN |-> 0, VERSION_DONE |-> 1, KEXINIT_DONE |-> 2, USERAUTH_REQUEST_DONE |-> 3,
     USERAUTH_ACCEPT_DONE |-> 4, CHANNEL_OPEN_DONE |-> 5, DONE |-> 6]

StopState == IF AppChannels THEN Accept.USERAUTH_SENT ELSE Accept.ESTABLISHED

KexMsgs == {"KEXINIT", "KEXDH_INIT", "KEXDH_REPLY", "NEWKEYS"}
AuthMsgs == {"USERAUTH_REQUEST", "INFO_RESPONSE", "USERAUTH_FAILURE", "USERAUTH_SUCCESS",
             "PK_OK", "INFO_REQUEST", "BANNER"}
AuthAnswers == {"USERAUTH_FAILURE", "USERAUTH_SUCCESS", "PK_OK", "INFO_REQUEST"}
ConnMsgs == {"CHANNEL_OPEN", "OPEN_CONF", "AGENT_REQ", "PTY_REQ", "SHELL_REQ", "CHANNEL_SUCCESS"}
MsgTypes == {"VERSION", "SERVICE_REQUEST", "SERVICE_ACCEPT", "EXT_INFO", "IGNORE", "DISCONNECT"}
            \cup KexMsgs \cup AuthMsgs \cup ConnMsgs

\* The messages that an end sends once; the others depend on the verdicts.
Scripted == MsgTypes \ (AuthAnswers \cup {"USERAUTH_REQUEST", "INFO_RESPONSE", "IGNORE", "DISCONNECT"})

\* user, method and service are those of a USERAUTH_REQUEST.  full: a
\* publickey request has its signature, a password request no new password,
\* an INFO_RESPONSE one response to each prompt.  partial is that of a
\* USERAUTH_FAILURE.  seq is the number the MAC was made with.
Msg == [type : MsgTypes, seq : Nat, user : Users, method : Methods \cup {"none"},
        service : BOOLEAN, full : BOOLEAN, partial : BOOLEAN]

FirstUser == CHOOSE u \in Users : TRUE
Plain(type) == [type |-> type, seq |-> 0, user |-> FirstUser, method |-> "none",
                service |-> TRUE, full |-> TRUE, partial |-> FALSE]

Retry == {"WANT_READ", "WANT_WRITE", "AUTH_PENDING"}
Fatal == {"FATAL", "USER_AUTH", "MSGID_NOT_ALLOWED", "INVALID_STATE", "INVALID_ALGO", "MAC",
          "SOCKET", "CLOSED", "PUBKEY_REJECTED", "DISCONNECT"}

----------------------------------------------------------------------------
(* The output buffer.                                                      *)

\* wolfSSH_SendPacket(): what the socket takes goes out.  WS_CBIO_ERR_GENERAL
\* drops the rest, WS_WANT_WRITE keeps it for the next flush.
SendPacket(s) ==
    LET n == Len(s.outputBuffer)
        k == IF s.io.room < n THEN s.io.room ELSE n
        t == [s EXCEPT !.tx = @ \o SubSeq(s.outputBuffer, 1, k), !.io.room = @ - k]
    IN  IF k = n
        THEN [t EXCEPT !.outputBuffer = <<>>, !.ret = "SUCCESS"]
        ELSE [t EXCEPT !.short = TRUE, !.ret = s.io.fail,
                       !.outputBuffer = IF s.io.fail = "SOCKET" THEN <<>>
                                        ELSE SubSeq(s.outputBuffer, k + 1, n)]

\* BundlePacket(): framed, encrypted and counted.  The version line has none
\* of it.
BundlePacket(s, m) ==
    [s EXCEPT !.outputBuffer = Append(@, [m EXCEPT !.seq = s.seq]),
              !.seq = IF m.type = "VERSION" THEN @ ELSE @ + 1,
              !.said = IF m.type \in Scripted THEN Append(@, m.type) ELSE @]

PurgePacket(s) == [s EXCEPT !.outputBuffer = <<>>]

\* Most senders: one packet, flushed, whatever becomes of it.
Send(s, m) == SendPacket(BundlePacket(s, m))

\* The senders that give up the output buffer unless it was delivered or
\* waits for the socket.
SendOrPurge(s, m) ==
    LET t == Send(s, m)
    IN  IF t.ret \in {"SUCCESS", "WANT_WRITE"} THEN t ELSE PurgePacket(t)

Return(s, code) == [s EXCEPT !.ret = code]

SendProtoId(s) == Send(s, Plain("VERSION"))
SendServiceRequest(s) == Send(s, Plain("SERVICE_REQUEST"))
SendIgnore(s) == Send(s, Plain("IGNORE"))

SendDisconnect(s) == Send([s EXCEPT !.disconnected = TRUE], Plain("DISCONNECT"))

\* SendKexInit() marks the session as keying before it sends.
SendKexInit(s) == SendOrPurge([s EXCEPT !.isKeying = @ \cup {"SELF"}], Plain("KEXINIT"))

SendKexDhInit(s) == SendOrPurge(s, Plain("KEXDH_INIT"))

\* SendNewKeys(): this end is done keying once its NEWKEYS is framed,
\* whatever becomes of the flush.
SendNewKeys(s) == [Send(s, Plain("NEWKEYS")) EXCEPT !.isKeying = @ \ {"SELF"}]

\* SendKexDhReply(): the reply waits for NEWKEYS, so that one flush carries
\* both; EXT_INFO follows only a flush that went through.
SendKexDhReply(s) ==
    LET t == SendNewKeys(BundlePacket(s, Plain("KEXDH_REPLY")))
        u == IF t.ret = "SUCCESS" /\ t.sendExtInfo
             THEN Send([t EXCEPT !.sendExtInfo = FALSE], Plain("EXT_INFO"))
             ELSE t
    IN  IF u.ret \in {"SUCCESS", "WANT_WRITE"} THEN u ELSE PurgePacket(u)

\* SendServiceAccept(): the accept is bundled, the banner's flush sends both.
SendUserAuthBanner(s) == Send(s, Plain("BANNER"))
SendServiceAccept(s) == SendUserAuthBanner(BundlePacket(s, Plain("SERVICE_ACCEPT")))

SendChannelOpenSession(s) == Send(s, Plain("CHANNEL_OPEN"))
SendChannelAgentRequest(s) == Send(s, Plain("AGENT_REQ"))
SendChannelTerminalRequest(s) == Send(s, Plain("PTY_REQ"))
SendChannelRequest(s) == Send(s, Plain("SHELL_REQ"))
SendChannelOpenConf(s) == Send(s, Plain("OPEN_CONF"))
SendChannelSuccess(s) == Send(s, Plain("CHANNEL_SUCCESS"))

----------------------------------------------------------------------------
(* The server's half of user authentication.  v is the verdict of the      *)
(* application's callback, proof what the verification of a signature and  *)
(* the result callback say.  History: approved, the users the application  *)
(* approved a credential of; complete, the last one was all it wanted;     *)
(* wrong, the credentials it turned down and the challenges the client     *)
(* walked away from; challenged, a challenge is open; asked and answered,  *)
(* messages of the client dealt with and answers framed.                   *)

\* CountUserAuthFailure(): the limit ends the session, whatever the answer's
\* send returned.
CountUserAuthFailure(s) ==
    LET t == [s EXCEPT !.authFailures = @ + 1]
    IN  IF t.authFailures >= MaxAuthAttempts THEN Return(t, "USER_AUTH") ELSE t

Answer(s, m) == Send([s EXCEPT !.answered = @ + 1], m)
SendUserAuthFailure(s, partial) ==
    Answer(s, [Plain("USERAUTH_FAILURE") EXCEPT !.partial = partial])
SendUserAuthPkOk(s) == Answer(s, Plain("PK_OK"))
SendUserAuthSuccess(s) == Answer(s, Plain("USERAUTH_SUCCESS"))

SendUserAuthFailureCount(s, partial, count) ==
    LET t == SendUserAuthFailure(s, partial)
    IN  IF count THEN CountUserAuthFailure(t) ELSE t

TurnedDown(s) == [s EXCEPT !.wrong = @ + 1]

Grants(v) == v = "SUCCESS"

Approved(s, user) == [s EXCEPT !.approved = @ \cup {user}]
LetIn(s, user) ==
    Return([Approved(s, user) EXCEPT !.peerState = ClientStates.USERAUTH_DONE], "SUCCESS")

\* What follows a verdict on a password or on keyboard responses.
AfterVerdict(s, user, v) ==
    IF Grants(v) THEN [LetIn(s, user) EXCEPT !.complete = v = "SUCCESS"]
    ELSE IF v = "WOULD_BLOCK" THEN Return(s, "AUTH_PENDING")
    ELSE IF v = "PARTIAL" THEN SendUserAuthFailureCount(Approved(s, user), TRUE, TRUE)
    ELSE IF v = "REJECTED"
    THEN Return(SendUserAuthFailureCount(TurnedDown(s), FALSE, TRUE), "USER_AUTH")
    ELSE SendUserAuthFailureCount(TurnedDown(s), FALSE, TRUE)

\* A request to change the password is turned down without asking.
DoUserAuthRequestPassword(s, m, v) ==
    IF m.full THEN AfterVerdict(s, m.user, v)
    ELSE SendUserAuthFailureCount(TurnedDown(s), FALSE, TRUE)

\* WOLFSSH_ALLOW_USERAUTH_NONE: the first request for the list is free.
DoUserAuthRequestNone(s, m, v) ==
    CASE v = "SUCCESS" -> [LetIn(s, m.user) EXCEPT !.complete = TRUE]
      [] v = "REJECTED" -> Return(TurnedDown(s), "USER_AUTH")
      [] v = "WOULD_BLOCK" -> Return(s, "AUTH_PENDING")
      [] OTHER -> SendUserAuthFailureCount(IF s.authRequests = 1 THEN s ELSE TurnedDown(s),
                                           FALSE, s.authRequests # 1)

\* SendUserAuthKeyboardRequest(): the application sets the prompts up.  The
\* challenge is open once it is framed and on its way.
SendUserAuthKeyboardRequest(s, v) ==
    CASE v = "SUCCESS" ->
             LET t == Answer(s, Plain("INFO_REQUEST"))
             IN  IF t.ret \in {"SUCCESS", "WANT_WRITE"}
                 THEN [t EXCEPT !.kbSetupPending = TRUE, !.challenged = TRUE]
                 ELSE PurgePacket(t)
      [] v = "WOULD_BLOCK" -> Return([s EXCEPT !.kbSetupPending = FALSE], "AUTH_PENDING")
      [] v = "REJECTED" -> Return(TurnedDown([s EXCEPT !.kbSetupPending = FALSE]), "USER_AUTH")
      [] OTHER -> SendUserAuthFailureCount(TurnedDown([s EXCEPT !.kbSetupPending = FALSE]),
                                           FALSE, TRUE)

\* DoUserAuthInfoResponse(): v = "ANOTHER" sets up a second challenge.
DoUserAuthInfoResponse(s, m, v) ==
    LET t == [s EXCEPT !.kbSetupPending = FALSE, !.challenged = FALSE] IN
    IF s.authId # "keyboard" THEN Return(s, "FATAL")
    ELSE IF ~m.full THEN SendUserAuthFailureCount(TurnedDown(t), FALSE, TRUE)
    ELSE IF v = "ANOTHER" THEN SendUserAuthKeyboardRequest(t, "SUCCESS")
    ELSE AfterVerdict(t, s.userName, v)

\* DoUserAuthRequestPublicKey(): without a signature the client only asks
\* whether the key would do.
DoUserAuthRequestPublicKey(s, m, v, proof) ==
    IF proof = "unknown_key" THEN SendUserAuthFailureCount(TurnedDown(s), FALSE, TRUE)
    ELSE IF v \notin {"SUCCESS", "PARTIAL"} THEN AfterVerdict(s, m.user, v)
    ELSE IF ~m.full THEN SendUserAuthPkOk(s)
    ELSE IF proof # "ok" THEN SendUserAuthFailureCount(TurnedDown(s), FALSE, TRUE)
    ELSE IF v = "PARTIAL" THEN SendUserAuthFailureCount(Approved(s, m.user), TRUE, TRUE)
    ELSE [LetIn(s, m.user) EXCEPT !.complete = TRUE]

\* Mutant: the challenge left behind costs nothing.
AbandonChallengeFree(s) == [s EXCEPT !.kbSetupPending = FALSE]

\* A request while a challenge is open counts against the client.
AbandonChallenge(s) ==
    LET t == [s EXCEPT !.kbSetupPending = FALSE]
    IN  IF s.kbSetupPending THEN CountUserAuthFailure(t) ELSE t

\* History: the client left an open challenge unanswered.
NoteAbandoned(s) ==
    IF s.challenged THEN TurnedDown([s EXCEPT !.challenged = FALSE]) ELSE s

\* Mutant: the name of every request is taken.
FixUserNameAnew(s, user) == Return([s EXCEPT !.userName = user, !.userAuthSeen = TRUE], "SUCCESS")

\* The first request with the right service fixes the user name.
FixUserName(s, user) ==
    IF ~s.userAuthSeen THEN Return([s EXCEPT !.userName = user, !.userAuthSeen = TRUE], "SUCCESS")
    ELSE IF user # s.userName THEN Return(s, "INVALID_STATE")
    ELSE Return(s, "SUCCESS")

DispatchMethod(s, m, v, proof) ==
    CASE m.method = "password" -> DoUserAuthRequestPassword(s, m, v)
      [] m.method = "keyboard" -> SendUserAuthKeyboardRequest(s, v)
      [] m.method = "publickey" -> DoUserAuthRequestPublicKey(s, m, v, proof)
      [] OTHER -> DoUserAuthRequestNone(s, m, v)

DoUserAuthRequest(s, m, v, proof) ==
    LET a == NoteAbandoned(s)
        wrongService == AbandonChallenge([a EXCEPT !.authId = "none"])
        named == FixUserName(a, m.user)
        begun == AbandonChallenge([named EXCEPT !.authId = m.method, !.authRequests = @ + 1])
    IN  IF ~m.service
        THEN IF wrongService.ret # "SUCCESS" THEN wrongService
             ELSE SendUserAuthFailureCount(wrongService, FALSE, TRUE)
        ELSE IF named.ret # "SUCCESS" THEN named
        ELSE IF begun.ret # "SUCCESS" THEN begun
        ELSE DispatchMethod(begun, m, v, proof)

----------------------------------------------------------------------------
(* The client's half.  cb is what the client's callback answers.           *)

NoAnswer == [password |-> FALSE, publickey |-> "fail", keyboard |-> FALSE]

\* The answers that the handler of a message can tell apart.
Callback(type) ==
    CASE type = "USERAUTH_FAILURE" ->
             [password : BOOLEAN, publickey : {"ok", "no_match", "fail"}, keyboard : {FALSE}]
      [] type = "INFO_REQUEST" -> {[NoAnswer EXCEPT !.keyboard = b] : b \in BOOLEAN}
      [] OTHER -> {NoAnswer}

\* Mutant: the client is ready for a challenge only once the send is through.
SendUserAuthRequestLate(s, methods, cb) ==
    LET t == SendOrPurge([s EXCEPT !.kbAuthAttempts = @ + 1],
                         [Plain("USERAUTH_REQUEST") EXCEPT !.method = "keyboard"])
    IN  IF "keyboard" \in methods THEN [t EXCEPT !.kbRequestSent = t.ret = "SUCCESS"]
        ELSE SendOrPurge(s, [Plain("USERAUTH_REQUEST") EXCEPT !.method = "none"])

\* SendUserAuthRequest(): keyboard before password before publickey, which
\* is tried once; without methods the client asks for the list.
SendUserAuthRequest(s, methods, cb) ==
    LET Request(t, method) == SendOrPurge(t, [Plain("USERAUTH_REQUEST") EXCEPT !.method = method])
        kb == Request([s EXCEPT !.kbAuthAttempts = @ + 1], "keyboard")
        Fail(code) == Return(PurgePacket(s), code)
    IN  IF "keyboard" \in methods
        THEN [kb EXCEPT !.kbRequestSent = @ \/ kb.ret \in {"SUCCESS", "WANT_WRITE"}]
        ELSE IF "password" \in methods /\ cb.password THEN Request(s, "password")
        ELSE IF "publickey" \in methods
        THEN IF cb.publickey = "fail" THEN Fail("FATAL")
             ELSE IF s.userAuthPkDone \/ cb.publickey = "no_match" THEN Fail("INVALID_ALGO")
             ELSE Request([s EXCEPT !.userAuthPkDone = TRUE], "publickey")
        ELSE IF methods # {} THEN Fail("FATAL")
        ELSE Request(s, "none")

\* Mutant: a client whose application has nothing to offer waits.
DoUserAuthFailureWaits(s, cb) ==
    LET methods == Methods \ (IF s.kbAuthAttempts < KbAttempts THEN {} ELSE {"keyboard"})
    IN  IF cb = NoAnswer /\ s.kbAuthAttempts = KbAttempts THEN Return(s, "SUCCESS")
        ELSE SendUserAuthRequest([s EXCEPT !.kbRequestSent = FALSE], methods, cb)

\* DoUserAuthFailure(): what both ends support, and keyboard three times.
DoUserAuthFailure(s, cb) ==
    LET methods == Methods \ (IF s.kbAuthAttempts < KbAttempts THEN {} ELSE {"keyboard"})
        t == [s EXCEPT !.kbRequestSent = FALSE]
    IN  IF methods = {} THEN Return(t, "USER_AUTH") ELSE SendUserAuthRequest(t, methods, cb)

DoUserAuthSuccess(s) ==
    Return([s EXCEPT !.peerState = ServerStates.USERAUTH_ACCEPT_DONE, !.kbRequestSent = FALSE],
           "SUCCESS")

SendUserAuthKeyboardResponse(s, cb) ==
    IF cb.keyboard THEN SendOrPurge(s, Plain("INFO_RESPONSE"))
    ELSE Return(PurgePacket(s), "FATAL")

\* DoUserAuthInfoRequest(): only an answer to a request of ours.
DoUserAuthInfoRequest(s, cb) ==
    IF s.kbRequestSent THEN SendUserAuthKeyboardResponse(s, cb) ELSE Return(s, "INVALID_STATE")

----------------------------------------------------------------------------
(* Receiving.                                                              *)

\* IsMessageAllowedServer() and IsMessageAllowedClient(), from the key
\* exchange on; what they say of the key exchange is Transport's.
IsMessageAllowedServer(s, type) ==
    CASE type = "SERVICE_REQUEST" -> s.state = Accept.KEYED /\ "PEER" \notin s.isKeying
      [] type = "KEXINIT" -> "PEER" \notin s.isKeying
      [] type \in KexMsgs \ {"KEXINIT"} -> "PEER" \in s.isKeying
      [] type \in AuthMsgs -> /\ s.state >= Accept.USERAUTH_REQUEST_DONE
                              /\ s.state < Accept.USERAUTH_SENT
                              /\ type \in {"USERAUTH_REQUEST", "INFO_RESPONSE"}
      [] type \in ConnMsgs -> s.state >= Accept.USERAUTH_SENT
      [] OTHER -> type # "SERVICE_ACCEPT"

IsMessageAllowedClient(s, type) ==
    CASE type = "SERVICE_ACCEPT" -> s.state = Connect.USERAUTH_REQUEST_SENT
      [] type = "KEXINIT" -> "PEER" \notin s.isKeying
      [] type \in KexMsgs \ {"KEXINIT"} -> "PEER" \in s.isKeying
      [] type \in AuthMsgs -> /\ s.state >= Connect.USERAUTH_SENT
                              /\ s.state < Connect.USERAUTH_ACCEPT_DONE
                              /\ type \notin {"USERAUTH_REQUEST", "INFO_RESPONSE"}
      [] type \in ConnMsgs -> s.state >= Connect.USERAUTH_ACCEPT_DONE
      [] OTHER -> type # "SERVICE_REQUEST"

Reached(s, state) == Return([s EXCEPT !.peerState = state], "SUCCESS")
DoKexInit(s, state) == Reached([s EXCEPT !.isKeying = @ \cup {"PEER"}], state)
DoNewKeys(s) == Return([s EXCEPT !.isKeying = @ \ {"PEER"}], "SUCCESS")
DoDisconnect(s) == Return([s EXCEPT !.disconnected = TRUE], "DISCONNECT")

\* A verdict that is still to come leaves the packet where it is.
ServerConsumes(s) == s.ret # "AUTH_PENDING"

DispatchServer(s, m, v, proof) ==
    CASE m.type = "KEXINIT" -> DoKexInit(s, ClientStates.KEXINIT_DONE)
      [] m.type = "KEXDH_INIT" -> SendKexDhReply([s EXCEPT !.peerState = ClientStates.KEXDH_INIT_DONE])
      [] m.type = "NEWKEYS" -> DoNewKeys(s)
      [] m.type = "SERVICE_REQUEST" -> Reached(s, ClientStates.USERAUTH_REQUEST_DONE)
      [] m.type = "USERAUTH_REQUEST" -> DoUserAuthRequest(s, m, v, proof)
      [] m.type = "INFO_RESPONSE" -> DoUserAuthInfoResponse(s, m, v)
      [] m.type = "CHANNEL_OPEN" ->
             SendChannelOpenConf([s EXCEPT !.peerState = ClientStates.CHANNEL_OPEN_DONE])
      [] m.type = "SHELL_REQ" ->
             SendChannelSuccess([s EXCEPT !.peerState = ClientStates.DONE])
      [] m.type = "DISCONNECT" -> DoDisconnect(s)
      [] OTHER -> Return(s, "SUCCESS")

\* The host key callback may turn the server down.
DoKexDhReply(s, trusted) ==
    IF trusted THEN SendNewKeys(s) ELSE Return(s, "PUBKEY_REJECTED")

DispatchClient(s, m, cb, trusted) ==
    CASE m.type = "KEXINIT" -> DoKexInit(s, ServerStates.KEXINIT_DONE)
      [] m.type = "KEXDH_REPLY" -> DoKexDhReply(s, trusted)
      [] m.type = "NEWKEYS" -> DoNewKeys(s)
      [] m.type = "SERVICE_ACCEPT" -> Reached(s, ServerStates.USERAUTH_REQUEST_DONE)
      [] m.type = "USERAUTH_FAILURE" -> DoUserAuthFailure(s, cb)
      [] m.type = "USERAUTH_SUCCESS" -> DoUserAuthSuccess(s)
      [] m.type \in {"INFO_REQUEST", "PK_OK"} -> DoUserAuthInfoRequest(s, cb)
      [] m.type = "OPEN_CONF" -> Reached(s, ServerStates.CHANNEL_OPEN_DONE)
      [] m.type = "CHANNEL_SUCCESS" -> Reached(s, ServerStates.DONE)
      [] m.type = "DISCONNECT" -> DoDisconnect(s)
      [] OTHER -> Return(s, "SUCCESS")

\* A known message at the wrong time ends the session.
Refuse(s) == Return(SendDisconnect(s), "MSGID_NOT_ALLOWED")

\* DoPacket()'s frame advance.
Consumed(s) == [s EXCEPT !.peerSeq = @ + 1]

\* DoProtoId(), and VerifyMac() in front of every packet.
DoProtoId(s, m, state) ==
    IF m.type = "VERSION" THEN Reached(s, state) ELSE Return(s, "FATAL")
Genuine(s, m) == m.type # "VERSION" /\ m.seq = s.peerSeq

----------------------------------------------------------------------------
(* wolfSSH_connect() and wolfSSH_accept(), one case of the switch at a     *)
(* time.                                                                   *)

\* The cases that send.
ConnectSends == {"BEGIN", "VERSION_DONE", "KEXINIT_DONE", "KEYED", "USERAUTH_REQUEST_DONE",
                 "USERAUTH_ACCEPT_DONE", "CHANNEL_OPEN_DONE", "AGENT_REQUEST_SENT",
                 "TERMINAL_REQUEST_SENT"}
AcceptSends == {"BEGIN", "VERSION_DONE", "USERAUTH_REQUEST_DONE", "USERAUTH_DONE"}

ConnectSend(s) ==
    CASE s.state = Connect.BEGIN -> SendProtoId(s)
      [] s.state = Connect.VERSION_DONE -> SendKexInit(s)
      [] s.state = Connect.KEXINIT_DONE -> SendKexDhInit(s)
      [] s.state = Connect.KEYED -> SendServiceRequest(s)
      [] s.state = Connect.USERAUTH_REQUEST_DONE -> SendUserAuthRequest(s, {}, NoAnswer)
      [] s.state = Connect.USERAUTH_ACCEPT_DONE -> SendChannelOpenSession(s)
      [] s.state = Connect.CHANNEL_OPEN_DONE /\ AgentEnabled -> SendChannelAgentRequest(s)
      [] s.state = Connect.AGENT_REQUEST_SENT /\ Terminal -> SendChannelTerminalRequest(s)
      [] s.state = Connect.TERMINAL_REQUEST_SENT -> SendChannelRequest(s)
      [] OTHER -> Return(s, "SUCCESS")

AcceptSend(s) ==
    CASE s.state = Accept.BEGIN -> SendProtoId(s)
      [] s.state = Accept.VERSION_DONE -> SendKexInit(s)
      [] s.state = Accept.USERAUTH_REQUEST_DONE -> SendServiceAccept(s)
      [] s.state = Accept.USERAUTH_DONE -> SendUserAuthSuccess(s)

\* The cases that read until the peer has come far enough.
ConnectWaitOver(s) ==
    \/ s.state = Connect.VERSION_SENT /\ s.peerState >= ServerStates.VERSION_DONE
    \/ s.state = Connect.KEXINIT_SENT /\ s.peerState >= ServerStates.KEXINIT_DONE
    \/ s.state = Connect.KEXDH_INIT_SENT /\ s.isKeying = {}
    \/ s.state = Connect.USERAUTH_REQUEST_SENT /\ s.peerState >= ServerStates.USERAUTH_REQUEST_DONE
    \/ s.state = Connect.USERAUTH_SENT /\ s.peerState >= ServerStates.USERAUTH_ACCEPT_DONE
    \/ s.state = Connect.CHANNEL_OPEN_SENT /\ s.peerState >= ServerStates.CHANNEL_OPEN_DONE
    \/ s.state = Connect.CHANNEL_REQUEST_SENT /\ s.peerState >= ServerStates.DONE

AcceptWaitOver(s) ==
    \/ s.state = Accept.VERSION_SENT /\ s.peerState >= ClientStates.VERSION_DONE
    \/ s.state = Accept.KEXINIT_SENT /\ s.isKeying = {}
    \/ s.state = Accept.KEYED /\ s.peerState >= ClientStates.USERAUTH_REQUEST_DONE
    \/ s.state = Accept.USERAUTH_ACCEPT_SENT /\ s.peerState >= ClientStates.USERAUTH_DONE
    \/ /\ s.state = Accept.USERAUTH_SENT /\ s.state # StopState
       /\ s.peerState >= ClientStates.CHANNEL_OPEN_DONE
    \/ s.state = Accept.CHANNEL_ACCEPT_SENT /\ s.peerState >= ClientStates.DONE

At(names, states) == {states[n] : n \in names}
ConnectSending(s) == s.state \in At(ConnectSends, Connect)
AcceptSending(s) == s.state \in At(AcceptSends, Accept)
Advance(s) == IF s.ret = "SUCCESS" THEN [s EXCEPT !.state = @ + 1] ELSE s

\* Where flushing what the last call left does not complete the case: more
\* than one message goes out in these.
ConnectMultiSend ==
    At({"VERSION_SENT", "KEXINIT_SENT", "KEXDH_INIT_SENT", "USERAUTH_REQUEST_SENT",
        "USERAUTH_SENT", "CHANNEL_OPEN_SENT", "CHANNEL_REQUEST_SENT"}, Connect)
AcceptMultiSend ==
    At({"VERSION_SENT", "USERAUTH_ACCEPT_SENT", "KEXINIT_SENT", "KEYED", "CHANNEL_ACCEPT_SENT"},
       Accept) \cup {StopState}

\* Mutant: a flush leaves the state alone, so the case sends again.
ReenterInPlace(s, multi, last) ==
    IF s.outputBuffer # <<>> THEN SendPacket(s) ELSE Return(s, "SUCCESS")

\* The head of both functions: what the last call left in the output buffer
\* goes out first, and a case with one message is then over.
Reenter(s, multi, last) ==
    IF s.outputBuffer = <<>> \/ s.state >= last THEN Return(s, "SUCCESS")
    ELSE IF s.state \in multi THEN SendPacket(s)
    ELSE Advance(SendPacket(s))

----------------------------------------------------------------------------
(* The steps.                                                              *)

Unlimited == [room |-> 4, fail |-> "WANT_WRITE"]
Io == {Unlimited} \cup [room : 0 .. 1, fail : {"WANT_WRITE", "SOCKET"}]
Sockets == IF left.short > 0 THEN Io ELSE {Unlimited}

\* The end of a step: the call goes on, or it has returned with an error.
Settled(s) == [s EXCEPT !.tx = <<>>, !.io = Unlimited, !.short = FALSE, !.ret = "SUCCESS",
                        !.error = IF s.ret = "SUCCESS" THEN "NONE" ELSE s.ret]

\* A short send is used up by the step that meets one.
Spend(t, io) ==
    /\ t.short = (io # Unlimited)
    /\ left' = [left EXCEPT !.short = IF t.short THEN @ - 1 ELSE @]

On(s, io) == [s EXCEPT !.io = io]

\* An "any" client reads whatever it is sent.
Lawless == kind = "any" /\ client.state >= Connect.USERAUTH_REQUEST_DONE

ClientBecomes(t, io) ==
    /\ Spend(t, io)
    /\ client' = Settled(t)
    /\ toServer' = toServer \o t.tx
    /\ UNCHANGED kind

ServerBecomes(t, io) ==
    /\ Spend(t, io)
    /\ server' = Settled(t)
    /\ toClient' = IF Lawless THEN <<>> ELSE toClient \o t.tx
    /\ UNCHANGED <<client, kind>>

Running(s) == s.error = "NONE" /\ ~s.closed

ClientSend == \E io \in Sockets :
    /\ Running(client) /\ ConnectSending(client) /\ ~Lawless
    /\ ClientBecomes(Advance(ConnectSend(On(client, io))), io)
    /\ UNCHANGED <<server, toClient>>

ServerSend == \E io \in Sockets :
    /\ Running(server) /\ AcceptSending(server)
    /\ ServerBecomes(Advance(AcceptSend(On(server, io))), io)
    /\ UNCHANGED toServer

ClientAdvance ==
    /\ Running(client) /\ ConnectWaitOver(client)
    /\ client' = Advance(client)
    /\ UNCHANGED <<server, toServer, toClient, kind, left>>

ServerAdvance ==
    /\ Running(server) /\ AcceptWaitOver(server)
    /\ server' = Advance(server)
    /\ UNCHANGED <<client, toServer, toClient, kind, left>>

ClientReads == Running(client) /\ ~ConnectSending(client) /\ ~ConnectWaitOver(client) /\ ~Lawless
               /\ client.state < Connect.CHANNEL_REQUEST_DONE
\* Past StopState it is the application's own loop that reads.
ServerReads == Running(server) /\ ~AcceptSending(server) /\ ~AcceptWaitOver(server)
               /\ (server.state < StopState \/ server.peerState < ClientStates.DONE)

\* A choice only where it is one.
Either(open) == IF open THEN BOOLEAN ELSE {TRUE}

ClientReceive ==
    /\ ClientReads /\ toClient # <<>>
    /\ toClient' = Tail(toClient)
    /\ UNCHANGED server
    /\ LET m == Head(toClient) IN
       \E io \in Sockets : LET s == On(client, io) IN
           IF s.state = Connect.VERSION_SENT
           THEN ClientBecomes(DoProtoId(s, m, ServerStates.VERSION_DONE), io)
           ELSE IF ~Genuine(s, m) THEN ClientBecomes(Return(s, "MAC"), io)
           ELSE IF ~IsMessageAllowedClient(s, m.type) THEN ClientBecomes(Consumed(Refuse(s)), io)
           ELSE \E cb \in Callback(m.type), trusted \in Either(m.type = "KEXDH_REPLY") :
                    ClientBecomes(Consumed(DispatchClient(s, m, cb, trusted)), io)

Note(s, m) == IF m.type \in {"USERAUTH_REQUEST", "INFO_RESPONSE"} THEN [s EXCEPT !.asked = @ + 1] ELSE s

VerdictsOn(m) == IF m.type \in {"USERAUTH_REQUEST", "INFO_RESPONSE"} THEN Verdicts ELSE {"SUCCESS"}
ProofsOn(m) == IF m.method = "publickey" THEN {"ok", "bad_signature", "unknown_key"} ELSE {"ok"}

ServerReceive ==
    /\ ServerReads /\ toServer # <<>>
    /\ LET m == Head(toServer) IN
       \E io \in Sockets : LET s == On(server, io) IN
           IF s.state = Accept.VERSION_SENT
           THEN ServerBecomes(DoProtoId(s, m, ClientStates.VERSION_DONE), io)
                /\ toServer' = Tail(toServer)
           ELSE IF ~Genuine(s, m) THEN ServerBecomes(Return(s, "MAC"), io) /\ toServer' = Tail(toServer)
           ELSE IF ~IsMessageAllowedServer(s, m.type)
           THEN ServerBecomes(Consumed(Refuse(s)), io) /\ toServer' = Tail(toServer)
           ELSE \E v \in VerdictsOn(m), proof \in ProofsOn(m) :
                    LET t == DispatchServer(s, m, v, proof) IN
                    /\ v \in {"WOULD_BLOCK", "ANOTHER"} => server.deferred < MaxPending
                    /\ LET u == [t EXCEPT !.deferred = IF v \in {"WOULD_BLOCK", "ANOTHER"}
                                                      THEN @ + 1 ELSE @]
                       IN  IF ServerConsumes(u)
                           THEN ServerBecomes(Consumed(Note(u, m)), io) /\ toServer' = Tail(toServer)
                           ELSE ServerBecomes([u EXCEPT !.held = TRUE], io) /\ UNCHANGED toServer

\* GetInputData(): nothing to read, or the peer is gone.  A call that is
\* repeated at once is one that waits: WS_WANT_READ only shows where the
\* application does something in between.
MayStarve(peerClosed) == peerClosed \/ left.keepalive > 0
Starve(s, peerClosed) == [s EXCEPT !.error = IF peerClosed THEN "CLOSED" ELSE "WANT_READ"]

ClientStarve ==
    /\ ClientReads /\ toClient = <<>> /\ MayStarve(server.closed)
    /\ client' = Starve(client, server.closed)
    /\ UNCHANGED <<server, toServer, toClient, kind, left>>

ServerStarve ==
    /\ ServerReads /\ toServer = <<>> /\ MayStarve(client.closed)
    /\ server' = Starve(server, client.closed)
    /\ UNCHANGED <<client, toServer, toClient, kind, left>>

\* The application calls again when its socket is ready.
ClientCall == \E io \in Sockets :
    /\ client.error \in Retry /\ ~client.closed
    /\ client.error = "WANT_READ" => toClient # <<>> \/ server.closed
    /\ ClientBecomes(Reenter(On(client, io), ConnectMultiSend, Connect.CHANNEL_REQUEST_DONE), io)
    /\ UNCHANGED <<server, toClient>>

\* A flush also drops the packet that waited for a verdict.
ServerCall == \E io \in Sockets :
    LET t == Reenter(On(server, io), AcceptMultiSend, Accept.ESTABLISHED)
        dropped == server.held /\ server.outputBuffer # <<>> /\ t.ret = "SUCCESS"
    IN  /\ server.error \in Retry /\ ~server.closed
        /\ server.error = "WANT_READ" => toServer # <<>> \/ client.closed
        /\ ServerBecomes([t EXCEPT !.held = FALSE], io)
        /\ toServer' = IF dropped THEN Tail(toServer) ELSE toServer

\* wolfSSH_SendIgnore() between two calls.  The application sends nothing
\* while a call of its own waits to be repeated.
ClientKeepalive == \E io \in Sockets :
    /\ client.error = "WANT_READ" /\ client.state >= Connect.KEYED /\ left.keepalive > 0
    /\ LET t == SendIgnore(On(client, io)) IN
       /\ t.short = (io # Unlimited)
       /\ client' = [Settled(t) EXCEPT !.error = IF t.ret = "SUCCESS" THEN "WANT_READ" ELSE t.ret]
       /\ toServer' = toServer \o t.tx
       /\ left' = [left EXCEPT !.short = IF t.short THEN @ - 1 ELSE @, !.keepalive = @ - 1]
    /\ UNCHANGED <<server, toClient, kind>>

ServerKeepalive == \E io \in Sockets :
    /\ server.error = "WANT_READ" /\ server.state >= Accept.KEYED /\ left.keepalive > 0
    /\ LET t == SendIgnore(On(server, io)) IN
       /\ t.short = (io # Unlimited)
       /\ server' = [Settled(t) EXCEPT !.error = IF t.ret = "SUCCESS" THEN "WANT_READ" ELSE t.ret]
       /\ toClient' = toClient \o t.tx
       /\ left' = [left EXCEPT !.short = IF t.short THEN @ - 1 ELSE @, !.keepalive = @ - 1]
    /\ UNCHANGED <<client, toServer, kind>>

\* wolfSSH_shutdown() and the end of the connection: what is queued goes out
\* first, unless the peer has already said goodbye.
FlushQueuedOutput(s) ==
    LET farewell == \E i \in DOMAIN s.outputBuffer : s.outputBuffer[i].type = "DISCONNECT"
    IN  s.outputBuffer # <<>> /\ (s.disconnected => farewell)

Shutdown(s) == IF FlushQueuedOutput(s) THEN SendPacket(s) ELSE s

ClientShutdown ==
    /\ client.error \in Fatal /\ ~client.closed
    /\ LET t == Shutdown(client) IN
       /\ toServer' = toServer \o t.tx
       /\ client' = [t EXCEPT !.closed = TRUE, !.tx = <<>>, !.io = Unlimited, !.ret = "SUCCESS"]
    /\ UNCHANGED <<server, toClient, kind, left>>

ServerShutdown ==
    /\ server.error \in Fatal /\ ~server.closed
    /\ LET t == Shutdown(server) IN
       /\ toClient' = IF Lawless THEN <<>> ELSE toClient \o t.tx
       /\ server' = [t EXCEPT !.closed = TRUE, !.tx = <<>>, !.io = Unlimited, !.ret = "SUCCESS"]
    /\ UNCHANGED <<client, toServer, kind, left>>

\* A client that is not wolfSSH: any message a peer may frame.  The server
\* deals with one packet at a time, so a second one under way changes nothing.
AnyRequest ==
    [type : {"USERAUTH_REQUEST"}, seq : {0}, user : Users, method : Methods \cup {"none"},
     service : {TRUE}, full : BOOLEAN, partial : {FALSE}]
    \cup {[Plain("USERAUTH_REQUEST") EXCEPT !.service = FALSE],
          Plain("INFO_RESPONSE"), [Plain("INFO_RESPONSE") EXCEPT !.full = FALSE],
          Plain("CHANNEL_OPEN"), Plain("SERVICE_REQUEST")}

AnySend == \E m \in AnyRequest :
    /\ Lawless /\ ~client.closed /\ ~server.closed
    /\ left.requests > 0 /\ toServer = <<>>
    /\ LET t == Send(client, m) IN
       /\ client' = [t EXCEPT !.tx = <<>>, !.io = Unlimited, !.said = <<>>]
       /\ toServer' = toServer \o t.tx
    /\ left' = [left EXCEPT !.requests = @ - 1]
    /\ UNCHANGED <<server, toClient, kind>>

NewSession ==
    [state |-> 0, peerState |-> 0, error |-> "NONE", ret |-> "SUCCESS", outputBuffer |-> <<>>,
     tx |-> <<>>, io |-> Unlimited, short |-> FALSE, seq |-> 0, peerSeq |-> 0, isKeying |-> {},
     disconnected |-> FALSE, closed |-> FALSE, said |-> <<>>, sendExtInfo |-> TRUE,
     kbRequestSent |-> FALSE, kbAuthAttempts |-> 0, userAuthPkDone |-> FALSE,
     held |-> FALSE, authId |-> "none", authRequests |-> 0, authFailures |-> 0,
     userAuthSeen |-> FALSE, userName |-> FirstUser, kbSetupPending |-> FALSE,
     challenged |-> FALSE, approved |-> {}, complete |-> FALSE, wrong |-> 0, deferred |-> 0,
     asked |-> 0, answered |-> 0]

Init ==
    /\ client = NewSession /\ server = NewSession
    /\ toServer = <<>> /\ toClient = <<>>
    /\ kind \in Kinds
    /\ left = [short |-> MaxShort, requests |-> MaxRequests,
               keepalive |-> IF kind = "wolfssh" THEN MaxKeepalive ELSE 0]

Next ==
    \/ ClientSend \/ ClientAdvance \/ ClientReceive \/ ClientStarve \/ ClientCall
    \/ ServerSend \/ ServerAdvance \/ ServerReceive \/ ServerStarve \/ ServerCall
    \/ ClientKeepalive \/ ServerKeepalive \/ ClientShutdown \/ ServerShutdown \/ AnySend

\* Both applications call again whenever their socket is ready, and close a
\* connection that failed.
Fairness ==
    /\ WF_vars(ClientSend) /\ WF_vars(ClientAdvance) /\ WF_vars(ClientReceive)
    /\ WF_vars(ClientStarve) /\ WF_vars(ClientCall) /\ WF_vars(ClientShutdown)
    /\ WF_vars(ServerSend) /\ WF_vars(ServerAdvance) /\ WF_vars(ServerReceive)
    /\ WF_vars(ServerStarve) /\ WF_vars(ServerCall) /\ WF_vars(ServerShutdown)

Spec == Init /\ [][Next]_vars /\ Fairness

----------------------------------------------------------------------------
(* Properties.                                                             *)

Session ==
    [state : 0 .. 16, peerState : 0 .. 7, error : {"NONE"} \cup Retry \cup Fatal,
     ret : {"SUCCESS"}, outputBuffer : Seq(Msg), tx : {<<>>}, io : {Unlimited},
     short : {FALSE}, seq : Nat, peerSeq : Nat, isKeying : SUBSET {"SELF", "PEER"},
     disconnected : BOOLEAN, closed : BOOLEAN, said : Seq(Scripted), sendExtInfo : BOOLEAN,
     kbRequestSent : BOOLEAN, kbAuthAttempts : 0 .. KbAttempts, userAuthPkDone : BOOLEAN,
     held : BOOLEAN, authId : Methods \cup {"none"}, authRequests : Nat,
     authFailures : 0 .. MaxAuthAttempts, userAuthSeen : BOOLEAN, userName : Users,
     kbSetupPending : BOOLEAN, challenged : BOOLEAN, approved : SUBSET Users,
     complete : BOOLEAN, wrong : Nat, deferred : Nat, asked : Nat, answered : Nat]

\* Every session field keeps its type, and an error the limits allow.
TypeOK ==
    /\ client \in Session /\ server \in Session
    /\ toServer \in Seq(Msg) /\ toClient \in Seq(Msg)
    /\ kind \in Kinds

Prefix(a, b) == Len(a) <= Len(b) /\ SubSeq(b, 1, Len(a)) = a

ClientScript ==
    <<"VERSION", "KEXINIT", "KEXDH_INIT", "NEWKEYS", "SERVICE_REQUEST", "CHANNEL_OPEN">>
    \o (IF AgentEnabled THEN <<"AGENT_REQ">> ELSE <<>>)
    \o (IF Terminal THEN <<"PTY_REQ">> ELSE <<>>) \o <<"SHELL_REQ">>
ServerScripts ==
    {<<"VERSION", "KEXINIT", "KEXDH_REPLY", "NEWKEYS">> \o ext
        \o <<"SERVICE_ACCEPT", "BANNER", "OPEN_CONF", "CHANNEL_SUCCESS">>
        : ext \in {<<>>, <<"EXT_INFO">>}}

\* A session that goes on has answered every authentication message once;
\* the answer to the last good credential is the success.
AnsweredOnce ==
    server.error \notin Fatal =>
        server.asked - server.answered =
            IF /\ server.peerState = ClientStates.USERAUTH_DONE
               /\ \/ server.state < Accept.USERAUTH_DONE
                  \/ server.state = Accept.USERAUTH_DONE /\ server.outputBuffer = <<>>
            THEN 1 ELSE 0

\* Wherever a send is cut short and however often the calls are repeated,
\* each end sends every message of the handshake once and in order, and a
\* client that connected sent them all; whoever the client is, a server that
\* goes on has answered each authentication message once.
ScriptKept ==
  /\ AnsweredOnce
  /\ kind = "wolfssh" =>
        /\ Prefix(client.said, ClientScript)
        /\ \E script \in ServerScripts : Prefix(server.said, script)
        /\ client.state = Connect.CHANNEL_REQUEST_DONE => client.said = ClientScript

\* Between two wolfSSH ends no packet is refused, fails its MAC or comes at
\* the wrong time: the state machines never disagree on where they are.
Understood ==
    kind = "wolfssh" =>
        {client.error, server.error}
            \cap {"MAC", "MSGID_NOT_ALLOWED", "INVALID_STATE", "DISCONNECT"} = {}

\* Whoever passes user authentication did so with a complete verdict of the
\* application, on a credential that was verified, and every credential the
\* application approved on the way was for the user who is let in.
LoginEarned ==
    server.peerState >= ClientStates.USERAUTH_DONE =>
        server.complete /\ server.approved = {server.userName}

\* A client gets maxAuthAttempts wrong guesses and abandoned challenges,
\* however it mixes the methods, and then the session is over.
GuessesBounded ==
    /\ server.wrong <= MaxAuthAttempts
    /\ server.wrong = MaxAuthAttempts => server.error \in Fatal

ClientEnded == client.closed \/ client.state = Connect.CHANNEL_REQUEST_DONE
ServerEnded == server.closed \/ server.peerState = ClientStates.DONE

\* A login between two wolfSSH ends comes to an end at both: each is
\* connected or has closed.
LoginEnds == kind = "wolfssh" ~> (ClientEnded /\ ServerEnded)
=============================================================================
