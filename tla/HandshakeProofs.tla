-------------------------- MODULE HandshakeProofs --------------------------
(***************************************************************************)
(* Nobody is let in unless the application approved that user, and a guess *)
(* costs an attempt: for every peer, whatever it sends, every verdict of   *)
(* the application, every limit of attempts and every fault of the socket. *)
(*                                                                         *)
(* Both results are about the server alone, so nothing is assumed of what  *)
(* is under way to it.                                                     *)
(***************************************************************************)
EXTENDS Handshake, TLAPS

Fields ==
    {"state", "peerState", "error", "ret", "outputBuffer", "tx", "io", "short", "seq", "peerSeq",
     "isKeying", "disconnected", "closed", "said", "sendExtInfo", "kbRequestSent",
     "kbAuthAttempts", "userAuthPkDone", "held", "authId", "authRequests", "authFailures",
     "userAuthSeen", "userName", "kbSetupPending", "challenged", "approved", "complete", "wrong",
     "deferred", "asked", "answered"}

SendResults == {"SUCCESS", "WANT_WRITE", "SOCKET"}

\* A session, with the types the proofs need.
IsSession(s) ==
    /\ DOMAIN s = Fields
    /\ DOMAIN s.io = {"room", "fail"}
    /\ s.io.fail \in {"WANT_WRITE", "SOCKET"}

\* t differs from s in what is sent and in nothing that user authentication
\* reads.
Same(s, t) ==
    /\ IsSession(t)
    /\ t.state = s.state /\ t.peerState = s.peerState /\ t.error = s.error
    /\ t.authId = s.authId /\ t.userAuthSeen = s.userAuthSeen /\ t.userName = s.userName
    /\ t.approved = s.approved /\ t.complete = s.complete
    /\ t.authFailures = s.authFailures /\ t.wrong = s.wrong
    /\ t.kbSetupPending = s.kbSetupPending /\ t.challenged = s.challenged

LEMMA SameRefl ==
    ASSUME NEW s, IsSession(s)
    PROVE  Same(s, s)
  BY DEF Same

LEMMA SameTrans ==
    ASSUME NEW s, NEW t, NEW u, Same(s, t), Same(t, u)
    PROVE  Same(s, u)
  BY DEF Same

LEMMA SendPacketSame ==
    ASSUME NEW s, IsSession(s)
    PROVE  Same(s, SendPacket(s)) /\ SendPacket(s).ret \in SendResults
  BY DEF Same, IsSession, Fields, SendPacket, SendResults

LEMMA BundlePacketSame ==
    ASSUME NEW s, IsSession(s), NEW m
    PROVE  Same(s, BundlePacket(s, m))
  BY DEF Same, IsSession, Fields, BundlePacket

LEMMA PurgePacketSame ==
    ASSUME NEW s, IsSession(s)
    PROVE  Same(s, PurgePacket(s)) /\ PurgePacket(s).ret = s.ret
  BY DEF Same, IsSession, Fields, PurgePacket

LEMMA ReturnSame ==
    ASSUME NEW s, IsSession(s), NEW code
    PROVE  Same(s, Return(s, code)) /\ Return(s, code).ret = code
  BY DEF Same, IsSession, Fields, Return

LEMMA SendSame ==
    ASSUME NEW s, IsSession(s), NEW m
    PROVE  Same(s, Send(s, m)) /\ IsSession(Send(s, m)) /\ Send(s, m).ret \in SendResults
<1>1. Same(s, BundlePacket(s, m)) /\ IsSession(BundlePacket(s, m))
  BY BundlePacketSame DEF Same
<1>2. Same(BundlePacket(s, m), Send(s, m)) /\ Send(s, m).ret \in SendResults
  BY <1>1, SendPacketSame DEF Send
<1> QED BY <1>1, <1>2, SameTrans DEF Same

LEMMA SendOrPurgeSame ==
    ASSUME NEW s, IsSession(s), NEW m
    PROVE  Same(s, SendOrPurge(s, m)) /\ IsSession(SendOrPurge(s, m))
<1>1. Same(s, Send(s, m)) /\ IsSession(Send(s, m))
  BY SendSame
<1>2. Same(Send(s, m), PurgePacket(Send(s, m)))
  BY <1>1, PurgePacketSame
<1>3. Same(s, PurgePacket(Send(s, m)))
  BY <1>1, <1>2, SameTrans
<1> QED BY <1>1, <1>3 DEF SendOrPurge, Same

\* The fields of a session that are not about authentication.
LEMMA OtherFieldsSame ==
    ASSUME NEW s, IsSession(s), NEW v
    PROVE  /\ Same(s, [s EXCEPT !.isKeying = v])
           /\ Same(s, [s EXCEPT !.sendExtInfo = v])
           /\ Same(s, [s EXCEPT !.disconnected = v])
           /\ Same(s, [s EXCEPT !.answered = v])
           /\ Same(s, [s EXCEPT !.deferred = v])
           /\ Same(s, [s EXCEPT !.asked = v])
           /\ Same(s, [s EXCEPT !.peerSeq = v])
           /\ Same(s, [s EXCEPT !.held = v])
<1>1. Same(s, [s EXCEPT !.isKeying = v]) /\ Same(s, [s EXCEPT !.sendExtInfo = v])
  BY DEF Same, IsSession, Fields
<1>2. Same(s, [s EXCEPT !.disconnected = v]) /\ Same(s, [s EXCEPT !.answered = v])
  BY DEF Same, IsSession, Fields
<1>3. Same(s, [s EXCEPT !.deferred = v]) /\ Same(s, [s EXCEPT !.asked = v])
  BY DEF Same, IsSession, Fields
<1>4. Same(s, [s EXCEPT !.peerSeq = v]) /\ Same(s, [s EXCEPT !.held = v])
  BY DEF Same, IsSession, Fields
<1> QED BY <1>1, <1>2, <1>3, <1>4

LEMMA SendNewKeysSame ==
    ASSUME NEW s, IsSession(s)
    PROVE  Same(s, SendNewKeys(s)) /\ IsSession(SendNewKeys(s))
<1> DEFINE t == Send(s, Plain("NEWKEYS"))
<1>1. Same(s, t) /\ IsSession(t)
  BY SendSame
<1> HIDE DEF t
<1>2. Same(t, [t EXCEPT !.isKeying = t.isKeying \ {"SELF"}])
  BY <1>1, OtherFieldsSame
<1>3. SendNewKeys(s) = [t EXCEPT !.isKeying = t.isKeying \ {"SELF"}]
  BY DEF SendNewKeys, t
<1> QED BY <1>1, <1>2, <1>3, SameTrans DEF Same

LEMMA SendKexDhReplySame ==
    ASSUME NEW s, IsSession(s)
    PROVE  Same(s, SendKexDhReply(s))
<1> DEFINE b == BundlePacket(s, Plain("KEXDH_REPLY"))
           t == SendNewKeys(b)
           e == [t EXCEPT !.sendExtInfo = FALSE]
           u == IF t.ret = "SUCCESS" /\ t.sendExtInfo THEN Send(e, Plain("EXT_INFO")) ELSE t
<1>1. Same(s, b) /\ IsSession(b)
  BY BundlePacketSame DEF Same
<1>2. SendKexDhReply(s) = IF u.ret \in {"SUCCESS", "WANT_WRITE"} THEN u ELSE PurgePacket(u)
  BY DEF SendKexDhReply
<1> HIDE DEF b
<1>3. Same(s, t) /\ IsSession(t)
  BY <1>1, SendNewKeysSame, SameTrans
<1> HIDE DEF t
<1>4. Same(s, e) /\ IsSession(e)
  <2>1. Same(t, e)
    BY <1>3, OtherFieldsSame
  <2> QED BY <1>3, <2>1, SameTrans DEF Same
<1> HIDE DEF e
<1>5. Same(s, Send(e, Plain("EXT_INFO")))
  BY <1>4, SendSame, SameTrans
<1>6. Same(s, u) /\ IsSession(u)
  BY <1>3, <1>5 DEF Same
<1> HIDE DEF u
<1>7. Same(s, PurgePacket(u))
  BY <1>6, PurgePacketSame, SameTrans
<1> QED BY <1>2, <1>6, <1>7

\* The cases of wolfSSH_accept() that send.
LEMMA AcceptSendSame ==
    ASSUME NEW s, IsSession(s), AcceptSending(s)
    PROVE  Same(s, AcceptSend(s))
<1>1. Same(s, SendProtoId(s))
  BY SendSame DEF SendProtoId
<1>2. Same(s, SendKexInit(s))
  <2> DEFINE k == [s EXCEPT !.isKeying = s.isKeying \cup {"SELF"}]
  <2>0. Same(s, k)
    BY OtherFieldsSame
  <2>1. Same(s, k) /\ IsSession(k)
    BY <2>0 DEF Same
  <2>2. SendKexInit(s) = SendOrPurge(k, Plain("KEXINIT"))
    BY DEF SendKexInit
  <2> HIDE DEF k
  <2> QED BY <2>1, <2>2, SendOrPurgeSame, SameTrans
<1>3. Same(s, SendServiceAccept(s))
  <2>1. Same(s, BundlePacket(s, Plain("SERVICE_ACCEPT"))) /\ IsSession(BundlePacket(s, Plain("SERVICE_ACCEPT")))
    BY BundlePacketSame DEF Same
  <2> QED BY <2>1, SendSame, SameTrans DEF SendServiceAccept, SendUserAuthBanner
<1>4. Same(s, SendUserAuthSuccess(s))
  <2> DEFINE k == [s EXCEPT !.answered = s.answered + 1]
  <2>0. Same(s, k)
    BY OtherFieldsSame
  <2>1. Same(s, k) /\ IsSession(k)
    BY <2>0 DEF Same
  <2>2. SendUserAuthSuccess(s) = Send(k, Plain("USERAUTH_SUCCESS"))
    BY DEF SendUserAuthSuccess, Answer
  <2> HIDE DEF k
  <2> QED BY <2>1, <2>2, SendSame, SameTrans
<1>5. s.state \in {0, 2, 5, 7}
  BY DEF AcceptSending, AcceptSends, At, Accept
<1> QED BY <1>1, <1>2, <1>3, <1>4, <1>5 DEF AcceptSend, Accept

----------------------------------------------------------------------------
(* What authentication keeps.                                              *)

\* Every approval was for the name that the first request fixed.
Named(s) ==
    /\ s.approved \subseteq {s.userName}
    /\ s.approved # {} => s.userAuthSeen
    /\ s.authId # "none" => s.userAuthSeen

\* Whoever is past authentication was approved, in full.
Earned(s) ==
    s.peerState >= ClientStates.USERAUTH_DONE \/ s.state >= Accept.USERAUTH_DONE =>
        s.complete /\ s.approved = {s.userName}

\* A wrong guess was counted, or the session is over; an open challenge is
\* one the next request pays for.
Counted(s) ==
    /\ s.challenged => s.kbSetupPending
    /\ s.wrong \in Nat /\ s.authFailures \in Nat
    /\ s.wrong <= s.authFailures /\ s.authFailures < MaxAuthAttempts

\* The session is over, with at most one guess more than were counted.
Over(s) == s.wrong \in Nat /\ s.wrong <= MaxAuthAttempts

\* What a handler that returns t leaves behind.
Outcome(t) == Counted(t) \/ (t.ret \in Fatal /\ Over(t))

Stages(s) == s.state \in Nat /\ s.peerState \in Nat

Kept(s) ==
    /\ IsSession(s) /\ Stages(s) /\ Named(s) /\ Earned(s)
    /\ IF s.error \in Fatal THEN Over(s) ELSE Counted(s)

\* The inductive invariant.
IInv == Kept(server)

LEMMA SameKeeps ==
    ASSUME NEW s, NEW t, Same(s, t)
    PROVE  /\ Named(s) => Named(t)
           /\ Earned(s) => Earned(t)
           /\ Counted(s) => Counted(t)
           /\ Over(s) => Over(t)
           /\ Stages(s) => Stages(t)
  BY DEF Same, Named, Earned, Counted, Over, Stages

LEMMA CountedIsOver ==
    ASSUME NEW s, Counted(s)
    PROVE  Over(s)
  BY HandshakeAssumption DEF Counted, Over

\* A session in the authentication phase, before a verdict.
Asking(s) ==
    /\ IsSession(s) /\ Stages(s) /\ Named(s) /\ Counted(s)
    /\ s.peerState < ClientStates.USERAUTH_DONE /\ s.state < Accept.USERAUTH_DONE

\* What its handlers leave: nobody is let in unless approved, and guesses
\* are counted.
Judged(t) ==
    /\ IsSession(t) /\ Stages(t) /\ Named(t) /\ Earned(t) /\ Outcome(t)

LEMMA SameAsking ==
    ASSUME NEW s, NEW t, Asking(s), Same(s, t)
    PROVE  Asking(t)
<1>1. IsSession(t) /\ t.peerState = s.peerState /\ t.state = s.state
  BY DEF Same
<1> QED BY <1>1, SameKeeps DEF Asking

LEMMA AskingJudged ==
    ASSUME NEW s, Asking(s)
    PROVE  Judged(s)
<1>1. Earned(s)
  BY DEF Asking, Earned, Stages, ClientStates, Accept
<1> QED BY <1>1 DEF Asking, Judged, Outcome

LEMMA SameJudged ==
    ASSUME NEW s, NEW t, Asking(s), Same(s, t)
    PROVE  Judged(t)
  BY SameAsking, AskingJudged

\* A session that owes a count: one more wrong than were counted.
Owing(s) ==
    /\ IsSession(s) /\ Stages(s) /\ Named(s)
    /\ s.peerState < ClientStates.USERAUTH_DONE /\ s.state < Accept.USERAUTH_DONE
    /\ s.challenged => s.kbSetupPending
    /\ s.wrong \in Nat /\ s.authFailures \in Nat
    /\ s.wrong <= s.authFailures + 1 /\ s.authFailures < MaxAuthAttempts

LEMMA SameOwing ==
    ASSUME NEW s, NEW t, Owing(s), Same(s, t)
    PROVE  Owing(t)
<1>1. Named(t) /\ Stages(t) /\ IsSession(t)
  BY SameKeeps DEF Owing, Same
<1> QED BY <1>1 DEF Owing, Same

LEMMA AskingOwing ==
    ASSUME NEW s, Asking(s)
    PROVE  Owing(s) /\ Owing(TurnedDown(s))
<1>1. Owing(s)
  BY DEF Asking, Owing, Counted
<1>2. /\ IsSession(TurnedDown(s)) /\ TurnedDown(s).wrong = s.wrong + 1
      /\ TurnedDown(s).authFailures = s.authFailures
      /\ TurnedDown(s).state = s.state /\ TurnedDown(s).peerState = s.peerState
      /\ TurnedDown(s).challenged = s.challenged /\ TurnedDown(s).kbSetupPending = s.kbSetupPending
  BY DEF Asking, TurnedDown, IsSession, Fields
<1>3. Named(TurnedDown(s)) /\ Stages(TurnedDown(s))
  BY DEF Asking, TurnedDown, IsSession, Fields, Named, Stages
<1> QED BY <1>1, <1>2, <1>3 DEF Asking, Owing, Counted

\* CountUserAuthFailure() pays what is owed, or ends the session.
LEMMA CountJudged ==
    ASSUME NEW s, Owing(s)
    PROVE  /\ Judged(CountUserAuthFailure(s))
           /\ CountUserAuthFailure(s).ret = s.ret => CountUserAuthFailure(s).ret \in Fatal \/ Asking(CountUserAuthFailure(s))
           /\ CountUserAuthFailure(s).ret = s.ret \/ CountUserAuthFailure(s).ret \in Fatal
<1> DEFINE t == [s EXCEPT !.authFailures = s.authFailures + 1]
           u == CountUserAuthFailure(s)
<1>1. /\ IsSession(t) /\ t.authFailures = s.authFailures + 1 /\ t.wrong = s.wrong /\ t.ret = s.ret
      /\ t.state = s.state /\ t.peerState = s.peerState
      /\ t.challenged = s.challenged /\ t.kbSetupPending = s.kbSetupPending
      /\ t.approved = s.approved /\ t.userName = s.userName /\ t.userAuthSeen = s.userAuthSeen
      /\ t.authId = s.authId
  BY DEF Owing, IsSession, Fields
<1>2. u = IF t.authFailures >= MaxAuthAttempts THEN Return(t, "USER_AUTH") ELSE t
  BY DEF CountUserAuthFailure
<1> HIDE DEF t, u
<1>3. Named(t) /\ Stages(t)
  BY <1>1 DEF Owing, Named, Stages
<1>4. Earned(t)
  BY <1>1, <1>3 DEF Owing, Earned, Stages, ClientStates, Accept
<1>5. CASE t.authFailures >= MaxAuthAttempts
  <2>1. Same(t, u) /\ u.ret = "USER_AUTH"
    BY <1>1, <1>2, <1>5, ReturnSame
  <2>2. Over(t)
    BY <1>1, <1>5, HandshakeAssumption DEF Owing, Over
  <2>3. u.ret \in Fatal
    BY <2>1 DEF Fatal
  <2>4. IsSession(u) /\ Stages(u) /\ Named(u) /\ Earned(u) /\ Over(u)
    BY <2>1, <2>2, <1>3, <1>4, SameKeeps DEF Same
  <2> QED BY <2>3, <2>4 DEF Judged, Outcome, u
<1>6. CASE ~(t.authFailures >= MaxAuthAttempts)
  <2>1. Counted(t)
    BY <1>1, <1>6, HandshakeAssumption DEF Owing, Counted
  <2>2. Asking(t)
    BY <1>1, <1>3, <2>1 DEF Asking, Owing
  <2>3. u = t
    BY <1>2, <1>6
  <2> QED BY <2>2, <2>3, <1>1, AskingJudged DEF u
<1> QED BY <1>5, <1>6

\* Every answer to a request, as far as authentication sees it.
LEMMA AnswerSame ==
    ASSUME NEW s, IsSession(s), NEW m
    PROVE  Same(s, Answer(s, m)) /\ Answer(s, m).ret \in SendResults
<1> DEFINE k == [s EXCEPT !.answered = s.answered + 1]
<1>1. Same(s, k)
  BY OtherFieldsSame
<1>2. Answer(s, m) = Send(k, m)
  BY DEF Answer
<1> HIDE DEF k
<1>3. Same(k, Send(k, m)) /\ Send(k, m).ret \in SendResults
  BY <1>1, SendSame DEF Same
<1> QED BY <1>1, <1>2, <1>3, SameTrans

\* A failure message that is counted.
LEMMA FailureCountJudged ==
    ASSUME NEW s, Owing(s), NEW partial
    PROVE  Judged(SendUserAuthFailureCount(s, partial, TRUE))
<1> DEFINE t == SendUserAuthFailure(s, partial)
<1>1. Same(s, t)
  BY AnswerSame DEF SendUserAuthFailure, Owing
<1>2. SendUserAuthFailureCount(s, partial, TRUE) = CountUserAuthFailure(t)
  BY DEF SendUserAuthFailureCount
<1> HIDE DEF t
<1> QED BY <1>1, <1>2, SameOwing, CountJudged

\* A failure message for a credential that was turned down.
LEMMA RefusalJudged ==
    ASSUME NEW s, Asking(s)
    PROVE  Judged(SendUserAuthFailureCount(TurnedDown(s), FALSE, TRUE))
  BY AskingOwing, FailureCountJudged

\* An error ends the session; the guess it is about need not be counted.
LEMMA ErrorJudged ==
    ASSUME NEW s, Judged(s) \/ Owing(s), NEW code \in Fatal
    PROVE  Judged(Return(s, code))
<1>1. IsSession(s) /\ Stages(s) /\ Named(s) /\ Over(s)
  BY CountedIsOver, HandshakeAssumption DEF Judged, Owing, Outcome, Over
<1>2. Earned(s)
  BY DEF Judged, Owing, Earned, Stages, ClientStates, Accept
<1>3. Same(s, Return(s, code)) /\ Return(s, code).ret = code
  BY <1>1, ReturnSame
<1> QED BY <1>1, <1>2, <1>3, SameKeeps DEF Judged, Outcome, Same

\* The application approves a credential of the user whose name is fixed.
LEMMA ApprovedAsking ==
    ASSUME NEW s, Asking(s), s.userAuthSeen
    PROVE  Asking(Approved(s, s.userName)) /\ Owing(Approved(s, s.userName))
<1> DEFINE t == Approved(s, s.userName)
<1>1. /\ IsSession(t) /\ t.approved = s.approved \cup {s.userName}
      /\ t.userName = s.userName /\ t.userAuthSeen = s.userAuthSeen /\ t.authId = s.authId
      /\ t.state = s.state /\ t.peerState = s.peerState
      /\ t.challenged = s.challenged /\ t.kbSetupPending = s.kbSetupPending
      /\ t.wrong = s.wrong /\ t.authFailures = s.authFailures
  BY DEF Asking, Approved, IsSession, Fields
<1> HIDE DEF t
<1>2. Named(t) /\ Stages(t) /\ Counted(t)
  BY <1>1 DEF Asking, Named, Stages, Counted
<1>3. Asking(t)
  BY <1>1, <1>2 DEF Asking
<1> QED BY <1>3, AskingOwing DEF t

\* The application lets that user in.
LEMMA LetInJudged ==
    ASSUME NEW s, Asking(s), s.userAuthSeen
    PROVE  Judged([LetIn(s, s.userName) EXCEPT !.complete = TRUE])
<1> DEFINE t == [LetIn(s, s.userName) EXCEPT !.complete = TRUE]
<1>1. /\ IsSession(t) /\ t.approved = s.approved \cup {s.userName} /\ t.complete = TRUE
      /\ t.userName = s.userName /\ t.userAuthSeen = s.userAuthSeen /\ t.authId = s.authId
      /\ t.state = s.state /\ t.peerState = ClientStates.USERAUTH_DONE
      /\ t.challenged = s.challenged /\ t.kbSetupPending = s.kbSetupPending
      /\ t.wrong = s.wrong /\ t.authFailures = s.authFailures
  BY DEF Asking, LetIn, Approved, Return, IsSession, Fields
<1> HIDE DEF t
<1>2. Named(t) /\ Counted(t)
  BY <1>1 DEF Asking, Named, Counted
<1>3. Stages(t)
  BY <1>1 DEF Asking, Stages, ClientStates
<1>4. Earned(t)
  BY <1>1 DEF Asking, Named, Earned
<1> QED BY <1>1, <1>2, <1>3, <1>4 DEF Judged, Outcome, t

\* What follows a verdict on a credential of that user.
LEMMA AfterVerdictJudged ==
    ASSUME NEW s, Asking(s), s.userAuthSeen, NEW v
    PROVE  Judged(AfterVerdict(s, s.userName, v))
<1>1. Judged([LetIn(s, s.userName) EXCEPT !.complete = TRUE])
  BY LetInJudged
<1>2. Judged(Return(s, "AUTH_PENDING"))
  BY ReturnSame, SameJudged DEF Asking
<1>3. Judged(SendUserAuthFailureCount(Approved(s, s.userName), TRUE, TRUE))
  BY ApprovedAsking, FailureCountJudged
<1>4. Judged(SendUserAuthFailureCount(TurnedDown(s), FALSE, TRUE))
  BY RefusalJudged
<1>5. Judged(Return(SendUserAuthFailureCount(TurnedDown(s), FALSE, TRUE), "USER_AUTH"))
  BY <1>4, ErrorJudged DEF Fatal
<1>6. CASE v = "SUCCESS"
  <2>1. AfterVerdict(s, s.userName, v) = [LetIn(s, s.userName) EXCEPT !.complete = TRUE]
    BY <1>6 DEF AfterVerdict, Grants
  <2> QED BY <2>1, <1>1
<1>7. CASE v # "SUCCESS"
  BY <1>2, <1>3, <1>4, <1>5, <1>7 DEF AfterVerdict, Grants
<1> QED BY <1>6, <1>7

\* The password method: the request is for the user whose name is fixed.
LEMMA PasswordJudged ==
    ASSUME NEW s, Asking(s), s.userAuthSeen, NEW m, m.user = s.userName, NEW v
    PROVE  Judged(DoUserAuthRequestPassword(s, m, v))
  BY AfterVerdictJudged, RefusalJudged DEF DoUserAuthRequestPassword

\* The none method.
LEMMA NoneJudged ==
    ASSUME NEW s, Asking(s), s.userAuthSeen, NEW m, m.user = s.userName, NEW v
    PROVE  Judged(DoUserAuthRequestNone(s, m, v))
<1>1. Judged([LetIn(s, m.user) EXCEPT !.complete = TRUE])
  BY LetInJudged
<1>2. Judged(Return(TurnedDown(s), "USER_AUTH"))
  BY AskingOwing, ErrorJudged DEF Fatal
<1>3. Judged(Return(s, "AUTH_PENDING"))
  BY ReturnSame, SameJudged DEF Asking
<1>4. Judged(SendUserAuthFailureCount(s, FALSE, FALSE))
  <2>1. Same(s, SendUserAuthFailure(s, FALSE))
    BY AnswerSame DEF SendUserAuthFailure, Asking
  <2> QED BY <2>1, SameJudged DEF SendUserAuthFailureCount
<1>5. Judged(SendUserAuthFailureCount(IF s.authRequests = 1 THEN s ELSE TurnedDown(s),
                                      FALSE, s.authRequests # 1))
  <2>1. CASE s.authRequests = 1
    <3>1. (s.authRequests # 1) = FALSE
      BY <2>1
    <3> QED BY <2>1, <3>1, <1>4
  <2>2. CASE s.authRequests # 1
    <3>1. (s.authRequests # 1) = TRUE
      BY <2>2
    <3> QED BY <2>2, <3>1, RefusalJudged
  <2> QED BY <2>1, <2>2
<1> QED BY <1>1, <1>2, <1>3, <1>5 DEF DoUserAuthRequestNone

\* A challenge: no other one is open when the application sets it up.
LEMMA KeyboardJudged ==
    ASSUME NEW s, Asking(s), ~s.challenged, NEW v
    PROVE  Judged(SendUserAuthKeyboardRequest(s, v))
<1> DEFINE c == [s EXCEPT !.kbSetupPending = FALSE]
           t == Answer(s, Plain("INFO_REQUEST"))
           o == [t EXCEPT !.kbSetupPending = TRUE, !.challenged = TRUE]
<1>1. Asking(c)
  <2>1. /\ IsSession(c) /\ c.approved = s.approved
        /\ c.userName = s.userName /\ c.userAuthSeen = s.userAuthSeen /\ c.authId = s.authId
        /\ c.state = s.state /\ c.peerState = s.peerState /\ c.challenged = s.challenged
        /\ c.wrong = s.wrong /\ c.authFailures = s.authFailures
    BY DEF Asking, IsSession, Fields
  <2> HIDE DEF c
  <2>2. Named(c) /\ Stages(c) /\ Counted(c)
    BY <2>1 DEF Asking, Named, Stages, Counted
  <2> QED BY <2>1, <2>2 DEF Asking
<1>2. Same(s, t)
  BY AnswerSame DEF Asking
<1>3. Asking(t)
  BY <1>2, SameAsking
<1>4. /\ SendUserAuthKeyboardRequest(s, v) =
          CASE v = "SUCCESS" -> (IF t.ret \in {"SUCCESS", "WANT_WRITE"} THEN o ELSE PurgePacket(t))
            [] v = "WOULD_BLOCK" -> Return(c, "AUTH_PENDING")
            [] v = "REJECTED" -> Return(TurnedDown(c), "USER_AUTH")
            [] OTHER -> SendUserAuthFailureCount(TurnedDown(c), FALSE, TRUE)
  BY DEF SendUserAuthKeyboardRequest
<1> HIDE DEF t, c
<1>5. Judged(o)
  <2>1. /\ IsSession(o) /\ o.approved = t.approved
        /\ o.userName = t.userName /\ o.userAuthSeen = t.userAuthSeen /\ o.authId = t.authId
        /\ o.state = t.state /\ o.peerState = t.peerState /\ o.kbSetupPending
        /\ o.wrong = t.wrong /\ o.authFailures = t.authFailures
    BY <1>3 DEF Asking, IsSession, Fields
  <2> HIDE DEF o
  <2>2. Named(o) /\ Stages(o) /\ Counted(o)
    BY <1>3, <2>1 DEF Asking, Named, Stages, Counted
  <2>3. Asking(o)
    BY <1>3, <2>1, <2>2 DEF Asking
  <2> QED BY <2>3, AskingJudged
<1> HIDE DEF o
<1>6. Judged(PurgePacket(t))
  BY <1>3, PurgePacketSame, SameJudged DEF Asking
<1>7. Judged(Return(c, "AUTH_PENDING"))
  BY <1>1, ReturnSame, SameJudged DEF Asking
<1>8. Judged(Return(TurnedDown(c), "USER_AUTH"))
  BY <1>1, AskingOwing, ErrorJudged DEF Fatal
<1>9. Judged(SendUserAuthFailureCount(TurnedDown(c), FALSE, TRUE))
  BY <1>1, RefusalJudged
<1> QED BY <1>4, <1>5, <1>6, <1>7, <1>8, <1>9

\* The publickey method.
LEMMA PublicKeyJudged ==
    ASSUME NEW s, Asking(s), s.userAuthSeen, NEW m, m.user = s.userName, NEW v, NEW proof
    PROVE  Judged(DoUserAuthRequestPublicKey(s, m, v, proof))
<1>1. Judged(SendUserAuthFailureCount(TurnedDown(s), FALSE, TRUE))
  BY RefusalJudged
<1>2. Judged(AfterVerdict(s, m.user, v))
  BY AfterVerdictJudged
<1>3. Judged(SendUserAuthPkOk(s))
  BY AnswerSame, SameJudged DEF SendUserAuthPkOk, Asking
<1>4. Judged(SendUserAuthFailureCount(Approved(s, m.user), TRUE, TRUE))
  BY ApprovedAsking, FailureCountJudged
<1>5. Judged([LetIn(s, m.user) EXCEPT !.complete = TRUE])
  BY LetInJudged
<1> QED BY <1>1, <1>2, <1>3, <1>4, <1>5 DEF DoUserAuthRequestPublicKey

\* The answer to a challenge.
LEMMA InfoResponseJudged ==
    ASSUME NEW s, Asking(s), NEW m, NEW v
    PROVE  Judged(DoUserAuthInfoResponse(s, m, v))
<1> DEFINE t == [s EXCEPT !.kbSetupPending = FALSE, !.challenged = FALSE]
<1>1. /\ IsSession(t) /\ t.approved = s.approved
      /\ t.userName = s.userName /\ t.userAuthSeen = s.userAuthSeen /\ t.authId = s.authId
      /\ t.state = s.state /\ t.peerState = s.peerState /\ ~t.challenged
      /\ t.wrong = s.wrong /\ t.authFailures = s.authFailures
  BY DEF Asking, IsSession, Fields
<1>2. DoUserAuthInfoResponse(s, m, v) =
        IF s.authId # "keyboard" THEN Return(s, "FATAL")
        ELSE IF ~m.full THEN SendUserAuthFailureCount(TurnedDown(t), FALSE, TRUE)
        ELSE IF v = "ANOTHER" THEN SendUserAuthKeyboardRequest(t, "SUCCESS")
        ELSE AfterVerdict(t, s.userName, v)
  BY DEF DoUserAuthInfoResponse
<1> HIDE DEF t
<1>3. Named(t) /\ Stages(t) /\ Counted(t)
  BY <1>1 DEF Asking, Named, Stages, Counted
<1>4. Asking(t)
  BY <1>1, <1>3 DEF Asking
<1>5. Judged(Return(s, "FATAL"))
  BY AskingJudged, ErrorJudged DEF Fatal
<1>6. Judged(SendUserAuthFailureCount(TurnedDown(t), FALSE, TRUE))
  BY <1>4, RefusalJudged
<1>7. Judged(SendUserAuthKeyboardRequest(t, "SUCCESS"))
  BY <1>1, <1>4, KeyboardJudged
<1>8. s.authId = "keyboard" => Judged(AfterVerdict(t, s.userName, v))
  <2>1. s.authId = "keyboard" => t.userAuthSeen
    BY <1>1 DEF Asking, Named
  <2> QED BY <1>1, <1>4, <2>1, AfterVerdictJudged
<1> QED BY <1>2, <1>5, <1>6, <1>7, <1>8

\* A session whose open challenge, if it had one, is noted as abandoned.
Abandoning(s) ==
    /\ Owing(s) /\ ~s.challenged
    /\ s.kbSetupPending \/ s.wrong <= s.authFailures

LEMMA NoteAbandonedOwing ==
    ASSUME NEW s, Asking(s)
    PROVE  Abandoning(NoteAbandoned(s))
<1>1. CASE s.challenged
  <2> DEFINE a == [s EXCEPT !.challenged = FALSE]
  <2>1. /\ IsSession(a) /\ a.approved = s.approved
        /\ a.userName = s.userName /\ a.userAuthSeen = s.userAuthSeen /\ a.authId = s.authId
        /\ a.state = s.state /\ a.peerState = s.peerState /\ ~a.challenged
        /\ a.kbSetupPending = s.kbSetupPending
        /\ a.wrong = s.wrong /\ a.authFailures = s.authFailures
    BY DEF Asking, IsSession, Fields
  <2>2. NoteAbandoned(s) = TurnedDown(a)
    BY <1>1 DEF NoteAbandoned
  <2> HIDE DEF a
  <2>3. Named(a) /\ Stages(a) /\ Counted(a)
    BY <2>1 DEF Asking, Named, Stages, Counted
  <2>4. Asking(a)
    BY <2>1, <2>3 DEF Asking
  <2>5. Owing(TurnedDown(a))
    BY <2>4, AskingOwing
  <2>6. ~TurnedDown(a).challenged /\ TurnedDown(a).kbSetupPending = a.kbSetupPending
    BY <2>1 DEF TurnedDown, IsSession, Fields
  <2>7. a.kbSetupPending
    BY <1>1, <2>1 DEF Asking, Counted
  <2> QED BY <2>2, <2>5, <2>6, <2>7 DEF Abandoning
<1>2. CASE ~s.challenged
  <2>1. NoteAbandoned(s) = s
    BY <1>2 DEF NoteAbandoned
  <2> QED BY <1>2, <2>1, AskingOwing DEF Abandoning, Asking, Counted
<1> QED BY <1>1, <1>2

\* The challenge left behind is paid for.
LEMMA AbandonJudged ==
    ASSUME NEW s, Abandoning(s)
    PROVE  /\ Judged(AbandonChallenge(s))
           /\ AbandonChallenge(s).ret = "SUCCESS" =>
                 /\ Asking(AbandonChallenge(s))
                 /\ ~AbandonChallenge(s).challenged
                 /\ AbandonChallenge(s).userName = s.userName
                 /\ AbandonChallenge(s).userAuthSeen = s.userAuthSeen
<1> DEFINE t == [s EXCEPT !.kbSetupPending = FALSE]
           u == AbandonChallenge(s)
<1>1. /\ IsSession(t) /\ t.approved = s.approved /\ t.ret = s.ret
      /\ t.userName = s.userName /\ t.userAuthSeen = s.userAuthSeen /\ t.authId = s.authId
      /\ t.state = s.state /\ t.peerState = s.peerState /\ ~t.challenged
      /\ t.wrong = s.wrong /\ t.authFailures = s.authFailures
  BY DEF Abandoning, Owing, IsSession, Fields
<1>2. u = IF s.kbSetupPending THEN CountUserAuthFailure(t) ELSE t
  BY DEF AbandonChallenge
<1> HIDE DEF t, u
<1>3. Named(t) /\ Stages(t)
  BY <1>1 DEF Abandoning, Owing, Named, Stages
<1>4. Owing(t)
  BY <1>1, <1>3 DEF Abandoning, Owing
<1>5. CASE s.kbSetupPending
  <2>1. Judged(u) /\ (u.ret = "SUCCESS" => Asking(u))
    BY <1>2, <1>4, <1>5, CountJudged DEF Fatal
  <2>2. ~u.challenged /\ u.userName = t.userName /\ u.userAuthSeen = t.userAuthSeen
    BY <1>1, <1>2, <1>5 DEF CountUserAuthFailure, Return, IsSession, Fields
  <2> QED BY <1>1, <2>1, <2>2 DEF u
<1>6. CASE ~s.kbSetupPending
  <2>1. u = t
    BY <1>2, <1>6
  <2>2. Counted(t)
    BY <1>1, <1>6 DEF Abandoning, Owing, Counted
  <2>3. Asking(t)
    BY <1>1, <1>3, <2>2 DEF Abandoning, Owing, Asking
  <2> QED BY <1>1, <2>1, <2>3, AskingJudged DEF u
<1> QED BY <1>5, <1>6

\* A request to authenticate, whatever is in it.
LEMMA RequestJudged ==
    ASSUME NEW s, Asking(s), NEW m, NEW v, NEW proof
    PROVE  Judged(DoUserAuthRequest(s, m, v, proof))
<1> DEFINE a == NoteAbandoned(s)
           w0 == [a EXCEPT !.authId = "none"]
           w == AbandonChallenge(w0)
           n == FixUserName(a, m.user)
           b0 == [n EXCEPT !.authId = m.method, !.authRequests = n.authRequests + 1]
           b == AbandonChallenge(b0)
<1>1. Abandoning(a)
  BY NoteAbandonedOwing
<1>2. DoUserAuthRequest(s, m, v, proof) =
        IF ~m.service
        THEN IF w.ret # "SUCCESS" THEN w ELSE SendUserAuthFailureCount(w, FALSE, TRUE)
        ELSE IF n.ret # "SUCCESS" THEN n
        ELSE IF b.ret # "SUCCESS" THEN b
        ELSE DispatchMethod(b, m, v, proof)
  BY DEF DoUserAuthRequest
<1> HIDE DEF a
<1>3. Abandoning(w0)
  <2>1. /\ IsSession(w0) /\ w0.approved = a.approved
        /\ w0.userName = a.userName /\ w0.userAuthSeen = a.userAuthSeen /\ w0.authId = "none"
        /\ w0.state = a.state /\ w0.peerState = a.peerState /\ w0.challenged = a.challenged
        /\ w0.kbSetupPending = a.kbSetupPending
        /\ w0.wrong = a.wrong /\ w0.authFailures = a.authFailures
    BY <1>1 DEF Abandoning, Owing, IsSession, Fields
  <2> HIDE DEF w0
  <2>2. Named(w0) /\ Stages(w0)
    BY <1>1, <2>1 DEF Abandoning, Owing, Named, Stages
  <2> QED BY <1>1, <2>1, <2>2 DEF Abandoning, Owing
<1> HIDE DEF w0
<1>4. Judged(w) /\ (w.ret = "SUCCESS" => Judged(SendUserAuthFailureCount(w, FALSE, TRUE)))
  <2> HIDE DEF w
  <2>1. Judged(w) /\ (w.ret = "SUCCESS" => Asking(w))
    BY <1>3, AbandonJudged DEF w
  <2> QED BY <2>1, AskingOwing, FailureCountJudged
<1>5. \/ n.ret = "INVALID_STATE" /\ n = Return(a, "INVALID_STATE")
      \/ /\ n.ret = "SUCCESS" /\ n.userAuthSeen /\ n.userName = m.user
         /\ Abandoning(n)
  <2>1. CASE ~a.userAuthSeen
    <3>1. n = Return([a EXCEPT !.userName = m.user, !.userAuthSeen = TRUE], "SUCCESS")
      BY <2>1 DEF FixUserName
    <3>2. /\ IsSession(n) /\ n.ret = "SUCCESS" /\ n.approved = a.approved
          /\ n.userName = m.user /\ n.userAuthSeen = TRUE /\ n.authId = a.authId
          /\ n.state = a.state /\ n.peerState = a.peerState /\ n.challenged = a.challenged
          /\ n.kbSetupPending = a.kbSetupPending
          /\ n.wrong = a.wrong /\ n.authFailures = a.authFailures
      BY <1>1, <3>1 DEF Abandoning, Owing, IsSession, Fields, Return
    <3> HIDE DEF n
    <3>3. Named(n) /\ Stages(n)
      BY <1>1, <2>1, <3>2 DEF Abandoning, Owing, Named, Stages
    <3> QED BY <1>1, <3>2, <3>3 DEF Abandoning, Owing
  <2>2. CASE a.userAuthSeen /\ m.user # a.userName
    <3>1. n = Return(a, "INVALID_STATE")
      BY <2>2 DEF FixUserName
    <3> HIDE DEF n
    <3> QED BY <3>1, <1>1, ReturnSame DEF Abandoning, Owing
  <2>3. CASE a.userAuthSeen /\ m.user = a.userName
    <3>1. n = Return(a, "SUCCESS")
      BY <2>3 DEF FixUserName
    <3> HIDE DEF n
    <3>2. Same(a, n) /\ n.ret = "SUCCESS"
      BY <3>1, <1>1, ReturnSame DEF Abandoning, Owing
    <3>3. Owing(n)
      BY <3>2, <1>1, SameOwing DEF Abandoning
    <3> QED BY <1>1, <2>3, <3>2, <3>3 DEF Abandoning, Same
  <2> QED BY <2>1, <2>2, <2>3
<1> HIDE DEF n
<1>6. n.ret # "SUCCESS" => Judged(n)
  BY <1>1, <1>5, ErrorJudged DEF Abandoning, Fatal
<1>7. n.ret = "SUCCESS" => /\ Judged(b)
                           /\ b.ret = "SUCCESS" => /\ Asking(b) /\ ~b.challenged
                                                   /\ b.userAuthSeen /\ b.userName = m.user
  <2> SUFFICES ASSUME n.ret = "SUCCESS"
               PROVE  /\ Judged(b)
                      /\ b.ret = "SUCCESS" => /\ Asking(b) /\ ~b.challenged
                                              /\ b.userAuthSeen /\ b.userName = m.user
    OBVIOUS
  <2>1. n.userAuthSeen /\ n.userName = m.user /\ Abandoning(n)
    BY <1>5
  <2>2. /\ IsSession(b0) /\ b0.approved = n.approved
        /\ b0.userName = n.userName /\ b0.userAuthSeen = n.userAuthSeen
        /\ b0.state = n.state /\ b0.peerState = n.peerState /\ b0.challenged = n.challenged
        /\ b0.kbSetupPending = n.kbSetupPending
        /\ b0.wrong = n.wrong /\ b0.authFailures = n.authFailures
    BY <2>1 DEF Abandoning, Owing, IsSession, Fields
  <2> HIDE DEF b0
  <2>3. Named(b0) /\ Stages(b0)
    BY <2>1, <2>2 DEF Abandoning, Owing, Named, Stages
  <2>4. Abandoning(b0)
    BY <2>1, <2>2, <2>3 DEF Abandoning, Owing
  <2> QED BY <2>1, <2>2, <2>4, AbandonJudged
<1> HIDE DEF b, w
<1>8. (n.ret = "SUCCESS" /\ b.ret = "SUCCESS") => Judged(DispatchMethod(b, m, v, proof))
  BY <1>7, PasswordJudged, KeyboardJudged, PublicKeyJudged, NoneJudged DEF DispatchMethod
<1> QED BY <1>2, <1>4, <1>6, <1>7, <1>8

----------------------------------------------------------------------------
(* The steps of the server.                                                *)

\* A session in good order, in any phase.
Sound(s) == IsSession(s) /\ Stages(s) /\ Named(s) /\ Earned(s) /\ Counted(s)

LEMMA SameSound ==
    ASSUME NEW s, NEW t, Sound(s), Same(s, t)
    PROVE  Sound(t)
<1>1. IsSession(t)
  BY DEF Same
<1> QED BY <1>1, SameKeeps DEF Sound

LEMMA SameKeepsJudged ==
    ASSUME NEW s, NEW t, Judged(s), Same(s, t), t.ret = s.ret
    PROVE  Judged(t)
<1>1. IsSession(t)
  BY DEF Same
<1> QED BY <1>1, SameKeeps DEF Judged, Outcome

LEMMA SoundJudged ==
    ASSUME NEW s, Sound(s)
    PROVE  Judged(s)
  BY DEF Sound, Judged, Outcome

\* A step of a call that is running starts from a session in good order.
LEMMA KeptSound ==
    ASSUME NEW s, Kept(s), s.error \notin Fatal
    PROVE  Sound(s)
  BY DEF Kept, Sound

LEMMA SocketsTyped ==
    ASSUME NEW io \in Sockets
    PROVE  DOMAIN io = {"room", "fail"} /\ io.fail \in {"WANT_WRITE", "SOCKET"}
  BY DEF Sockets, Io, Unlimited

LEMMA OnSame ==
    ASSUME NEW s, IsSession(s), NEW io \in Sockets
    PROVE  Same(s, On(s, io)) /\ On(s, io).ret = s.ret
  BY SocketsTyped DEF On, Same, IsSession, Fields

\* The end of a step: an error that is final, or all is in order.
LEMMA SettledKept ==
    ASSUME NEW t, Judged(t)
    PROVE  Kept(Settled(t))
<1> DEFINE u == Settled(t)
<1>1. /\ IsSession(u) /\ u.approved = t.approved /\ u.complete = t.complete
      /\ u.userName = t.userName /\ u.userAuthSeen = t.userAuthSeen /\ u.authId = t.authId
      /\ u.state = t.state /\ u.peerState = t.peerState /\ u.challenged = t.challenged
      /\ u.kbSetupPending = t.kbSetupPending
      /\ u.wrong = t.wrong /\ u.authFailures = t.authFailures
  BY DEF Judged, Settled, IsSession, Fields, Unlimited
<1>2. u.error = IF t.ret = "SUCCESS" THEN "NONE" ELSE t.ret
  BY DEF Judged, Settled, IsSession, Fields
<1> HIDE DEF u
<1>3. Stages(u) /\ Named(u) /\ Earned(u)
  BY <1>1 DEF Judged, Stages, Named, Earned
<1>4. (Counted(t) => Counted(u)) /\ (Over(t) => Over(u))
  BY <1>1 DEF Counted, Over
<1>5. "SUCCESS" \notin Fatal /\ "NONE" \notin Fatal
  BY DEF Fatal
<1>6. IF u.error \in Fatal THEN Over(u) ELSE Counted(u)
  <2>1. CASE u.error \in Fatal
    BY <2>1, <1>4, CountedIsOver DEF Judged, Outcome
  <2>2. CASE u.error \notin Fatal
    BY <2>2, <1>2, <1>4, <1>5 DEF Judged, Outcome
  <2> QED BY <2>1, <2>2
<1> QED BY <1>1, <1>3, <1>6 DEF Kept, u

\* The peer comes as far as state: no further than the end of the key
\* exchange, or past a login that was earned.
LEMMA PeerStateSound ==
    ASSUME NEW s, Sound(s), NEW state \in Nat,
           state < ClientStates.USERAUTH_DONE \/ s.state >= Accept.USERAUTH_DONE
    PROVE  Sound([s EXCEPT !.peerState = state])
<1> DEFINE u == [s EXCEPT !.peerState = state]
<1>1. /\ IsSession(u) /\ u.approved = s.approved /\ u.complete = s.complete
      /\ u.userName = s.userName /\ u.userAuthSeen = s.userAuthSeen /\ u.authId = s.authId
      /\ u.state = s.state /\ u.peerState = state /\ u.challenged = s.challenged
      /\ u.kbSetupPending = s.kbSetupPending
      /\ u.wrong = s.wrong /\ u.authFailures = s.authFailures
  BY DEF Sound, IsSession, Fields
<1> HIDE DEF u
<1>2. Stages(u) /\ Named(u) /\ Counted(u)
  BY <1>1 DEF Sound, Stages, Named, Counted
<1>3. Earned(u)
  BY <1>1 DEF Sound, Earned, Stages, ClientStates, Accept
<1> QED BY <1>1, <1>2, <1>3 DEF Sound, u

LEMMA ReachedSound ==
    ASSUME NEW s, Sound(s), NEW state \in Nat, state < ClientStates.USERAUTH_DONE
    PROVE  Sound(Reached(s, state))
<1>1. Sound([s EXCEPT !.peerState = state])
  BY PeerStateSound
<1>2. Same([s EXCEPT !.peerState = state], Reached(s, state))
  <2> DEFINE u == [s EXCEPT !.peerState = state]
  <2>1. Reached(s, state) = Return(u, "SUCCESS") /\ IsSession(u)
    BY <1>1 DEF Reached, Sound
  <2> HIDE DEF u
  <2>2. Same(u, Return(u, "SUCCESS"))
    BY <2>1, ReturnSame
  <2> QED BY <2>1, <2>2 DEF u
<1> QED BY <1>1, <1>2, SameSound

\* One case of wolfSSH_accept() is over.
LEMMA AdvanceSound ==
    ASSUME NEW s, Sound(s),
           s.state # Accept.USERAUTH_ACCEPT_SENT \/ s.peerState >= ClientStates.USERAUTH_DONE
    PROVE  Sound(Advance(s)) /\ Advance(s).ret = s.ret /\ Advance(s).error = s.error
<1>1. CASE s.ret = "SUCCESS"
  <2> DEFINE u == [s EXCEPT !.state = s.state + 1]
  <2>1. /\ IsSession(u) /\ u.approved = s.approved /\ u.complete = s.complete
        /\ u.userName = s.userName /\ u.userAuthSeen = s.userAuthSeen /\ u.authId = s.authId
        /\ u.state = s.state + 1 /\ u.peerState = s.peerState /\ u.challenged = s.challenged
        /\ u.kbSetupPending = s.kbSetupPending /\ u.ret = s.ret /\ u.error = s.error
        /\ u.wrong = s.wrong /\ u.authFailures = s.authFailures
    BY DEF Sound, IsSession, Fields
  <2>2. Advance(s) = u
    BY <1>1 DEF Advance
  <2> HIDE DEF u
  <2>3. Stages(u) /\ Named(u) /\ Counted(u)
    BY <2>1 DEF Sound, Stages, Named, Counted
  <2>4. Earned(u)
    BY <2>1 DEF Sound, Earned, Stages, ClientStates, Accept
  <2> QED BY <2>1, <2>2, <2>3, <2>4 DEF Sound
<1>2. CASE s.ret # "SUCCESS"
  BY <1>2 DEF Advance
<1> QED BY <1>1, <1>2

\* Every message the server dispatches.  An authentication message is only
\* dispatched while the server waits for one.
LEMMA DispatchServerJudged ==
    ASSUME NEW s, Sound(s), NEW m, NEW v, NEW proof,
           IsMessageAllowedServer(s, m.type), ~AcceptSending(s), ~AcceptWaitOver(s)
    PROVE  Judged(DispatchServer(s, m, v, proof))
<1> DEFINE r == DispatchServer(s, m, v, proof)
<1>0. IsSession(s)
  BY DEF Sound
<1>1. CASE m.type = "KEXINIT"
  <2> DEFINE k == [s EXCEPT !.isKeying = s.isKeying \cup {"PEER"}]
  <2>1. r = Reached(k, ClientStates.KEXINIT_DONE)
    BY <1>1 DEF DispatchServer, DoKexInit
  <2>2. Same(s, k)
    BY <1>0, OtherFieldsSame
  <2> HIDE DEF k, r
  <2>3. Sound(r)
    BY <2>1, <2>2, SameSound, ReachedSound DEF ClientStates
  <2> QED BY <2>3, SoundJudged DEF r
<1>2. CASE m.type = "KEXDH_INIT"
  <2> DEFINE k == [s EXCEPT !.peerState = ClientStates.KEXDH_INIT_DONE]
  <2>1. r = SendKexDhReply(k)
    BY <1>2 DEF DispatchServer
  <2>2. Sound(k)
    BY PeerStateSound DEF ClientStates
  <2> HIDE DEF k, r
  <2>3. Sound(r)
    BY <2>1, <2>2, SendKexDhReplySame, SameSound DEF Sound
  <2> QED BY <2>3, SoundJudged DEF r
<1>3. CASE m.type = "NEWKEYS"
  <2> DEFINE k == [s EXCEPT !.isKeying = s.isKeying \ {"PEER"}]
  <2>1. r = Return(k, "SUCCESS")
    BY <1>3 DEF DispatchServer, DoNewKeys
  <2>2. Same(s, k)
    BY <1>0, OtherFieldsSame
  <2> HIDE DEF k, r
  <2>3. Sound(k)
    BY <2>2, SameSound
  <2>4. Sound(r)
    BY <2>1, <2>3, ReturnSame, SameSound DEF Sound
  <2> QED BY <2>4, SoundJudged DEF r
<1>4. CASE m.type = "SERVICE_REQUEST"
  <2>1. r = Reached(s, ClientStates.USERAUTH_REQUEST_DONE)
    BY <1>4 DEF DispatchServer
  <2> HIDE DEF r
  <2>2. Sound(r)
    BY <2>1, ReachedSound DEF ClientStates
  <2> QED BY <2>2, SoundJudged DEF r
<1>5. CASE m.type \in {"USERAUTH_REQUEST", "INFO_RESPONSE"}
  <2>0. /\ m.type # "SERVICE_REQUEST" /\ m.type # "KEXINIT"
        /\ m.type \notin KexMsgs \ {"KEXINIT"} /\ m.type \in AuthMsgs /\ m.type \notin ConnMsgs
    BY <1>5 DEF KexMsgs, AuthMsgs, ConnMsgs
  <2>1. s.state >= 5 /\ s.state < 8
    <3>1. s.state >= Accept.USERAUTH_REQUEST_DONE /\ s.state < Accept.USERAUTH_SENT
      BY <2>0 DEF IsMessageAllowedServer
    <3> QED BY <3>1 DEF Accept
  <2>2. s.state # 5 /\ s.state # 7
    BY DEF AcceptSending, AcceptSends, At, Accept
  <2>3. s.state = 6
    BY <2>1, <2>2 DEF Sound, Stages
  <2>4. ~(s.peerState >= 5)
    BY <2>3 DEF AcceptWaitOver, Accept, ClientStates
  <2>5. Asking(s)
    BY <2>3, <2>4 DEF Sound, Stages, Asking, Accept, ClientStates
  <2>6. CASE m.type = "USERAUTH_REQUEST"
    BY <2>5, <2>6, RequestJudged DEF DispatchServer
  <2>7. CASE m.type = "INFO_RESPONSE"
    BY <2>5, <2>7, InfoResponseJudged DEF DispatchServer
  <2> QED BY <1>5, <2>6, <2>7
<1>6. CASE m.type \in {"CHANNEL_OPEN", "SHELL_REQ"}
  <2>1. s.state >= 8
    BY <1>6 DEF IsMessageAllowedServer, KexMsgs, AuthMsgs, ConnMsgs, Accept
  <2>2. PICK state \in Nat : r = Send([s EXCEPT !.peerState = state],
                                      Plain(IF m.type = "CHANNEL_OPEN" THEN "OPEN_CONF"
                                            ELSE "CHANNEL_SUCCESS"))
    <3>1. CASE m.type = "CHANNEL_OPEN"
      <4>1. r = Send([s EXCEPT !.peerState = 6], Plain("OPEN_CONF"))
        BY <3>1 DEF DispatchServer, SendChannelOpenConf, ClientStates
      <4> QED BY <3>1, <4>1
    <3>2. CASE m.type = "SHELL_REQ"
      <4>1. r = Send([s EXCEPT !.peerState = 7], Plain("CHANNEL_SUCCESS"))
        BY <3>2 DEF DispatchServer, SendChannelSuccess, ClientStates
      <4> QED BY <3>2, <4>1
    <3> QED BY <1>6, <3>1, <3>2
  <2> DEFINE k == [s EXCEPT !.peerState = state]
  <2>3. Sound(k)
    BY <2>1, PeerStateSound DEF Accept, Sound, Stages
  <2> HIDE DEF k, r
  <2>4. Sound(r)
    BY <2>2, <2>3, SendSame, SameSound DEF Sound, k
  <2> QED BY <2>4, SoundJudged DEF r
<1>7. CASE m.type = "DISCONNECT"
  <2> DEFINE k == [s EXCEPT !.disconnected = TRUE]
  <2>1. r = Return(k, "DISCONNECT")
    BY <1>7 DEF DispatchServer, DoDisconnect
  <2>2. Same(s, k)
    BY <1>0, OtherFieldsSame
  <2> HIDE DEF k, r
  <2>3. Sound(k)
    BY <2>2, SameSound
  <2>4. Sound(r)
    BY <2>1, <2>3, ReturnSame, SameSound DEF Sound
  <2> QED BY <2>4, SoundJudged DEF r
<1>8. CASE m.type \notin {"KEXINIT", "KEXDH_INIT", "NEWKEYS", "SERVICE_REQUEST", "USERAUTH_REQUEST",
                          "INFO_RESPONSE", "CHANNEL_OPEN", "SHELL_REQ", "DISCONNECT"}
  <2>1. r = Return(s, "SUCCESS")
    BY <1>8 DEF DispatchServer
  <2> HIDE DEF r
  <2>2. Sound(r)
    BY <1>0, <2>1, ReturnSame, SameSound
  <2> QED BY <2>2, SoundJudged DEF r
<1> QED BY <1>1, <1>2, <1>3, <1>4, <1>5, <1>6, <1>7, <1>8

LEMMA RefuseJudged ==
    ASSUME NEW s, Sound(s)
    PROVE  Judged(Consumed(Refuse(s)))
<1> DEFINE k == [s EXCEPT !.disconnected = TRUE]
           d == Send(k, Plain("DISCONNECT"))
           f == Return(d, "MSGID_NOT_ALLOWED")
           c == [f EXCEPT !.peerSeq = f.peerSeq + 1]
<1>1. Consumed(Refuse(s)) = c
  BY DEF Consumed, Refuse, SendDisconnect
<1>2. Same(s, k)
  BY OtherFieldsSame DEF Sound
<1> HIDE DEF k
<1>3. Same(k, d)
  BY <1>2, SendSame DEF Same
<1> HIDE DEF d
<1>4. Same(d, f)
  BY <1>3, ReturnSame DEF Same
<1> HIDE DEF f
<1>5. Same(f, c)
  <2>1. IsSession(f)
    BY <1>4 DEF Same
  <2> QED BY <2>1, OtherFieldsSame
<1> HIDE DEF c
<1>6. Sound(c)
  BY <1>2, <1>3, <1>4, <1>5, SameSound
<1> QED BY <1>1, <1>6, SoundJudged

\* The bookkeeping around a message leaves what was judged alone.
LEMMA BookkeepingJudged ==
    ASSUME NEW t, Judged(t), NEW m, NEW d
    PROVE  LET u == [t EXCEPT !.deferred = d]
           IN  Judged(Consumed(Note(u, m))) /\ Judged([u EXCEPT !.held = TRUE])
<1> DEFINE u == [t EXCEPT !.deferred = d]
           n == Note(u, m)
           c == [n EXCEPT !.peerSeq = n.peerSeq + 1]
           h == [u EXCEPT !.held = TRUE]
<1>1. Same(t, u) /\ u.ret = t.ret
  BY OtherFieldsSame DEF Judged, IsSession, Fields
<1>2. Judged(u)
  <2> HIDE DEF u
  <2> QED BY <1>1, SameKeepsJudged
<1> HIDE DEF u
<1>3. Judged(n)
  <2> DEFINE a == [u EXCEPT !.asked = u.asked + 1]
  <2>1. n = a \/ n = u
    BY DEF Note
  <2>2. Same(u, a) /\ a.ret = u.ret
    BY <1>2, OtherFieldsSame DEF Judged, IsSession, Fields
  <2> HIDE DEF a, n
  <2>3. Judged(a)
    BY <1>2, <2>2, SameKeepsJudged
  <2> QED BY <1>2, <2>1, <2>3
<1> HIDE DEF n
<1>4. Judged(c)
  <2>1. Same(n, c) /\ c.ret = n.ret
    BY <1>3, OtherFieldsSame DEF Judged, IsSession, Fields
  <2> HIDE DEF c
  <2> QED BY <1>3, <2>1, SameKeepsJudged
<1>5. Judged(h)
  <2>1. Same(u, h) /\ h.ret = u.ret
    BY <1>2, OtherFieldsSame DEF Judged, IsSession, Fields
  <2> HIDE DEF h
  <2> QED BY <1>2, <2>1, SameKeepsJudged
<1> QED BY <1>4, <1>5 DEF Consumed, u, n

LEMMA InitKept == Init => IInv
<1> SUFFICES ASSUME Init PROVE Kept(server)
  BY DEF IInv
<1>1. /\ server = NewSession
  BY DEF Init
<1>2. IsSession(server)
  BY <1>1 DEF NewSession, IsSession, Fields, Unlimited
<1>3. /\ server.state = 0 /\ server.peerState = 0 /\ server.approved = {} /\ server.authId = "none"
      /\ server.wrong = 0 /\ server.authFailures = 0 /\ server.challenged = FALSE
      /\ server.error = "NONE"
  BY <1>1 DEF NewSession
<1>4. Stages(server) /\ Named(server)
  BY <1>3 DEF Stages, Named
<1>5. Earned(server)
  BY <1>3 DEF Earned, ClientStates, Accept
<1>6. Counted(server)
  BY <1>3, HandshakeAssumption DEF Counted
<1>7. server.error \notin Fatal
  BY <1>3 DEF Fatal
<1> QED BY <1>2, <1>4, <1>5, <1>6, <1>7 DEF Kept

\* What a running call of the server starts from.
LEMMA StepBegins ==
    ASSUME IInv, server.error \notin Fatal, NEW io \in Sockets
    PROVE  /\ Sound(server) /\ Sound(On(server, io))
           /\ On(server, io).state = server.state /\ On(server, io).peerState = server.peerState
           /\ On(server, io).isKeying = server.isKeying
<1>1. Sound(server)
  BY KeptSound DEF IInv
<1>2. IsSession(server)
  BY <1>1 DEF Sound
<1>3. Same(server, On(server, io))
  BY <1>2, OnSame
<1>4. On(server, io).isKeying = server.isKeying
  BY <1>2 DEF On, IsSession, Fields
<1> QED BY <1>1, <1>3, <1>4, SameSound DEF Same

LEMMA RunningNotFatal ==
    /\ \A s : Running(s) => s.error \notin Fatal
    /\ \A s : s.error \in Retry => s.error \notin Fatal
    /\ "WANT_READ" \in Retry /\ "CLOSED" \in Fatal
  BY DEF Running, Retry, Fatal

LEMMA ServerSendKept ==
    ASSUME IInv, ServerSend
    PROVE  IInv'
<1>1. PICK io \in Sockets :
        /\ Running(server) /\ AcceptSending(server)
        /\ ServerBecomes(Advance(AcceptSend(On(server, io))), io)
  BY DEF ServerSend
<1> DEFINE s == On(server, io)
           a == AcceptSend(s)
<1>2. Sound(s) /\ s.state = server.state
  BY <1>1, StepBegins, RunningNotFatal
<1>3. server' = Settled(Advance(a))
  BY <1>1 DEF ServerBecomes
<1> HIDE DEF s
<1>4. AcceptSending(s)
  BY <1>1, <1>2 DEF AcceptSending
<1>5. Same(s, a)
  BY <1>2, <1>4, AcceptSendSame DEF Sound
<1> HIDE DEF a
<1>6. Sound(a) /\ a.state = s.state
  BY <1>2, <1>5, SameSound DEF Same
<1>7. a.state # Accept.USERAUTH_ACCEPT_SENT
  BY <1>4, <1>6 DEF AcceptSending, AcceptSends, At, Accept
<1>8. Judged(Advance(a))
  BY <1>6, <1>7, AdvanceSound, SoundJudged
<1> QED BY <1>3, <1>8, SettledKept DEF IInv

LEMMA ServerAdvanceKept ==
    ASSUME IInv, ServerAdvance
    PROVE  IInv'
<1>1. Running(server) /\ AcceptWaitOver(server) /\ server' = Advance(server)
  BY DEF ServerAdvance
<1>2. Sound(server) /\ server.error \notin Fatal
  BY <1>1, KeptSound, RunningNotFatal DEF IInv
<1>3. server.state # Accept.USERAUTH_ACCEPT_SENT \/ server.peerState >= ClientStates.USERAUTH_DONE
  BY <1>1 DEF AcceptWaitOver, Accept
<1>4. Sound(server') /\ server'.error = server.error
  BY <1>1, <1>2, <1>3, AdvanceSound
<1> QED BY <1>2, <1>4 DEF IInv, Kept, Sound

LEMMA ServerReceiveKept ==
    ASSUME IInv, ServerReceive
    PROVE  IInv'
<1> DEFINE m == Head(toServer)
<1>1. PICK io \in Sockets :
        LET s == On(server, io) IN
           IF s.state = Accept.VERSION_SENT
           THEN ServerBecomes(DoProtoId(s, m, ClientStates.VERSION_DONE), io)
           ELSE IF ~Genuine(s, m) THEN ServerBecomes(Return(s, "MAC"), io)
           ELSE IF ~IsMessageAllowedServer(s, m.type)
           THEN ServerBecomes(Consumed(Refuse(s)), io)
           ELSE \E v \in VerdictsOn(m), proof \in ProofsOn(m) :
                    LET t == DispatchServer(s, m, v, proof)
                        u == [t EXCEPT !.deferred = IF v \in {"WOULD_BLOCK", "ANOTHER"}
                                                    THEN t.deferred + 1 ELSE t.deferred]
                    IN  \/ ServerBecomes(Consumed(Note(u, m)), io)
                        \/ ServerBecomes([u EXCEPT !.held = TRUE], io)
  BY DEF ServerReceive
<1> DEFINE s == On(server, io)
<1>2. Running(server) /\ ~AcceptSending(server) /\ ~AcceptWaitOver(server)
  BY DEF ServerReceive, ServerReads
<1>3. Sound(s) /\ s.state = server.state /\ s.peerState = server.peerState /\ s.isKeying = server.isKeying
  BY <1>2, StepBegins, RunningNotFatal
<1> HIDE DEF s, m
<1>4. ~AcceptSending(s) /\ ~AcceptWaitOver(s)
  BY <1>2, <1>3 DEF AcceptSending, AcceptWaitOver
<1>5. \A t : ServerBecomes(t, io) => server' = Settled(t)
  BY DEF ServerBecomes
<1>6. \A t : Judged(t) => Kept(Settled(t))
  BY SettledKept
<1>7. Judged(DoProtoId(s, m, ClientStates.VERSION_DONE))
  <2>1. Sound(Reached(s, ClientStates.VERSION_DONE))
    BY <1>3, ReachedSound DEF ClientStates
  <2>2. Sound(Return(s, "FATAL"))
    BY <1>3, ReturnSame, SameSound DEF Sound
  <2> QED BY <2>1, <2>2, SoundJudged DEF DoProtoId
<1>8. Judged(Return(s, "MAC"))
  BY <1>3, ReturnSame, SameSound, SoundJudged DEF Sound
<1>9. Judged(Consumed(Refuse(s)))
  BY <1>3, RefuseJudged
<1>10. ASSUME NEW v, NEW proof, NEW d, IsMessageAllowedServer(s, m.type)
       PROVE  LET u == [DispatchServer(s, m, v, proof) EXCEPT !.deferred = d]
              IN  Judged(Consumed(Note(u, m))) /\ Judged([u EXCEPT !.held = TRUE])
  <2> DEFINE t == DispatchServer(s, m, v, proof)
  <2>1. Judged(t)
    BY <1>3, <1>4, <1>10, DispatchServerJudged
  <2> HIDE DEF t
  <2>2. LET u == [t EXCEPT !.deferred = d]
        IN  Judged(Consumed(Note(u, m))) /\ Judged([u EXCEPT !.held = TRUE])
    BY <2>1, BookkeepingJudged
  <2> QED BY <2>2 DEF t
<1>11. \E t : Judged(t) /\ ServerBecomes(t, io)
  <2>1. CASE s.state = Accept.VERSION_SENT
    BY <1>1, <1>7, <2>1 DEF s
  <2>2. CASE s.state # Accept.VERSION_SENT /\ ~Genuine(s, m)
    BY <1>1, <1>8, <2>2 DEF s
  <2>3. CASE s.state # Accept.VERSION_SENT /\ Genuine(s, m) /\ ~IsMessageAllowedServer(s, m.type)
    BY <1>1, <1>9, <2>3 DEF s
  <2>4. CASE s.state # Accept.VERSION_SENT /\ Genuine(s, m) /\ IsMessageAllowedServer(s, m.type)
    <3>1. \E v \in VerdictsOn(m), proof \in ProofsOn(m) :
             LET t == DispatchServer(s, m, v, proof)
                 u == [t EXCEPT !.deferred = IF v \in {"WOULD_BLOCK", "ANOTHER"}
                                             THEN t.deferred + 1 ELSE t.deferred]
             IN  \/ ServerBecomes(Consumed(Note(u, m)), io)
                 \/ ServerBecomes([u EXCEPT !.held = TRUE], io)
      BY <1>1, <2>4 DEF s
    <3>2. PICK v \in VerdictsOn(m), proof \in ProofsOn(m) :
             LET t == DispatchServer(s, m, v, proof)
                 u == [t EXCEPT !.deferred = IF v \in {"WOULD_BLOCK", "ANOTHER"}
                                             THEN t.deferred + 1 ELSE t.deferred]
             IN  \/ ServerBecomes(Consumed(Note(u, m)), io)
                 \/ ServerBecomes([u EXCEPT !.held = TRUE], io)
      BY <3>1
    <3> DEFINE t == DispatchServer(s, m, v, proof)
               d == IF v \in {"WOULD_BLOCK", "ANOTHER"} THEN t.deferred + 1 ELSE t.deferred
               u == [t EXCEPT !.deferred = d]
    <3>3. \/ ServerBecomes(Consumed(Note(u, m)), io)
          \/ ServerBecomes([u EXCEPT !.held = TRUE], io)
      BY <3>2
    <3> HIDE DEF d
    <3>4. Judged(Consumed(Note(u, m))) /\ Judged([u EXCEPT !.held = TRUE])
      BY <2>4, <1>10
    <3> HIDE DEF u
    <3> QED BY <3>3, <3>4
  <2> QED BY <2>1, <2>2, <2>3, <2>4
<1> QED BY <1>5, <1>6, <1>11 DEF IInv

LEMMA ServerStarveKept ==
    ASSUME IInv, ServerStarve
    PROVE  IInv'
<1>1. Running(server) /\ server' = Starve(server, client.closed)
  BY DEF ServerStarve, ServerReads
<1>2. Sound(server)
  BY <1>1, KeptSound, RunningNotFatal DEF IInv
<1> DEFINE e == IF client.closed THEN "CLOSED" ELSE "WANT_READ"
<1>3. server' = [server EXCEPT !.error = e]
  BY <1>1 DEF Starve
<1> HIDE DEF e
<1>4. /\ IsSession(server') /\ server'.approved = server.approved
      /\ server'.complete = server.complete /\ server'.userName = server.userName
      /\ server'.userAuthSeen = server.userAuthSeen /\ server'.authId = server.authId
      /\ server'.state = server.state /\ server'.peerState = server.peerState
      /\ server'.challenged = server.challenged
      /\ server'.kbSetupPending = server.kbSetupPending
      /\ server'.wrong = server.wrong /\ server'.authFailures = server.authFailures
  BY <1>2, <1>3 DEF Sound, IsSession, Fields
<1>5. Stages(server') /\ Named(server') /\ Earned(server') /\ Counted(server')
  BY <1>2, <1>4 DEF Sound, Stages, Named, Earned, Counted
<1>6. Over(server')
  BY <1>5, CountedIsOver
<1> QED BY <1>4, <1>5, <1>6 DEF IInv, Kept

LEMMA ServerCallKept ==
    ASSUME IInv, ServerCall
    PROVE  IInv'
<1>1. PICK io \in Sockets :
        /\ server.error \in Retry
        /\ ServerBecomes([Reenter(On(server, io), AcceptMultiSend, Accept.ESTABLISHED)
                            EXCEPT !.held = FALSE], io)
  BY DEF ServerCall
<1> DEFINE s == On(server, io)
           r == Reenter(s, AcceptMultiSend, Accept.ESTABLISHED)
           h == [r EXCEPT !.held = FALSE]
<1>2. Sound(s)
  BY <1>1, StepBegins, RunningNotFatal
<1>3. server' = Settled(h)
  BY <1>1 DEF ServerBecomes
<1> HIDE DEF s
<1>4. Sound(r)
  <2>1. Sound(Return(s, "SUCCESS"))
    BY <1>2, ReturnSame, SameSound DEF Sound
  <2>2. Same(s, SendPacket(s))
    BY <1>2, SendPacketSame DEF Sound
  <2>3. Sound(SendPacket(s)) /\ SendPacket(s).state = s.state
    BY <1>2, <2>2, SameSound DEF Same
  <2>4. s.state \notin AcceptMultiSend => s.state # Accept.USERAUTH_ACCEPT_SENT
    <3>1. Accept.USERAUTH_ACCEPT_SENT \in AcceptMultiSend
      BY DEF AcceptMultiSend, At
    <3> QED BY <3>1
  <2>5. s.state \notin AcceptMultiSend => Sound(Advance(SendPacket(s)))
    BY <2>3, <2>4, AdvanceSound
  <2> QED BY <2>1, <2>3, <2>5 DEF Reenter
<1> HIDE DEF r
<1>5. Judged(h)
  <2>1. Same(r, h)
    BY <1>4, OtherFieldsSame DEF Sound
  <2> HIDE DEF h
  <2> QED BY <1>4, <2>1, SameSound, SoundJudged
<1> HIDE DEF h
<1> QED BY <1>3, <1>5, SettledKept DEF IInv

LEMMA ServerKeepaliveKept ==
    ASSUME IInv, ServerKeepalive
    PROVE  IInv'
<1>1. PICK io \in Sockets :
        /\ server.error = "WANT_READ"
        /\ server' = [Settled(SendIgnore(On(server, io)))
                        EXCEPT !.error = IF SendIgnore(On(server, io)).ret = "SUCCESS" THEN "WANT_READ"
                                         ELSE SendIgnore(On(server, io)).ret]
  BY DEF ServerKeepalive
<1> DEFINE s == On(server, io)
           t == SendIgnore(s)
           u == Settled(t)
<1>2. Sound(s)
  BY <1>1, StepBegins, RunningNotFatal
<1> HIDE DEF s
<1>3. Sound(t)
  BY <1>2, SendSame, SameSound DEF SendIgnore, Sound
<1>4. server' = [u EXCEPT !.error = IF t.ret = "SUCCESS" THEN "WANT_READ" ELSE t.ret]
  BY <1>1 DEF s
<1> HIDE DEF t
<1>5. Sound(u)
  <2>1. Kept(u)
    BY <1>3, SoundJudged, SettledKept
  <2>2. u.wrong = t.wrong /\ u.authFailures = t.authFailures /\ u.challenged = t.challenged
        /\ u.kbSetupPending = t.kbSetupPending
    BY <1>3 DEF Settled, Sound, IsSession, Fields
  <2> HIDE DEF u
  <2>3. Counted(u)
    BY <1>3, <2>2 DEF Sound, Counted
  <2> QED BY <2>1, <2>3 DEF Kept, Sound
<1> HIDE DEF u
<1> DEFINE e == IF t.ret = "SUCCESS" THEN "WANT_READ" ELSE t.ret
<1> HIDE DEF e
<1>6. server' = [u EXCEPT !.error = e]
  BY <1>4 DEF e
<1>7. /\ IsSession(server') /\ server'.approved = u.approved
      /\ server'.complete = u.complete /\ server'.userName = u.userName
      /\ server'.userAuthSeen = u.userAuthSeen /\ server'.authId = u.authId
      /\ server'.state = u.state /\ server'.peerState = u.peerState
      /\ server'.challenged = u.challenged
      /\ server'.kbSetupPending = u.kbSetupPending
      /\ server'.wrong = u.wrong /\ server'.authFailures = u.authFailures
  BY <1>5, <1>6 DEF Sound, IsSession, Fields
<1>8. Stages(server') /\ Named(server') /\ Earned(server') /\ Counted(server')
  BY <1>5, <1>7 DEF Sound, Stages, Named, Earned, Counted
<1>9. Over(server')
  BY <1>8, CountedIsOver
<1> QED BY <1>7, <1>8, <1>9 DEF IInv, Kept

LEMMA ServerShutdownKept ==
    ASSUME IInv, ServerShutdown
    PROVE  IInv'
<1> DEFINE t == Shutdown(server)
<1>1. /\ server.error \in Fatal
      /\ server' = [t EXCEPT !.closed = TRUE, !.tx = <<>>, !.io = Unlimited, !.ret = "SUCCESS"]
  BY DEF ServerShutdown
<1>2. Same(server, t)
  BY SameRefl, SendPacketSame DEF Shutdown, IInv, Kept
<1> HIDE DEF t
<1>3. Same(t, server')
  BY <1>1, <1>2 DEF Same, IsSession, Fields, Unlimited
<1>4. Same(server, server')
  BY <1>2, <1>3, SameTrans
<1>5. IsSession(server') /\ server'.error = server.error
  BY <1>4 DEF Same
<1>6. Stages(server') /\ Named(server') /\ Earned(server') /\ Over(server')
  BY <1>1, <1>4, SameKeeps DEF IInv, Kept
<1> QED BY <1>1, <1>5, <1>6 DEF IInv, Kept

\* The inductive invariant of the server's authentication: approvals are for
\* the name the first request fixed, being past authentication means a
\* complete approval, and the wrong guesses are covered by the counter.
THEOREM HandshakeInvariant == Spec => []IInv
<1>1. Init => IInv
  BY InitKept
<1>2. IInv /\ [Next]_vars => IInv'
  <2> SUFFICES ASSUME IInv, [Next]_vars PROVE IInv'
    OBVIOUS
  <2>1. CASE server' = server
    BY <2>1 DEF IInv, Kept, IsSession, Stages, Named, Earned, Counted, Over
  <2>2. CASE ServerSend
    BY <2>2, ServerSendKept
  <2>3. CASE ServerAdvance
    BY <2>3, ServerAdvanceKept
  <2>4. CASE ServerReceive
    BY <2>4, ServerReceiveKept
  <2>5. CASE ServerStarve
    BY <2>5, ServerStarveKept
  <2>6. CASE ServerCall
    BY <2>6, ServerCallKept
  <2>7. CASE ServerKeepalive
    BY <2>7, ServerKeepaliveKept
  <2>8. CASE ServerShutdown
    BY <2>8, ServerShutdownKept
  <2>9. ClientSend \/ ClientAdvance \/ ClientReceive \/ ClientStarve \/ ClientCall
            \/ ClientKeepalive \/ ClientShutdown \/ AnySend \/ UNCHANGED vars => server' = server
    BY DEF ClientSend, ClientAdvance, ClientReceive, ClientStarve, ClientCall, ClientKeepalive,
           ClientShutdown, AnySend, vars
  <2> QED BY <2>1, <2>2, <2>3, <2>4, <2>5, <2>6, <2>7, <2>8, <2>9 DEF Next
<1> QED BY <1>1, <1>2, PTL DEF Spec

\* Whoever passes user authentication did so with a complete verdict of the
\* application, and every credential approved on the way was for the user
\* who is let in (DoUserAuthRequest() and the handlers it calls).
THEOREM LoginEarnedAlways == Spec => []LoginEarned
<1>1. IInv => LoginEarned
  BY DEF IInv, Kept, Earned, LoginEarned, Stages, ClientStates
<1> QED BY <1>1, HandshakeInvariant, PTL

\* A client gets maxAuthAttempts wrong guesses and abandoned challenges,
\* however it mixes the methods (CountUserAuthFailure() and its callers).
THEOREM GuessesBoundedAlways == Spec => []GuessesBounded
<1>1. IInv => GuessesBounded
  BY HandshakeAssumption DEF IInv, Kept, Over, Counted, GuessesBounded
<1> QED BY <1>1, HandshakeInvariant, PTL
=============================================================================
