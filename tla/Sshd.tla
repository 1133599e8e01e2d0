-------------------------------- MODULE Sshd --------------------------------
(***************************************************************************)
(* wolfsshd (apps/wolfsshd/wolfsshd.c): the daemon from its start to the   *)
(* process it forks for a connection, and that process from the login of   *)
(* its peer to the end of what it serves.                                  *)
(*                                                                         *)
(* A behaviour is one job, the files and accounts of a host, and one peer  *)
(* that tries to log in and asks for a session.  Processes of different    *)
(* connections share nothing, so one is enough.  The library's part of a   *)
(* login is module Handshake, the transfers are Sftp and Scp; here they    *)
(* are single steps.                                                       *)
(***************************************************************************)
EXTENDS SshdAuth, SshdRelay

VARIABLES
    sd,          \* the daemon: pc, ids, auth, port, PID file
    conn         \* the process of the connection

vars == <<job, confVars, relayVars, sd, conn>>

NoServed == [what |-> "none", cmd |-> <<>>, k |-> J.ids]

Init ==
    /\ ConfigInit
    /\ RelayInit
    /\ sd = [pc |-> "load", k |-> J.ids, auth |-> {}, port |-> 0, pid |-> "untouched"]
    /\ conn = [pc |-> "none", who |-> 0, k |-> J.ids, auth |-> {}, ucs |-> {}, tries |-> 0,
               offered |-> {}, user |-> "", login |-> 0, asks |-> 0, grant |-> 0, alarm |-> "off", expired |-> FALSE,
               served |-> NoServed]

----------------------------------------------------------------------------
(* The daemon.                                                             *)

(* What a file holds, in a set; one that cannot be had, or that others     *)
(* could have written, gives nothing.                                      *)
getBufferFromFile(file, class) ==
    LET p == Resolved(<<file>>)
    IN IF \/ file = Missing \/ p \notin DOMAIN J.fs
          \/ class # "NORMAL" /\ ~OpenSecureFile(<<file>>, sd.k.eu, class = "SECRET")
       THEN {} ELSE {J.fs[p].holds}

UseHostKey(c) == getBufferFromFile(c.HostKey, "SECRET") = {"key"}

UseHostCertificate(c) ==
    c.HostCertificate # Missing => getBufferFromFile(c.HostCertificate, "TRUST") = {"x509"}

(* A file that is no certificate may hold keys of OpenSSH.                 *)
UseUserCAKeys(c) ==
    c.TrustedUserCAKeys # Missing => getBufferFromFile(c.TrustedUserCAKeys, "TRUST") \notin {{}, {""}}

UPNDomainsUnused(conf) == \A i \in DOMAIN conf : conf[i].val.AuthorizedUPNDomains = <<>>

SetupCTX(conf) ==
    LET c == conf[1].val
    IN /\ UseHostKey(c) /\ UseHostCertificate(c)
       /\ ~c.SystemCAKeys /\ ~c.UserCAStore
       /\ UseUserCAKeys(c) /\ UPNDomainsUnused(conf)

SdStep(pc) == sd' = [sd EXCEPT !.pc = pc]
OnlySd == UNCHANGED <<job, frames, loadRet, relayVars, conn>>

Load == sd.pc = "load" /\ ConfigLoad /\ UNCHANGED <<relayVars, sd, conn>>

(* Options of the command line win over the file.                          *)
Arguments(conf) ==
    IF J.args.hostKey = Missing THEN conf
    ELSE [conf EXCEPT ![1].val.HostKey = J.args.hostKey]

StartSSHD ==
    /\ sd.pc = "load" /\ loadRet # "loading"
    /\ \E conf \in {Arguments(nodes)} : \E auth \in {AuthCreateUser(conf, sd.k)} :
          IF loadRet = "failed" \/ ~SetupCTX(conf) \/ auth = {}
          THEN SdStep("failed") /\ UNCHANGED nodes
          ELSE /\ nodes' = conf
               /\ sd' = [sd EXCEPT !.pc = "daemonize", !.auth = auth,
                                   !.port = IF J.args.port # 0 THEN J.args.port ELSE conf[1].val.Port]
    /\ OnlySd

Daemonize ==
    /\ sd.pc = "daemonize"
    /\ SdStep(IF J.args.daemon /\ Faulty("start", "daemonize") THEN "failed" ELSE "listen")
    /\ OnlySd /\ UNCHANGED nodes

(* The PID file: an existing one is only written if it is plain, has no    *)
(* other name and nobody else owns it.  A failure is no reason to stop.    *)
ConfigSavePID ==
    LET path == <<nodes[1].val.PidFile>>
        exists == path \in DOMAIN J.fs
        f == J.fs[path]
    IN IF \/ nodes[1].val.PidFile = Missing \/ path \in DOMAIN J.links
          \/ exists /\ (~f.regular \/ f.linked \/ f.owner \notin {sd.k.eu, 0})
       THEN "untouched"
       ELSE IF Faulty("start", "fchmod") THEN IF exists THEN "untouched" ELSE "removed"
       ELSE IF Faulty("start", "write") THEN "removed" ELSE "written"

Listen ==
    /\ sd.pc = "listen"
    /\ \E a \in sd.auth : \E down \in {AuthReducePermissions(nodes, a, sd.k, "start")} :
          IF J.args.test THEN SdStep("tested")
          ELSE sd' = [sd EXCEPT !.pc = IF down.ok THEN "accepting" ELSE "failed",
                                !.k = down.k, !.pid = ConfigSavePID]
    /\ OnlySd /\ UNCHANGED nodes

(* SIGINT ends the loop of the daemon.  A connection does not notice, so   *)
(* one before it comes and one after it is gone are enough.                *)
Interrupt ==
    /\ sd.pc = "accepting" /\ conn.pc \in {"none", "closed"}
    /\ SdStep("quit") /\ OnlySd /\ UNCHANGED nodes

Armed == IF nodes[1].val.LoginGraceTime > 0 THEN "armed" ELSE "off"

(* A connection that gets no process is closed, and so is one without      *)
(* memory for its session.                                                 *)
NewConnection ==
    /\ sd.pc = "accepting" /\ conn.pc = "none"
    /\ \E w \in DOMAIN J.peers :
        conn' = IF Faulty("start", "fork") THEN [conn EXCEPT !.pc = "closed"]
                ELSE [conn EXCEPT !.pc = "login", !.who = w, !.k = sd.k, !.alarm = Armed,
                                  !.auth = {AuthSetPeerIp(a, J.ip) : a \in sd.auth}]
    /\ UNCHANGED <<job, confVars, relayVars, sd>>

----------------------------------------------------------------------------
(* Login.                                                                  *)

OnlyConn == UNCHANGED <<job, confVars, relayVars, sd>>
Auth == CHOOSE a \in conn.auth : TRUE
P == J.peers[conn.who]
Closing(c) == [c EXCEPT !.pc = "closing"]
Exited(c) == [c EXCEPT !.pc = "closed"]

(* The library reports only a signature that was checked.                  *)
UserAuthResult(c, req) ==
    [c EXCEPT !.alarm = "off",
              !.auth = IF req.pk.form = "ossh" /\ req.pk.cmd # <<>>
                       THEN {AuthSetCertForcedCmd(a, req.pk.cmd) : a \in @} ELSE @]

LoggedIn(c, req) == [c EXCEPT !.pc = "request", !.user = req.user, !.login = c.tries]

(* A request comes and the configuration of its user is looked up.         *)
Login ==
    /\ conn.pc = "login" /\ conn.alarm # "fired" /\ conn.tries < Len(P.tries)
    /\ conn' = [conn EXCEPT !.pc = "auth", !.tries = @ + 1,
                            !.ucs = AuthGetUserConf(nodes, P.tries[conn.tries + 1].user, "auth")]
    /\ OnlyConn

(* A key without a signature is a question, answered and forgotten.        *)
Answered(ret, c, req) ==
    LET again == [c EXCEPT !.pc = "login"]
        failed == [again EXCEPT !.offered = DefaultUserAuthTypes(nodes, c.ucs, req.user)]
    IN CASE ret = "exit" -> Exited(c)
         [] ret = "REJECTED" -> Closing(c)
         [] ret = "SUCCESS" /\ req.method = "password" -> LoggedIn(c, req)
         [] ret = "SUCCESS" /\ req.method = "publickey" ->
                IF req.pk.sig = "good" THEN LoggedIn(UserAuthResult(c, req), req)
                ELSE IF req.pk.sig = "none" THEN again ELSE failed
         [] OTHER -> failed

Authenticate ==
    /\ conn.pc = "auth"
    /\ \E req \in {P.tries[conn.tries]} :
       \E a \in {DefaultUserAuth(nodes, conn.ucs, req, Auth, conn.k)} :
            conn' = Answered(a.ret, [conn EXCEPT !.auth = {a.auth}, !.k = a.k], req)
    /\ OnlyConn

(* A second session on the channel is refused, whatever it asks for.       *)
SessionRequestCb(ask, granted) ==
    /\ \/ ask.type = "shell"
       \/ ask.type = "exec" /\ ask.cmd # <<>>
       \/ ask.type = "subsystem" /\ ask.cmd = <<"sftp">>
    /\ ~granted

Request ==
    /\ conn.pc \in {"request", "serve"} /\ conn.alarm # "fired" /\ conn.asks < Len(P.asks)
    /\ LET i == conn.asks + 1
       IN conn' = IF ~SessionRequestCb(P.asks[i], conn.grant # 0) THEN [conn EXCEPT !.asks = i]
                  ELSE [conn EXCEPT !.asks = i, !.grant = i, !.alarm = "off",
                                    !.pc = IF @ = "request" THEN "dispatch" ELSE @]
    /\ OnlyConn

alarmCatch ==
    /\ conn.pc \in {"login", "request"} /\ conn.alarm = "armed"
    /\ conn' = [conn EXCEPT !.alarm = "fired"]
    /\ OnlyConn

LoginGraceExpired ==
    /\ conn.pc \in {"login", "request"} /\ conn.alarm = "fired"
    /\ conn' = [Closing(conn) EXCEPT !.expired = TRUE]
    /\ OnlyConn

(* A peer may go away before it is served.                                 *)
PeerGivesUp ==
    /\ conn.pc \in {"login", "request"}
    /\ conn' = Exited(conn)
    /\ OnlyConn

----------------------------------------------------------------------------
(* Service.                                                                *)

GetEffectiveForcedCmd(uc) == AuthMergeForcedCmd(uc.ForceCommand, Auth.certCmd)
GetCertForcedCmd == Auth.certCmd
ForcedCmdIsInternalSftp(cmd) == cmd # <<>> /\ cmd[1] = "internal-sftp"
ForcedCmdDeniesSftp(cmd) == cmd # <<>> /\ (~ForcedCmdIsInternalSftp(cmd) \/ Len(cmd) > 1)

IsRootTransferBlocked(pw, uc) ==
    /\ pw.uid = 0 /\ uc.PermitRootLogin = "FORCED_CMD"
    /\ uc.ForceCommand = <<>> \/ ForcedCmdDeniesSftp(uc.ForceCommand)

RejectRootTransfer(pw, uc) == IsRootTransferBlocked(pw, uc)

SftpAllowed(pw, uc) ==
    /\ ~ForcedCmdDeniesSftp(GetCertForcedCmd) /\ ~ForcedCmdDeniesSftp(uc.ForceCommand)
    /\ ~RejectRootTransfer(pw, uc)

ScpAllowed(pw, uc) ==
    GetCertForcedCmd = <<>> /\ uc.ForceCommand = <<>> /\ ~RejectRootTransfer(pw, uc)

SetupChroot(k, uc) ==
    IF uc.ChrootDirectory = Missing THEN Done(k) ELSE chroot(k, uc.ChrootDirectory, "serve")

Granted == P.asks[conn.grant]
IsScp == Granted.type = "exec" /\ Granted.scp
UserConf == CHOOSE uc \in conn.ucs : TRUE
UserPw == CHOOSE pw \in GetPwnam(conn.user) : TRUE

(* What the peer was granted is looked at once more under the rules of the *)
(* user that logged in.                                                    *)
HandleConnection ==
    /\ conn.pc = "dispatch"
    /\ \E ucs \in {AuthGetUserConf(nodes, conn.user, "serve")} :
          LET Allowed(pw, uc) == /\ Granted.type = "subsystem" => SftpAllowed(pw, uc)
                                 /\ IsScp => ScpAllowed(pw, uc)
          IN conn' = IF \E uc \in ucs, pw \in GetPwnam(conn.user) : Allowed(pw, uc)
                     THEN [conn EXCEPT !.pc = "raise", !.ucs = ucs] ELSE Closing(conn)
    /\ OnlyConn

(* The command of a shell session.                                         *)
Command ==
    LET forced == GetEffectiveForcedCmd(UserConf)
    IN IF forced # <<>> THEN forced ELSE IF Granted.type = "shell" THEN <<>> ELSE Granted.cmd
IsTransfer == Granted.type = "subsystem" \/ IsScp

Raise ==
    /\ conn.pc = "raise"
    /\ IF ~IsTransfer /\ ForcedCmdIsInternalSftp(Command) THEN conn' = Closing(conn)
       ELSE \E up \in {AuthRaisePermissions(nodes, Auth, conn.k, "serve")} :
                conn' = [conn EXCEPT !.k = up.k, !.pc = IF up.ok THEN "become" ELSE "closing"]
    /\ OnlyConn

(* Groups and root, which need the raised ids.                             *)
Confined(k, pw, uc) ==
    LET Rooted(g) == Then(g, SetupChroot(g.k, uc)) IN Rooted(AuthSetGroups(k, pw, "serve"))
Become(k, pw) == AuthReducePermissionsUser(k, pw.uid, pw.gid, "serve")

(* A transfer runs in this process, which becomes the user even if it will *)
(* not serve.                                                              *)
TransferSubsystem(what) ==
    /\ \E r \in {Confined(conn.k, UserPw, UserConf)} : \E down \in {Become(r.k, UserPw)} :
          LET c == [conn EXCEPT !.k = down.k]
          IN conn' = IF ~down.ok THEN Exited(c) ELSE IF ~r.ok THEN Closing(c)
                     ELSE [c EXCEPT !.pc = "serve",
                                    !.served = [what |-> what, cmd |-> <<>>, k |-> down.k]]
    /\ OnlyConn

SFTP_Subsystem == conn.pc = "become" /\ Granted.type = "subsystem" /\ TransferSubsystem("sftp")
SCP_Subsystem == conn.pc = "become" /\ IsScp /\ TransferSubsystem("scp")

(* Without its channel or its terminal the child is killed.                *)
SHELL_AbortChild == \E call \in {"pipe", "forkpty", "channel", "tcsetattr"} : Faulty("serve", call)

(* What becomes of the child between fork and exec.                        *)
ChildSetup(k) ==
    LET Last2(r) == Then(r, Become(r.k, UserPw)) IN Last2(Confined(k, UserPw, UserConf))

ShellRefused ==
    /\ SHELL_AbortChild
    /\ \E back \in {AuthReducePermissions(nodes, Auth, conn.k, "serve")} :
          conn' = [conn EXCEPT !.k = back.k, !.pc = IF back.ok THEN "closing" ELSE "closed"]
    /\ UNCHANGED relayVars

(* The parent becomes the user too; if it cannot it exits.                 *)
ShellStarted ==
    /\ ~SHELL_AbortChild
    /\ \E cmd \in {Command}, down \in {Become(conn.k, UserPw)}, child \in {ChildSetup(conn.k)} :
          IF ~down.ok THEN conn' = Exited([conn EXCEPT !.k = down.k]) /\ UNCHANGED relayVars
          ELSE /\ conn' = [conn EXCEPT !.pc = "serve", !.k = down.k, !.served =
                    [what |-> IF ~child.ok THEN "none" ELSE IF cmd = <<>> THEN "shell" ELSE "command",
                     cmd |-> cmd, k |-> child.k]]
               /\ RelayStart(P.relay, Granted.pty /\ cmd = <<>>, child.ok)

SHELL_Subsystem ==
    /\ conn.pc = "become" /\ ~IsTransfer
    /\ ShellRefused \/ ShellStarted
    /\ UNCHANGED <<job, confVars, sd>>

Relays == rel.pc # "off"

ServiceEnds ==
    /\ conn.pc = "serve" /\ (Relays => rel.pc = "over")
    /\ conn' = Closing(conn)
    /\ OnlyConn

(* wolfSSH_shutdown() ends and closes the channel; what the socket has not *)
(* taken follows within ten seconds or is lost.                            *)
Shutdown ==
    /\ conn.pc = "closing"
    /\ conn' = [conn EXCEPT !.pc = "closed"]
    /\ IF rel.end = "error" \/ chan.stuck THEN UNCHANGED <<chan, peer>>
       ELSE chan' = Flushed(chan) /\ peer' = [FlushedTo(chan, peer) EXCEPT !.closed = TRUE]
    /\ UNCHANGED <<job, confVars, rel, kid, pipe, sd>>

Session ==
    \/ Login \/ Authenticate \/ Request \/ LoginGraceExpired
    \/ HandleConnection \/ Raise \/ SFTP_Subsystem \/ SCP_Subsystem \/ SHELL_Subsystem
    \/ ServiceEnds \/ Shutdown

Relay(step) == step /\ UNCHANGED <<job, confVars, sd, conn>>

Finished ==
    /\ conn.pc = "closed" \/ sd.pc \in {"failed", "tested", "quit"}
    /\ UNCHANGED vars

Next ==
    \/ Load \/ StartSSHD \/ Daemonize \/ Listen \/ Interrupt \/ NewConnection
    \/ Session \/ alarmCatch \/ PeerGivesUp
    \/ Relay(Parent) \/ Relay(Child) \/ Relay(BackgroundEnds) \/ Relay(SocketDrains)
    \/ Relay(PeerSends) \/ Relay(PeerCredits) \/ Relay(PeerLeaves)
    \/ Finished

Spec == Init /\ [][Next]_vars

(* Processes are scheduled, the child and what it leaves behind come to an *)
(* end, the network delivers, and a peer that logged in asks for something *)
(* or leaves.  One that is not logged in may stay silent for ever.         *)
Fairness ==
    /\ WF_vars(Load \/ StartSSHD \/ Daemonize \/ Listen)
    /\ WF_vars(Session) /\ WF_vars(alarmCatch)
    /\ WF_vars(PeerGivesUp /\ conn.pc = "request")
    /\ WF_vars(Relay(Parent)) /\ WF_vars(Relay(Child)) /\ WF_vars(Relay(BackgroundEnds))
    /\ WF_vars(Relay(SocketDrains))
    /\ WF_vars(Relay(PeerSends)) /\ WF_vars(Relay(PeerCredits)) /\ WF_vars(Relay(PeerLeaves))

FairSpec == Spec /\ Fairness

----------------------------------------------------------------------------
(* Properties.                                                             *)

(* Who the account and the request really are.                             *)
Account == J.users[conn.user]
Tried == P.tries[conn.login]
GroupsOf(acct) == {J.groupName[g] : g \in (acct.groups \union {acct.gid}) \intersect DOMAIN J.groupName}
PolicyOf(usr, acct) ==
    [Stated(Lines[job], Composed, usr, GroupsOf(acct)) EXCEPT
        !.StrictModes = Stated(Lines[job], {"StrictModes"}, "", {}).StrictModes]
IsSuperuser == conn.user = "root" \/ Account.uid = 0

PasswordGood(pol) ==
    /\ pol.PasswordAuthentication /\ ~Tried.pw.nul
    /\ Account.hash = [mark |-> "", of |-> Tried.pw.text]
    /\ Tried.pw.text = "" => pol.PermitEmptyPasswords
    /\ Account.inShadow =>
        /\ Account.expire >= 0 => J.today \in 0..(Account.expire - 1)
        /\ Account.lstchg # 0
        /\ Account.lstchg > 0 /\ Account.max >= 0 =>
                J.today \in 0..(Account.lstchg + Account.max - 1)

(* keys holds what the user, or root, put into which file.                 *)
KeyGood(pol) ==
    \/ ~pol.StrictModes
    \/ [file |-> pol.AuthorizedKeysFile, key |-> Tried.pk.key] \in Account.keys

WithinNetwork(net) ==
    LET n == IF net.prefix < 0 THEN Len(net.bits) ELSE net.prefix
    IN Len(net.bits) = Len(J.ip) /\ \A i \in 1..n : net.bits[i] = J.ip[i]

CertificateGood(pol) ==
    /\ pol.TrustedUserCAKeys # Missing /\ Tried.pk.ca \in J.authorities
    /\ conn.user \in Tried.pk.principals
    /\ Tried.pk.after <= J.now /\ J.now < Tried.pk.before
    /\ Tried.pk.source # <<>> => \E i \in DOMAIN Tried.pk.source : WithinNetwork(Tried.pk.source[i])

LoginGood(pol) ==
    IF Tried.method = "password"
    THEN PasswordGood(pol) /\ (IsSuperuser => pol.PermitRootLogin = "YES")
    ELSE /\ pol.PubkeyAuthentication /\ Tried.pk.sig = "good"
         /\ IF Tried.pk.form = "ossh" THEN CertificateGood(pol) ELSE KeyGood(pol)
         /\ IsSuperuser => pol.PermitRootLogin # "NO"

(* Every id, and none of them to come back.                                *)
IdsOf(k) ==
    /\ k.ru = Account.uid /\ k.eu = Account.uid /\ k.su = Account.uid
    /\ k.rg = Account.gid /\ k.eg = Account.gid /\ k.sg = Account.gid

ServedAllowed(pol) ==
    LET what == conn.served.what
        confCmd == pol.ForceCommand
        certCmd == IF Tried.method = "publickey" /\ Tried.pk.form = "ossh" THEN Tried.pk.cmd ELSE <<>>
        forced == IF confCmd # <<>> THEN confCmd ELSE certCmd
        ask == P.asks[conn.grant]
    IN /\ forced # <<>> => \/ what = "command" /\ conn.served.cmd = forced
                           \/ what = "sftp" /\ {confCmd, certCmd} \subseteq {<<>>, <<"internal-sftp">>}
       /\ forced = <<>> => CASE what = "shell" -> ask.type = "shell"
                             [] what = "command" -> ask.type = "exec" /\ conn.served.cmd = ask.cmd
                             [] what = "sftp" -> ask.type = "subsystem"
                             [] what = "scp" -> ask.type = "exec" /\ ask.scp
       /\ IsSuperuser /\ pol.PermitRootLogin = "FORCED_CMD" => confCmd # <<>>

(* Whatever a peer is served (SHELL_Subsystem(), SFTP_Subsystem() and      *)
(* SCP_Subsystem()) it is served for a login that the text of the          *)
(* configuration allows to that user, with the user's ids and groups and   *)
(* no way back to others, below the stated root, and within the commands   *)
(* the configuration and the certificate force.                            *)
PolicyKept ==
    conn.served.what # "none" => \A pol \in {PolicyOf(conn.user, Account)} :
        /\ LoginGood(pol) /\ ServedAllowed(pol)
        /\ IdsOf(conn.served.k) /\ IdsOf(conn.k)
        /\ conn.served.k.grps = Account.groups \union {Account.gid}
        /\ conn.served.k.root = IF pol.ChrootDirectory = Missing THEN "/" ELSE pol.ChrootDirectory

(* The loop of SHELL_Subsystem() loses and reorders nothing: each stream   *)
(* reaches the peer in order, all of it when the child ended by itself and *)
(* the peer stayed, and the child reads the peer's data in order and the   *)
(* end of it only behind the last.                                         *)
RelayIntact ==
    /\ \A s \in Streams : IsPrefix(peer.got[s] \o OnTheWay(s), Seq1(kid.wrote[s]))
    /\ rel.end = "foot" /\ ~(chan.stuck /\ conn.pc = "closed") =>
        \A s \in Streams : peer.got[s] \o OnTheWay(s) = Seq1(kid.wrote[s])
    /\ IsPrefix(kid.read, Seq1(peer.sent))
    /\ kid.sawEof /\ rel.end = "none" /\ chan.open => chan.eof /\ kid.read = Seq1(peer.sent)

(* A connection comes to its end: a peer that does not log in is cut off   *)
(* by the login grace time (alarmCatch()), and a served one is not held up *)
(* by a full window, a rekey, a full pipe or a child that left something   *)
(* behind.                                                                 *)
SessionEnds ==
    conn.pc = "login" /\ nodes[1].val.LoginGraceTime > 0 ~> conn.pc = "closed"
=============================================================================
