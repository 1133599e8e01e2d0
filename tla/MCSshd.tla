------------------------------- MODULE MCSshd -------------------------------
(***************************************************************************)
(* Instances of Sshd for TLC: one host with a few accounts and files, and  *)
(* jobs that combine a configuration, what the peer tries to log in with,  *)
(* what it asks for, a system call that fails, and a relay script.         *)
(***************************************************************************)
EXTENDS Sshd, TLC

Key(k) == [type |-> "ssh-rsa", key |-> k]
NoKey == [type |-> "", key |-> ""]

(* Files. *)
File(holds, lines) ==
    [regular |-> TRUE, owner |-> 0, writable |-> FALSE, readable |-> FALSE, linked |-> FALSE,
     holds |-> holds, lines |-> {[type |-> t, cert |-> FALSE, blob |-> b] :
                                    t \in {"ssh-rsa"}, b \in lines}]
Home(u) == <<"home", u>>
DefaultKeys(u) == <<"home", u, ".ssh", "authorized_keys">>
AliceLines ==
    {[type |-> "rsa-sha2-256", cert |-> FALSE, blob |-> Key("a")],
     [type |-> "ssh-dss", cert |-> FALSE, blob |-> Key("b")],
     [type |-> "ssh-rsa-cert-v01", cert |-> TRUE, blob |-> Key("f")]}

TheFs ==
    (<<"hostkey">> :> File("key", {}))
    @@ (<<"open key">> :> [File("key", {}) EXCEPT !.readable = TRUE])
    @@ (<<"cert">> :> File("x509", {}))
    @@ (<<"loose">> :> [File("x509", {}) EXCEPT !.writable = TRUE])
    @@ (<<"empty">> :> File("", {}))
    @@ (<<"ca">> :> File("keys", {Key("ca")}))
    @@ (<<"pid">> :> [File("", {}) EXCEPT !.owner = 5])
    @@ (DefaultKeys("alice") :> [File("keys", {}) EXCEPT !.owner = 10, !.lines = AliceLines])
    @@ (DefaultKeys("bob") :> [File("keys", {Key("b"), Key("f")}) EXCEPT !.owner = 11, !.writable = TRUE])
    @@ (DefaultKeys("carol") :> [File("keys", {Key("f")}) EXCEPT !.owner = 12])
    @@ (DefaultKeys("root") :> File("keys", {Key("r")}))
    @@ (<<"keys", "alice">> :> File("keys", {Key("x")}))
    @@ (<<"keys", "bob">> :> [File("keys", {Key("f")}) EXCEPT !.owner = 12])

(* Accounts; toor is a second name of the superuser. *)
Acct(uid, gid, groups, of, home, keys) ==
    [uid |-> uid, gid |-> gid, groups |-> groups, hash |-> [mark |-> "", of |-> of],
     inShadow |-> TRUE, noShadow |-> FALSE, expire |-> -1, lstchg |-> 5, max |-> 10,
     home |-> home, keys |-> keys]
Own(file, k) == [file |-> file, key |-> Key(k)]
KeysDir == <<"/", "keys", "%u">>
HomeKeys == <<"%h", ".ssh", "authorized_keys">>
OwnAlice == {Own(<<>>, "a"), Own(KeysDir, "x"), Own(HomeKeys, "a"), Own(HomeKeys, "b")}
OwnRoot == {Own(<<>>, "r")}
TheUsers ==
    [alice |-> Acct(10, 100, {101}, "pa", Home("alice"), OwnAlice),
     bob |-> [Acct(11, 100, {}, "pb", Home("bob"), {}) EXCEPT !.expire = 9],
     carol |-> [Acct(12, 100, {}, "", Home("carol"), {}) EXCEPT !.inShadow = FALSE],
     root |-> Acct(0, 0, {}, "pr", Home("root"), OwnRoot),
     toor |-> Acct(0, 0, {}, "pt", Home("root"), OwnRoot),
     locked |-> [Acct(13, 100, {}, "pl", Home("bob"), {}) EXCEPT !.hash.mark = "!"],
     odd |-> [Acct(14, 100, {1, 2, 3}, "?", Home("bob"), {}) EXCEPT !.lstchg = 0],
     sshd |-> [Acct(5, 50, {}, "", Home("bob"), {}) EXCEPT !.hash.mark = "*"]]

(* Configurations, as lines of files. *)
L(opt, val) == [opt |-> opt, val |-> val]
Y == <<"yes">>
N == <<"no">>
Num(ds, u) == <<[ds |-> ds, u |-> u]>>
User(u) == [sel |-> "User", list |-> u]
Group(g) == [sel |-> "Group", list |-> g]
Inc(file) == L("Include", [star |-> FALSE, file |-> file, hidden |-> FALSE, ends |-> ""])
IncAll(dir) == L("Include", [star |-> TRUE, file |-> dir, hidden |-> FALSE, ends |-> "conf"])
HostKeyLine == L("HostKey", <<"hostkey">>)
Conf(lines) == "main" :> <<HostKeyLine>> \o lines

TheMatch == <<
    L("PasswordAuthentication", N), L("Match", <<User(<<"alice", "odd">>)>>),
    L("PasswordAuthentication", Y), L("ChrootDirectory", <<"jail">>),
    L("Match", <<Group(<<"wheel", "staff">>)>>), L("PasswordAuthentication", N),
    L("ForceCommand", <<"ls", "-l">>), L("ChrootDirectory", <<"attic">>),
    L("Match", <<User(<<"bob">>), Group(<<"staff">>)>>), L("PasswordAuthentication", Y)>>

TheIncludes == "main" :> <<HostKeyLine, IncAll("conf.d"), L("PermitEmptyPasswords", Y),
                           L("Match", <<User(<<"bob">>)>>), Inc("extra"), L("ForceCommand", <<"w">>)>>
    @@ "a" :> <<L("Match", <<User(<<"alice">>)>>), L("ForceCommand", <<"internal-sftp">>)>>
    @@ "b" :> <<L("PermitRootLogin", <<"prohibit-password">>), L("comment", <<>>)>>
    @@ "hidden" :> <<L("PermitRootLogin", Y)>>
    @@ "extra" :> <<L("Match", <<User(<<"carol">>)>>), L("ForceCommand", <<"id">>)>>

Mixed == <<
    L("Port", Num(<<2, 2>>, "")), L("Protocol", Num(<<2>>, "")), L("UsePAM", Y), L("blank", <<>>),
    L("LoginGraceTime", <<[ds |-> <<1>>, u |-> "m"], [ds |-> <<3, 0>>, u |-> ""]>>),
    L("HostCertificate", <<"cert">>), L("Banner", <<"none">>), L("PidFile", <<"run">>),
    L("AuthorizedKeysFile", HomeKeys), L("SystemCAKeys", N)>>

Confs ==
    [plain |-> Conf(<<>>),
     match |-> Conf(TheMatch),
     includes |-> TheIncludes,
     mixed |-> Conf(Mixed),
     keys |-> Conf(<<L("AuthorizedKeysFile", KeysDir), L("UsePrivilegeSeparation", <<"sandbox">>)>>),
     tokens |-> Conf(<<L("AuthorizedKeysFile", <<"%?">>), L("PidFile", <<"pid">>)>>),
     ca |-> Conf(<<L("TrustedUserCAKeys", <<"ca">>)>>),
     caforced |-> Conf(<<L("TrustedUserCAKeys", <<"ca">>), L("ForceCommand", <<"internal-sftp">>)>>),
     camatch |-> Conf(<<L("Match", <<User(<<"bob">>)>>), L("TrustedUserCAKeys", <<"ca">>)>>),
     lax |-> Conf(<<L("StrictModes", N), L("UsePrivilegeSeparation", N)>>),
     rootyes |-> Conf(<<L("PermitRootLogin", Y), L("LoginGraceTime", Num(<<0>>, ""))>>),
     rootkey |-> Conf(<<L("PermitRootLogin", <<"without-password">>)>>),
     rootcmd |-> Conf(<<L("PermitRootLogin", <<"forced-commands-only">>),
                        L("Match", <<User(<<"root">>)>>), L("ForceCommand", <<"backup">>)>>),
     rootsftp |-> Conf(<<L("PermitRootLogin", <<"forced-commands-only">>),
                         L("ForceCommand", <<"internal-sftp">>)>>),
     nokeys |-> Conf(<<L("PubkeyAuthentication", N), L("ForceCommand", <<"internal-sftp", "-l">>)>>)]

(* Configurations the daemon does not start with. *)
Broken ==
    [unknown |-> Conf(<<L("unknown", <<>>)>>), equals |-> Conf(<<L("equals", <<>>)>>),
     keystore |-> Conf(<<L("HostKeyStore", <<"my">>)>>),
     hostinmatch |-> Conf(<<L("Match", <<User(<<"bob">>)>>), HostKeyLine>>),
     selector |-> Conf(<<L("Match", <<[sel |-> "Host", list |-> <<"h">>]>>)>>),
     wildcard |-> Conf(<<L("Match", <<User(<<"*">>)>>)>>),
     nobody |-> Conf(<<L("Match", <<>>)>>),
     yesno |-> Conf(<<L("PasswordAuthentication", <<"maybe">>)>>),
     privsep |-> Conf(<<L("UsePrivilegeSeparation", <<"maybe">>)>>),
     permit |-> Conf(<<L("PermitRootLogin", <<"maybe">>)>>),
     noforce |-> Conf(<<L("ForceCommand", <<>>)>>),
     zero |-> Conf(<<L("Port", Num(<<0>>, ""))>>),
     leading |-> Conf(<<L("Port", Num(<<0, 0>>, ""))>>),
     large |-> Conf(<<L("LoginGraceTime", Num(<<9, 9, 9, 9, 9, 9>>, "w"))>>),
     larger |-> Conf(<<L("LoginGraceTime", Num(<<9, 9, 9, 9, 9, 9, 9, 9, 9, 9>>, ""))>>),
     twice |-> Conf(<<L("LoginGraceTime", <<[ds |-> <<1>>, u |-> ""], [ds |-> <<1>>, u |-> "s"]>>)>>),
     protocol |-> Conf(<<L("Protocol", Num(<<1>>, ""))>>),
     loop |-> Conf(<<Inc("main")>>), lost |-> Conf(<<Inc("nowhere")>>),
     nodir |-> Conf(<<IncAll("nowhere")>>),
     nokey |-> "main" :> <<>>, openkey |-> "main" :> <<L("HostKey", <<"open key">>)>>,
     badcert |-> Conf(<<L("HostCertificate", <<"loose">>)>>),
     badca |-> Conf(<<L("TrustedUserCAKeys", <<"empty">>)>>),
     upn |-> Conf(<<L("Match", <<User(<<"bob">>)>>), L("AuthorizedUPNDomains", <<"d">>)>>),
     store |-> Conf(<<L("UserCAStore", Y)>>)]

(* What peers log in with. *)
NoPk == [form |-> "plain", key |-> NoKey, ca |-> NoKey, principals |-> {}, after |-> 0, before |-> 20,
         source |-> <<>>, cmd |-> <<>>, sig |-> "good"]
Pw(u, text) == [user |-> u, method |-> "password", pw |-> [text |-> text, nul |-> FALSE], pk |-> NoPk]
Pk(u, k) == [user |-> u, method |-> "publickey", pw |-> [text |-> "", nul |-> FALSE],
             pk |-> [NoPk EXCEPT !.key = Key(k)]]
Cert(u) == [Pk(u, "c") EXCEPT !.pk.form = "ossh", !.pk.ca = Key("ca"), !.pk.principals = {"alice", "root"}]
X509(u, k) == [Pk(u, k) EXCEPT !.pk.form = "x509"]
Net(bits, prefix, form) == [form |-> form, bits |-> bits, prefix |-> prefix]
From2(nets) == [Cert("alice") EXCEPT !.pk.source = nets]

TriesOf ==
    [silent |-> <<>>,
     alice |-> <<Pw("alice", "pa")>>,
     retry |-> <<Pw("alice", "p"), [Pw("alice", "pa") EXCEPT !.pw.nul = TRUE], Pw("alice", "pa")>>,
     guess |-> <<Pw("alice", "p"), Pw("alice", "p"), Pw("alice", "p"), Pw("alice", "pa")>>,
     bob |-> <<Pw("bob", "pb")>>,
     carol |-> <<Pw("carol", ""), Pk("carol", "f")>>,
     rootpw |-> <<Pw("root", "pr")>>, toorpw |-> <<Pw("toor", "pt")>>,
     stranger |-> <<Pw("eve", ""), Pk("eve", "f"), [Pw("alice", "") EXCEPT !.method = "none"], Pw("odd", "p")>>,
     lock |-> <<Pw("locked", "pl"), Pw("sshd", "")>>,
     alicekey |-> <<[Pk("alice", "a") EXCEPT !.pk.sig = "none"], Pk("alice", "a")>>,
     forged |-> <<[Pk("alice", "a") EXCEPT !.pk.sig = "bad"], Pk("alice", "b"), Pk("alice", "f")>>,
     aliceother |-> <<Pk("alice", "x")>>,
     bobkey |-> <<Pk("bob", "f")>>,
     rootkey |-> <<Pk("root", "r")>>, toorkey |-> <<Pk("toor", "r")>>,
     x509 |-> <<X509("alice", "b")>>,
     cert |-> <<Cert("bob"), Cert("alice")>>,
     certcmd |-> <<[Cert("alice") EXCEPT !.pk.cmd = <<"date">>]>>,
     certsftp |-> <<[Cert("alice") EXCEPT !.pk.cmd = <<"internal-sftp">>]>>,
     certroot |-> <<[Cert("root") EXCEPT !.pk.cmd = <<"date">>]>>,
     certold |-> <<[Cert("alice") EXCEPT !.pk.before = 7], [Cert("alice") EXCEPT !.pk.after = 8],
                   [Cert("alice") EXCEPT !.pk.ca = Key("f")], [Cert("alice") EXCEPT !.pk.ca = NoKey]>>,
     certfar |-> <<From2(<<Net(<<1, 0>>, 1, "ok"), Net(<<0, 1, 0>>, 2, "ok")>>),
                   From2(<<Net(<<0, 1>>, -1, "ok"), Net(<<0>>, -1, "junk")>>),
                   From2(<<Net(<<0, 1>>, 3, "ok")>>)>>,
     certnear |-> <<From2(<<Net(<<1, 1>>, -1, "ok"), Net(<<0, 0>>, 1, "ok")>>)>>]

Ask(type, cmd, scp, pty) == [type |-> type, cmd |-> cmd, scp |-> scp, pty |-> pty]
Shell == Ask("shell", <<>>, FALSE, FALSE)
AsksOf ==
    [shell |-> <<Shell>>, tty |-> <<Ask("shell", <<>>, FALSE, TRUE)>>,
     exec |-> <<Ask("exec", <<"cat">>, FALSE, FALSE), Shell>>,
     sftp |-> <<Ask("subsystem", <<"sftp">>, FALSE, FALSE)>>,
     scp |-> <<Ask("exec", <<"scp", "-t">>, TRUE, FALSE)>>,
     fussy |-> <<Ask("subsystem", <<"x">>, FALSE, FALSE), Ask("exec", <<>>, FALSE, FALSE),
                 Ask("terminal", <<>>, FALSE, FALSE), Ask("exec", <<"internal-sftp">>, FALSE, TRUE)>>]

NoFault == <<"none", "none">>
Faults == <<
    <<"start", "daemonize">>, <<"start", "fork">>, <<"start", "fchmod">>, <<"start", "write">>,
    <<"start", "setegid">>, <<"start", "seteuid">>, <<"auth", "setegid">>, <<"auth", "seteuid">>,
    <<"auth", "getgrouplist">>, <<"serve", "setegid">>, <<"serve", "seteuid">>,
    <<"serve", "setregid">>, <<"serve", "setreuid">>, <<"serve", "setgroups">>, <<"serve", "chroot">>,
    <<"serve", "getgrouplist">>, <<"serve", "pipe">>, <<"serve", "forkpty">>, <<"serve", "channel">>,
    <<"serve", "tcsetattr">>>>

(* Relay scripts. *)
Script(prog, tough, script, window, maxPacket) ==
    [prog |-> prog, tough |-> tough, script |-> script, window |-> window, maxPacket |-> maxPacket]
AllScripts ==
    [quiet |-> Script(<<>>, FALSE, <<>>, 1, 1),
     cat |-> Script(<<"in", "out", "rest", "err">>, FALSE, <<"data", "data", "eof">>, 1, 2),
     flood |-> Script(<<"out", "err", "out", "out", "err">>, FALSE, <<"rekey">>, 1, 1),
     noisy |-> Script(<<"err", "err", "err">>, FALSE, <<"eof">>, 2, 2),
     never |-> Script(<<"out", "rest">>, TRUE, <<"eof">>, 1, 0),
     closer |-> Script(<<"out", "out", "rest", "out">>, FALSE, <<"data", "close">>, 1, 1),
     hangup |-> Script(<<"out", "err", "rest">>, TRUE, <<"data", "hangup">>, 2, 2),
     deaf |-> Script(<<"out", "err">>, FALSE, <<"data", "data", "data">>, 1, 2),
     leave |-> Script(<<"leave", "out">>, FALSE, <<"data", "eof">>, 1, 1),
     greedy |-> Script(<<"rest", "out">>, FALSE, <<"data", "data", "data", "eof">>, 1, 1),
     tty |-> Script(<<"out", "in", "out">>, FALSE, <<"data">>, 1, 1),
     ttyclose |-> Script(<<"out", "in", "in">>, FALSE, <<"data", "close">>, 1, 2),
     ttydeaf |-> Script(<<"out">>, FALSE, <<"data", "eof">>, 1, 1)]

(* Peers: a login, a session and a script.                                 *)
Peer(t, a, r) == [tries |-> TriesOf[t], asks |-> AsksOf[a], relay |-> r]
Pick(seq, i) == seq[(i % Len(seq)) + 1]
Peers(ts, as) == [i \in 1..(Len(ts) * Len(as)) |-> Peer(Pick(ts, i), Pick(as, i \div Len(ts)), "quiet")]
Plays(a, ss) == [i \in DOMAIN ss |-> Peer("alice", a, ss[i])]

ConfNames == <<"plain", "match", "includes", "mixed", "keys", "tokens", "ca", "caforced", "camatch",
               "lax", "rootyes", "rootkey", "rootcmd", "rootsftp", "nokeys">>
BrokenNames == <<"unknown", "equals", "keystore", "hostinmatch", "selector", "wildcard", "nobody",
                 "yesno", "privsep", "permit", "noforce", "zero", "leading", "large", "larger",
                 "twice", "protocol", "loop", "lost", "nodir", "nokey", "openkey", "badcert", "badca",
                 "upn", "store">>
TryNames == <<"alice", "retry", "guess", "bob", "carol", "rootpw", "toorpw", "stranger", "lock",
              "alicekey", "forged", "aliceother", "bobkey", "rootkey", "toorkey", "x509", "cert",
              "certcmd", "certsftp", "certroot", "certold", "certfar", "certnear">>

Everyone ==
    Peers(TryNames, <<"shell", "sftp">>) \o Peers(<<"silent">>, <<"shell">>)
    \o Peers(<<"alice", "rootkey", "cert", "certcmd">>, <<"exec", "scp", "fussy", "tty">>)
Alice == Peers(<<"alice">>, <<"exec", "sftp">>)
Players == Plays("shell", <<"cat", "flood", "noisy", "never", "closer", "hangup", "deaf", "leave", "greedy">>)
    \o Plays("tty", <<"tty", "ttyclose", "ttydeaf">>)

(* Jobs: a configuration, a fault and the peers that may come.             *)
JobNames ==
    [i \in DOMAIN ConfNames |-> <<ConfNames[i], NoFault, Everyone>>]
    \o [i \in DOMAIN BrokenNames |-> <<BrokenNames[i], NoFault, Alice>>]
    \o [i \in DOMAIN Faults |-> <<"match", Faults[i], Alice>>]
    \o [i \in DOMAIN Faults |-> <<"mixed", Faults[i], Alice>>]
    \o << <<"plain", <<"host", "lookup">>, Alice>>, <<"plain", <<"args", "test">>, Alice>>,
           <<"nokey", <<"args", "hostkey">>, Peers(<<"alicekey">>, <<"shell">>)>>,
           <<"plain", NoFault, Players>> >>

Entry(name, rank, dir, hidden, ends) ==
    [name |-> name, rank |-> rank, dir |-> dir, hidden |-> hidden, ends |-> ends]
AllConfs == Confs @@ Broken

TheJob(n) ==
    [files |-> AllConfs[n[1]], fault |-> n[2], peers |-> n[3],
     lookup |-> IF n[2][2] = "lookup" THEN "error" ELSE "ok",
     dirs |-> [dir \in {"conf.d"} |->
        {Entry("b", 2, FALSE, FALSE, "conf"), Entry("a", 1, FALSE, FALSE, "conf"),
         Entry("hidden", 3, FALSE, TRUE, "conf"), Entry("sub", 4, TRUE, FALSE, "conf"),
         Entry("old", 5, FALSE, FALSE, "bak")}],
     users |-> TheUsers, groupName |-> (100 :> "users" @@ 101 :> "staff" @@ 0 :> "wheel"),
     ids |-> [ru |-> 0, eu |-> 0, su |-> 0, rg |-> 0, eg |-> 0, sg |-> 0, grps |-> {0}, root |-> "/"],
     args |-> [hostKey |-> IF n[2][2] = "hostkey" THEN "hostkey" ELSE Missing,
               port |-> IF n[2][2] = "hostkey" THEN 2022 ELSE 0, daemon |-> TRUE,
               test |-> n[2][2] = "test"],
     ip |-> <<0, 1>>, today |-> 8, now |-> 7, fs |-> TheFs, authorities |-> {Key("ca")},
     links |-> (<<"home", "toor">> :> <<"home", "root">>), openDirs |-> {<<"home", "carol">>, <<"keys">>},
     stickyDirs |-> {<<"keys">>}, roots |-> {"jail", "attic"}]

(* TLC evaluates these once and what the constants stand for at each use.  *)
AllJobs == LET names == JobNames IN <<>> \o [i \in DOMAIN names |-> TheJob(names[i])]
TheJobs == LET all == AllJobs IN all
TheScripts == LET all == AllScripts IN all
=============================================================================
