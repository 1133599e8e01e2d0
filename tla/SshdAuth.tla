------------------------------ MODULE SshdAuth ------------------------------
(***************************************************************************)
(* Who may log in to wolfsshd and as whom its processes run               *)
(* (apps/wolfsshd/auth.c): the accounts, the password and key checks, the  *)
(* certificates of OpenSSH, and the user and group ids of the process,     *)
(* lowered while it talks to a peer, raised for a check, given up for good *)
(* before the user is served.                                              *)
(*                                                                         *)
(* Hashes, keys and signatures are symbols.  A job holds the accounts and  *)
(* files of the host: they stay as they are while a connection lasts.      *)
(***************************************************************************)
EXTENDS SshdConfig

CONSTANTS
    MaxAttempts,   \* WOLFSSHD_MAX_PASSWORD_ATTEMPTS
    GroupListMax   \* WOLFSSHD_GROUP_LIST_MAX

----------------------------------------------------------------------------
(* Ids of the process: real, effective and saved.  The kernel's rules, as  *)
(* Linux has them; a call of phase.call may also fail for the job's fault. *)

Faulty(phase, call) == J.fault = <<phase, call>>
Done(k) == [ok |-> TRUE, k |-> k]
Refused(k) == [ok |-> FALSE, k |-> k]

setegid(k, g, phase) ==
    IF ~Faulty(phase, "setegid") /\ (k.eu = 0 \/ g \in {k.rg, k.eg, k.sg})
    THEN Done([k EXCEPT !.eg = g]) ELSE Refused(k)
seteuid(k, u, phase) ==
    IF ~Faulty(phase, "seteuid") /\ (k.eu = 0 \/ u \in {k.ru, k.eu, k.su})
    THEN Done([k EXCEPT !.eu = u]) ELSE Refused(k)
setregid(k, g, phase) ==
    IF ~Faulty(phase, "setregid") /\ (k.eu = 0 \/ g \in {k.rg, k.eg})
    THEN Done([k EXCEPT !.rg = g, !.eg = g, !.sg = g]) ELSE Refused(k)
setreuid(k, u, phase) ==
    IF ~Faulty(phase, "setreuid") /\ (k.eu = 0 \/ u \in {k.ru, k.eu})
    THEN Done([k EXCEPT !.ru = u, !.eu = u, !.su = u]) ELSE Refused(k)
setgroups(k, gs, phase) ==
    IF ~Faulty(phase, "setgroups") /\ k.eu = 0
    THEN Done([k EXCEPT !.grps = gs]) ELSE Refused(k)
chroot(k, dir, phase) ==
    IF ~Faulty(phase, "chroot") /\ k.eu = 0 /\ dir \in J.roots
    THEN Done([k EXCEPT !.root = dir]) ELSE Refused(k)

(* What the next call does to the ids, if the last one went well.          *)
Then(r, next) == IF r.ok THEN next ELSE r

Separated(conf) == conf[1].val.UsePrivilegeSeparation \in {"SEPARAT", "SANDBOX"}

(* The group goes first; when the user cannot follow it stays raised.      *)
AuthRaisePermissions(conf, auth, k, phase) ==
    IF ~Separated(conf) THEN Done(k)
    ELSE LET g == setegid(k, auth.sGid, phase)
         IN Then(g, seteuid(g.k, auth.sUid, phase))

(* Both are tried.                                                         *)
AuthReducePermissions(conf, auth, k, phase) ==
    IF ~Separated(conf) THEN Done(k)
    ELSE LET g == setegid(k, auth.gid, phase)
             u == seteuid(g.k, auth.uid, phase)
         IN [ok |-> g.ok /\ u.ok, k |-> u.k]

AuthReducePermissionsUser(k, uid, gid, phase) ==
    LET g == setregid(k, gid, phase) IN Then(g, setreuid(g.k, uid, phase))

----------------------------------------------------------------------------
(* Accounts.                                                               *)

(* The account of a name in a set, empty where there is none or the lookup *)
(* failed: errno tells these two apart.                                    *)
GetPwnam(name) ==
    IF J.lookup # "ok" \/ name \notin DOMAIN J.users THEN {} ELSE {J.users[name]}
LookupError == J.lookup # "ok"

(* The list is read again with twice the room until it fits.               *)
GetUserGroupList(pw, phase) ==
    LET gs == pw.groups \union {pw.gid}
    IN IF Faulty(phase, "getgrouplist") \/ Cardinality(gs) > GroupListMax THEN {} ELSE {gs}

(* A group without a name is passed over.                                  *)
GetUserGroupNames(gs) == {J.groupName[g] : g \in gs \intersect DOMAIN J.groupName}

AuthSetGroups(k, pw, phase) ==
    IF GetUserGroupList(pw, phase) = {} THEN Refused(k)
    ELSE setgroups(k, UNION GetUserGroupList(pw, phase), phase)

AuthGetUserConf(conf, usr, phase) ==
    {GetUserConf(conf, usr, GetUserGroupNames(gs)) :
        gs \in UNION {GetUserGroupList(pw, phase) : pw \in GetPwnam(usr)}}

CheckUserUnix(name) ==
    IF GetPwnam(name) # {} THEN "SUCCESS" ELSE IF LookupError THEN "ERROR" ELSE "FAILURE"

IsRootUser(usr) == usr = "root" \/ \E pw \in GetPwnam(usr) : pw.uid = 0
IsRootLoginDenied(isRoot, uc) == isRoot /\ uc.PermitRootLogin = "NO"
IsRootPasswordAuthBlocked(isRoot, uc) ==
    isRoot /\ uc.PermitRootLogin \in {"PROHIBIT_PW", "FORCED_CMD"}
IsRootPubKeyForcedCmdMissing(isRoot, uc) ==
    isRoot /\ uc.PermitRootLogin = "FORCED_CMD" /\ uc.ForceCommand = <<>>

DoCheckUser(usr, ucs) ==
    LET isRoot == IsRootUser(usr)
        rc == CheckUserUnix(usr)
    IN IF isRoot /\ (ucs = {} \/ \E uc \in ucs : IsRootLoginDenied(isRoot, uc)) THEN "REJECTED"
       ELSE IF rc = "SUCCESS" THEN "SUCCESS"
       ELSE IF rc = "FAILURE" THEN "INVALID_USER" ELSE "FAILURE"

----------------------------------------------------------------------------
(* Passwords.                                                              *)

(* sp.expire, sp.lstchg and sp.max are -1 where the entry has none, today  *)
(* is -1 where the clock fails.                                            *)
IsShadowExpired(sp, today) ==
    \/ sp.expire >= 0 /\ (today < 0 \/ today >= sp.expire)
    \/ sp.lstchg = 0
    \/ sp.lstchg > 0 /\ sp.max >= 0 /\ (today < 0 \/ today - sp.lstchg >= sp.max)

(* A stored hash is [mark, of]: a first '*' or '!', and the password it is *)
(* the hash of; "?" is a method crypt() does not know.  A locked account   *)
(* costs the same work as another one and never succeeds.                  *)
CheckPasswordHashUnix(input, stored) ==
    LET locked == stored.mark # "" \/ stored.of = ""
    IN IF stored = [mark |-> "", of |-> ""] /\ input = "" THEN "SUCCESS"
       ELSE IF locked THEN "FAILURE"
       ELSE IF stored.of = "?" THEN "ERROR"
       ELSE IF stored.of = input THEN "SUCCESS" ELSE "FAILURE"

CheckPasswordUnix(usr, pw) ==
    LET Check(acct) ==
            IF ~acct.inShadow THEN CheckPasswordHashUnix(pw.text, acct.hash)
            ELSE IF acct.noShadow THEN "ERROR"
            ELSE LET ret == CheckPasswordHashUnix(pw.text, acct.hash)
                 IN IF ret = "SUCCESS" /\ IsShadowExpired(acct, J.today) THEN "FAILURE" ELSE ret
    IN IF GetPwnam(usr) = {} THEN CheckPasswordHashUnix(pw.text, [mark |-> "*", of |-> ""])
       ELSE Check(J.users[usr])

PasswordHasNul(pw) == pw.nul

----------------------------------------------------------------------------
(* Key files.  A path is a sequence of components, a pattern one of        *)
(* components and tokens, "/" first where it is absolute.                  *)

ExpandAuthKeysTokens(pattern, home, user) ==
    IF \E i \in DOMAIN pattern : pattern[i] = "%?" THEN {}
    ELSE {FlattenSeq([i \in DOMAIN pattern |->
            CASE pattern[i] = "%h" -> <<"/">> \o home
              [] pattern[i] = "%u" -> <<user>>
              [] pattern[i] = "%%" -> <<"%">>
              [] OTHER -> <<pattern[i]>>])}

IsAbsoluteAuthKeysPath(path) == path # <<>> /\ path[1] = "/"

Components(path) == SelectSeq(path, LAMBDA c : c # "/")

ResolveAuthKeysPath(home, pattern, user) ==
    IF pattern = <<>> THEN {home \o <<".ssh", "authorized_keys">>}
    ELSE {IF IsAbsoluteAuthKeysPath(path) THEN Components(path) ELSE home \o Components(path) :
            path \in ExpandAuthKeysTokens(pattern, home, user)}

(* Links in the directories of a path are followed, one at its end is not. *)
Resolved(path) ==
    LET at == {n \in 0..(Len(path) - 1) : SubSeq(path, 1, n) \in DOMAIN J.links}
    IN IF at = {} THEN path
       ELSE LET n == Max(at) IN J.links[SubSeq(path, 1, n)] \o SubSeq(path, n + 1, Len(path))

(* Nobody but the owner or root may have been able to write the file or to *)
(* put another one in its place.                                           *)
OpenSecureFile(path, ownerUid, rejectReadable) ==
    LET p == Resolved(path)
        f == J.fs[p]
    IN /\ p \in DOMAIN J.fs /\ f.regular
       /\ f.owner \in {ownerUid, 0}
       /\ ~f.writable /\ ~(rejectReadable /\ f.readable)
       /\ \A n \in 0..(Len(p) - 1) :
            LET dir == SubSeq(p, 1, n) IN dir \in J.openDirs => dir \in J.stickyDirs

AuthKeysTokenKeyType(type) == IF type \in {"rsa-sha2-256", "rsa-sha2-512"} THEN "ssh-rsa" ELSE type

(* A line is [type, cert, blob]: its first word, whether that names a type *)
(* of certificate, and the key, [type |-> "", key |-> ""] if it is none.   *)
CheckAuthKeysLine(line, key, isCert) ==
    /\ ~line.cert
    /\ ~isCert => AuthKeysTokenKeyType(line.type) = line.blob.type
    /\ line.blob = key

SearchKeysFile(path, key, uid, strict, isCert) ==
    LET p == Resolved(path)
    IN IF strict /\ ~OpenSecureFile(path, uid, FALSE) THEN "FAILURE"
       ELSE IF ~strict /\ p \notin DOMAIN J.fs THEN "ERROR"
       ELSE IF \E l \in J.fs[p].lines : CheckAuthKeysLine(l, key, isCert) THEN "SUCCESS"
       ELSE "FAILURE"

SearchForPubKey(home, pattern, user, pk, uid, strict) ==
    LET paths == ResolveAuthKeysPath(home, pattern, user)
    IN IF paths = {} THEN "ERROR"
       ELSE SearchKeysFile(CHOOSE p \in paths : TRUE, pk.key, uid, strict, pk.form = "x509")

----------------------------------------------------------------------------
(* Certificates of OpenSSH.                                                *)

(* One that names no principal is good for nobody.                         *)
OsshCertCheckPrincipal(pk, name) == name \in pk.principals

OsshCertCheckValidity(pk) == J.now >= pk.after /\ J.now < pk.before

OsshPrefixMatch(a, b, bits) == bits <= Len(a) /\ SubSeq(a, 1, bits) = SubSeq(b, 1, bits)

(* An address is its bits; a peer's that is an IPv4 address in IPv6 form   *)
(* counts as the former.  Anything amiss in the list refuses the peer,     *)
(* whatever came before it.                                                *)
OsshSourceAddrMatch(list, peer) ==
    LET Malformed(e) == e.form # "ok" \/ e.prefix > Len(e.bits)
        Prefix(e) == IF e.prefix < 0 THEN Len(e.bits) ELSE e.prefix
    IN /\ peer # <<>>
       /\ \A i \in DOMAIN list : ~Malformed(list[i])
       /\ \E i \in DOMAIN list :
            /\ Len(list[i].bits) = Len(peer)
            /\ OsshPrefixMatch(peer, list[i].bits, Prefix(list[i]))

OsshCertCheckSourceAddress(pk, peer) == pk.source = <<>> \/ OsshSourceAddrMatch(pk.source, peer)

(* The first check that fails decides between an error and a refusal.      *)
CheckPublicKeyUnix(conf, name, pk, caFile, pattern, auth, k) ==
    LET pws == GetPwnam(name)
        pw == CHOOSE p \in pws : TRUE
        ca == SearchKeysFile(<<caFile>>, pk.ca, k.eu, TRUE, FALSE)
    IN IF pk.form = "ossh"
       THEN IF pk.ca.key = "" THEN "ERROR"
            ELSE IF caFile = Missing THEN "FAILURE"
            ELSE IF pws = {} THEN "ERROR"
            ELSE IF ca # "SUCCESS" THEN ca
            ELSE IF /\ OsshCertCheckPrincipal(pk, name) /\ OsshCertCheckValidity(pk)
                    /\ OsshCertCheckSourceAddress(pk, auth.peerIp)
                 THEN "SUCCESS" ELSE "FAILURE"
       ELSE IF pws = {} THEN "ERROR"
       ELSE SearchForPubKey(pw.home, pattern, name, pk, pw.uid, conf[1].val.StrictModes)

----------------------------------------------------------------------------
(* The callback of user authentication.                                    *)

Answer(ret, auth) == [ret |-> ret, auth |-> auth]

PasswordAuthentication(uc, req, isRoot, auth) ==
    LET rc == CheckPasswordUnix(req.user, req.pw)
        left == auth.attempts - 1
    IN IF ~uc.PasswordAuthentication \/ IsRootPasswordAuthBlocked(isRoot, uc)
       THEN Answer("REJECTED", auth)
       ELSE IF PasswordHasNul(req.pw) \/ (req.pw.text = "" /\ ~uc.PermitEmptyPasswords)
       THEN Answer("FAILURE", auth)
       ELSE IF rc = "SUCCESS" THEN Answer("SUCCESS", auth)
       ELSE IF rc = "FAILURE"
       THEN Answer(IF left = 0 THEN "REJECTED" ELSE "INVALID_PASSWORD",
                   [auth EXCEPT !.attempts = left])
       ELSE Answer("FAILURE", auth)

(* A certificate of X.509 needs a file of its user's keys: the chain alone *)
(* names no account in this build.                                         *)
PublicKeyAuthentication(conf, uc, req, isRoot, auth, k) ==
    LET rc == CheckPublicKeyUnix(conf, req.user, req.pk, uc.TrustedUserCAKeys,
                                 uc.AuthorizedKeysFile, auth, k)
    IN IF \/ ~uc.PubkeyAuthentication
          \/ IsRootPubKeyForcedCmdMissing(isRoot, uc)
          \/ req.pk.form = "x509" /\ uc.AuthorizedKeysFile = <<>>
       THEN Answer("REJECTED", auth)
       ELSE IF rc = "SUCCESS" THEN Answer("SUCCESS", auth)
       ELSE IF rc = "FAILURE" THEN Answer("INVALID_PUBLICKEY", auth)
       ELSE Answer("FAILURE", auth)

(* The ids are lowered again after a check; a process that cannot exits.   *)
Lowered(ans, down) ==
    [ret |-> IF down.ok THEN ans.ret ELSE "exit", auth |-> ans.auth, k |-> down.k]

(* A user that passed DoCheckUser() is checked with raised ids.            *)
CheckedAs(conf, ucs, req, auth, user, up) ==
    LET isRoot == IsRootUser(req.user)
        ans == IF user # "SUCCESS" THEN {Answer(user, auth)}
               ELSE IF ~up.ok \/ ucs = {} THEN {Answer("FAILURE", auth)}
               ELSE IF req.method = "password"
               THEN {PasswordAuthentication(uc, req, isRoot, auth) : uc \in ucs}
               ELSE {PublicKeyAuthentication(conf, uc, req, isRoot, auth, up.k) : uc \in ucs}
    IN Lowered(CHOOSE a \in ans : TRUE, AuthReducePermissions(conf, auth, up.k, "auth"))

(* ucs is what AuthGetUserConf() finds for the user.                       *)
RequestAuthentication(conf, ucs, req, auth, k) ==
    LET user == DoCheckUser(req.user, ucs)
    IN CheckedAs(conf, ucs, req, auth, user,
                 IF user = "SUCCESS" THEN AuthRaisePermissions(conf, auth, k, "auth") ELSE Done(k))

DefaultUserAuth(conf, ucs, req, auth, k) ==
    IF req.method \notin {"password", "publickey"}
    THEN [ret |-> "INVALID_AUTHTYPE", auth |-> auth, k |-> k]
    ELSE RequestAuthentication(conf, ucs, req, auth, k)

GetUserAuthTypes(uc) ==
    (IF uc.PasswordAuthentication THEN {"password"} ELSE {})
        \union (IF uc.PubkeyAuthentication THEN {"publickey"} ELSE {})

(* A name without an account is answered as an account in no block is.     *)
DefaultUserAuthTypes(conf, ucs, usr) ==
    IF ucs # {} THEN UNION {GetUserAuthTypes(uc) : uc \in ucs}
    ELSE IF CheckUserUnix(usr) = "FAILURE" THEN GetUserAuthTypes(GetUserConf(conf, usr, {}))
    ELSE {}

(* Whose ids the daemon runs under while it talks to peers.                *)
SetDefaultUserID(conf, k) ==
    IF ~Separated(conf) THEN {[uid |-> k.ru, gid |-> k.rg, sUid |-> k.ru, sGid |-> k.rg]}
    ELSE {[uid |-> pw.uid, gid |-> pw.gid, sUid |-> k.ru, sGid |-> k.rg] : pw \in GetPwnam("sshd")}

AuthCreateUser(conf, k) ==
    {[uid |-> i.uid, gid |-> i.gid, sUid |-> i.sUid, sGid |-> i.sGid,
      attempts |-> MaxAttempts, certCmd |-> <<>>, peerIp |-> <<>>] : i \in SetDefaultUserID(conf, k)}

AuthSetPeerIp(auth, ip) == [auth EXCEPT !.peerIp = ip]

AuthMergeForcedCmd(configCmd, certCmd) == IF configCmd # <<>> THEN configCmd ELSE certCmd

AuthSetCertForcedCmd(auth, cmd) == [auth EXCEPT !.certCmd = cmd]
=============================================================================
