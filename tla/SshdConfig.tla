----------------------------- MODULE SshdConfig -----------------------------
(***************************************************************************)
(* The configuration of wolfsshd (apps/wolfsshd/configuration.c): how its  *)
(* files are read into a list of nodes, one for what is global and one for *)
(* each Match block, and how the nodes that apply to a user are composed   *)
(* into the configuration of that user's connection.                       *)
(*                                                                         *)
(* A line is an option and a value; the text of a line, and the options a  *)
(* POSIX build has no use for, are abstracted to the way the parser takes  *)
(* them.  A value is a sequence of words, a number a sequence of terms.    *)
(***************************************************************************)
EXTENDS Integers, Sequences, FiniteSets, SequencesExt, FiniteSetsExt

CONSTANTS
    Jobs,        \* what the daemon is started and used with, a sequence
    MaxDepth,    \* WOLFSSHD_MAX_INCLUDE_DEPTH
    ConfigIntMax \* CONFIG_INT_MAX

VARIABLES
    job,         \* number of the job
    nodes,       \* the WOLFSSHD_CONFIG list, its head first
    frames,      \* calls of ConfigLoad under way: file, line, node, depth
    loadRet      \* "loading", "ok" or "failed"

confVars == <<nodes, frames, loadRet>>

J == Jobs[job]

----------------------------------------------------------------------------
(* Values.  A setter yields the value to store in a set, or the empty set  *)
(* for an error.                                                           *)

Missing == ""           \* a string that is NULL

Unit(u) ==
    CASE u = "s" -> 1 [] u = "m" -> 60 [] u = "h" -> 3600
      [] u = "d" -> 86400 [] u = "w" -> 604800 [] u = "" -> 1

(* One run of digits; -1 when it leaves the range.                         *)
Digits(ds) ==
    FoldLeft(LAMBDA v, d : IF v < 0 \/ v > (ConfigIntMax - d) \div 10 THEN -1
                           ELSE v * 10 + d, 0, ds)

(* A term is [ds |-> digits, u |-> unit], "" where the text has none; "?"  *)
(* stands for any other character.  Only the last term may do without.     *)
GetConfigInt(terms, isTime) ==
    LET Term(t) == Digits(t.ds)
        bad == \/ terms = <<>>
               \/ ~isTime /\ (Len(terms) # 1 \/ terms[1].u # "")
               \/ \E i \in DOMAIN terms :
                    LET t == terms[i]
                    IN \/ t.ds = <<>> \/ Term(t) < 0 \/ t.u = "?"
                       \/ t.u = "" /\ i # Len(terms)
                       \/ ~isTime /\ Term(t) = 0 /\ Len(t.ds) # 1
        Add(sum, t) == IF sum < 0 \/ Term(t) > ConfigIntMax \div Unit(t.u) THEN -1
                       ELSE IF sum > ConfigIntMax - Term(t) * Unit(t.u) THEN -1
                       ELSE sum + Term(t) * Unit(t.u)
    IN IF bad THEN -1 ELSE FoldLeft(Add, 0, terms)

(* The first word, or all of them: CreateString() refuses nothing else but *)
(* an empty value.                                                         *)
Word(words) == IF words = <<>> THEN Missing ELSE words[1]
CreateString(words) == IF words = <<>> THEN {} ELSE {words}
SetFileString(words) == {Word(words)} \ {Missing}
SetListString(words) == CreateString(words)
SetAuthKeysFile(pattern) == CreateString(pattern)
HandleChrootDir(words) == SetFileString(words)

YesNo(words) ==
    IF Word(words) = "yes" THEN {TRUE} ELSE IF Word(words) = "no" THEN {FALSE} ELSE {}

HandlePwAuth(words) == YesNo(words)
HandlePubKeyAuth(words) == YesNo(words)
HandlePermitEmptyPw(words) == YesNo(words)
HandleStrictModes(words) == YesNo(words)
SetSystemCA(words) == YesNo(words)
SetUserCAStore(words) == YesNo(words)

HandlePrivSep(words) ==
    IF Word(words) = "sandbox" THEN {"SANDBOX"}
    ELSE IF Word(words) = "yes" THEN {"SEPARAT"}
    ELSE IF Word(words) = "no" THEN {"OFF"} ELSE {}

HandlePermitRoot(words) ==
    IF Word(words) = "no" THEN {"NO"}
    ELSE IF Word(words) = "yes" THEN {"YES"}
    ELSE IF Word(words) \in {"prohibit-password", "without-password"} THEN {"PROHIBIT_PW"}
    ELSE IF Word(words) = "forced-commands-only" THEN {"FORCED_CMD"} ELSE {}

HandleLoginGraceTime(terms) ==
    LET n == GetConfigInt(terms, TRUE) IN IF n < 0 THEN {} ELSE {n}

HandlePort(terms) ==
    LET n == GetConfigInt(terms, FALSE) IN IF n <= 0 \/ n > 65535 THEN {} ELSE {n}

(* The protocol is checked and stored nowhere.                             *)
HandleProtocol(terms) == IF GetConfigInt(terms, FALSE) = 2 THEN {2} ELSE {}

----------------------------------------------------------------------------
(* Nodes.                                                                  *)

ConfigNew ==
    [usr |-> <<>>, grp |-> <<>>, mask |-> {},
     val |-> [AuthorizedKeysFile |-> <<>>, UsePrivilegeSeparation |-> "SEPARAT",
              PermitEmptyPasswords |-> FALSE, LoginGraceTime |-> 120,
              HostKey |-> Missing, HostCertificate |-> Missing,
              PasswordAuthentication |-> TRUE, PubkeyAuthentication |-> TRUE,
              Port |-> 22, PermitRootLogin |-> "NO", ChrootDirectory |-> Missing,
              ForceCommand |-> <<>>, TrustedUserCAKeys |-> Missing,
              PidFile |-> Missing, Banner |-> Missing, StrictModes |-> TRUE,
              AuthorizedUPNDomains |-> <<>>, SystemCAKeys |-> FALSE,
              UserCAStore |-> FALSE, Protocol |-> 2]]

(* A copy has the values and neither the selectors nor the mask.           *)
ConfigCopy(node) == [node EXCEPT !.usr = <<>>, !.grp = <<>>, !.mask = {}]

(* Options that are read and have no effect.                               *)
Ignored == {"Subsystem", "ChallengeResponseAuthentication", "UsePAM", "X11Forwarding",
            "PrintMotd", "AcceptEnv", "UseDNS"}
(* Options of the certificate stores of Windows.                           *)
WinOnly == {"WinUserStores", "WinUserDwFlags", "WinUserPvPara", "HostKeyStore",
            "HostKeyStoreSubject", "HostKeyStoreFlags"}
GlobalOnly == {"HostKey", "HostCertificate", "SystemCAKeys", "UserCAStore"}
Setters == DOMAIN ConfigNew.val

(* Which node fields a Match block hands on: ConfigComposeFrom() has no    *)
(* line for the two options that CheckNotInMatch() keeps out of a block.   *)
Composed == Setters \ {"SystemCAKeys", "UserCAStore", "Protocol"}

CheckNotInMatch(node) == node.usr = <<>> /\ node.grp = <<>>

Stored(opt, val) ==
    CASE opt = "AuthorizedKeysFile" -> SetAuthKeysFile(val)
      [] opt = "UsePrivilegeSeparation" -> HandlePrivSep(val)
      [] opt = "PermitEmptyPasswords" -> HandlePermitEmptyPw(val)
      [] opt = "LoginGraceTime" -> HandleLoginGraceTime(val)
      [] opt = "PasswordAuthentication" -> HandlePwAuth(val)
      [] opt = "PubkeyAuthentication" -> HandlePubKeyAuth(val)
      [] opt = "Port" -> HandlePort(val)
      [] opt = "Protocol" -> HandleProtocol(val)
      [] opt = "PermitRootLogin" -> HandlePermitRoot(val)
      [] opt = "ChrootDirectory" -> HandleChrootDir(val)
      [] opt \in {"ForceCommand", "AuthorizedUPNDomains"} -> SetListString(val)
      [] opt = "StrictModes" -> HandleStrictModes(val)
      [] opt = "SystemCAKeys" -> SetSystemCA(val)
      [] opt = "UserCAStore" -> SetUserCAStore(val)
      [] OTHER -> SetFileString(val)

(* A list of names has no wildcard, no negation and no empty entry.        *)
CheckMatchList(list) == list # <<>> /\ \A e \in Range(list) : e \notin {"", "*", "?", "!"}

MatchList(list, name) == name \in Range(list)

(* The value of Match is a sequence of selector and list; selectors other  *)
(* than User and Group are refused, and so is a block without any.         *)
CheckMatchSelectors(val) ==
    val # <<>> /\ \A c \in Range(val) : c.sel \in {"User", "Group"}

(* A selector given twice keeps its last list.                             *)
ParseMatchCriteria(node, val) ==
    IF \E c \in Range(val) : ~CheckMatchList(c.list) THEN {}
    ELSE LET Given(sel) == LET at == {i \in DOMAIN val : val[i].sel = sel}
                           IN IF at = {} THEN <<>> ELSE val[Max(at)].list
         IN {[node EXCEPT !.usr = Given("User"), !.grp = Given("Group")]}

----------------------------------------------------------------------------
(* Reading the files.                                                      *)

(* Files a pattern names, in the order of their names: directories and    *)
(* hidden entries are passed over, the latter unless the pattern itself    *)
(* begins with a dot.                                                      *)
Globbed(dirs, inc) ==
    LET taken == {e \in dirs[inc.file] : e.ends = inc.ends /\ ~e.dir /\ (e.hidden => inc.hidden)}
        byName == SetToSortSeq(taken, LAMBDA a, b : a.rank < b.rank)
    IN [i \in DOMAIN byName |-> byName[i].name]

IncludedBy(dirs, inc) == IF inc.star THEN Globbed(dirs, inc) ELSE <<inc.file>>

Fail == loadRet' = "failed" /\ frames' = <<>> /\ UNCHANGED nodes

Top == Last(frames)
Advance == [frames EXCEPT ![Len(frames)].line = @ + 1]

(* ConfigLoad() opens the file of a frame: line 0 stands for that.         *)
ConfigOpen ==
    /\ loadRet = "loading" /\ frames # <<>> /\ Top.line = 0
    /\ IF Top.depth >= MaxDepth \/ Top.file \notin DOMAIN J.files THEN Fail
       ELSE frames' = Advance /\ UNCHANGED <<nodes, loadRet>>

(* At the end of a file the caller goes on, in the node it was in.         *)
ConfigEnd ==
    /\ loadRet = "loading" /\ frames # <<>> /\ Top.line > 0 /\ Top.line > Len(J.files[Top.file])
    /\ frames' = Front(frames)
    /\ loadRet' = IF Len(frames) = 1 THEN "ok" ELSE loadRet
    /\ UNCHANGED nodes

HandleInclude(inc) ==
    LET names == IncludedBy(J.dirs, inc)
        Frame(i) == [file |-> names[Len(names) + 1 - i], line |-> 0,
                     node |-> Top.node, depth |-> Top.depth + 1]
    IN IF inc.star /\ inc.file \notin DOMAIN J.dirs THEN Fail
       ELSE /\ frames' = Advance \o [i \in 1..Len(names) |-> Frame(i)]
            /\ UNCHANGED <<nodes, loadRet>>

(* A Match block gets a node of its own at the end of the list, and the    *)
(* rest of this file, no other, is read into it.                           *)
HandleMatch(val) ==
    LET new == ParseMatchCriteria(ConfigCopy(nodes[1]), val)
    IN IF ~CheckMatchSelectors(val) \/ new = {} THEN Fail
       ELSE /\ nodes' = nodes \o SetToSeq(new)
            /\ frames' = [Advance EXCEPT ![Len(frames)].node = Len(nodes) + 1]
            /\ UNCHANGED loadRet

HandleConfigOption(opt, val) ==
    LET node == Top.node
        new == Stored(opt, val)
    IN IF new = {} \/ (opt \in GlobalOnly /\ ~CheckNotInMatch(nodes[node])) THEN Fail
       ELSE /\ nodes' = [nodes EXCEPT ![node].val[opt] = CHOOSE v \in new : TRUE,
                                      ![node].mask = @ \union {opt}]
            /\ frames' = Advance /\ UNCHANGED loadRet

(* A name no option has, the form "name=value" and a line longer than the  *)
(* buffer are errors; an empty line and a comment are passed over.         *)
ParseConfigLine ==
    /\ loadRet = "loading" /\ frames # <<>> /\ Top.line > 0 /\ Top.line \in DOMAIN J.files[Top.file]
    /\ LET l == J.files[Top.file][Top.line]
       IN \/ l.opt \in Ignored \union {"comment", "blank"}
             /\ frames' = Advance /\ UNCHANGED <<nodes, loadRet>>
          \/ l.opt \in {"unknown", "equals", "too long"} \union WinOnly /\ Fail
          \/ l.opt = "Include" /\ HandleInclude(l.val)
          \/ l.opt = "Match" /\ HandleMatch(l.val)
          \/ l.opt \in Setters /\ HandleConfigOption(l.opt, l.val)

ConfigLoad == (ConfigOpen \/ ParseConfigLine \/ ConfigEnd) /\ UNCHANGED job

ConfigInit ==
    /\ job \in DOMAIN Jobs
    /\ nodes = <<ConfigNew>>
    /\ frames = <<[file |-> "main", line |-> 0, node |-> 1, depth |-> 0]>>
    /\ loadRet = "loading"

----------------------------------------------------------------------------
(* The configuration of one user.                                          *)

(* Mutant: the last block to set an option decides.                        *)
ConfigComposeLast(dst, src) ==
    LET take == src.mask \intersect Composed
    IN [dst EXCEPT !.val = [o \in Setters |-> IF o \in take THEN src.val[o] ELSE dst.val[o]],
                   !.mask = @ \union take]

(* What dst does not have yet is taken: the first block to set an option   *)
(* decides.                                                                *)
ConfigComposeFrom(dst, src) ==
    LET take == (src.mask \ dst.mask) \intersect Composed
    IN [dst EXCEPT !.val = [o \in Setters |-> IF o \in take THEN src.val[o] ELSE dst.val[o]],
                   !.mask = @ \union take]

MatchApplies(node, usr, grps) ==
    /\ ~CheckNotInMatch(node)
    /\ node.usr # <<>> => MatchList(node.usr, usr)
    /\ node.grp # <<>> => \E g \in grps : MatchList(node.grp, g)

GetUserConf(conf, usr, grps) ==
    LET upto[i \in 0..Len(conf)] ==
            IF i = 0 THEN ConfigCopy(conf[1])
            ELSE LET dst == upto[i - 1]
                 IN IF MatchApplies(conf[i], usr, grps) THEN ConfigComposeFrom(dst, conf[i]) ELSE dst
    IN upto[Len(conf)].val

----------------------------------------------------------------------------
(* What the files state, read without the loader.  Included files stand    *)
(* in place of the line that names them, between brackets; a line belongs  *)
(* to the last Match before it that no bracket closed since hides.         *)

Bracket(b) == [opt |-> b, val |-> <<>>]

Text(files, dirs) ==
    LET Included(l) == IF l.val.star /\ l.val.file \notin DOMAIN dirs THEN <<>>
                       ELSE SelectSeq(IncludedBy(dirs, l.val), LAMBDA f : f \in DOMAIN files)
        upto[d \in 0..MaxDepth] ==
            [f \in DOMAIN files |->
                FlattenSeq([i \in DOMAIN files[f] |->
                    LET l == files[f][i]
                    IN IF l.opt # "Include" THEN <<l>>
                       ELSE IF d = 0 THEN <<>>
                       ELSE FlattenSeq([k \in DOMAIN Included(l) |->
                                <<Bracket("{")>> \o upto[d - 1][Included(l)[k]] \o <<Bracket("}")>>])])]
    IN upto[MaxDepth]["main"]

Lines ==
    LET jobs == Jobs IN <<>> \o [j \in DOMAIN jobs |-> Text(jobs[j].files, jobs[j].dirs)]

Nesting(ls, i) == Cardinality({k \in 1..i : ls[k].opt = "{"})
                  - Cardinality({k \in 1..i : ls[k].opt = "}"})

(* The Match line that governs line i, 0 for none.                         *)
Block(ls, i) ==
    Max({0} \union {m \in 1..(i - 1) :
            ls[m].opt = "Match" /\ \A k \in m..i : Nesting(ls, k) >= Nesting(ls, m)})

(* Whether a Match line speaks of the user: each selector it names does.   *)
Speaks(line, usr, grps) ==
    LET Named(sel) == {i \in DOMAIN line.val : line.val[i].sel = sel}
        Listed(sel) == Range(line.val[Max(Named(sel))].list)
    IN /\ Named("User") # {} => usr \in Listed("User")
       /\ Named("Group") # {} => grps \intersect Listed("Group") # {}

(* The lines that set an option for a user, and of these the one that      *)
(* decides: the last of the first block, or the last outside of every one. *)
Governing(ls, opt, usr, grps) ==
    {i \in DOMAIN ls : /\ ls[i].opt = opt
                       /\ Block(ls, i) # 0 => Speaks(ls[Block(ls, i)], usr, grps)}
Rank(ls, i) == IF Block(ls, i) = 0 THEN Len(ls) + 1 ELSE Block(ls, i)
Deciding(ls, is) ==
    {i \in is : \A j \in is : \/ Rank(ls, i) < Rank(ls, j)
                              \/ Rank(ls, i) = Rank(ls, j) /\ j <= i}

(* What the files state, option by option; else there is the default.      *)
Stated(ls, opts, usr, grps) ==
    [opt \in opts |->
        IF Governing(ls, opt, usr, grps) = {} THEN ConfigNew.val[opt]
        ELSE LET i == CHOOSE n \in Deciding(ls, Governing(ls, opt, usr, grps)) : TRUE
             IN CHOOSE v \in Stored(opt, ls[i].val) : TRUE]
=============================================================================
