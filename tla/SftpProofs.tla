----------------------------- MODULE SftpProofs -----------------------------
(***************************************************************************)
(* Three invariants of Sftp, for any number of calls, interrupts, faults   *)
(* and connections, any files and any bounds.  Each rests on the one       *)
(* before it.                                                              *)
(*                                                                         *)
(* TalkInv places the one message under way: the client has not sent yet,  *)
(* the request is in the channel or half read, the server answers it, or   *)
(* the answer is in the channel or half read, and the call of the client,  *)
(* its state and the answer's kind belong to each other (InStep).          *)
(* LeakInv gives every handle, descriptor and unfinished body an owner:    *)
(* the call that runs, the answer on its way, or the connection that is    *)
(* about to be given up (NoLeak).  FaithInv says of the call that runs how *)
(* far the file it copies has come, of every kept offset that it was kept  *)
(* with the files as they were then, and of a listing which names it still *)
(* lacks (Faithful).                                                       *)
(*                                                                         *)
(* The theorems have a hypothesis: the window fills up only where a        *)
(* request begins.  At the other places the code gives up a request that   *)
(* is half sent, the two ends fall out of step and handles stay open.      *)
(***************************************************************************)
EXTENDS Sftp, ProofBasics

----------------------------------------------------------------------------
(* The control state of a call.                                            *)

StatesOf(op) ==
    CASE op = "get" -> {"STAT", "OPEN", "LOOKUP", "OPEN_LOCAL", "READ", "CLOSE", "CLOSE_LOCAL"}
      [] op = "put" -> {"LOOKUP", "STAT", "OPEN_LOCAL", "OPEN", "WRITE", "CLOSE_LOCAL", "CLOSE"}
      [] op = "ls" -> {"REALPATH", "OPENDIR", "READDIR", "CLOSE"}
      [] op = "chmod" -> {"STAT", "SETSTAT"}
      [] op = "rename" -> {"STAT", "RENAME"}
      [] op = "remove" -> {"LSTAT", "REMOVE"}
      [] op = "mkdir" -> {"MKDIR"}
      [] op = "rmdir" -> {"RMDIR"}
      [] op = "stat" -> {"STAT"}
      [] op = "open" -> {"OPEN"}
      [] op = "close" -> {"CLOSE"}
      [] OTHER -> {}

Quiet == {"idle", "local", "build"}
Phases == {"idle", "local", "build", "send", "header", "body"}

ClientFields ==
    {"sftpState", "call", "st", "phase", "out", "sendState", "setAtrState", "hdr", "reqId", "uid",
     "handle", "ofst", "size", "fl", "error", "sftpInt", "table", "files", "names", "held",
     "result", "cut", "stale", "faults"}
ServerFields ==
    {"sftpState", "state", "hdr", "out", "fileList", "dirList", "handleId", "fds"}

(* What a call names: paths of the server and files of the client.         *)
NamesOf(call) ==
    /\ call.op \in {"get", "rename", "chmod", "remove", "mkdir", "rmdir", "stat", "open"} => call.from \in Remotes
    /\ call.op \in {"put", "rename"} => call.to \in Remotes
    /\ call.op = "get" => call.to \in Locals
    /\ call.op = "put" => call.from \in Locals

(* The state of the call that runs fits its operation, and the phase fits  *)
(* the state.                                                              *)
Control(c) ==
    /\ DOMAIN c = ClientFields
    /\ c.phase \in Phases
    /\ c.phase = "idle" <=> c.st = "idle"
    /\ c.phase = "local" <=> c.st \in LocalStates
    /\ c.st # "idle" => c.call.op \in AllOps /\ c.st \in StatesOf(c.call.op)
    /\ c.call = NoCall \/ (c.call.op \in AllOps /\ NamesOf(c.call))
    /\ c.sendState = <<>> /\ c.setAtrState = <<>>

----------------------------------------------------------------------------
(* Where the one message under way is.                                     *)

HeaderOf(m) == [part |-> "header", m |-> m]
BodyOf(m) == [part |-> "body", m |-> m]
Asked == Message(client.st, client.reqId, RequestArg(client), client.uid)
Answer ==
    IF client.phase = "body" THEN client.hdr
    ELSE IF down # <<>> THEN down[1].m ELSE server.out[1].m

At(phases, out, hdr) == client.phase \in phases /\ client.out = out /\ client.hdr = hdr
Serves(state, hdr, out) == server.state = state /\ server.hdr = hdr /\ server.out = out
Wire(u, d) == up = u /\ down = d

Rest == At(Quiet, <<>>, NoMessage) /\ Serves("RECV_READ", NoMessage, <<>>) /\ Wire(<<>>, <<>>)

Ask1 == At({"send"}, <<HeaderOf(Asked), BodyOf(Asked)>>, NoMessage) /\ Serves("RECV_READ", NoMessage, <<>>) /\ Wire(<<>>, <<>>)
Ask2 == At({"send"}, <<BodyOf(Asked)>>, NoMessage) /\ Serves("RECV_READ", NoMessage, <<>>) /\ Wire(<<HeaderOf(Asked)>>, <<>>)
Ask3 == At({"send"}, <<BodyOf(Asked)>>, NoMessage) /\ Serves("RECV_DO", Asked, <<>>) /\ Wire(<<>>, <<>>)
Ask4 == At({"header"}, <<>>, NoMessage) /\ Serves("RECV_READ", NoMessage, <<>>) /\ Wire(<<HeaderOf(Asked), BodyOf(Asked)>>, <<>>)
Ask5 == At({"header"}, <<>>, NoMessage) /\ Serves("RECV_DO", Asked, <<>>) /\ Wire(<<BodyOf(Asked)>>, <<>>)
Lost == At({"header"}, <<>>, NoMessage) /\ Serves("RECV_READ", NoMessage, <<>>) /\ Wire(<<>>, <<>>)
Ans1 == At({"header"}, <<>>, NoMessage) /\ Serves("RECV_SEND", NoMessage, <<HeaderOf(Answer), BodyOf(Answer)>>) /\ Wire(<<>>, <<>>)
Ans2 == At({"header"}, <<>>, NoMessage) /\ Serves("RECV_SEND", NoMessage, <<BodyOf(Answer)>>) /\ Wire(<<>>, <<HeaderOf(Answer)>>)
Ans3 == At({"header"}, <<>>, NoMessage) /\ Serves("RECV_READ", NoMessage, <<>>) /\ Wire(<<>>, <<HeaderOf(Answer), BodyOf(Answer)>>)
Ans4 == At({"body"}, <<>>, Answer) /\ Serves("RECV_SEND", NoMessage, <<BodyOf(Answer)>>) /\ Wire(<<>>, <<>>)
Ans5 == At({"body"}, <<>>, Answer) /\ Serves("RECV_READ", NoMessage, <<>>) /\ Wire(<<>>, <<BodyOf(Answer)>>)

Asking == Ask1 \/ Ask2 \/ Ask3 \/ Ask4 \/ Ask5
Answering == Ans1 \/ Ans2 \/ Ans3 \/ Ans4 \/ Ans5

(* The reply is one the function that asked can read.                      *)
Answers ==
    /\ Answer.type \in Expected(client.st)
    /\ Answer.uid = client.uid
    /\ client.reqId = IF client.phase = "body" THEN Answer.id + 1 ELSE Answer.id

InitPart == HeaderOf(Message("INIT", 0, <<>>, 0))
VersionPart == HeaderOf(Message("VERSION", 0, <<>>, 0))

Greets(c, s, u, d) ==
    /\ client.sftpState = c /\ server.sftpState = s
    /\ At(Quiet, <<>>, NoMessage) /\ Serves("RECV_READ", NoMessage, <<>>) /\ Wire(u, d)
Greeting ==
    \/ Greets("BEGIN", "BEGIN", <<>>, <<>>)
    \/ Greets("RECV", "BEGIN", <<InitPart>>, <<>>)
    \/ Greets("RECV", "RECV", <<>>, <<>>)
    \/ Greets("RECV", "DONE", <<>>, <<VersionPart>>)

Greeted == client.sftpState = "DONE" /\ server.sftpState = "DONE"

Talk ==
    \/ Greeting
    \/ Greeted /\ (Rest \/ Asking \/ Lost \/ (Answering /\ Answers))

TalkInv ==
    /\ Control(client) /\ DOMAIN server = ServerFields
    /\ client.reqId \in Nat /\ client.uid \in Nat
    /\ DOMAIN used = {"calls", "ints", "faults", "fulls", "dead"} /\ used.dead \in BOOLEAN
    /\ ~Dead => Talk
    /\ client.phase = "body" => client.hdr.uid = client.uid

----------------------------------------------------------------------------
(* Who has which handle.                                                   *)

(* The handle the call that runs holds at the server, if it has one.       *)
Own(c) ==
    IF \/ c.call.op = "get" /\ c.st \in {"LOOKUP", "OPEN_LOCAL", "READ", "CLOSE"}
       \/ c.call.op = "put" /\ c.st \in {"WRITE", "CLOSE"}
       \/ c.call.op = "put" /\ c.st = "CLOSE_LOCAL" /\ c.handle # 0
       \/ c.call.op = "ls" /\ c.st \in {"READDIR", "CLOSE"}
    THEN {c.handle} ELSE {}

FilesClosed(c) ==
    c.fl => \/ c.call.op = "get" /\ c.st \in {"READ", "CLOSE", "CLOSE_LOCAL"}
            \/ c.call.op = "put" /\ c.st \in {"OPEN", "WRITE", "CLOSE_LOCAL"}

(* The server's tables.                                                    *)
Tables(s) ==
    /\ s.handleId \in Nat
    /\ \A h \in s.fileList : h \in [id : 1 .. s.handleId, name : Remotes]
    /\ \A h \in s.dirList : h \in [id : 1 .. s.handleId, isEof : BOOLEAN, rest : SUBSET Remotes]
    /\ \A g \in s.fileList, h \in s.dirList : g.id # h.id
    /\ \A g, h \in s.fileList : g.id = h.id => g = h
    /\ \A g, h \in s.dirList : g.id = h.id => g = h
    /\ s.fds = Handles(s)

(* Held or owned, no handle twice; a reply to OPEN or OPENDIR that is a    *)
(* handle has yet to be taken, one to CLOSE has gone already.              *)
Owned ==
    /\ client.held \cap Own(client) = {}
    /\ client.call.op = "close" /\ Busy(client) => client.handle \in client.held
    /\ Own(client) \cup client.held \subseteq Nat \ {0}
    /\ IF ~Answering THEN Handles(server) = client.held \cup Own(client)
       ELSE CASE client.st \in {"OPEN", "OPENDIR"} ->
                    IF Answer.type = "HANDLE"
                    THEN /\ Answer.arg \in Nat \ {0} /\ Answer.arg \notin client.held
                         /\ Handles(server) = client.held \cup {Answer.arg}
                    ELSE Answer.arg # "OK" /\ Handles(server) = client.held
              [] client.st = "CLOSE" -> Handles(server) = (client.held \cup Own(client)) \ {client.handle}
              [] OTHER -> Handles(server) = client.held \cup Own(client)

LeakInv ==
    /\ Tables(server)
    /\ FilesClosed(client)
    /\ ~Dead => Owned
    /\ server.state = "free" => Dead /\ Handles(server) = {}

----------------------------------------------------------------------------
(* What the files hold.  c is the client, f the server's paths, L and D    *)
(* its open files and directories; a tells whether a reply is under way,   *)
(* and r is that reply.                                                    *)

(* t is the first n blocks of s.                                           *)
Begins(t, s, n) ==
    n \in Nat /\ n <= Len(s) /\ Len(t) = n /\ \A i \in 1 .. n : t[i] = s[i]

Source(c, f) == IF c.call.op = "get" THEN f[c.call.from].data ELSE c.files[c.call.from].data
Target(c, f) == IF c.call.op = "get" THEN c.files[c.call.to].data ELSE f[c.call.to].data
Sound(c, f) == ~c.stale => Begins(Target(c, f), Source(c, f), c.ofst)

TypedClient(c) ==
    /\ c.files \in [Locals -> Entries] /\ c.ofst \in Nat
    /\ c.error \in BOOLEAN /\ c.cut \in BOOLEAN /\ c.stale \in BOOLEAN /\ c.sftpInt \in BOOLEAN
    /\ DOMAIN c.table = 1 .. OfstSlots
    /\ \A i \in 1 .. OfstSlots : c.table[i].offset \in Nat
    /\ c.error => c.st \in {"CLOSE", "CLOSE_LOCAL"}

TypedRemote(f) ==
    /\ f \in [Remotes -> Entries]
    /\ \A n \in Remotes : f[n].kind # "file" => f[n].data = <<>>

(* An offset was kept with the files as they stood, unless it was stale.   *)
Kept(table) == \A i \in 1 .. OfstSlots :
    table[i].offset > 0 /\ table[i].snap # <<>> =>
        Begins(table[i].snap[2], table[i].snap[1], table[i].offset)

Getting(c, f, L, a, r) ==
    c.call.op = "get" =>
      /\ c.st \in {"STAT", "OPEN", "LOOKUP"} => c.ofst = 0 /\ ~c.stale
      /\ c.st \in {"STAT", "OPEN", "LOOKUP", "OPEN_LOCAL", "READ"} => ~c.cut
      /\ c.st \in {"LOOKUP", "OPEN_LOCAL", "READ"} => [id |-> c.handle, name |-> c.call.from] \in L
      /\ c.st = "OPEN_LOCAL" /\ c.ofst > 0 => Sound(c, f)
      /\ c.st = "READ" => Sound(c, f)
      /\ a /\ c.st = "OPEN" =>
            \/ r.type = "STATUS" /\ r.arg # "OK"
            \/ r.type = "HANDLE" /\ [id |-> r.arg, name |-> c.call.from] \in L
      /\ a /\ c.st = "READ" =>
            \/ r.type = "DATA" /\ c.ofst < Len(Source(c, f)) /\ r.arg = Source(c, f)[c.ofst + 1]
            \/ r.type = "STATUS" /\ r.arg = "EOF" /\ c.ofst >= Len(Source(c, f))
            \/ r.type = "STATUS" /\ r.arg \notin {"OK", "EOF"}

Putting(c, f, L, a, r) ==
    c.call.op = "put" =>
      /\ c.st = "LOOKUP" => c.ofst = 0 /\ ~c.stale
      /\ c.st \in {"LOOKUP", "STAT", "OPEN_LOCAL", "OPEN", "WRITE"} => ~c.cut
      /\ c.st \in {"STAT", "OPEN_LOCAL"} /\ c.ofst > 0 => Sound(c, f)
      /\ c.st = "OPEN" /\ ~a /\ c.ofst > 0 => Sound(c, f)
      /\ c.st = "OPEN" /\ a =>
            \/ r.type = "STATUS" /\ r.arg # "OK"
            \/ /\ r.type = "HANDLE" /\ Sound(c, f) /\ f[c.call.to].kind = "file"
               /\ [id |-> r.arg, name |-> c.call.to] \in L
      /\ c.st = "WRITE" =>
            /\ [id |-> c.handle, name |-> c.call.to] \in L
            /\ f[c.call.to].kind = "file" /\ c.ofst < Len(Source(c, f))
            /\ ~a => Sound(c, f)
            /\ a => IF r.arg = "OK"
                    THEN ~c.stale => Begins(Target(c, f), Source(c, f), c.ofst + 1)
                    ELSE Sound(c, f)
      /\ c.st \in {"CLOSE_LOCAL", "CLOSE"} /\ ~c.error /\ ~c.cut /\ ~c.stale =>
            Target(c, f) = Source(c, f)

Existing(f) == {n \in Remotes : Exists(f, n)}
Listed(names) == UNION {names[i] : i \in DOMAIN names}
Apart(names, rest, f) ==
    /\ \A i, j \in DOMAIN names : i # j => names[i] \cap names[j] = {}
    /\ Listed(names) \cap rest = {} /\ Listed(names) \cup rest = Existing(f)

Listing(c, f, D, a, r) ==
    c.call.op = "ls" =>
      /\ c.names \in Seq(SUBSET Remotes)
      /\ c.st \in {"REALPATH", "OPENDIR"} => c.names = <<>>
      /\ c.st = "OPENDIR" /\ a =>
            \/ r.type = "STATUS" /\ r.arg # "OK"
            \/ r.type = "HANDLE" /\ \E h \in D : h.id = r.arg /\ h.rest = Existing(f) /\ ~h.isEof
      /\ c.st = "READDIR" =>
            \E h \in D :
               /\ h.id = c.handle /\ (h.isEof => h.rest = {})
               /\ ~a => Apart(c.names, h.rest, f)
               /\ a => IF r.type = "NAME"
                       THEN /\ r.arg \in SUBSET Remotes /\ r.arg \cap h.rest = {}
                            /\ Apart(c.names, r.arg \cup h.rest, f)
                       ELSE Apart(c.names, {}, f)
      /\ c.st = "CLOSE" => Apart(c.names, {}, f)

(* What outlives the connection: a get that has all it asked for, and what *)
(* the last call left.                                                     *)
Did(c, f) ==
    CASE c.call.op \in {"get", "put"} -> Target(c, f) = Source(c, f)
      [] c.call.op = "ls" -> Apart(c.names, {}, f)
      [] OTHER -> TRUE

Ended(c, f) ==
    /\ c.call.op = "get" /\ c.st \in {"CLOSE", "CLOSE_LOCAL"}
          /\ ~c.error /\ ~c.cut /\ ~c.stale => Target(c, f) = Source(c, f)
    /\ ~Busy(c) /\ c.result = "ok" /\ ~c.cut /\ ~c.stale => Did(c, f)

(* The files, the table and the listing are as far as the call has come.   *)
Goes(c, f, s, a, r) ==
    /\ Kept(c.table)
    /\ Getting(c, f, s.fileList, a, r)
    /\ Putting(c, f, s.fileList, a, r)
    /\ Listing(c, f, s.dirList, a, r)

FaithInv ==
    /\ TypedClient(client) /\ TypedRemote(remote)
    /\ ~Dead => Goes(client, remote, server, Answering, Answer)
    /\ Ended(client, remote)
----------------------------------------------------------------------------
(* The steps of a call.                                                    *)

Requests == {"REALPATH", "OPENDIR", "READDIR", "STAT", "LSTAT", "CLOSE", "REMOVE", "RMDIR",
             "MKDIR", "OPEN", "READ", "WRITE", "RENAME", "SETSTAT"}

(* x is what a step of its call made of c: the conversation is left alone. *)
Turned(c, x) ==
    /\ DOMAIN x = ClientFields
    /\ x.call = c.call /\ x.sftpState = c.sftpState /\ x.out = c.out /\ x.hdr = c.hdr
    /\ x.sendState = c.sendState /\ x.setAtrState = c.setAtrState
    /\ x.reqId = c.reqId /\ x.uid = c.uid
    /\ x.phase = IF x.st = "idle" THEN "idle" ELSE IF x.st \in LocalStates THEN "local" ELSE "build"
    /\ x.st = "idle" \/ x.st \in StatesOf(c.call.op)

LEMMA TurnOfGet ==
    ASSUME NEW c, DOMAIN c = ClientFields, c.call.op = "get",
           NEW ret, NEW arg,
           c.st \in {"STAT", "OPEN", "READ", "CLOSE"},
           NEW x \in GetReturn(c, ret, arg)
    PROVE  Turned(c, x)
<1>1. CASE c.st = "STAT"
  <2>1. Turned(c, Finish(c, "fail")) /\ Turned(c, Goto([c EXCEPT !.size = arg.size], "OPEN"))
    BY <1>1 DEF Turned, Goto, Finish, ClientFields, LocalStates, StatesOf
  <2> QED BY <1>1, <2>1 DEF GetReturn
<1>2. CASE c.st = "OPEN"
  <2>1. Turned(c, Finish(c, "fail")) /\ Turned(c, Goto([c EXCEPT !.handle = arg], "LOOKUP"))
    BY <1>2 DEF Turned, Goto, Finish, ClientFields, LocalStates, StatesOf
  <2> QED BY <1>2, <2>1 DEF GetReturn
<1>3. CASE c.st = "READ"
  <2>1. Turned(c, GetLoopEnd(c)) /\ Turned(c, GetFails(c)) /\ Turned(c, [GetFails(c) EXCEPT !.faults = @ + 1])
    BY DEF GetLoopEnd, GetFails, Turned, Goto, ClientFields, LocalStates, StatesOf
  <2>2. Turned(c, GetBlock(c, arg))
    BY DEF GetBlock, GetLoopEnd, Turned, Goto, ClientFields, LocalStates, StatesOf
  <2> QED BY <1>3, <2>1, <2>2 DEF GetReturn
<1>4. CASE c.st = "CLOSE"
  BY <1>4 DEF GetReturn, Turned, Goto, Finish, ClientFields, LocalStates, StatesOf
<1> QED BY <1>1, <1>2, <1>3, <1>4

LEMMA TurnOfPut ==
    ASSUME NEW c, DOMAIN c = ClientFields, c.call.op = "put",
           NEW ret, NEW arg,
           c.st \in {"STAT", "OPEN", "WRITE", "CLOSE"},
           NEW x \in PutReturn(c, ret, arg)
    PROVE  Turned(c, x)
<1>1. CASE c.st = "STAT"
  <2>1. Turned(c, Finish([c EXCEPT !.table = Saved(c)], "fail"))
    BY <1>1 DEF Turned, Goto, Finish, ClientFields, LocalStates, StatesOf
  <2>2. \A n : Turned(c, Goto([c EXCEPT !.ofst = n], "OPEN_LOCAL"))
    BY <1>1 DEF Turned, Goto, Finish, ClientFields, LocalStates, StatesOf
  <2> QED BY <1>1, <2>1, <2>2 DEF PutReturn
<1>2. ASSUME NEW d, DOMAIN d = ClientFields, d.call = c.call, d.sftpState = c.sftpState,
             d.out = c.out, d.hdr = c.hdr, d.sendState = c.sendState, d.setAtrState = c.setAtrState,
             d.reqId = c.reqId, d.uid = c.uid
      PROVE  Turned(c, PutLoopEnd(d)) /\ \A y \in PutNext(d) : Turned(c, y)
  <2>1. Turned(c, PutLoopEnd(d))
    BY <1>2 DEF PutLoopEnd, Turned, Goto, ClientFields, LocalStates, StatesOf
  <2>2. Turned(c, Goto(d, "WRITE"))
    BY <1>2 DEF Turned, Goto, ClientFields, LocalStates, StatesOf
  <2>3. Turned(c, [PutLoopEnd([d EXCEPT !.error = TRUE]) EXCEPT !.faults = @ + 1])
    BY <1>2 DEF PutLoopEnd, Turned, Goto, ClientFields, LocalStates, StatesOf
  <2> QED BY <2>1, <2>2, <2>3 DEF PutNext
<1>3. CASE c.st = "OPEN"
  <2> DEFINE d == [c EXCEPT !.handle = arg]
  <2>1. /\ DOMAIN d = ClientFields /\ d.call = c.call /\ d.sftpState = c.sftpState
        /\ d.out = c.out /\ d.hdr = c.hdr /\ d.sendState = c.sendState /\ d.setAtrState = c.setAtrState
        /\ d.reqId = c.reqId /\ d.uid = c.uid
    BY DEF ClientFields
  <2> HIDE DEF d
  <2>2. \A y \in PutNext(d) : Turned(c, y)
    BY <2>1, <1>2
  <2>3. Turned(c, Goto([c EXCEPT !.handle = 0, !.error = TRUE], "CLOSE_LOCAL"))
    BY DEF Turned, Goto, ClientFields, LocalStates, StatesOf
  <2> QED BY <1>3, <2>2, <2>3 DEF PutReturn, d
<1>4. CASE c.st = "WRITE"
  <2> DEFINE d == [c EXCEPT !.ofst = @ + 1]
             e == [c EXCEPT !.error = TRUE]
  <2>1. /\ DOMAIN d = ClientFields /\ d.call = c.call /\ d.sftpState = c.sftpState
        /\ d.out = c.out /\ d.hdr = c.hdr /\ d.sendState = c.sendState /\ d.setAtrState = c.setAtrState
        /\ d.reqId = c.reqId /\ d.uid = c.uid
    BY DEF ClientFields
  <2>2. /\ DOMAIN e = ClientFields /\ e.call = c.call /\ e.sftpState = c.sftpState
        /\ e.out = c.out /\ e.hdr = c.hdr /\ e.sendState = c.sendState /\ e.setAtrState = c.setAtrState
        /\ e.reqId = c.reqId /\ e.uid = c.uid
    BY DEF ClientFields
  <2> HIDE DEF d, e
  <2>3. Turned(c, PutLoopEnd(d)) /\ Turned(c, PutLoopEnd(e)) /\ \A y \in PutNext(d) : Turned(c, y)
    BY <2>1, <2>2, <1>2
  <2> QED BY <1>4, <2>3 DEF PutReturn, d, e
<1>5. CASE c.st = "CLOSE"
  BY <1>5 DEF PutReturn, Turned, Goto, Finish, ClientFields, LocalStates, StatesOf
<1> QED BY <1>1, <1>3, <1>4, <1>5

LEMMA TurnOfOthers ==
    ASSUME NEW c, DOMAIN c = ClientFields, c.call.op \in AllOps \ {"get", "put"},
           c.st \in StatesOf(c.call.op), NEW ret, NEW arg,
           NEW x \in Return(c, ret, arg)
    PROVE  Turned(c, x)
<1>1. CASE c.call.op = "ls"
  <2>1. Turned(c, Goto(c, "OPENDIR")) /\ Turned(c, Goto(c, "CLOSE"))
    BY <1>1 DEF Turned, Goto, ClientFields, LocalStates, StatesOf
  <2>2. \A r : Turned(c, Finish(c, r))
    BY <1>1 DEF Turned, Finish, ClientFields, LocalStates, StatesOf
  <2>3. Turned(c, Goto([c EXCEPT !.handle = arg], "READDIR"))
    BY <1>1 DEF Turned, Goto, ClientFields, LocalStates, StatesOf
  <2>4. Turned(c, Goto([c EXCEPT !.names = Append(@, arg)], "READDIR"))
    BY <1>1 DEF Turned, Goto, ClientFields, LocalStates, StatesOf
  <2>5. x = LsReturn(c, ret, arg)
    BY <1>1 DEF Return
  <2>6. c.st \in {"REALPATH", "OPENDIR", "READDIR", "CLOSE"}
    BY <1>1 DEF StatesOf
  <2> QED BY <2>1, <2>2, <2>3, <2>4, <2>5, <2>6 DEF LsReturn
<1>2. CASE c.call.op = "chmod"
  <2>1. Turned(c, Goto(c, "SETSTAT")) /\ Turned(c, Finish(c, Result(ret)))
    BY <1>2 DEF Turned, Goto, Finish, ClientFields, LocalStates, StatesOf
  <2>2. x = ChmodReturn(c, ret)
    BY <1>2 DEF Return
  <2> QED BY <2>1, <2>2 DEF ChmodReturn
<1>3. CASE c.call.op = "rename"
  <2>1. Turned(c, Goto(c, "RENAME")) /\ Turned(c, Finish(c, Result(ret)))
    BY <1>3 DEF Turned, Goto, Finish, ClientFields, LocalStates, StatesOf
  <2>2. x = RenameReturn(c, ret)
    BY <1>3 DEF Return
  <2> QED BY <2>1, <2>2 DEF RenameReturn
<1>4. CASE c.call.op = "remove"
  <2>1. Turned(c, Goto(c, "REMOVE")) /\ Turned(c, Finish(c, Result(ret)))
    BY <1>4 DEF Turned, Goto, Finish, ClientFields, LocalStates, StatesOf
  <2>2. x = RemoveReturn(c, ret)
    BY <1>4 DEF Return
  <2> QED BY <2>1, <2>2 DEF RemoveReturn
<1>5. CASE c.call.op = "open"
  <2>1. Turned(c, Finish([c EXCEPT !.held = @ \cup {arg}], "ok")) /\ Turned(c, Finish(c, "fail"))
    BY <1>5 DEF Turned, Finish, ClientFields, LocalStates
  <2>2. x = OpenReturn(c, ret, arg)
    BY <1>5 DEF Return
  <2> QED BY <2>1, <2>2 DEF OpenReturn
<1>6. CASE c.call.op = "close"
  <2>1. Turned(c, Finish([c EXCEPT !.held = @ \ {c.handle}], Result(ret)))
    BY <1>6 DEF Turned, Finish, ClientFields, LocalStates
  <2>2. x = CloseReturn(c, ret)
    BY <1>6 DEF Return
  <2> QED BY <2>1, <2>2 DEF CloseReturn
<1>7. CASE c.call.op \in {"mkdir", "rmdir", "stat"}
  <2>1. Turned(c, Finish(c, Result(ret)))
    BY <1>7 DEF Turned, Finish, ClientFields, LocalStates
  <2>2. x = Finish(c, Result(ret))
    BY <1>7 DEF Return
  <2> QED BY <2>1, <2>2
<1> QED BY <1>1, <1>2, <1>3, <1>4, <1>5, <1>6, <1>7 DEF AllOps

(* What a function returns takes the call that runs it one step on.        *)
LEMMA TurnOfReturn ==
    ASSUME NEW c, Control(c), c.phase \in {"build", "send", "header", "body"},
           NEW ret, NEW arg, NEW x \in Return(c, ret, arg)
    PROVE  Turned(c, x)
<1>1. /\ DOMAIN c = ClientFields /\ c.call.op \in AllOps /\ c.st \in StatesOf(c.call.op)
      /\ c.st \notin LocalStates
  BY DEF Control
<1>2. CASE c.call.op = "get"
  <2>1. c.st \in {"STAT", "OPEN", "READ", "CLOSE"}
    BY <1>1, <1>2 DEF StatesOf, LocalStates
  <2>2. x \in GetReturn(c, ret, arg)
    BY <1>2 DEF Return
  <2> QED BY <1>1, <1>2, <2>1, <2>2, TurnOfGet
<1>3. CASE c.call.op = "put"
  <2>1. c.st \in {"STAT", "OPEN", "WRITE", "CLOSE"}
    BY <1>1, <1>3 DEF StatesOf, LocalStates
  <2>2. x \in PutReturn(c, ret, arg)
    BY <1>3 DEF Return
  <2> QED BY <1>1, <1>3, <2>1, <2>2, TurnOfPut
<1> QED BY <1>1, <1>2, <1>3, TurnOfOthers

(* A step on the client's own files.                                       *)
LEMMA TurnOfLocal ==
    ASSUME NEW c, Control(c), c.phase = "local",
           NEW x \in IF c.call.op = "get" THEN GetLocal(c) ELSE PutLocal(c)
    PROVE  Turned(c, x)
<1>1. /\ DOMAIN c = ClientFields /\ c.call.op \in AllOps /\ c.st \in StatesOf(c.call.op)
      /\ c.st \in LocalStates
  BY DEF Control
<1>2. c.call.op \in {"get", "put"}
  BY <1>1 DEF StatesOf, LocalStates, AllOps
<1>3. CASE c.call.op = "get"
  <2>1. CASE c.st = "LOOKUP"
    <3>1. \A t, n, s : Turned(c, Goto([c EXCEPT !.table = t, !.ofst = n, !.stale = s], "OPEN_LOCAL"))
      BY <1>1, <1>3, <2>1 DEF Turned, Goto, ClientFields, LocalStates, StatesOf
    <3>2. Turned(c, Goto(c, "OPEN_LOCAL"))
      BY <1>1, <1>3, <2>1 DEF Turned, Goto, ClientFields, LocalStates, StatesOf
    <3>3. x = Goto(GetOffset(c), "OPEN_LOCAL")
      BY <1>3, <2>1 DEF GetLocal
    <3> QED BY <3>1, <3>2, <3>3 DEF GetOffset
  <2>2. CASE c.st = "OPEN_LOCAL"
    <3>1. x \in GetOpenLocal(c)
      BY <1>3, <2>2 DEF GetLocal
    <3>2. \A v : Turned(c, Goto([c EXCEPT !.fl = TRUE, !.files = v], "READ"))
      BY <1>1, <1>3, <2>2 DEF Turned, Goto, ClientFields, LocalStates, StatesOf
    <3>3. Turned(c, Goto([c EXCEPT !.error = TRUE, !.faults = @ + 1], "CLOSE"))
      BY <1>1, <1>3, <2>2 DEF Turned, Goto, ClientFields, LocalStates, StatesOf
    <3>4. \/ \E v : x = Goto([c EXCEPT !.fl = TRUE, !.files = v], "READ")
          \/ x = Goto([c EXCEPT !.error = TRUE, !.faults = @ + 1], "CLOSE")
      BY <1>1, <3>1 DEF GetOpenLocal, ClientFields
    <3> QED BY <3>2, <3>3, <3>4
  <2>3. CASE c.st = "CLOSE_LOCAL"
    <3> DEFINE d == [c EXCEPT !.fl = FALSE]
    <3>1. \A r : Turned(c, Finish(d, r)) /\ Turned(c, [Finish(d, r) EXCEPT !.faults = @ + 1])
      BY <1>1, <1>3, <2>3 DEF Turned, Finish, ClientFields, LocalStates
    <3>2. \/ x = Finish(d, IF c.error THEN "fail" ELSE "ok")
          \/ x = [Finish(d, "fail") EXCEPT !.faults = @ + 1]
      BY <1>3, <2>3 DEF GetLocal
    <3> QED BY <3>1, <3>2
  <2> QED BY <1>1, <2>1, <2>2, <2>3 DEF LocalStates
<1>4. CASE c.call.op = "put"
  <2>1. CASE c.st = "LOOKUP"
    <3>1. \A t, n, s : Turned(c, Goto([c EXCEPT !.table = t, !.ofst = n, !.stale = s], "OPEN_LOCAL"))
      BY <1>1, <1>4, <2>1 DEF Turned, Goto, ClientFields, LocalStates, StatesOf
    <3>4. \A t, n, s : Turned(c, Goto([c EXCEPT !.table = t, !.ofst = n, !.stale = s], "STAT"))
      BY <1>1, <1>4, <2>1 DEF Turned, Goto, ClientFields, LocalStates, StatesOf
    <3>2. Turned(c, Goto(c, "OPEN_LOCAL")) /\ Turned(c, Goto(c, "STAT"))
      BY <1>1, <1>4, <2>1 DEF Turned, Goto, ClientFields, LocalStates, StatesOf
    <3>3. x = Goto(PutOffset(c), "OPEN_LOCAL") \/ x = Goto(PutOffset(c), "STAT")
      BY <1>4, <2>1 DEF PutLocal
    <3>5. CASE x = Goto(PutOffset(c), "OPEN_LOCAL")
      BY <3>1, <3>2, <3>5 DEF PutOffset
    <3>6. CASE x = Goto(PutOffset(c), "STAT")
      BY <3>2, <3>4, <3>6 DEF PutOffset
    <3> QED BY <3>3, <3>5, <3>6
  <2>2. CASE c.st = "OPEN_LOCAL"
    <3>1. /\ Turned(c, Finish(c, "fail")) /\ Turned(c, Goto([c EXCEPT !.fl = TRUE], "OPEN"))
          /\ Turned(c, [Finish(c, "fail") EXCEPT !.faults = @ + 1])
      BY <1>1, <1>4, <2>2 DEF Turned, Goto, Finish, ClientFields, LocalStates, StatesOf
    <3> QED BY <1>4, <2>2, <3>1 DEF PutLocal
  <2>3. CASE c.st = "CLOSE_LOCAL"
    <3> DEFINE d == [c EXCEPT !.fl = FALSE]
    <3>1. Turned(c, Goto(d, "CLOSE")) /\ Turned(c, Finish(d, "fail"))
      BY <1>1, <1>4, <2>3 DEF Turned, Goto, Finish, ClientFields, LocalStates, StatesOf
    <3>2. x = Goto(d, "CLOSE") \/ x = Finish(d, "fail")
      BY <1>4, <2>3 DEF PutLocal
    <3> QED BY <3>1, <3>2
  <2> QED BY <1>1, <2>1, <2>2, <2>3 DEF LocalStates
<1> QED BY <1>2, <1>3, <1>4

(* A call that was turned is still under control.                          *)
LEMMA TurnedControl ==
    ASSUME NEW c, Control(c), c.st # "idle", NEW x, Turned(c, x)
    PROVE  Control(x) /\ x.phase \in Quiet
BY DEF Control, Turned, Quiet, Phases, LocalStates, StatesOf, AllOps
----------------------------------------------------------------------------
(* The server's handlers.                                                  *)

(* What a handler leaves: a session that differs in its tables alone and a *)
(* reply the client can read, or none.                                     *)
Handled(s, m, o) ==
    /\ DOMAIN o.server = ServerFields /\ o.server.sftpState = s.sftpState
    /\ o.reply.type \in Expected(m.type) \/ o.reply.type = "none"

LEMMA StatusHandled ==
    ASSUME NEW s, DOMAIN s = ServerFields, NEW m, m.type \in Requests, NEW f, NEW code
    PROVE  Handled(s, m, SendStatus(s, f, code)) /\ Handled(s, m, FaultStatus(s, f, code))
BY DEF Handled, SendStatus, FaultStatus, Outcome, Expected, Requests

LEMMA OutcomeHandled ==
    ASSUME NEW s, NEW d, DOMAIN d = ServerFields, d.sftpState = s.sftpState, NEW m,
           NEW type, type \in Expected(m.type) \/ type = "none", NEW g, NEW arg, NEW fault
    PROVE  Handled(s, m, Outcome(d, g, type, arg, fault))
BY DEF Handled, Outcome

LEMMA OpenHandled ==
    ASSUME NEW s, DOMAIN s = ServerFields, NEW m, m.type = "OPEN", NEW f, NEW n, NEW flags,
           NEW o \in RecvOpen(s, f, n, flags)
    PROVE  Handled(s, m, o)
<1>1. \A g, code : Handled(s, m, SendStatus(s, g, code)) /\ Handled(s, m, FaultStatus(s, g, code))
  BY StatusHandled DEF Requests
<1> DEFINE id == s.handleId + 1
           d == [s EXCEPT !.handleId = id, !.fds = @ \cup {id},
                          !.fileList = @ \cup {[id |-> id, name |-> n]}]
           e == [s EXCEPT !.handleId = id]
<1>2. DOMAIN d = ServerFields /\ d.sftpState = s.sftpState /\ DOMAIN e = ServerFields /\ e.sftpState = s.sftpState
  BY DEF ServerFields
<1>3. \/ \E g, code : o = SendStatus(s, g, code) \/ o = FaultStatus(s, g, code)
      \/ \E g : o = Outcome(d, g, "HANDLE", id, FALSE) \/ o = FaultStatus(e, g, "FAILURE")
  BY DEF RecvOpen
<1> HIDE DEF d, e, id
<1>4. \A g : /\ Handled(s, m, Outcome(d, g, "HANDLE", id, FALSE))
             /\ Handled(s, m, Outcome(e, g, "STATUS", "FAILURE", TRUE))
  BY <1>2, OutcomeHandled DEF Expected
<1> QED BY <1>1, <1>3, <1>4 DEF FaultStatus

LEMMA OpenDirHandled ==
    ASSUME NEW s, DOMAIN s = ServerFields, NEW m, m.type = "OPENDIR", NEW f,
           NEW o \in RecvOpenDir(s, f)
    PROVE  Handled(s, m, o)
<1>1. \A g, code : Handled(s, m, SendStatus(s, g, code)) /\ Handled(s, m, FaultStatus(s, g, code))
  BY StatusHandled DEF Requests
<1> DEFINE id == s.handleId + 1
           d == [s EXCEPT !.handleId = id, !.fds = @ \cup {id},
                          !.dirList = @ \cup {[id |-> id, isEof |-> FALSE,
                                               rest |-> {n \in Remotes : Exists(f, n)}]}]
<1>2. DOMAIN d = ServerFields /\ d.sftpState = s.sftpState
  BY DEF ServerFields
<1>3. \/ \E g, code : o = SendStatus(s, g, code) \/ o = FaultStatus(s, g, code)
      \/ o = Outcome(d, f, "HANDLE", id, FALSE)
  BY DEF RecvOpenDir
<1> HIDE DEF d, id
<1>4. Handled(s, m, Outcome(d, f, "HANDLE", id, FALSE))
  BY <1>2, OutcomeHandled DEF Expected
<1> QED BY <1>1, <1>3, <1>4

LEMMA ReadDirHandled ==
    ASSUME NEW s, DOMAIN s = ServerFields, NEW m, m.type = "READDIR", NEW f, NEW id,
           NEW o \in RecvReadDir(s, f, id)
    PROVE  Handled(s, m, o)
<1>1. CASE o = Outcome(s, f, "none", <<>>, FALSE)
  BY <1>1 DEF Handled, Outcome
<1>2. ASSUME NEW v, NEW b, o = SendStatus([s EXCEPT !.dirList = v], f, "EOF")
                           \/ o = Outcome([s EXCEPT !.dirList = v], f, "NAME", b, FALSE)
      PROVE  Handled(s, m, o)
  BY <1>2 DEF Handled, Outcome, SendStatus, ServerFields, Expected
<1> DEFINE hit == {h \in s.dirList : h.id = id}
           h == CHOOSE h \in hit : TRUE
           names == IF Cardinality(h.rest) <= MaxReadDir THEN h.rest
                    ELSE CHOOSE b \in SUBSET h.rest : Cardinality(b) = MaxReadDir
           eof == h.isEof \/ Cardinality(names) < MaxReadDir
           v == (s.dirList \ {h}) \cup {[h EXCEPT !.rest = @ \ names, !.isEof = eof]}
<1>3. \/ o = Outcome(s, f, "none", <<>>, FALSE)
      \/ o = SendStatus([s EXCEPT !.dirList = v], f, "EOF")
      \/ o = Outcome([s EXCEPT !.dirList = v], f, "NAME", names, FALSE)
  BY DEF RecvReadDir
<1> HIDE DEF v, names
<1> QED BY <1>1, <1>2, <1>3

LEMMA CloseHandled ==
    ASSUME NEW s, DOMAIN s = ServerFields, NEW m, m.type = "CLOSE", NEW f, NEW id,
           NEW o \in RecvClose(s, f, id)
    PROVE  Handled(s, m, o)
<1>1. Handled(s, m, SendStatus(s, f, "FAILURE"))
  BY StatusHandled DEF Requests
<1> DEFINE d == [s EXCEPT !.dirList = {h \in @ : h.id # id}, !.fds = @ \ {id}]
           e == [s EXCEPT !.fileList = {h \in @ : h.id # id}, !.fds = @ \ {id}]
<1>2. DOMAIN d = ServerFields /\ d.sftpState = s.sftpState /\ DOMAIN e = ServerFields /\ e.sftpState = s.sftpState
  BY DEF ServerFields
<1>3. \/ o = SendStatus(s, f, "FAILURE") \/ o = SendStatus(d, f, "OK")
      \/ o = SendStatus(e, f, "OK") \/ o = FaultStatus(e, f, "FAILURE")
  BY DEF RecvClose
<1> HIDE DEF d, e
<1>4. /\ Handled(s, m, Outcome(d, f, "STATUS", "OK", FALSE))
      /\ Handled(s, m, Outcome(e, f, "STATUS", "OK", FALSE))
      /\ Handled(s, m, Outcome(e, f, "STATUS", "FAILURE", TRUE))
  BY <1>2, OutcomeHandled DEF Expected
<1> QED BY <1>1, <1>3, <1>4 DEF SendStatus, FaultStatus

LEMMA ReplyHandled ==
    ASSUME NEW s, DOMAIN s = ServerFields, NEW f, NEW m, m.type \in Requests,
           NEW o \in Handler(s, f, m)
    PROVE  Handled(s, m, o)
<1>1. \A g, code : Handled(s, m, SendStatus(s, g, code)) /\ Handled(s, m, FaultStatus(s, g, code))
  BY StatusHandled
<1>2. CASE m.type = "OPEN"
  BY <1>2, OpenHandled DEF Handler
<1>3. CASE m.type = "OPENDIR"
  BY <1>3, OpenDirHandled DEF Handler
<1>4. CASE m.type = "READDIR"
  BY <1>4, ReadDirHandled DEF Handler
<1>5. CASE m.type = "CLOSE"
  BY <1>5, CloseHandled DEF Handler
<1>6. CASE m.type = "REALPATH"
  <2>1. o = Outcome(s, f, "NAME", {m.arg[1]}, FALSE)
    BY <1>6 DEF Handler, RecvRealPath
  <2> QED BY <1>6, <2>1 DEF Handled, Outcome, Expected
<1>7. CASE m.type \in {"STAT", "LSTAT"}
  <2>1. o \in RecvSTAT(s, f, m.arg[1])
    BY <1>7 DEF Handler, RecvLSTAT
  <2>2. Handled(s, m, Outcome(s, f, "ATTRS", GetAttributes(f, m.arg[1]), FALSE))
    BY <1>7 DEF Handled, Outcome, Expected
  <2> QED BY <1>1, <2>1, <2>2 DEF RecvSTAT
<1>8. CASE m.type = "READ"
  <2>1. o \in RecvRead(s, f, m.arg[1], m.arg[2])
    BY <1>8 DEF Handler
  <2>2. \A b : Handled(s, m, Outcome(s, f, "DATA", b, FALSE))
    BY <1>8 DEF Handled, Outcome, Expected
  <2> QED BY <1>1, <2>1, <2>2 DEF RecvRead
<1>9. CASE m.type = "WRITE"
  BY <1>1, <1>9 DEF Handler, RecvWrite
<1>10. CASE m.type = "RMDIR"
  BY <1>1, <1>10 DEF Handler, RecvRMDIR
<1>11. CASE m.type = "MKDIR"
  BY <1>1, <1>11 DEF Handler, RecvMKDIR
<1>12. CASE m.type = "REMOVE"
  BY <1>1, <1>12 DEF Handler, RecvRemove
<1>13. CASE m.type = "RENAME"
  BY <1>1, <1>13 DEF Handler, RecvRename
<1>14. CASE m.type = "SETSTAT"
  BY <1>1, <1>14 DEF Handler, RecvSetSTAT
<1> QED BY <1>2, <1>3, <1>4, <1>5, <1>6, <1>7, <1>8, <1>9, <1>10, <1>11, <1>12, <1>13, <1>14
        DEF Requests
----------------------------------------------------------------------------
(* A message under way.                                                    *)

LEMMA PairFacts ==
    ASSUME NEW a, NEW b
    PROVE  /\ Head(<<a, b>>) = a /\ Tail(<<a, b>>) = <<b>> /\ Len(<<a, b>>) = 2
           /\ Head(<<a>>) = a /\ Tail(<<a>>) = <<>> /\ Len(<<a>>) = 1
           /\ Append(<<a>>, b) = <<a, b>> /\ Append(<<>>, a) = <<a>>
           /\ <<a>> # <<>> /\ <<a, b>> # <<>> /\ <<a, b>>[1] = a /\ <<a>>[1] = a
           /\ <<a, b>>[2] = b
<1>1. Head(<<a, b>>) = a /\ Len(<<a, b>>) = 2 /\ Head(<<a>>) = a /\ Len(<<a>>) = 1
  OBVIOUS
<1>2. <<a>> # <<>> /\ <<a, b>> # <<>> /\ <<a, b>>[1] = a /\ <<a>>[1] = a /\ <<a, b>>[2] = b
  OBVIOUS
<1>3. Tail(<<a, b>>) = <<b>>
  OBVIOUS
<1>4. Tail(<<a>>) = <<>>
  OBVIOUS
<1>5. Append(<<a>>, b) = <<a, b>>
  <2>1. <<a>> \in Seq({a, b}) /\ <<a, b>> \in Seq({a, b})
    OBVIOUS
  <2> DEFINE q == Append(<<a>>, b)
             r == <<a, b>>
  <2>2. q \in Seq({a, b}) /\ Len(q) = 2 /\ q[1] = a /\ q[2] = b
    BY <2>1, AppendProperties
  <2>3. r \in Seq({a, b}) /\ Len(r) = 2 /\ r[1] = a /\ r[2] = b
    BY <2>1
  <2> HIDE DEF q, r
  <2>4. \A i \in 1 .. Len(q) : q[i] = r[i]
    BY <2>2, <2>3
  <2>5. q = r
    BY <2>2, <2>3, <2>4, SeqEqual
  <2> QED BY <2>5 DEF q, r
<1>6. Append(<<>>, a) = <<a>>
  OBVIOUS
<1> QED BY <1>1, <1>2, <1>3, <1>4, <1>5, <1>6

LEMMA PartsIs == \A m : Parts(m) = <<HeaderOf(m), BodyOf(m)>>
BY DEF Parts, HeaderOf, BodyOf

(* A request is one as long as its call does not move.                     *)
LEMMA AskedSame ==
    ASSUME client'.st = client.st, client'.reqId = client.reqId, client'.uid = client.uid,
           client'.call = client.call, client'.handle = client.handle,
           client'.ofst = client.ofst, client'.files = client.files
    PROVE  Asked' = Asked
<1>1. RequestArg(client)' = RequestArg(client)
  BY DEF RequestArg, OpenRequest, SendReadRequest, SendWriteRequest, RenameRequest, SetSTATRequest,
         HandleRequest, PathRequest, RemotePath, OpenFlags
<1> QED BY <1>1 DEF Asked

LEMMA NoMessageType == NoMessage.type = "none"
BY DEF NoMessage, Message

LEMMA AskedFields ==
    /\ Asked.type = client.st /\ Asked.id = client.reqId
    /\ Asked.arg = RequestArg(client) /\ Asked.uid = client.uid
BY DEF Asked, Message

LEMMA PartFields ==
    \A m : /\ HeaderOf(m).m = m /\ HeaderOf(m).part = "header"
           /\ BodyOf(m).m = m /\ BodyOf(m).part = "body"
BY DEF HeaderOf, BodyOf

(* A busy client with a phase of its own is in a state that asks.          *)
LEMMA RequestState ==
    ASSUME NEW c, Control(c), c.phase \in {"build", "send", "header", "body"}
    PROVE  c.st \in Requests /\ c.st # "idle"
<1>1. c.st # "idle" /\ c.st \notin LocalStates /\ c.call.op \in AllOps /\ c.st \in StatesOf(c.call.op)
  BY DEF Control
<1>2. c.st \in Requests
  BY <1>1 DEF AllOps, StatesOf, LocalStates, Requests
<1> QED BY <1>1, <1>2

LEMMA InitTalk == Init => TalkInv
<1> SUFFICES ASSUME Init PROVE TalkInv
  OBVIOUS
<1> USE DEF Init
<1>1. Control(client)
  BY DEF Control, ClientFields, Phases, LocalStates, NoCall
<1>2. Greeting
  BY DEF Greeting, Greets, At, Serves, Wire, Quiet
<1>3. DOMAIN server = ServerFields /\ DOMAIN used = {"calls", "ints", "faults", "fulls", "dead"}
  BY DEF ServerFields
<1> QED BY <1>1, <1>2, <1>3 DEF TalkInv, Talk

LEMMA CallNames ==
    ASSUME NEW call \in Calls
    PROVE  call.op \in AllOps /\ NamesOf(call)
BY SftpAssumption DEF Calls, AllOps, NamesOf

LEMMA FirstStates ==
    ASSUME NEW op \in AllOps
    PROVE  FirstState(op) \in StatesOf(op) /\ FirstState(op) # "idle"
BY DEF FirstState, StatesOf, AllOps

LEMMA AppCallTalk == TalkInv /\ AppCall => TalkInv'
<1> SUFFICES ASSUME TalkInv, AppCall PROVE TalkInv'
  OBVIOUS
<1>1. /\ Control(client) /\ ~Dead /\ Talk /\ client.st = "idle" /\ client.phase = "idle"
  BY DEF TalkInv, AppCall, Busy, Control
<1>2. PICK call \in Calls, h \in client.held \cup {0} :
        client' = Goto([client EXCEPT !.call = call, !.handle = h, !.ofst = 0,
                                   !.size = 0, !.names = <<>>, !.cut = FALSE, !.stale = FALSE,
                                   !.result = "none"], FirstState(call.op))
  BY DEF AppCall
<1>3. call.op \in AllOps /\ NamesOf(call) /\ FirstState(call.op) \in StatesOf(call.op)
      /\ FirstState(call.op) # "idle"
  BY CallNames, FirstStates
<1>4. /\ DOMAIN client' = ClientFields /\ client'.call = call /\ client'.st = FirstState(call.op)
      /\ client'.phase = IF FirstState(call.op) \in LocalStates THEN "local" ELSE "build"
      /\ client'.sendState = client.sendState /\ client'.setAtrState = client.setAtrState
      /\ client'.out = client.out /\ client'.hdr = client.hdr /\ client'.sftpState = client.sftpState
      /\ client'.reqId = client.reqId /\ client'.uid = client.uid
  BY <1>1, <1>2 DEF Control, Goto, ClientFields
<1>5. Control(client') /\ client'.phase \in Quiet
  BY <1>1, <1>3, <1>4 DEF Control, Phases, Quiet, LocalStates
<1>6. UNCHANGED <<server, up, down>> /\ used'.dead = used.dead /\ DOMAIN used' = DOMAIN used
  BY DEF AppCall, TalkInv
<1>7. Greeting \/ (Greeted /\ Rest)
  BY <1>1 DEF Talk, Asking, Answering, Ask1, Ask2, Ask3, Ask4, Ask5, Lost, Ans1, Ans2, Ans3, Ans4, Ans5, At
<1>8. CASE Greeting
  BY <1>4, <1>5, <1>6, <1>8 DEF Greeting, Greets, At, Serves, Wire, TalkInv, Talk, Quiet
<1>9. CASE Greeted /\ Rest
  BY <1>4, <1>5, <1>6, <1>9 DEF Greeted, Rest, At, Serves, Wire, TalkInv, Talk, Quiet
<1> QED BY <1>7, <1>8, <1>9

(* A step that only turns the call of the client, with nothing under way.  *)
LEMMA TurnTalk ==
    ASSUME TalkInv, ~Dead, Greeting \/ (Greeted /\ Rest),
           NEW c, Control(c), c.st # "idle", c.out = client.out, c.hdr = client.hdr,
           c.sftpState = client.sftpState, c.reqId = client.reqId, c.uid = client.uid,
           Turned(c, client'), UNCHANGED <<server, up, down, used>>
    PROVE  TalkInv'
<1>1. Control(client') /\ client'.phase \in Quiet
  BY TurnedControl
<1>2. /\ client'.sftpState = client.sftpState /\ client'.out = client.out /\ client'.hdr = client.hdr
      /\ client'.reqId = client.reqId /\ client'.uid = client.uid
  BY DEF Turned
<1>3. CASE Greeting
  BY <1>1, <1>2, <1>3 DEF Greeting, Greets, At, Serves, Wire, TalkInv, Talk, Quiet
<1>4. CASE Greeted /\ Rest
  BY <1>1, <1>2, <1>4 DEF Greeted, Rest, At, Serves, Wire, TalkInv, Talk, Quiet
<1> QED BY <1>3, <1>4

LEMMA LocalTalk == TalkInv /\ LocalStep => TalkInv'
<1> SUFFICES ASSUME TalkInv, LocalStep PROVE TalkInv'
  OBVIOUS
<1>1. /\ Control(client) /\ client.phase = "local" /\ client.st # "idle"
      /\ UNCHANGED <<server, remote, up, down, used>>
  BY DEF TalkInv, LocalStep, Control
<1>2. Turned(client, client')
  BY <1>1, TurnOfLocal DEF LocalStep
<1>3. CASE ~Dead
  <2>1. Greeting \/ (Greeted /\ Rest)
    BY <1>1, <1>3 DEF TalkInv, Talk, Asking, Answering, Ask1, Ask2, Ask3, Ask4, Ask5, Lost, Ans1, Ans2, Ans3, Ans4, Ans5, At
  <2> QED BY <1>1, <1>2, <1>3, <2>1, TurnTalk
<1>4. CASE Dead
  <2>1. Control(client') /\ client'.phase \in Quiet
    BY <1>1, <1>2, TurnedControl
  <2> QED BY <1>1, <1>2, <1>4, <2>1 DEF TalkInv, Turned, Quiet, Dead
<1> QED BY <1>3, <1>4

LEMMA FailTalk == TalkInv /\ ConnectionFails => TalkInv'
<1> SUFFICES ASSUME TalkInv, ConnectionFails PROVE TalkInv'
  OBVIOUS
<1> DEFINE c == [client EXCEPT !.out = <<>>, !.hdr = NoMessage]
<1>1. /\ Dead /\ client.phase \in {"build", "send", "header", "body"} /\ Control(client)
      /\ UNCHANGED <<server, remote, up, down, used>> /\ client' \in Return(c, "fatal", 0)
  BY DEF ConnectionFails, ReturnWith, TalkInv
<1>2. Control(c) /\ c.phase = client.phase /\ c.st = client.st /\ c.reqId = client.reqId /\ c.uid = client.uid
  BY <1>1 DEF Control, ClientFields
<1> HIDE DEF c
<1>3. Turned(c, client') /\ c.st # "idle"
  BY <1>1, <1>2, TurnOfReturn, RequestState
<1>4. Control(client') /\ client'.phase \in Quiet
  BY <1>2, <1>3, TurnedControl
<1> QED BY <1>1, <1>2, <1>3, <1>4 DEF TalkInv, Turned, Quiet, Dead

LEMMA ConnectTalk == TalkInv /\ Connect => TalkInv'
<1> SUFFICES ASSUME TalkInv, Connect PROVE TalkInv'
  OBVIOUS
<1>1. /\ ~Dead /\ client.sftpState = "BEGIN" /\ Control(client)
      /\ client' = [client EXCEPT !.sftpState = "RECV"]
      /\ UNCHANGED <<server, down, used>>
  BY DEF Connect, TalkInv
<1>2. up' = Append(up, InitPart)
  BY PartsIs DEF Connect, InitPart
<1>3. Greets("BEGIN", "BEGIN", <<>>, <<>>)
  BY <1>1 DEF TalkInv, Talk, Greeting, Greeted, Greets
<1>4. up' = <<InitPart>>
  BY <1>2, <1>3 DEF Greets, Wire
<1>5. Control(client') /\ client'.phase = client.phase /\ client'.out = client.out
      /\ client'.hdr = client.hdr /\ client'.uid = client.uid /\ client'.reqId = client.reqId
      /\ client'.sftpState = "RECV"
  BY <1>1 DEF Control, ClientFields
<1>6. Greets("RECV", "BEGIN", <<InitPart>>, <<>>)'
  BY <1>1, <1>3, <1>4, <1>5 DEF Greets, At, Serves, Wire
<1> QED BY <1>1, <1>5, <1>6 DEF TalkInv, Talk, Greeting

LEMMA ClientRecvInitTalk == TalkInv /\ ClientRecvInit => TalkInv'
<1> SUFFICES ASSUME TalkInv, ClientRecvInit PROVE TalkInv'
  OBVIOUS
<1>1. /\ ~Dead /\ client.sftpState = "RECV" /\ Control(client) /\ down # <<>> /\ down' = Tail(down)
      /\ client' = [client EXCEPT !.sftpState = "DONE", !.reqId = @ + 1]
      /\ UNCHANGED <<server, up, used>> /\ client.reqId \in Nat
  BY DEF ClientRecvInit, TalkInv
<1>2. Greets("RECV", "DONE", <<>>, <<VersionPart>>)
  BY <1>1 DEF TalkInv, Talk, Greeting, Greeted, Greets, Wire
<1>3. down' = <<>>
  BY <1>1, <1>2, PairFacts DEF Greets, Wire
<1>4. Control(client') /\ client'.phase = client.phase /\ client'.out = client.out
      /\ client'.hdr = client.hdr /\ client'.uid = client.uid /\ client'.reqId = client.reqId + 1
      /\ client'.sftpState = "DONE"
  BY <1>1 DEF Control, ClientFields
<1>5. Rest' /\ Greeted'
  BY <1>1, <1>2, <1>3, <1>4 DEF Greets, Greeted, Rest, At, Serves, Wire
<1>6. client'.phase # "body"
  BY <1>2, <1>4 DEF Greets, At, Quiet
<1> QED BY <1>1, <1>4, <1>5, <1>6 DEF TalkInv, Talk, Dead

(* Where the message is, by what the two ends are doing.                   *)
LEMMA Stages ==
    ASSUME TalkInv, ~Dead
    PROVE  /\ client.phase = "send" => Greeted /\ (Ask1 \/ Ask2 \/ Ask3)
           /\ client.phase = "header" =>
                Greeted /\ (Ask4 \/ Ask5 \/ Lost \/ ((Ans1 \/ Ans2 \/ Ans3) /\ Answers))
           /\ client.phase = "body" => Greeted /\ (Ans4 \/ Ans5) /\ Answers
           /\ client.phase \in Quiet => Greeting \/ (Greeted /\ Rest)
           /\ client.phase \in Quiet /\ client.sftpState = "DONE" => Greeted /\ Rest
<1>1. Talk
  BY DEF TalkInv
<1>2. Greeting => client.phase \in Quiet /\ client.sftpState # "DONE"
  BY DEF Greeting, Greets, At
<1>3. Rest => client.phase \in Quiet
  BY DEF Rest, At
<1>4. Ask1 \/ Ask2 \/ Ask3 => client.phase = "send"
  BY DEF Ask1, Ask2, Ask3, At
<1>5. Ask4 \/ Ask5 \/ Lost \/ Ans1 \/ Ans2 \/ Ans3 => client.phase = "header"
  BY DEF Ask4, Ask5, Lost, Ans1, Ans2, Ans3, At
<1>6. Ans4 \/ Ans5 => client.phase = "body"
  BY DEF Ans4, Ans5, At
<1>7. "send" \notin Quiet /\ "header" \notin Quiet /\ "body" \notin Quiet
  BY DEF Quiet
<1> QED BY <1>1, <1>2, <1>3, <1>4, <1>5, <1>6, <1>7 DEF Talk, Asking, Answering

LEMMA SetHeaderTalk == TalkInv /\ SetHeader => TalkInv'
<1> SUFFICES ASSUME TalkInv, SetHeader PROVE TalkInv'
  OBVIOUS
<1>1. /\ ~Dead /\ client.phase = "build" /\ client.sftpState = "DONE" /\ Control(client)
      /\ client.sendState = <<>> /\ client.setAtrState = <<>> /\ client.uid \in Nat /\ client.reqId \in Nat
      /\ UNCHANGED <<server, remote, up, down, used>>
  BY DEF SetHeader, TalkInv, Control
<1>2. Greeted /\ Rest
  BY <1>1, Stages DEF Quiet
<1>3. /\ DOMAIN client' = ClientFields /\ client'.phase = "send" /\ client'.uid = client.uid + 1
      /\ client'.out = Parts(Request(client)) /\ client'.sendState = <<>> /\ client'.setAtrState = <<>>
      /\ client'.hdr = client.hdr /\ client'.sftpState = client.sftpState
      /\ client'.reqId = client.reqId /\ client'.st = client.st
      /\ client'.call = client.call /\ client'.handle = client.handle
      /\ client'.ofst = client.ofst /\ client'.files = client.files
  BY <1>1 DEF SetHeader, Control, ClientFields
<1>4. Request(client) = Asked'
  <2>1. RequestArg(client)' = RequestArg(client)
    BY <1>3 DEF RequestArg, OpenRequest, SendReadRequest, SendWriteRequest, RenameRequest, SetSTATRequest,
         HandleRequest, PathRequest, RemotePath, OpenFlags
  <2> QED BY <1>3, <2>1 DEF Asked, Request
<1>5. Ask1'
  BY <1>1, <1>2, <1>3, <1>4, PartsIs DEF Ask1, Rest, At, Serves, Wire
<1>6. Control(client')
  BY <1>1, <1>3, RequestState DEF Control, Phases
<1>7. Greeted'
  BY <1>1, <1>2, <1>3 DEF Greeted
<1>8. client'.uid \in Nat /\ client'.reqId \in Nat
  BY <1>1, <1>3
<1> QED BY <1>1, <1>3, <1>5, <1>6, <1>7, <1>8 DEF TalkInv, Talk, Asking, Dead

LEMMA SendPacketTalk == TalkInv /\ SendPacketType => TalkInv'
<1> SUFFICES ASSUME TalkInv, SendPacketType PROVE TalkInv'
  OBVIOUS
<1>1. /\ ~Dead /\ client.phase = "send" /\ Control(client)
      /\ up' = Append(up, Head(client.out))
      /\ client' = [client EXCEPT !.out = Tail(@), !.phase = IF Len(client.out) = 1 THEN "header" ELSE "send"]
      /\ UNCHANGED <<server, remote, down, used>>
  BY DEF SendPacketType, TalkInv
<1>2. /\ client'.out = Tail(client.out) /\ client'.phase = IF Len(client.out) = 1 THEN "header" ELSE "send"
      /\ client'.st = client.st /\ client'.reqId = client.reqId /\ client'.uid = client.uid
      /\ client'.call = client.call /\ client'.handle = client.handle
      /\ client'.ofst = client.ofst /\ client'.files = client.files
      /\ client'.hdr = client.hdr /\ client'.sftpState = client.sftpState
  BY <1>1 DEF Control, ClientFields
<1>3. Control(client') /\ client'.phase # "body"
  BY <1>1 DEF Control, ClientFields, Phases
<1>4. Asked' = Asked
  BY <1>2, AskedSame
<1>5. Greeted /\ (Ask1 \/ Ask2 \/ Ask3)
  BY <1>1, Stages
<1>6. Greeted'
  BY <1>1, <1>2, <1>5 DEF Greeted
<1> DEFINE a == HeaderOf(Asked)
           b == BodyOf(Asked)
<1>7. CASE Ask1
  <2>1. client.out = <<a, b>> /\ up = <<>>
    BY <1>7 DEF Ask1, At, Wire
  <2>2. client'.out = <<b>> /\ client'.phase = "send" /\ up' = <<a>>
    BY <1>1, <1>2, <2>1, PairFacts
  <2>3. Ask2'
    BY <1>1, <1>2, <1>4, <1>7, <2>2 DEF Ask1, Ask2, At, Serves, Wire
  <2> QED BY <1>1, <1>2, <1>3, <1>6, <2>3 DEF TalkInv, Talk, Asking
<1>8. CASE Ask2
  <2>1. client.out = <<b>> /\ up = <<a>>
    BY <1>8 DEF Ask2, At, Wire
  <2>2. client'.out = <<>> /\ client'.phase = "header" /\ up' = <<a, b>>
    BY <1>1, <1>2, <2>1, PairFacts
  <2>3. Ask4'
    BY <1>1, <1>2, <1>4, <1>8, <2>2 DEF Ask2, Ask4, At, Serves, Wire
  <2> QED BY <1>1, <1>2, <1>3, <1>6, <2>3 DEF TalkInv, Talk, Asking
<1>9. CASE Ask3
  <2>1. client.out = <<b>> /\ up = <<>>
    BY <1>9 DEF Ask3, At, Wire
  <2>2. client'.out = <<>> /\ client'.phase = "header" /\ up' = <<b>>
    BY <1>1, <1>2, <2>1, PairFacts
  <2>3. Ask5'
    BY <1>1, <1>2, <1>4, <1>9, <2>2 DEF Ask3, Ask5, At, Serves, Wire
  <2> QED BY <1>1, <1>2, <1>3, <1>6, <2>3 DEF TalkInv, Talk, Asking
<1> QED BY <1>5, <1>7, <1>8, <1>9

(* A window that is full before anything of a request went out.            *)
LEMMA WindowFullTalk ==
    ASSUME WindowFull \subseteq {"start"}
    PROVE  TalkInv /\ SendWindowFull => TalkInv'
<1> SUFFICES ASSUME TalkInv, SendWindowFull PROVE TalkInv'
  OBVIOUS
<1>1. /\ ~Dead /\ client.phase = "send" /\ Control(client) /\ client.st \in {"OPEN", "RENAME"}
      /\ Len(client.out) = 2 /\ client' = [WindowFullIn(client) EXCEPT !.out = <<>>]
      /\ UNCHANGED <<server, remote, up, down>> /\ used'.dead = used.dead /\ DOMAIN used' = DOMAIN used
  BY DEF SendWindowFull, TalkInv
<1>2. Greeted /\ Ask1
  <2>1. Greeted /\ (Ask1 \/ Ask2 \/ Ask3)
    BY <1>1, Stages
  <2>2. Ask2 \/ Ask3 => Len(client.out) = 1
    BY PairFacts DEF Ask2, Ask3, At
  <2> QED BY <1>1, <2>1, <2>2
<1>3. /\ DOMAIN client = ClientFields /\ client.call.op \in AllOps /\ client.st \in StatesOf(client.call.op)
  BY <1>1 DEF Control
<1>4. Turned(client, WindowFullIn(client))
  <2>1. CASE client.st = "OPEN" /\ client.call.op = "put"
    <3>1. WindowFullIn(client) = Goto([client EXCEPT !.handle = 0, !.error = TRUE], "CLOSE_LOCAL")
      BY <2>1 DEF WindowFullIn
    <3> QED BY <1>3, <2>1, <3>1 DEF Turned, Goto, ClientFields, LocalStates, StatesOf
  <2>2. CASE client.st = "OPEN" /\ client.call.op # "put"
    <3>1. WindowFullIn(client) = Goto(client, "OPEN")
      BY <2>2 DEF WindowFullIn
    <3> QED BY <1>3, <2>2, <3>1 DEF Turned, Goto, ClientFields, LocalStates
  <2>3. CASE client.st = "RENAME"
    <3>1. WindowFullIn(client) = Finish(client, "fail")
      BY <2>3 DEF WindowFullIn
    <3> QED BY <1>3, <2>3, <3>1 DEF Turned, Finish, ClientFields, LocalStates
  <2> QED BY <1>1, <2>1, <2>2, <2>3
<1> DEFINE x == WindowFullIn(client)
<1> HIDE DEF x
<1>5. Control(x) /\ x.phase \in Quiet
  BY <1>1, <1>4, TurnedControl DEF x
<1>6. client' = [x EXCEPT !.out = <<>>] /\ DOMAIN x = ClientFields
  BY <1>1, <1>5 DEF x, Control
<1>7. Control(client') /\ client'.phase = x.phase /\ client'.out = <<>> /\ client'.hdr = x.hdr
      /\ client'.sftpState = x.sftpState /\ client'.reqId = x.reqId /\ client'.uid = x.uid
  BY <1>5, <1>6 DEF Control, ClientFields
<1>8. x.hdr = client.hdr /\ x.sftpState = client.sftpState /\ x.reqId = client.reqId /\ x.uid = client.uid
  BY <1>4 DEF Turned, x
<1>9. Rest' /\ Greeted'
  BY <1>1, <1>2, <1>5, <1>7, <1>8 DEF Rest, Ask1, At, Serves, Wire, Greeted
<1> QED BY <1>1, <1>5, <1>7, <1>8, <1>9 DEF TalkInv, Talk, Quiet

LEMMA InterruptTalk == TalkInv /\ Interrupt => TalkInv'
<1> SUFFICES ASSUME TalkInv, Interrupt PROVE TalkInv'
  OBVIOUS
<1>1. /\ Control(client) /\ client' = [client EXCEPT !.sftpInt = TRUE]
      /\ UNCHANGED <<server, remote, up, down>> /\ used'.dead = used.dead /\ DOMAIN used' = DOMAIN used
  BY DEF Interrupt, TalkInv
<1>2. /\ client'.out = client.out /\ client'.phase = client.phase
      /\ client'.st = client.st /\ client'.reqId = client.reqId /\ client'.uid = client.uid
      /\ client'.call = client.call /\ client'.handle = client.handle
      /\ client'.ofst = client.ofst /\ client'.files = client.files
      /\ client'.hdr = client.hdr /\ client'.sftpState = client.sftpState
      /\ Control(client')
  BY <1>1 DEF Control, ClientFields
<1>3. Asked' = Asked /\ Answer' = Answer
  BY <1>1, <1>2, AskedSame DEF Answer
<1>4. Talk => Talk'
  BY <1>1, <1>2, <1>3 DEF Talk, Greeting, Greets, Greeted, Rest, Asking, Answering, Answers,
     Ask1, Ask2, Ask3, Ask4, Ask5, Lost, Ans1, Ans2, Ans3, Ans4, Ans5, At, Serves, Wire
<1> QED BY <1>1, <1>2, <1>4 DEF TalkInv, Dead

LEMMA GetHeaderTalk == TalkInv /\ GetHeader => TalkInv'
<1> SUFFICES ASSUME TalkInv, GetHeader PROVE TalkInv'
  OBVIOUS
<1>1. /\ ~Dead /\ client.phase = "header" /\ down # <<>> /\ down' = Tail(down) /\ Control(client)
      /\ UNCHANGED <<server, remote, up, used>> /\ client.reqId \in Nat /\ client.uid \in Nat
  BY DEF GetHeader, TalkInv
<1>2. Greeted /\ (Ans2 \/ Ans3) /\ Answers
  BY <1>1, Stages DEF Ask4, Ask5, Lost, Ans1, Wire
<1> DEFINE r == Answer
<1>3. Head(down) = HeaderOf(r) /\ r.id = client.reqId /\ r.type \in Expected(client.st) /\ r.uid = client.uid
  <2>1. Head(down) = HeaderOf(r)
    BY <1>2, PairFacts DEF Ans2, Ans3, Wire
  <2> QED BY <1>1, <1>2, <2>1 DEF Answers
<1> HIDE DEF r
<1>4. client' = [client EXCEPT !.reqId = @ + 1, !.phase = "body", !.hdr = r]
  <2>1. Head(down).part = "header" /\ Head(down).m = r
    BY <1>3, PartFields
  <2>2. client' = [[client EXCEPT !.reqId = @ + 1] EXCEPT !.phase = "body", !.hdr = r]
    BY <1>3, <2>1 DEF GetHeader
  <2> QED BY <1>1, <2>2 DEF Control, ClientFields
<1>5. /\ client'.phase = "body" /\ client'.hdr = r /\ client'.reqId = client.reqId + 1
      /\ client'.uid = client.uid /\ client'.st = client.st /\ client'.out = client.out
      /\ client'.sftpState = client.sftpState
  BY <1>1, <1>4 DEF Control, ClientFields
<1>6. Control(client')
  BY <1>1, <1>4 DEF Control, ClientFields, Phases
<1>7. Answer' = r
  BY <1>5 DEF Answer
<1>8. Greeted' /\ Answers'
  BY <1>1, <1>2, <1>3, <1>5, <1>7 DEF Greeted, Answers
<1>9. CASE Ans2
  <2>1. down' = <<>>
    BY <1>1, <1>9, PairFacts DEF Ans2, Wire
  <2>2. Ans4'
    BY <1>1, <1>5, <1>7, <1>9, <2>1 DEF Ans2, Ans4, At, Serves, Wire, r
  <2> QED BY <1>1, <1>3, <1>5, <1>6, <1>8, <2>2 DEF TalkInv, Talk, Answering, Dead
<1>10. CASE Ans3
  <2>1. down' = <<BodyOf(r)>>
    BY <1>1, <1>10, PairFacts DEF Ans3, Wire, r
  <2>2. Ans5'
    BY <1>1, <1>5, <1>7, <1>10, <2>1 DEF Ans3, Ans5, At, Serves, Wire, r
  <2> QED BY <1>1, <1>3, <1>5, <1>6, <1>8, <2>2 DEF TalkInv, Talk, Answering, Dead
<1> QED BY <1>2, <1>9, <1>10

LEMMA ReadBodyTalk == TalkInv /\ ReadBody => TalkInv'
<1> SUFFICES ASSUME TalkInv, ReadBody PROVE TalkInv'
  OBVIOUS
<1>1. /\ ~Dead /\ client.phase = "body" /\ down # <<>> /\ down' = Tail(down) /\ Control(client)
      /\ UNCHANGED <<server, remote, up, used>> /\ client.reqId \in Nat /\ client.uid \in Nat
  BY DEF ReadBody, TalkInv
<1>2. Greeted /\ Ans5
  BY <1>1, Stages DEF Ans4, Wire
<1> DEFINE c == [client EXCEPT !.hdr = NoMessage]
<1>3. PICK ret, arg : client' \in Return(c, ret, arg)
  BY DEF ReadBody, ReturnWith
<1>4. /\ Control(c) /\ c.phase = "body" /\ c.out = client.out /\ c.hdr = NoMessage
      /\ c.sftpState = client.sftpState /\ c.reqId = client.reqId /\ c.uid = client.uid
  BY <1>1 DEF Control, ClientFields
<1> HIDE DEF c
<1>5. Turned(c, client') /\ c.st # "idle"
  BY <1>3, <1>4, TurnOfReturn, RequestState
<1>6. Control(client') /\ client'.phase \in Quiet
  BY <1>4, <1>5, TurnedControl
<1>7. down' = <<>>
  BY <1>1, <1>2, PairFacts DEF Ans5, Wire
<1>8. Rest' /\ Greeted'
  BY <1>1, <1>2, <1>4, <1>5, <1>6, <1>7 DEF Rest, Ans5, At, Serves, Wire, Greeted, Turned
<1> QED BY <1>1, <1>4, <1>5, <1>6, <1>8 DEF TalkInv, Talk, Turned, Quiet

(* The client stays as it is while the server moves.                       *)
LEMMA ServerRecvInitTalk == TalkInv /\ ServerRecvInit => TalkInv'
<1> SUFFICES ASSUME TalkInv, ServerRecvInit PROVE TalkInv'
  OBVIOUS
<1>1. /\ ~Dead /\ server.sftpState = "BEGIN" /\ up # <<>> /\ up' = Tail(up)
      /\ server' = [server EXCEPT !.sftpState = "RECV"] /\ UNCHANGED <<client, down, used>>
      /\ DOMAIN server = ServerFields
  BY DEF ServerRecvInit, TalkInv
<1>2. Greets("RECV", "BEGIN", <<InitPart>>, <<>>)
  BY <1>1 DEF TalkInv, Talk, Greeting, Greeted, Greets, Wire
<1>3. up' = <<>>
  BY <1>1, <1>2, PairFacts DEF Greets, Wire
<1>4. /\ DOMAIN server' = ServerFields /\ server'.sftpState = "RECV" /\ server'.state = server.state
      /\ server'.hdr = server.hdr /\ server'.out = server.out
  BY <1>1 DEF ServerFields
<1>5. Greets("RECV", "RECV", <<>>, <<>>)'
  BY <1>1, <1>2, <1>3, <1>4 DEF Greets, At, Serves, Wire
<1> QED BY <1>1, <1>4, <1>5 DEF TalkInv, Talk, Greeting

LEMMA ServerSendInitTalk == TalkInv /\ ServerSendInit => TalkInv'
<1> SUFFICES ASSUME TalkInv, ServerSendInit PROVE TalkInv'
  OBVIOUS
<1>1. /\ ~Dead /\ server.sftpState = "RECV" /\ down' = Append(down, VersionPart)
      /\ server' = [server EXCEPT !.sftpState = "DONE"] /\ UNCHANGED <<client, up, used>>
      /\ DOMAIN server = ServerFields
  BY PartsIs DEF ServerSendInit, TalkInv, VersionPart
<1>2. Greets("RECV", "RECV", <<>>, <<>>)
  BY <1>1 DEF TalkInv, Talk, Greeting, Greeted, Greets, Wire
<1>3. down' = <<VersionPart>>
  BY <1>1, <1>2, PairFacts DEF Greets, Wire
<1>4. /\ DOMAIN server' = ServerFields /\ server'.sftpState = "DONE" /\ server'.state = server.state
      /\ server'.hdr = server.hdr /\ server'.out = server.out
  BY <1>1 DEF ServerFields
<1>5. Greets("RECV", "DONE", <<>>, <<VersionPart>>)'
  BY <1>1, <1>2, <1>3, <1>4 DEF Greets, At, Serves, Wire
<1> QED BY <1>1, <1>4, <1>5 DEF TalkInv, Talk, Greeting

LEMMA RecvHeaderTalk == TalkInv /\ RecvHeader => TalkInv'
<1> SUFFICES ASSUME TalkInv, RecvHeader PROVE TalkInv'
  OBVIOUS
<1>1. /\ ~Dead /\ server.sftpState = "DONE" /\ server.state = "RECV_READ" /\ up # <<>> /\ up' = Tail(up)
      /\ UNCHANGED <<client, remote, down, used>> /\ DOMAIN server = ServerFields
      /\ server' = IF Head(up).part = "header"
                   THEN [server EXCEPT !.state = "RECV_DO", !.hdr = Head(up).m] ELSE server
  BY DEF RecvHeader, TalkInv
<1>2. Greeted /\ (Ask2 \/ Ask4)
  <2>1. Talk
    BY <1>1 DEF TalkInv
  <2>2. ~Greeting /\ ~Rest /\ ~Lost /\ ~Answering /\ ~Ask1 /\ ~Ask3 /\ ~Ask5
    BY <1>1 DEF Greeting, Greets, Rest, Lost, Answering, Ask1, Ask3, Ask5, Ans1, Ans2, Ans3, Ans4, Ans5, Serves, Wire
  <2> QED BY <2>1, <2>2 DEF Talk, Asking
<1>3. Head(up) = HeaderOf(Asked)
  BY <1>2, PairFacts DEF Ask2, Ask4, Wire
<1>4. server' = [server EXCEPT !.state = "RECV_DO", !.hdr = Asked]
  BY <1>1, <1>3, PartFields
<1>5. /\ DOMAIN server' = ServerFields /\ server'.sftpState = "DONE" /\ server'.state = "RECV_DO"
      /\ server'.hdr = Asked /\ server'.out = server.out
  BY <1>1, <1>4 DEF ServerFields
<1>6. Asked' = Asked /\ Greeted'
  BY <1>1, <1>2, <1>5, AskedSame DEF Greeted
<1>7. CASE Ask2
  <2>1. up' = <<>>
    BY <1>1, <1>7, PairFacts DEF Ask2, Wire
  <2>2. Ask3'
    BY <1>1, <1>5, <1>6, <1>7, <2>1 DEF Ask2, Ask3, At, Serves, Wire
  <2> QED BY <1>1, <1>5, <1>6, <2>2 DEF TalkInv, Talk, Asking
<1>8. CASE Ask4
  <2>1. up' = <<BodyOf(Asked)>>
    BY <1>1, <1>8, PairFacts DEF Ask4, Wire
  <2>2. Ask5'
    BY <1>1, <1>5, <1>6, <1>8, <2>1 DEF Ask4, Ask5, At, Serves, Wire
  <2> QED BY <1>1, <1>5, <1>6, <2>2 DEF TalkInv, Talk, Asking
<1> QED BY <1>2, <1>7, <1>8

(* The server looks at a request when all of it is there.                  *)
LEMMA DoingStage ==
    ASSUME TalkInv, RecvDo
    PROVE  /\ ~Dead /\ Greeted /\ Ask5 /\ server.hdr = Asked /\ Asked.type = client.st
           /\ client.st \in Requests /\ up' = <<>> /\ UNCHANGED <<client, down>>
<1>1. /\ ~Dead /\ server.state = "RECV_DO" /\ up # <<>> /\ up' = Tail(up) /\ UNCHANGED <<client, down>>
  BY DEF RecvDo
<1>2. Talk
  BY <1>1 DEF TalkInv
<1>3. ~Greeting /\ ~Rest /\ ~Lost /\ ~Answering /\ ~Ask1 /\ ~Ask2 /\ ~Ask3 /\ ~Ask4
  BY <1>1 DEF Greeting, Greets, Rest, Lost, Answering, Ask1, Ask2, Ask3, Ask4, Ans1, Ans2, Ans3, Ans4, Ans5, Serves, Wire
<1>4. Greeted /\ Ask5
  BY <1>2, <1>3 DEF Talk, Asking
<1>5. up' = <<>>
  BY <1>1, <1>4, PairFacts DEF Ask5, Wire
<1>6. server.hdr = Asked /\ client.phase = "header"
  BY <1>4 DEF Ask5, Serves, At
<1>7. client.st \in Requests
  BY <1>6, RequestState DEF TalkInv
<1> QED BY <1>1, <1>4, <1>5, <1>6, <1>7, AskedFields

(* What it leaves of it: the reply the handler gave, or none.              *)
LEMMA DoneStage ==
    ASSUME TalkInv, RecvDo, NEW o \in Handler(server, remote, server.hdr),
           server' = [o.server EXCEPT !.hdr = NoMessage,
                  !.state = IF o.reply.type = "none" THEN "RECV_READ" ELSE "RECV_SEND",
                  !.out = IF o.reply.type = "none" THEN <<>>
                          ELSE Parts(Message(o.reply.type, server.hdr.id, o.reply.arg,
                                             server.hdr.uid))]
    PROVE  /\ DOMAIN server' = ServerFields /\ Greeted'
           /\ \A x \in {"fileList", "dirList", "handleId", "fds"} : server'[x] = o.server[x]
           /\ o.reply.type = "none" => Lost'
           /\ o.reply.type # "none" =>
                Ans1' /\ Answers' /\ Answer'.type = o.reply.type /\ Answer'.arg = o.reply.arg
<1>1. /\ ~Dead /\ Greeted /\ Ask5 /\ server.hdr = Asked /\ Asked.type = client.st
      /\ client.st \in Requests /\ up' = <<>> /\ UNCHANGED <<client, down>>
  BY DoingStage
<1>2. Handled(server, server.hdr, o) /\ DOMAIN server = ServerFields
  BY <1>1, ReplyHandled DEF TalkInv
<1> DEFINE m == Message(o.reply.type, server.hdr.id, o.reply.arg, server.hdr.uid)
<1>3. /\ DOMAIN server' = ServerFields /\ server'.sftpState = o.server.sftpState
      /\ server'.hdr = NoMessage
      /\ server'.state = IF o.reply.type = "none" THEN "RECV_READ" ELSE "RECV_SEND"
      /\ server'.out = IF o.reply.type = "none" THEN <<>> ELSE Parts(m)
      /\ \A x \in {"fileList", "dirList", "handleId", "fds"} : server'[x] = o.server[x]
  BY <1>2 DEF Handled, ServerFields
<1>4. m.type = o.reply.type /\ m.id = Asked.id /\ m.uid = Asked.uid /\ m.arg = o.reply.arg
  BY <1>1 DEF Message
<1> HIDE DEF m
<1>5. Greeted'
  BY <1>1, <1>2, <1>3 DEF Greeted, Handled
<1>6. client.phase = "header" /\ client.out = <<>> /\ client.hdr = NoMessage /\ down = <<>>
  BY <1>1 DEF Ask5, At, Wire
<1>7. CASE o.reply.type = "none"
  BY <1>1, <1>3, <1>5, <1>6, <1>7 DEF Lost, At, Serves, Wire
<1>8. CASE o.reply.type # "none"
  <2>1. server'.out = <<HeaderOf(m), BodyOf(m)>>
    BY <1>3, <1>8, PartsIs
  <2>2. Answer' = m
    BY <1>1, <1>6, <2>1, PairFacts, PartFields DEF Answer
  <2>3. Ans1'
    BY <1>1, <1>3, <1>6, <1>8, <2>1, <2>2 DEF Ans1, At, Serves, Wire
  <2>4. Answers'
    BY <1>1, <1>2, <1>4, <1>6, <1>8, <2>2, AskedFields DEF Answers, Handled
  <2> QED BY <1>3, <1>4, <1>5, <1>8, <2>2, <2>3, <2>4
<1> QED BY <1>7, <1>8

LEMMA RecvDoTalk == TalkInv /\ RecvDo => TalkInv'
<1> SUFFICES ASSUME TalkInv, RecvDo PROVE TalkInv'
  OBVIOUS
<1>1. PICK o \in Handler(server, remote, server.hdr) :
        /\ used' = [used EXCEPT !.faults = @ + (IF o.fault THEN 1 ELSE 0)]
        /\ server' = [o.server EXCEPT !.hdr = NoMessage,
                  !.state = IF o.reply.type = "none" THEN "RECV_READ" ELSE "RECV_SEND",
                  !.out = IF o.reply.type = "none" THEN <<>>
                          ELSE Parts(Message(o.reply.type, server.hdr.id, o.reply.arg,
                                             server.hdr.uid))]
  BY DEF RecvDo
<1>2. /\ DOMAIN server' = ServerFields /\ Greeted'
      /\ Lost' \/ (Ans1' /\ Answers')
  BY <1>1, DoneStage
<1>3. used'.dead = used.dead /\ DOMAIN used' = DOMAIN used
  BY <1>1 DEF TalkInv
<1>4. UNCHANGED client
  BY DEF RecvDo
<1> QED BY <1>2, <1>3, <1>4 DEF TalkInv, Talk, Answering

LEMMA RecvSendTalk == TalkInv /\ RecvSend => TalkInv'
<1> SUFFICES ASSUME TalkInv, RecvSend PROVE TalkInv'
  OBVIOUS
<1>1. /\ ~Dead /\ server.state = "RECV_SEND" /\ down' = Append(down, Head(server.out))
      /\ server' = [server EXCEPT !.out = Tail(@),
                     !.state = IF Len(server.out) = 1 THEN "RECV_READ" ELSE "RECV_SEND"]
      /\ UNCHANGED <<client, remote, up, used>> /\ DOMAIN server = ServerFields
  BY DEF RecvSend, TalkInv
<1>2. Greeted /\ (Ans1 \/ Ans2 \/ Ans4) /\ Answers
  <2>1. Talk
    BY <1>1 DEF TalkInv
  <2>2. ~Greeting /\ ~Rest /\ ~Lost /\ ~Asking /\ ~Ans3 /\ ~Ans5
    BY <1>1 DEF Greeting, Greets, Rest, Lost, Asking, Ask1, Ask2, Ask3, Ask4, Ask5, Ans3, Ans5, Serves
  <2> QED BY <2>1, <2>2 DEF Talk, Answering
<1>3. /\ DOMAIN server' = ServerFields /\ server'.sftpState = server.sftpState
      /\ server'.hdr = server.hdr /\ server'.out = Tail(server.out)
      /\ server'.state = IF Len(server.out) = 1 THEN "RECV_READ" ELSE "RECV_SEND"
  BY <1>1 DEF ServerFields
<1>4. Greeted'
  BY <1>1, <1>2, <1>3 DEF Greeted
<1> DEFINE r == Answer
           a == HeaderOf(r)
           b == BodyOf(r)
<1>5. Answer' = r => Answers'
  BY <1>1, <1>2 DEF Answers
<1>6. CASE Ans1
  <2>1. server.out = <<a, b>> /\ down = <<>> /\ client.phase = "header"
    BY <1>6 DEF Ans1, Serves, Wire, At
  <2>2. server'.out = <<b>> /\ server'.state = "RECV_SEND" /\ down' = <<a>>
    BY <1>1, <1>3, <2>1, PairFacts
  <2>3. Answer' = r
    BY <1>1, <2>1, <2>2, PairFacts, PartFields DEF Answer
  <2>4. Ans2'
    BY <1>1, <1>3, <1>6, <2>2, <2>3 DEF Ans1, Ans2, At, Serves, Wire
  <2> QED BY <1>1, <1>3, <1>4, <1>5, <2>3, <2>4 DEF TalkInv, Talk, Answering
<1>7. CASE Ans2
  <2>1. server.out = <<b>> /\ down = <<a>> /\ client.phase = "header"
    BY <1>7 DEF Ans2, Serves, Wire, At
  <2>2. server'.out = <<>> /\ server'.state = "RECV_READ" /\ down' = <<a, b>>
    BY <1>1, <1>3, <2>1, PairFacts
  <2>3. Answer' = r
    BY <1>1, <2>1, <2>2, PairFacts, PartFields DEF Answer
  <2>4. Ans3'
    BY <1>1, <1>3, <1>7, <2>2, <2>3 DEF Ans2, Ans3, At, Serves, Wire
  <2> QED BY <1>1, <1>3, <1>4, <1>5, <2>3, <2>4 DEF TalkInv, Talk, Answering
<1>8. CASE Ans4
  <2>1. server.out = <<b>> /\ down = <<>> /\ client.phase = "body"
    BY <1>8 DEF Ans4, Serves, Wire, At
  <2>2. server'.out = <<>> /\ server'.state = "RECV_READ" /\ down' = <<b>>
    BY <1>1, <1>3, <2>1, PairFacts
  <2>3. Answer' = r
    BY <1>1, <2>1 DEF Answer
  <2>4. Ans5'
    BY <1>1, <1>3, <1>8, <2>2, <2>3 DEF Ans4, Ans5, At, Serves, Wire
  <2> QED BY <1>1, <1>3, <1>4, <1>5, <2>3, <2>4 DEF TalkInv, Talk, Answering
<1> QED BY <1>2, <1>6, <1>7, <1>8

LEMMA EndTalk == TalkInv /\ (ServerFree \/ Drop) => TalkInv'
<1> SUFFICES ASSUME TalkInv, ServerFree \/ Drop PROVE TalkInv'
  OBVIOUS
<1>1. CASE ServerFree
  <2>1. DOMAIN server' = ServerFields /\ UNCHANGED <<client, used>> /\ Dead
    BY <1>1 DEF ServerFree, TalkInv, ServerFields
  <2> QED BY <2>1 DEF TalkInv, Dead
<1>2. CASE Drop
  <2>1. UNCHANGED <<client, server>> /\ used'.dead /\ used'.dead \in BOOLEAN /\ DOMAIN used' = DOMAIN used
    BY <1>2 DEF Drop, TalkInv
  <2> QED BY <2>1 DEF TalkInv, Dead
<1> QED BY <1>1, <1>2

LEMMA TalkStep ==
    ASSUME WindowFull \subseteq {"start"}
    PROVE  TalkInv /\ [Next]_vars => TalkInv'
<1> SUFFICES ASSUME TalkInv, [Next]_vars PROVE TalkInv'
  OBVIOUS
<1>1. CASE UNCHANGED vars
  BY <1>1 DEF vars, TalkInv, Talk, Greeting, Greets, Greeted, Rest, Asking, Answering, Answers, Answer, Asked, Dead,
     Ask1, Ask2, Ask3, Ask4, Ask5, Lost, Ans1, Ans2, Ans3, Ans4, Ans5, At, Serves, Wire, RequestArg,
     OpenRequest, SendReadRequest, SendWriteRequest, RenameRequest, SetSTATRequest,
     HandleRequest, PathRequest, RemotePath, OpenFlags
<1> QED BY <1>1, AppCallTalk, LocalTalk, FailTalk, ConnectTalk, ClientRecvInitTalk, SetHeaderTalk, SendPacketTalk,
           WindowFullTalk, InterruptTalk, GetHeaderTalk, ReadBodyTalk, ServerRecvInitTalk,
           ServerSendInitTalk, RecvHeaderTalk, RecvDoTalk, RecvSendTalk, EndTalk
        DEF Next, ClientStep, ServerStep

----------------------------------------------------------------------------
(* Both ends stay in step.                                                 *)

LEMMA JoinFacts ==
    ASSUME NEW a, NEW b
    PROVE  /\ <<>> \o <<>> \o <<>> = <<>> /\ <<>> \o <<>> \o <<a, b>> = <<a, b>>
           /\ <<>> \o <<a>> \o <<b>> = <<a, b>> /\ <<a>> \o <<>> \o <<b>> = <<a, b>>
           /\ <<>> \o <<a, b>> \o <<>> = <<a, b>> /\ <<a>> \o <<b>> \o <<>> = <<a, b>>
           /\ <<>> \o <<a>> \o <<>> = <<a>>
<1>1. <<>> \o <<>> = <<>> /\ <<>> \o <<a, b>> = <<a, b>> /\ <<a, b>> \o <<>> = <<a, b>>
      /\ <<>> \o <<a>> = <<a>> /\ <<a>> \o <<>> = <<a>>
  <2>1. <<a, b>> \in Seq({a, b}) /\ <<a>> \in Seq({a, b}) /\ <<>> \in Seq({a, b})
    OBVIOUS
  <2> QED BY <2>1, ConcatEmptySeq
<1>2. <<a>> \o <<b>> = <<a, b>>
  <2> DEFINE q == <<a>> \o <<b>>
             r == <<a, b>>
  <2>1. <<a>> \in Seq({a, b}) /\ <<b>> \in Seq({a, b}) /\ Len(<<a>>) = 1 /\ Len(<<b>>) = 1
    OBVIOUS
  <2>2. q \in Seq({a, b}) /\ Len(q) = 2 /\ q[1] = a /\ q[2] = b
    BY <2>1, ConcatProperties
  <2>3. r \in Seq({a, b}) /\ Len(r) = 2 /\ r[1] = a /\ r[2] = b
    OBVIOUS
  <2> HIDE DEF q, r
  <2>4. \A i \in 1 .. Len(q) : q[i] = r[i]
    BY <2>2, <2>3
  <2>5. q = r
    BY <2>2, <2>3, <2>4, SeqEqual
  <2> QED BY <2>5 DEF q, r
<1> QED BY <1>1, <1>2

LEMMA WholeFacts ==
    /\ Whole(<<>>) /\ Whole(<<InitPart>>) /\ Whole(<<VersionPart>>)
    /\ \A m : Whole(<<HeaderOf(m), BodyOf(m)>>)
<1>1. Whole(<<>>)
  BY DEF Whole
<1>2. Whole(<<InitPart>>) /\ Whole(<<VersionPart>>)
  BY DEF Whole, InitPart, VersionPart, HeaderOf, Message
<1>3. ASSUME NEW m PROVE Whole(<<HeaderOf(m), BodyOf(m)>>)
  <2> DEFINE q == <<HeaderOf(m), BodyOf(m)>>
  <2>1. /\ DOMAIN q = {1, 2} /\ Len(q) = 2 /\ q[1].part = "header" /\ q[2].part = "body"
        /\ q[1].m = m /\ q[2].m = m /\ q[2] = Parts(m)[2] /\ q[1] = Parts(m)[1]
    BY PartFields, PairFacts DEF Parts, HeaderOf, BodyOf
  <2> HIDE DEF q
  <2>2. Whole(q)
    BY <2>1 DEF Whole
  <2> QED BY <2>2 DEF q
<1> QED BY <1>1, <1>2, <1>3

LEMMA BegunFacts ==
    /\ Begun(NoMessage) = <<>>
    /\ \A m : m.type # "none" => Begun(m) = <<HeaderOf(m)>>
BY NoMessageType, PartsIs, PairFacts DEF Begun

LEMMA TalkInStep == TalkInv => InStep
<1> SUFFICES ASSUME TalkInv, ~Dead
             PROVE  /\ Whole(Begun(server.hdr) \o up \o client.out)
                    /\ Whole(Begun(client.hdr) \o down \o server.out)
  BY DEF TalkInv, InStep
<1> USE WholeFacts, BegunFacts, JoinFacts
<1>1. Talk
  BY DEF TalkInv
<1>2. CASE Greeting
  BY <1>2 DEF Greeting, Greets, At, Serves, Wire
<1>3. CASE Rest \/ Lost
  BY <1>3 DEF Rest, Lost, At, Serves, Wire
<1>4. CASE Asking
  <2>1. Asked.type # "none"
    <3>1. client.phase \in {"send", "header"}
      BY <1>4 DEF Asking, Ask1, Ask2, Ask3, Ask4, Ask5, At
    <3> QED BY <3>1, RequestState, AskedFields DEF TalkInv, Requests
  <2> DEFINE a == HeaderOf(Asked)
             b == BodyOf(Asked)
  <2>2. Begun(Asked) = <<a>> /\ Whole(<<a, b>>) /\ Whole(<<>>) /\ Begun(NoMessage) = <<>>
    BY <2>1
  <2>3. /\ <<>> \o <<>> \o <<>> = <<>> /\ <<>> \o <<>> \o <<a, b>> = <<a, b>>
        /\ <<>> \o <<a>> \o <<b>> = <<a, b>> /\ <<a>> \o <<>> \o <<b>> = <<a, b>>
        /\ <<>> \o <<a, b>> \o <<>> = <<a, b>> /\ <<a>> \o <<b>> \o <<>> = <<a, b>>
    BY JoinFacts
  <2>4. CASE Ask1
    BY ONLY <2>4, <2>2, <2>3 DEF Ask1, At, Serves, Wire
  <2>5. CASE Ask2
    BY ONLY <2>5, <2>2, <2>3 DEF Ask2, At, Serves, Wire
  <2>6. CASE Ask3
    BY ONLY <2>6, <2>2, <2>3 DEF Ask3, At, Serves, Wire
  <2>7. CASE Ask4
    BY ONLY <2>7, <2>2, <2>3 DEF Ask4, At, Serves, Wire
  <2>8. CASE Ask5
    BY ONLY <2>8, <2>2, <2>3 DEF Ask5, At, Serves, Wire
  <2> QED BY <1>4, <2>4, <2>5, <2>6, <2>7, <2>8 DEF Asking
<1>5. CASE Answering /\ Answers
  <2>1. Answer.type # "none"
    BY <1>5 DEF Answers, Expected
  <2> DEFINE a == HeaderOf(Answer)
             b == BodyOf(Answer)
  <2>2. Begun(Answer) = <<a>> /\ Whole(<<a, b>>) /\ Whole(<<>>) /\ Begun(NoMessage) = <<>>
    BY <2>1
  <2>3. /\ <<>> \o <<>> \o <<>> = <<>> /\ <<>> \o <<>> \o <<a, b>> = <<a, b>>
        /\ <<>> \o <<a>> \o <<b>> = <<a, b>> /\ <<a>> \o <<>> \o <<b>> = <<a, b>>
        /\ <<>> \o <<a, b>> \o <<>> = <<a, b>> /\ <<a>> \o <<b>> \o <<>> = <<a, b>>
    BY JoinFacts
  <2>4. CASE Ans1
    BY ONLY <2>4, <2>2, <2>3 DEF Ans1, At, Serves, Wire
  <2>5. CASE Ans2
    BY ONLY <2>5, <2>2, <2>3 DEF Ans2, At, Serves, Wire
  <2>6. CASE Ans3
    BY ONLY <2>6, <2>2, <2>3 DEF Ans3, At, Serves, Wire
  <2>7. CASE Ans4
    BY ONLY <2>7, <2>2, <2>3 DEF Ans4, At, Serves, Wire
  <2>8. CASE Ans5
    BY ONLY <2>8, <2>2, <2>3 DEF Ans5, At, Serves, Wire
  <2> QED BY <1>5, <2>4, <2>5, <2>6, <2>7, <2>8 DEF Answering
<1> QED BY <1>1, <1>2, <1>3, <1>4, <1>5 DEF Talk

(* Both ends of an SFTP session stay in step: parts of messages read, on   *)
(* their way and still to be sent make whole messages both ways, and       *)
(* the client's functions read the reply to the request they made.  This   *)
(* holds for sends that meet a full window at the start of a request; the  *)
(* other ways in which wolfSSH_SFTP_Open(), SendPacketType() and SetSTAT() *)
(* give up a request are not covered.                                      *)
THEOREM StaysInStep ==
    ASSUME WindowFull \subseteq {"start"}
    PROVE  Spec => []InStep
<1>1. TalkInv /\ [Next]_vars => TalkInv'
  BY TalkStep
<1> QED BY <1>1, InitTalk, TalkInStep, PTL DEF Spec

----------------------------------------------------------------------------
(* The server's tables and its handlers.                                   *)

SameTables(s, t) ==
    /\ t.handleId = s.handleId /\ t.fileList = s.fileList
    /\ t.dirList = s.dirList /\ t.fds = s.fds

LEMMA SameTablesHold ==
    ASSUME NEW s, NEW t, Tables(s), SameTables(s, t)
    PROVE  Tables(t) /\ Handles(t) = Handles(s)
BY DEF SameTables, Tables, Handles

(* A handle's id is one of those given out.                                *)
LEMMA HandlesBelow ==
    ASSUME NEW s, Tables(s)
    PROVE  Handles(s) \subseteq 1 .. s.handleId /\ s.handleId \in Nat
           /\ s.handleId + 1 \in Nat \ {0} /\ s.handleId + 1 \notin Handles(s)
BY DEF Tables, Handles

LEMMA OpenTables ==
    ASSUME NEW s, DOMAIN s = ServerFields, Tables(s), NEW f, NEW n \in Remotes, NEW flags,
           NEW o \in RecvOpen(s, f, n, flags)
    PROVE  /\ Tables(o.server) /\ o.server.dirList = s.dirList
           /\ \/ /\ o.reply = [type |-> "HANDLE", arg |-> s.handleId + 1]
                 /\ Handles(o.server) = Handles(s) \cup {s.handleId + 1}
                 /\ o.server.fileList = s.fileList \cup {[id |-> s.handleId + 1, name |-> n]}
              \/ /\ o.reply.type = "STATUS" /\ o.reply.arg # "OK"
                 /\ Handles(o.server) = Handles(s) /\ o.server.fileList = s.fileList
<1> DEFINE id == s.handleId + 1
           d == [s EXCEPT !.handleId = id, !.fds = @ \cup {id},
                          !.fileList = @ \cup {[id |-> id, name |-> n]}]
           e == [s EXCEPT !.handleId = id]
<1>1. /\ d.handleId = id /\ d.fds = s.fds \cup {id} /\ d.fileList = s.fileList \cup {[id |-> id, name |-> n]}
      /\ d.dirList = s.dirList
      /\ e.handleId = id /\ e.fds = s.fds /\ e.fileList = s.fileList /\ e.dirList = s.dirList
  BY DEF ServerFields
<1>2. \/ \E code \in {"PERMISSION", "FAILURE", "NOFILE"} : o.server = s /\ o.reply = [type |-> "STATUS", arg |-> code]
      \/ o.server = d /\ o.reply = [type |-> "HANDLE", arg |-> id]
      \/ o.server = e /\ o.reply = [type |-> "STATUS", arg |-> "FAILURE"]
  <2> HIDE DEF d, e
  <2> QED BY DEF RecvOpen, SendStatus, FaultStatus, Outcome, FailStatus, d, e, id
<1>3. id \in Nat /\ id > s.handleId /\ s.handleId \in Nat /\ Handles(s) \subseteq 1 .. s.handleId
  BY HandlesBelow
<1> HIDE DEF d, e, id
<1>4. Handles(e) = Handles(s) /\ Handles(d) = Handles(s) \cup {id}
  <2>1. Handles(e) = Handles(s)
    BY <1>1 DEF Handles
  <2> DEFINE new == [id |-> id, name |-> n]
  <2>2. new.id = id /\ d.fileList = s.fileList \cup {new} /\ d.dirList = s.dirList
    BY <1>1
  <2> HIDE DEF new
  <2>3. Handles(d) = Handles(s) \cup {id}
    BY <2>2 DEF Handles
  <2> QED BY <2>1, <2>3
<1>5. Tables(e)
  BY <1>1, <1>3, <1>4 DEF Tables
<1>6. Tables(d)
  <2>1. \A h \in d.fileList : h \in [id : 1 .. id, name : Remotes]
    BY <1>1, <1>3 DEF Tables
  <2>2. \A h \in d.dirList : h \in [id : 1 .. id, isEof : BOOLEAN, rest : SUBSET Remotes]
    BY <1>1, <1>3 DEF Tables
  <2>3. \A g \in d.fileList, h \in d.dirList : g.id # h.id
    BY <1>1, <1>3 DEF Tables
  <2>4. \A g, h \in d.fileList : g.id = h.id => g = h
    BY <1>1, <1>3 DEF Tables
  <2> QED BY <1>1, <1>3, <1>4, <2>1, <2>2, <2>3, <2>4 DEF Tables
<1> QED BY <1>1, <1>2, <1>4, <1>5, <1>6 DEF id

LEMMA OpenDirTables ==
    ASSUME NEW s, DOMAIN s = ServerFields, Tables(s), NEW f,
           NEW o \in RecvOpenDir(s, f)
    PROVE  /\ Tables(o.server) /\ o.server.fileList = s.fileList /\ o.remote = f
           /\ \/ /\ o.reply = [type |-> "HANDLE", arg |-> s.handleId + 1]
                 /\ Handles(o.server) = Handles(s) \cup {s.handleId + 1}
                 /\ o.server.dirList = s.dirList \cup
                       {[id |-> s.handleId + 1, isEof |-> FALSE, rest |-> {n \in Remotes : Exists(f, n)}]}
              \/ /\ o.reply.type = "STATUS" /\ o.reply.arg # "OK" /\ o.server = s
                 /\ Handles(o.server) = Handles(s)
<1> DEFINE id == s.handleId + 1
           new == [id |-> id, isEof |-> FALSE, rest |-> {n \in Remotes : Exists(f, n)}]
           d == [s EXCEPT !.handleId = id, !.fds = @ \cup {id}, !.dirList = @ \cup {new}]
<1>1. /\ d.handleId = id /\ d.fds = s.fds \cup {id} /\ d.dirList = s.dirList \cup {new}
      /\ d.fileList = s.fileList
  BY DEF ServerFields
<1>2. /\ o.remote = f
      /\ \/ \E code \in {"FAILURE", "NOFILE"} : o.server = s /\ o.reply = [type |-> "STATUS", arg |-> code]
         \/ o.server = d /\ o.reply = [type |-> "HANDLE", arg |-> id]
  <2> HIDE DEF d
  <2> QED BY DEF RecvOpenDir, SendStatus, FaultStatus, Outcome, d, id, new
<1>3. id \in Nat /\ id > s.handleId /\ s.handleId \in Nat /\ Handles(s) \subseteq 1 .. s.handleId
  BY HandlesBelow
<1>7. new.id = id /\ (id \in 1 .. id => new \in [id : 1 .. id, isEof : BOOLEAN, rest : SUBSET Remotes])
  OBVIOUS
<1>8. new = [id |-> s.handleId + 1, isEof |-> FALSE, rest |-> {n \in Remotes : Exists(f, n)}]
  OBVIOUS
<1> HIDE DEF d, new, id
<1>4. Handles(d) = Handles(s) \cup {id}
  BY <1>1, <1>7 DEF Handles
<1>6. Tables(d)
  <2>1. \A h \in d.fileList : h \in [id : 1 .. id, name : Remotes]
    BY <1>1, <1>3 DEF Tables
  <2>2. \A h \in d.dirList : h \in [id : 1 .. id, isEof : BOOLEAN, rest : SUBSET Remotes]
    BY <1>1, <1>3, <1>7 DEF Tables
  <2>3. \A g \in d.fileList, h \in d.dirList : g.id # h.id
    BY <1>1, <1>3, <1>7 DEF Tables
  <2>4. \A g, h \in d.dirList : g.id = h.id => g = h
    BY <1>1, <1>3, <1>7 DEF Tables
  <2> QED BY <1>1, <1>3, <1>4, <2>1, <2>2, <2>3, <2>4 DEF Tables
<1> QED BY <1>1, <1>2, <1>4, <1>6, <1>8 DEF id

LEMMA ReadDirTables ==
    ASSUME NEW s, DOMAIN s = ServerFields, Tables(s), NEW f, NEW id, NEW o \in RecvReadDir(s, f, id)
    PROVE  /\ Tables(o.server) /\ Handles(o.server) = Handles(s)
           /\ o.server.fileList = s.fileList /\ o.remote = f
<1> DEFINE hit == {h \in s.dirList : h.id = id}
           h == CHOOSE h \in hit : TRUE
           names == IF Cardinality(h.rest) <= MaxReadDir THEN h.rest
                    ELSE CHOOSE b \in SUBSET h.rest : Cardinality(b) = MaxReadDir
           eof == h.isEof \/ Cardinality(names) < MaxReadDir
           k == [h EXCEPT !.rest = @ \ names, !.isEof = eof]
           d == [s EXCEPT !.dirList = (@ \ {h}) \cup {k}]
<1>1. CASE hit = {}
  <2>1. o.server = s /\ o.remote = f
    BY <1>1 DEF RecvReadDir, Outcome
  <2> QED BY <2>1
<1>2. CASE hit # {}
  <2>1. h \in hit
    BY <1>2
  <2>2. o.server = d /\ o.remote = f
    <3>1. o = IF h.isEof \/ names = {} THEN SendStatus(d, f, "EOF") ELSE Outcome(d, f, "NAME", names, FALSE)
      BY <1>2 DEF RecvReadDir
    <3> HIDE DEF d, names, h
    <3> QED BY <3>1 DEF Outcome, SendStatus
  <2>3. eof \in BOOLEAN
    BY <2>1 DEF Tables
  <2>4. h \in s.dirList /\ h.id = id
    BY <2>1
  <2> HIDE DEF hit, h, names, eof
  <2>5. k.id = h.id /\ k \in [id : 1 .. s.handleId, isEof : BOOLEAN, rest : SUBSET Remotes]
    BY <2>3, <2>4 DEF Tables
  <2> HIDE DEF k
  <2>6. /\ d.handleId = s.handleId /\ d.fileList = s.fileList /\ d.fds = s.fds
        /\ d.dirList = (s.dirList \ {h}) \cup {k}
    BY DEF ServerFields
  <2> HIDE DEF d
  <2>7. Handles(d) = Handles(s)
    BY <2>4, <2>5, <2>6 DEF Handles
  <2>8. \A g \in d.fileList, j \in d.dirList : g.id # j.id
    BY <2>4, <2>5, <2>6 DEF Tables
  <2>9. \A g, j \in d.dirList : g.id = j.id => g = j
    BY <2>4, <2>5, <2>6 DEF Tables
  <2>10. Tables(d)
    BY <2>5, <2>6, <2>7, <2>8, <2>9 DEF Tables
  <2> QED BY <2>2, <2>6, <2>7, <2>10
<1> QED BY <1>1, <1>2

LEMMA CloseTables ==
    ASSUME NEW s, DOMAIN s = ServerFields, Tables(s), NEW f, NEW id, NEW o \in RecvClose(s, f, id)
    PROVE  /\ Tables(o.server) /\ Handles(o.server) = Handles(s) \ {id}
           /\ o.reply.type = "STATUS" /\ o.remote = f
<1> DEFINE d == [s EXCEPT !.dirList = {h \in @ : h.id # id}, !.fds = @ \ {id}]
           e == [s EXCEPT !.fileList = {h \in @ : h.id # id}, !.fds = @ \ {id}]
<1>1. /\ d.handleId = s.handleId /\ d.fileList = s.fileList /\ d.fds = s.fds \ {id}
      /\ d.dirList = {h \in s.dirList : h.id # id}
      /\ e.handleId = s.handleId /\ e.dirList = s.dirList /\ e.fds = s.fds \ {id}
      /\ e.fileList = {h \in s.fileList : h.id # id}
  BY DEF ServerFields
<1>2. /\ o.remote = f /\ o.reply.type = "STATUS"
      /\ \/ o.server = d /\ \E h \in s.dirList : h.id = id
         \/ o.server = e /\ \E h \in s.fileList : h.id = id
         \/ o.server = s /\ ~(\E h \in s.dirList : h.id = id) /\ ~(\E h \in s.fileList : h.id = id)
  <2> HIDE DEF d, e
  <2> QED BY DEF RecvClose, SendStatus, FaultStatus, Outcome, d, e
<1> HIDE DEF d, e
<1>3. CASE o.server = d /\ \E h \in s.dirList : h.id = id
  <2>1. Handles(d) = Handles(s) \ {id}
    BY <1>1, <1>3 DEF Handles, Tables
  <2>2. Tables(d)
    BY <1>1, <2>1 DEF Tables
  <2> QED BY <1>2, <1>3, <2>1, <2>2
<1>4. CASE o.server = e /\ \E h \in s.fileList : h.id = id
  <2>1. Handles(e) = Handles(s) \ {id}
    BY <1>1, <1>4 DEF Handles, Tables
  <2>2. Tables(e)
    BY <1>1, <2>1 DEF Tables
  <2> QED BY <1>2, <1>4, <2>1, <2>2
<1>5. CASE o.server = s /\ ~(\E h \in s.dirList : h.id = id) /\ ~(\E h \in s.fileList : h.id = id)
  BY <1>2, <1>5 DEF Handles
<1> QED BY <1>2, <1>3, <1>4, <1>5

(* The other handlers leave the tables alone.                              *)
LEMMA OtherTables ==
    ASSUME NEW s, NEW f, NEW m, m.type \in Requests \ {"OPEN", "OPENDIR", "READDIR", "CLOSE"},
           NEW o \in Handler(s, f, m)
    PROVE  o.server = s
<1>1. CASE m.type = "REALPATH"
  BY <1>1 DEF Handler, RecvRealPath, Outcome
<1>2. CASE m.type \in {"STAT", "LSTAT"}
  BY <1>2 DEF Handler, RecvSTAT, RecvLSTAT, SendStatus, Outcome
<1>3. CASE m.type = "READ"
  BY <1>3 DEF Handler, RecvRead, SendStatus, FaultStatus, Outcome
<1>4. CASE m.type = "WRITE"
  BY <1>4 DEF Handler, RecvWrite, SendStatus, FaultStatus, Outcome
<1>5. CASE m.type = "RMDIR"
  BY <1>5 DEF Handler, RecvRMDIR, SendStatus, FaultStatus, Outcome
<1>6. CASE m.type = "MKDIR"
  BY <1>6 DEF Handler, RecvMKDIR, SendStatus, FaultStatus, Outcome
<1>7. CASE m.type = "REMOVE"
  BY <1>7 DEF Handler, RecvRemove, SendStatus, FaultStatus, Outcome
<1>8. CASE m.type = "RENAME"
  BY <1>8 DEF Handler, RecvRename, SendStatus, FaultStatus, Outcome
<1>9. CASE m.type = "SETSTAT"
  BY <1>9 DEF Handler, RecvSetSTAT, SendStatus, FaultStatus, Outcome
<1> QED BY <1>1, <1>2, <1>3, <1>4, <1>5, <1>6, <1>7, <1>8, <1>9 DEF Requests

----------------------------------------------------------------------------
(* The handles of a call.                                                  *)

LEMMA GetMoves ==
    ASSUME NEW c, DOMAIN c = ClientFields, NEW ret, NEW arg,
           NEW x \in GetReturn(c, ret, arg)
    PROVE  /\ c.st = "STAT" => /\ x.held = c.held /\ x.fl = c.fl /\ x.handle = c.handle
                               /\ x.st \in {"idle", "OPEN"}
           /\ c.st = "OPEN" => /\ x.held = c.held /\ x.fl = c.fl
                               /\ IF ret = "ok" THEN x.st = "LOOKUP" /\ x.handle = arg
                                  ELSE x.st = "idle" /\ x.handle = c.handle
           /\ c.st = "READ" => /\ x.held = c.held /\ x.fl = c.fl /\ x.handle = c.handle
                               /\ x.st \in {"READ", "CLOSE"}
           /\ c.st = "CLOSE" => /\ x.held = c.held /\ x.fl = c.fl /\ x.handle = c.handle
                                /\ x.st = "CLOSE_LOCAL"
<1>1. CASE c.st = "STAT"
  <2>1. x = Finish(c, "fail") \/ x = Goto([c EXCEPT !.size = arg.size], "OPEN")
    BY <1>1 DEF GetReturn
  <2> QED BY <1>1, <2>1 DEF Goto, Finish, ClientFields
<1>2. CASE c.st = "OPEN"
  <2>1. IF ret = "ok" THEN x = Goto([c EXCEPT !.handle = arg], "LOOKUP") ELSE x = Finish(c, "fail")
    BY <1>2 DEF GetReturn
  <2> QED BY <1>2, <2>1 DEF Goto, Finish, ClientFields
<1>3. CASE c.st = "READ"
  <2>1. \/ x = GetLoopEnd(c) \/ x = GetFails(c) \/ x = [GetFails(c) EXCEPT !.faults = @ + 1]
        \/ x = GetBlock(c, arg)
    BY <1>3 DEF GetReturn
  <2>2. CASE x = GetLoopEnd(c) \/ x = GetFails(c) \/ x = [GetFails(c) EXCEPT !.faults = @ + 1]
    BY <1>3, <2>2 DEF Goto, GetLoopEnd, GetFails, ClientFields
  <2>3. CASE x = GetBlock(c, arg)
    BY <1>3, <2>3 DEF Goto, GetLoopEnd, GetBlock, ClientFields
  <2> QED BY <2>1, <2>2, <2>3
<1>4. CASE c.st = "CLOSE"
  <2>1. x = Goto([c EXCEPT !.error = @ \/ ret # "ok"], "CLOSE_LOCAL")
    BY <1>4 DEF GetReturn
  <2> QED BY <1>4, <2>1 DEF Goto, ClientFields
<1> QED BY <1>1, <1>2, <1>3, <1>4

LEMMA PutLoopMoves ==
    ASSUME NEW d, DOMAIN d = ClientFields
    PROVE  \A x \in PutNext(d) \cup {PutLoopEnd(d)} :
              x.held = d.held /\ x.fl = d.fl /\ x.handle = d.handle /\ x.st \in {"WRITE", "CLOSE_LOCAL"}
<1> SUFFICES ASSUME NEW x \in PutNext(d) \cup {PutLoopEnd(d)}
             PROVE  x.held = d.held /\ x.fl = d.fl /\ x.handle = d.handle /\ x.st \in {"WRITE", "CLOSE_LOCAL"}
  OBVIOUS
<1>1. \/ x = PutLoopEnd(d) \/ x = Goto(d, "WRITE")
      \/ x = [PutLoopEnd([d EXCEPT !.error = TRUE]) EXCEPT !.faults = @ + 1]
  BY DEF PutNext
<1>2. CASE x = PutLoopEnd(d)
  BY <1>2 DEF PutLoopEnd, Goto, ClientFields
<1>3. CASE x = Goto(d, "WRITE")
  BY <1>3 DEF Goto, ClientFields
<1>4. CASE x = [PutLoopEnd([d EXCEPT !.error = TRUE]) EXCEPT !.faults = @ + 1]
  BY <1>4 DEF PutLoopEnd, Goto, ClientFields
<1> QED BY <1>1, <1>2, <1>3, <1>4

LEMMA PutMoves ==
    ASSUME NEW c, DOMAIN c = ClientFields, NEW ret, NEW arg,
           NEW x \in PutReturn(c, ret, arg)
    PROVE  /\ c.st = "STAT" => /\ x.held = c.held /\ x.fl = c.fl /\ x.handle = c.handle
                               /\ x.st \in {"idle", "OPEN_LOCAL"}
           /\ c.st = "OPEN" => /\ x.held = c.held /\ x.fl = c.fl
                               /\ IF ret = "ok" THEN x.st \in {"WRITE", "CLOSE_LOCAL"} /\ x.handle = arg
                                  ELSE x.st = "CLOSE_LOCAL" /\ x.handle = 0
           /\ c.st = "WRITE" => /\ x.held = c.held /\ x.fl = c.fl /\ x.handle = c.handle
                                /\ x.st \in {"WRITE", "CLOSE_LOCAL"}
           /\ c.st = "CLOSE" => /\ x.held = c.held /\ x.fl = c.fl /\ x.handle = c.handle
                                /\ x.st = "idle"
<1>1. CASE c.st = "STAT"
  <2>1. \/ x = Finish([c EXCEPT !.table = Saved(c)], "fail")
        \/ \E n : x = Goto([c EXCEPT !.ofst = n], "OPEN_LOCAL")
    BY <1>1 DEF PutReturn
  <2> QED BY <1>1, <2>1 DEF Goto, Finish, ClientFields
<1>2. CASE c.st = "OPEN"
  <2> DEFINE d == [c EXCEPT !.handle = arg]
  <2>1. DOMAIN d = ClientFields /\ d.held = c.held /\ d.fl = c.fl /\ d.handle = arg
    BY DEF ClientFields
  <2>2. IF ret = "ok" THEN x \in PutNext(d)
        ELSE x = Goto([c EXCEPT !.handle = 0, !.error = TRUE], "CLOSE_LOCAL")
    BY <1>2 DEF PutReturn
  <2> HIDE DEF d
  <2>3. CASE ret = "ok"
    BY <1>2, <2>1, <2>2, <2>3, PutLoopMoves
  <2>4. CASE ret # "ok"
    BY <1>2, <2>2, <2>4 DEF Goto, ClientFields
  <2> QED BY <2>3, <2>4
<1>3. CASE c.st = "WRITE"
  <2> DEFINE d == [c EXCEPT !.ofst = @ + 1]
             e == [c EXCEPT !.error = TRUE]
  <2>1. /\ DOMAIN d = ClientFields /\ d.held = c.held /\ d.fl = c.fl /\ d.handle = c.handle
        /\ DOMAIN e = ClientFields /\ e.held = c.held /\ e.fl = c.fl /\ e.handle = c.handle
    BY DEF ClientFields
  <2>2. x = PutLoopEnd(e) \/ x = PutLoopEnd(d) \/ x \in PutNext(d)
    BY <1>3 DEF PutReturn
  <2> HIDE DEF d, e
  <2> QED BY <1>3, <2>1, <2>2, PutLoopMoves
<1>4. CASE c.st = "CLOSE"
  <2>1. \E r : x = Finish(c, r)
    BY <1>4 DEF PutReturn
  <2> QED BY <1>4, <2>1 DEF Finish, ClientFields
<1> QED BY <1>1, <1>2, <1>3, <1>4

LEMMA LsMoves ==
    ASSUME NEW c, DOMAIN c = ClientFields, c.call.op = "ls", c.st \in StatesOf("ls"),
           NEW ret, NEW arg, NEW x \in Return(c, ret, arg)
    PROVE  /\ x.fl = c.fl /\ x.held = c.held
           /\ c.st = "REALPATH" => x.st \in {"idle", "OPENDIR"}
           /\ c.st = "OPENDIR" => IF ret = "ok" THEN x.st = "READDIR" /\ x.handle = arg ELSE x.st = "idle"
           /\ c.st = "READDIR" => x.st \in {"READDIR", "CLOSE"} /\ x.handle = c.handle
           /\ c.st = "CLOSE" => x.st = "idle"
<1>1. x = LsReturn(c, ret, arg)
  BY DEF Return
<1>2. c.st \in {"REALPATH", "OPENDIR", "READDIR", "CLOSE"}
  BY DEF StatesOf
<1>3. CASE c.st = "REALPATH"
  <2>1. x = Goto(c, "OPENDIR") \/ x = Finish(c, "fail")
    BY <1>1, <1>3 DEF LsReturn
  <2> QED BY <1>3, <2>1 DEF Goto, Finish, ClientFields
<1>4. CASE c.st = "OPENDIR"
  <2>1. IF ret = "ok" THEN x = Goto([c EXCEPT !.handle = arg], "READDIR") ELSE x = Finish(c, "fail")
    BY <1>1, <1>4 DEF LsReturn
  <2> QED BY <1>4, <2>1 DEF Goto, Finish, ClientFields
<1>5. CASE c.st = "READDIR"
  <2>1. x = Goto([c EXCEPT !.names = Append(@, arg)], "READDIR") \/ x = Goto(c, "CLOSE")
    BY <1>1, <1>5 DEF LsReturn
  <2> QED BY <1>5, <2>1 DEF Goto, ClientFields
<1>6. CASE c.st = "CLOSE"
  <2>1. \E r : x = Finish(c, r)
    BY <1>1, <1>6 DEF LsReturn
  <2> QED BY <1>6, <2>1 DEF Finish, ClientFields
<1> QED BY <1>2, <1>3, <1>4, <1>5, <1>6

LEMMA OpenMoves ==
    ASSUME NEW c, DOMAIN c = ClientFields, c.call.op = "open",
           NEW ret, NEW arg, NEW x \in Return(c, ret, arg)
    PROVE  /\ x.fl = c.fl /\ x.st = "idle"
           /\ ret = "ok" => x.held = c.held \cup {arg}
           /\ ret # "ok" => x.held = c.held
<1>1. IF ret = "ok" THEN x = Finish([c EXCEPT !.held = @ \cup {arg}], "ok") ELSE x = Finish(c, "fail")
  BY DEF Return, OpenReturn
<1> QED BY <1>1 DEF Finish, ClientFields

LEMMA CloseMoves ==
    ASSUME NEW c, DOMAIN c = ClientFields, c.call.op = "close",
           NEW ret, NEW arg, NEW x \in Return(c, ret, arg)
    PROVE  x.fl = c.fl /\ x.st = "idle" /\ x.held = c.held \ {c.handle}
<1>1. x = Finish([c EXCEPT !.held = @ \ {c.handle}], Result(ret))
  BY DEF Return, CloseReturn
<1> QED BY <1>1 DEF Finish, ClientFields

Plain == {"chmod", "rename", "remove", "mkdir", "rmdir", "stat"}

LEMMA PlainMoves ==
    ASSUME NEW c, DOMAIN c = ClientFields, c.call.op \in Plain,
           NEW ret, NEW arg, NEW x \in Return(c, ret, arg)
    PROVE  /\ x.fl = c.fl /\ x.held = c.held
           /\ \E r, st : x = Finish(c, r) \/ x = Goto(c, st)
<1>1. CASE c.call.op = "chmod"
  <2>1. \E r, st : x = Finish(c, r) \/ x = Goto(c, st)
    BY <1>1 DEF Return, ChmodReturn
  <2> QED BY <2>1 DEF Goto, Finish, ClientFields
<1>2. CASE c.call.op = "rename"
  <2>1. \E r, st : x = Finish(c, r) \/ x = Goto(c, st)
    BY <1>2 DEF Return, RenameReturn
  <2> QED BY <2>1 DEF Goto, Finish, ClientFields
<1>3. CASE c.call.op = "remove"
  <2>1. \E r, st : x = Finish(c, r) \/ x = Goto(c, st)
    BY <1>3 DEF Return, RemoveReturn
  <2> QED BY <2>1 DEF Goto, Finish, ClientFields
<1>4. CASE c.call.op \in {"mkdir", "rmdir", "stat"}
  <2>1. \E r, st : x = Finish(c, r) \/ x = Goto(c, st)
    BY <1>4 DEF Return
  <2> QED BY <2>1 DEF Goto, Finish, ClientFields
<1> QED BY <1>1, <1>2, <1>3, <1>4 DEF Plain

(* A call has settled its accounts with the server, whose handles are H.   *)
Settled(c, H) ==
    /\ c.held \cap Own(c) = {}
    /\ c.call.op = "close" /\ Busy(c) => c.handle \in c.held
    /\ Own(c) \cup c.held \subseteq Nat \ {0}
    /\ H = c.held \cup Own(c)

(* It has the answer, and not yet acted on it.                             *)
Told(c, ret, arg, H) ==
    /\ c.held \cap Own(c) = {}
    /\ c.call.op = "close" /\ Busy(c) => c.handle \in c.held
    /\ Own(c) \cup c.held \subseteq Nat \ {0}
    /\ c.st \in {"OPEN", "OPENDIR"} =>
          IF ret = "ok" THEN arg \in Nat \ {0} /\ arg \notin c.held /\ H = c.held \cup {arg} ELSE H = c.held
    /\ c.st = "CLOSE" => H = (c.held \cup Own(c)) \ {c.handle}
    /\ c.st \notin {"OPEN", "OPENDIR", "CLOSE"} => H = c.held \cup Own(c)

LEMMA ReturnFiles ==
    ASSUME NEW c, Control(c), c.phase \in {"build", "send", "header", "body"}, FilesClosed(c),
           NEW ret, NEW arg, NEW x \in Return(c, ret, arg)
    PROVE  FilesClosed(x)
<1>1. /\ DOMAIN c = ClientFields /\ c.call.op \in AllOps /\ c.st \in StatesOf(c.call.op)
      /\ c.st \notin LocalStates /\ x.call = c.call
  BY TurnOfReturn DEF Control, Turned
<1>2. CASE c.call.op = "get"
  <2>1. c.st \in {"STAT", "OPEN", "READ", "CLOSE"} /\ x \in GetReturn(c, ret, arg)
    BY <1>1, <1>2 DEF StatesOf, LocalStates, Return
  <2> QED BY <1>1, <1>2, <2>1, GetMoves DEF FilesClosed
<1>3. CASE c.call.op = "put"
  <2>1. c.st \in {"STAT", "OPEN", "WRITE", "CLOSE"} /\ x \in PutReturn(c, ret, arg)
    BY <1>1, <1>3 DEF StatesOf, LocalStates, Return
  <2>2. CASE c.st = "STAT"
    BY <1>1, <1>3, <2>1, <2>2, PutMoves DEF FilesClosed
  <2>3. CASE c.st = "OPEN"
    BY <1>1, <1>3, <2>1, <2>3, PutMoves DEF FilesClosed
  <2>4. CASE c.st = "WRITE"
    BY <1>1, <1>3, <2>1, <2>4, PutMoves DEF FilesClosed
  <2>5. CASE c.st = "CLOSE"
    BY <1>1, <1>3, <2>1, <2>5, PutMoves DEF FilesClosed
  <2> QED BY <2>1, <2>2, <2>3, <2>4, <2>5
<1>4. CASE c.call.op \notin {"get", "put"}
  <2>1. c.call.op \in {"ls", "open", "close"} \cup Plain
    BY <1>1, <1>4 DEF AllOps, Plain
  <2>2. x.fl = c.fl
    <3>1. CASE c.call.op = "ls"
      BY <1>1, <3>1, LsMoves
    <3>2. CASE c.call.op = "open"
      BY <1>1, <3>2, OpenMoves
    <3>3. CASE c.call.op = "close"
      BY <1>1, <3>3, CloseMoves
    <3>4. CASE c.call.op \in Plain
      BY <1>1, <3>4, PlainMoves
    <3> QED BY <2>1, <3>1, <3>2, <3>3, <3>4
  <2>3. ~c.fl
    BY <1>4 DEF FilesClosed
  <2> QED BY <2>2, <2>3 DEF FilesClosed
<1> QED BY <1>2, <1>3, <1>4

LEMMA ReturnSettles ==
    ASSUME NEW c, Control(c), c.phase \in {"build", "send", "header", "body"},
           NEW ret, NEW arg, NEW H, Told(c, ret, arg, H), NEW x \in Return(c, ret, arg)
    PROVE  Settled(x, H)
<1>1. /\ DOMAIN c = ClientFields /\ c.call.op \in AllOps /\ c.st \in StatesOf(c.call.op)
      /\ c.st \notin LocalStates /\ x.call = c.call /\ Busy(c) /\ (x.st = "idle" \/ x.st \in StatesOf(c.call.op))
  BY TurnOfReturn DEF Control, Turned, Busy
<1>2. CASE c.call.op = "get"
  <2>1. c.st \in {"STAT", "OPEN", "READ", "CLOSE"} /\ x \in GetReturn(c, ret, arg)
    BY <1>1, <1>2 DEF StatesOf, LocalStates, Return
  <2>2. CASE c.st = "STAT"
    BY <1>1, <1>2, <2>1, <2>2, GetMoves DEF Settled, Told, Own
  <2>3. CASE c.st = "OPEN"
    BY <1>1, <1>2, <2>1, <2>3, GetMoves DEF Settled, Told, Own
  <2>4. CASE c.st = "READ"
    BY <1>1, <1>2, <2>1, <2>4, GetMoves DEF Settled, Told, Own
  <2>5. CASE c.st = "CLOSE"
    BY <1>1, <1>2, <2>1, <2>5, GetMoves DEF Settled, Told, Own
  <2> QED BY <2>1, <2>2, <2>3, <2>4, <2>5
<1>3. CASE c.call.op = "put"
  <2>1. c.st \in {"STAT", "OPEN", "WRITE", "CLOSE"} /\ x \in PutReturn(c, ret, arg)
    BY <1>1, <1>3 DEF StatesOf, LocalStates, Return
  <2>2. CASE c.st = "STAT"
    BY <1>1, <1>3, <2>1, <2>2, PutMoves DEF Settled, Told, Own
  <2>3. CASE c.st = "OPEN"
    BY <1>1, <1>3, <2>1, <2>3, PutMoves DEF Settled, Told, Own
  <2>4. CASE c.st = "WRITE"
    BY <1>1, <1>3, <2>1, <2>4, PutMoves DEF Settled, Told, Own
  <2>5. CASE c.st = "CLOSE"
    BY <1>1, <1>3, <2>1, <2>5, PutMoves DEF Settled, Told, Own
  <2> QED BY <2>1, <2>2, <2>3, <2>4, <2>5
<1>4. CASE c.call.op = "ls"
  <2>1. c.st \in {"REALPATH", "OPENDIR", "READDIR", "CLOSE"}
    BY <1>1, <1>4 DEF StatesOf
  <2>3. /\ x.held = c.held
        /\ c.st = "REALPATH" => x.st \in {"idle", "OPENDIR"}
        /\ c.st = "OPENDIR" => IF ret = "ok" THEN x.st = "READDIR" /\ x.handle = arg ELSE x.st = "idle"
        /\ c.st = "READDIR" => x.st \in {"READDIR", "CLOSE"} /\ x.handle = c.handle
        /\ c.st = "CLOSE" => x.st = "idle"
    BY <1>1, <1>4, LsMoves
  <2>4. CASE c.st = "REALPATH"
    BY <1>1, <1>4, <2>3, <2>4 DEF Settled, Told, Own
  <2>5. CASE c.st = "OPENDIR"
    BY <1>1, <1>4, <2>3, <2>5 DEF Settled, Told, Own
  <2>6. CASE c.st = "READDIR"
    BY <1>1, <1>4, <2>3, <2>6 DEF Settled, Told, Own
  <2>7. CASE c.st = "CLOSE"
    BY <1>1, <1>4, <2>3, <2>7 DEF Settled, Told, Own
  <2> QED BY <2>1, <2>4, <2>5, <2>6, <2>7
<1>5. CASE c.call.op = "open"
  <2>1. c.st = "OPEN"
    BY <1>1, <1>5 DEF StatesOf
  <2>2. x.st = "idle" /\ (ret = "ok" => x.held = c.held \cup {arg}) /\ (ret # "ok" => x.held = c.held)
    BY <1>1, <1>5, OpenMoves
  <2> QED BY <1>1, <1>5, <2>1, <2>2 DEF Settled, Told, Own, Busy
<1>6. CASE c.call.op = "close"
  <2>1. c.st = "CLOSE"
    BY <1>1, <1>6 DEF StatesOf
  <2>2. x.st = "idle" /\ x.held = c.held \ {c.handle}
    BY <1>1, <1>6, CloseMoves
  <2> QED BY <1>1, <1>6, <2>1, <2>2 DEF Settled, Told, Own, Busy
<1>7. CASE c.call.op \notin {"get", "put", "ls", "open", "close"}
  <2>1. c.st \notin {"OPEN", "OPENDIR", "CLOSE"} /\ c.call.op \in Plain
    BY <1>1, <1>7 DEF StatesOf, AllOps, Plain
  <2>2. x.held = c.held
    BY <1>1, <2>1, PlainMoves
  <2> QED BY <1>1, <1>7, <2>1, <2>2 DEF Settled, Told, Own
<1> QED BY <1>2, <1>3, <1>4, <1>5, <1>6, <1>7

----------------------------------------------------------------------------
(* Every handle has its owner.                                             *)

LEMMA AnsweringFacts ==
    Answering => /\ up = <<>> /\ client.phase \in {"header", "body"}
                 /\ server.state \in {"RECV_SEND", "RECV_READ"}
                 /\ server.state = "RECV_READ" => down # <<>>
BY PairFacts DEF Answering, Ans1, Ans2, Ans3, Ans4, Ans5, At, Serves, Wire

LEMMA AnsweringAfter ==
    Answering' => /\ up' = <<>> /\ client'.phase \in {"header", "body"}
                  /\ server'.state \in {"RECV_SEND", "RECV_READ"}
                  /\ server'.state = "RECV_READ" => down' # <<>>
BY PairFacts DEF Answering, Ans1, Ans2, Ans3, Ans4, Ans5, At, Serves, Wire

LEMMA SettledOwned == ~Answering => (Owned <=> Settled(client, Handles(server)))
BY DEF Owned, Settled

LEMMA SettledAfter == ~Answering' => (Owned' <=> Settled(client', Handles(server)'))
BY DEF Owned, Settled

(* A step that moves neither the call nor the tables nor the reply.        *)
LEMMA OwnedSame ==
    ASSUME Owned, Handles(server)' = Handles(server),
           client'.call = client.call, client'.st = client.st,
           client'.handle = client.handle, client'.held = client.held,
           \/ ~Answering /\ ~Answering'
           \/ Answering /\ Answering' /\ Answer' = Answer
    PROVE  Owned'
<1>1. Own(client)' = Own(client)
  BY DEF Own
<1>2. Busy(client)' = Busy(client)
  BY DEF Busy
<1>3. CASE ~Answering /\ ~Answering'
  BY <1>1, <1>2, <1>3 DEF Owned
<1>4. CASE Answering /\ Answering' /\ Answer' = Answer
  BY <1>1, <1>2, <1>4 DEF Owned
<1> QED BY <1>3, <1>4

LEMMA InitLeak == Init => LeakInv
<1> SUFFICES ASSUME Init PROVE LeakInv
  OBVIOUS
<1> USE DEF Init
<1>1. Handles(server) = {} /\ Own(client) = {}
  BY DEF Handles, Own
<1>2. Tables(server)
  BY <1>1 DEF Tables
<1>3. ~Answering
  BY AnsweringFacts
<1>4. Settled(client, Handles(server))
  BY <1>1 DEF Settled, Busy
<1> QED BY <1>2, <1>3, <1>4, SettledOwned DEF LeakInv, FilesClosed

LEMMA AppCallLeak == TalkInv /\ LeakInv /\ AppCall => LeakInv'
<1> SUFFICES ASSUME TalkInv, LeakInv, AppCall PROVE LeakInv'
  OBVIOUS
<1>1. /\ Control(client) /\ ~Dead /\ client.st = "idle" /\ client.phase = "idle" /\ Owned
      /\ Tables(server) /\ FilesClosed(client) /\ server.state # "free"
      /\ UNCHANGED <<server, remote, up, down>>
  BY DEF TalkInv, LeakInv, AppCall, Busy, Control
<1>2. PICK call \in Calls, h \in client.held \cup {0} :
        /\ h \in IF call.op = "close" THEN client.held ELSE {0}
        /\ client' = Goto([client EXCEPT !.call = call, !.handle = h, !.ofst = 0,
                                      !.size = 0, !.names = <<>>, !.cut = FALSE, !.stale = FALSE,
                                      !.result = "none"], FirstState(call.op))
  BY DEF AppCall
<1>3. /\ client'.call = call /\ client'.st = FirstState(call.op) /\ client'.handle = h
      /\ client'.held = client.held /\ client'.fl = client.fl
      /\ client'.phase = IF FirstState(call.op) \in LocalStates THEN "local" ELSE "build"
  BY <1>1, <1>2 DEF Control, Goto, ClientFields
<1>4. ~Answering /\ ~Answering'
  BY <1>1, <1>3, AnsweringFacts, AnsweringAfter
<1>5. Own(client) = {} /\ Own(client') = {}
  <2>1. Own(client) = {}
    BY <1>1 DEF Own
  <2>2. call.op \in AllOps
    BY CallNames
  <2> QED BY <1>3, <2>1, <2>2 DEF Own, FirstState, AllOps
<1>6. Settled(client, Handles(server))
  BY <1>1, <1>4, SettledOwned
<1>7. Settled(client', Handles(server))
  BY <1>2, <1>3, <1>5, <1>6 DEF Settled
<1>8. Handles(server)' = Handles(server) /\ Tables(server)'
  BY <1>1 DEF Handles, Tables
<1>9. Owned'
  BY <1>4, <1>7, <1>8, SettledAfter
<1>10. FilesClosed(client')
  BY <1>1, <1>3 DEF FilesClosed
<1> QED BY <1>1, <1>8, <1>9, <1>10 DEF LeakInv

LEMMA LeakSame ==
    ASSUME LeakInv, used'.dead = used.dead,
           client'.call = client.call, client'.st = client.st, client'.handle = client.handle,
           client'.held = client.held, client'.fl = client.fl,
           SameTables(server, server'), server'.state = "free" => server.state = "free",
           ~Dead => \/ ~Answering /\ ~Answering'
                    \/ Answering /\ Answering' /\ Answer' = Answer
    PROVE  LeakInv'
<1>1. Tables(server') /\ Handles(server') = Handles(server)
  BY SameTablesHold DEF LeakInv
<1>2. Handles(server)' = Handles(server) /\ Tables(server)'
  BY <1>1 DEF Handles, Tables
<1>3. FilesClosed(client)'
  BY DEF LeakInv, FilesClosed
<1>4. ~Dead => Owned'
  BY <1>2, OwnedSame DEF LeakInv
<1> QED BY <1>2, <1>3, <1>4 DEF LeakInv, Dead

(* Nothing of the call has moved, and no handle either.                    *)
Alike(c, x) ==
    /\ x.call = c.call /\ x.st = c.st /\ x.handle = c.handle /\ x.held = c.held /\ x.fl = c.fl
    /\ x.ofst = c.ofst /\ x.stale = c.stale /\ x.cut = c.cut /\ x.files = c.files
    /\ x.table = c.table /\ x.names = c.names /\ x.error = c.error /\ x.result = c.result
    /\ x.sftpInt \in {c.sftpInt, TRUE}

LEMMA ClientStage ==
    ASSUME TalkInv, Connect \/ ClientRecvInit \/ SetHeader \/ SendPacketType
    PROVE  ~Dead /\ ~Answering /\ ~Answering' /\ Alike(client, client') /\ UNCHANGED <<server, remote, used>>
<1>1. DOMAIN client = ClientFields /\ ~Dead
  BY DEF TalkInv, Control, Connect, ClientRecvInit, SetHeader, SendPacketType
<1>2. Alike(client, client') /\ UNCHANGED <<server, remote, used>>
  <2>1. CASE Connect
    BY <1>1, <2>1 DEF Connect, ClientFields, Alike
  <2>2. CASE ClientRecvInit
    BY <1>1, <2>2 DEF ClientRecvInit, ClientFields, Alike
  <2>3. CASE SetHeader
    BY <1>1, <2>3 DEF SetHeader, ClientFields, Alike
  <2>4. CASE SendPacketType
    BY <1>1, <2>4 DEF SendPacketType, ClientFields, Alike
  <2> QED BY <2>1, <2>2, <2>3, <2>4
<1>3. ~Answering /\ ~Answering'
  <2>1. CASE Connect
    <3>1. client.phase \in Quiet /\ client'.phase = client.phase
      BY <1>1, <2>1 DEF Connect, ClientFields, Quiet, TalkInv, Control, Busy
    <3> QED BY <3>1, AnsweringFacts, AnsweringAfter DEF Quiet
  <2>2. CASE ClientRecvInit
    <3>1. client.phase \in Quiet /\ client'.phase = client.phase
      BY <1>1, <2>2, Stages DEF ClientRecvInit, ClientFields, Greeted, TalkInv, Talk, Greeting, Greets, At
    <3> QED BY <3>1, AnsweringFacts, AnsweringAfter DEF Quiet
  <2>3. CASE SetHeader
    <3>1. client.phase = "build" /\ client'.phase = "send"
      BY <1>1, <2>3 DEF SetHeader, ClientFields
    <3> QED BY <3>1, AnsweringFacts, AnsweringAfter
  <2>4. CASE SendPacketType
    <3>1. client.phase = "send" /\ up' = Append(up, Head(client.out))
      BY <2>4 DEF SendPacketType
    <3>2. up = <<>> \/ up = <<HeaderOf(Asked)>>
      BY <1>1, <3>1, Stages DEF Ask1, Ask2, Ask3, Wire
    <3>3. up' # <<>>
      BY <3>1, <3>2, PairFacts
    <3> QED BY <3>1, <3>3, AnsweringFacts, AnsweringAfter
  <2> QED BY <2>1, <2>2, <2>3, <2>4
<1> QED BY <1>1, <1>2, <1>3

LEMMA ClientLeak ==
    TalkInv /\ LeakInv /\ (Connect \/ ClientRecvInit \/ SetHeader \/ SendPacketType) => LeakInv'
BY ClientStage, LeakSame DEF SameTables, Alike

LEMMA InterruptStage ==
    ASSUME TalkInv, Interrupt
    PROVE  /\ Alike(client, client') /\ UNCHANGED <<server, remote, up, down>> /\ used'.dead = used.dead
           /\ Answer' = Answer /\ (Answering' <=> Answering)
<1>1. /\ DOMAIN client = ClientFields /\ client' = [client EXCEPT !.sftpInt = TRUE]
      /\ UNCHANGED <<server, remote, up, down>> /\ used'.dead = used.dead
  BY DEF TalkInv, Control, Interrupt
<1>2. /\ Alike(client, client') /\ client'.phase = client.phase
      /\ client'.out = client.out /\ client'.hdr = client.hdr
  BY <1>1 DEF ClientFields, Alike
<1>3. Answer' = Answer
  BY <1>1, <1>2 DEF Answer
<1>4. Answering' <=> Answering
  BY <1>1, <1>2, <1>3 DEF Answering, Ans1, Ans2, Ans3, Ans4, Ans5, At, Serves, Wire
<1> QED BY <1>1, <1>2, <1>3, <1>4

LEMMA InterruptLeak == TalkInv /\ LeakInv /\ Interrupt => LeakInv'
BY InterruptStage, LeakSame DEF SameTables, Alike

LEMMA ServerStage ==
    ASSUME TalkInv, ServerRecvInit \/ ServerSendInit \/ RecvHeader
    PROVE  /\ ~Dead /\ UNCHANGED <<client, remote, used>> /\ ~Answering /\ ~Answering'
           /\ SameTables(server, server') /\ (server'.state = server.state \/ server'.state = "RECV_DO")
<1>1. DOMAIN server = ServerFields /\ ~Dead /\ UNCHANGED <<client, remote, used>>
  BY DEF TalkInv, ServerRecvInit, ServerSendInit, RecvHeader
<1>2. SameTables(server, server') /\ (server'.state = server.state \/ server'.state = "RECV_DO")
  <2>1. CASE ServerRecvInit \/ ServerSendInit
    BY <1>1, <2>1 DEF ServerRecvInit, ServerSendInit, ServerFields, SameTables
  <2>2. CASE RecvHeader
    BY <1>1, <2>2 DEF RecvHeader, ServerFields, SameTables
  <2> QED BY <2>1, <2>2
<1>3. ~Answering /\ ~Answering'
  <2>1. CASE ServerRecvInit \/ ServerSendInit
    <3>1. client.phase \in Quiet
      BY <1>1, <2>1 DEF TalkInv, Talk, Greeted, Greeting, Greets, At, ServerRecvInit, ServerSendInit
    <3> QED BY <1>1, <3>1, AnsweringFacts, AnsweringAfter DEF Quiet
  <2>2. CASE RecvHeader
    <3>1. up # <<>>
      BY <2>2 DEF RecvHeader
    <3>2. ~Answering
      BY <3>1, AnsweringFacts
    <3>3. CASE server'.state = "RECV_DO"
      BY <3>2, <3>3, AnsweringAfter
    <3>4. CASE server'.state # "RECV_DO"
      <4>1. Head(up).part # "header"
        BY <1>1, <2>2, <3>4 DEF RecvHeader, ServerFields
      <4>2. Asking
        BY <1>1, <2>2, <3>1, <3>2 DEF TalkInv, Talk, Greeting, Greets, RecvHeader, Rest, Lost, Wire
      <4>3. Ask2 \/ Ask4
        BY <2>2, <3>1, <4>2 DEF Asking, Ask1, Ask3, Ask5, RecvHeader, Serves, Wire
      <4> QED BY <4>1, <4>3, PairFacts, PartFields DEF Ask2, Ask4, Wire
    <3> QED BY <3>3, <3>4
  <2> QED BY <2>1, <2>2
<1> QED BY <1>1, <1>2, <1>3

LEMMA ServerLeak ==
    TalkInv /\ LeakInv /\ (ServerRecvInit \/ ServerSendInit \/ RecvHeader) => LeakInv'
<1> SUFFICES ASSUME TalkInv, LeakInv, ServerRecvInit \/ ServerSendInit \/ RecvHeader
             PROVE  LeakInv'
  OBVIOUS
<1>1. /\ ~Dead /\ UNCHANGED <<client, used>> /\ ~Answering /\ ~Answering'
      /\ SameTables(server, server') /\ (server'.state = server.state \/ server'.state = "RECV_DO")
  BY ServerStage
<1> QED BY <1>1, LeakSame

(* The header of the reply is the one the client waits for.                *)
LEMMA HeaderStage ==
    ASSUME TalkInv, GetHeader
    PROVE  /\ ~Dead /\ Answering /\ Answering' /\ Answer' = Answer /\ Answers
           /\ client' = [client EXCEPT !.reqId = @ + 1, !.phase = "body", !.hdr = Answer]
<1>1. /\ ~Dead /\ client.phase = "header" /\ down # <<>> /\ down' = Tail(down) /\ Control(client)
      /\ UNCHANGED <<server, remote, up, used>>
  BY DEF GetHeader, TalkInv
<1>2. Greeted /\ (Ans2 \/ Ans3) /\ Answers
  BY <1>1, Stages DEF Ask4, Ask5, Lost, Ans1, Wire
<1> DEFINE r == Answer
<1>3. Head(down) = HeaderOf(r) /\ r.id = client.reqId /\ r.type \in Expected(client.st)
  <2>1. Head(down) = HeaderOf(r)
    BY <1>2, PairFacts DEF Ans2, Ans3, Wire
  <2> QED BY <1>1, <1>2, <2>1 DEF Answers
<1> HIDE DEF r
<1>4. client' = [client EXCEPT !.reqId = @ + 1, !.phase = "body", !.hdr = r]
  <2>1. Head(down).part = "header" /\ Head(down).m = r
    BY <1>3, PartFields
  <2>2. client' = [[client EXCEPT !.reqId = @ + 1] EXCEPT !.phase = "body", !.hdr = r]
    BY <1>3, <2>1 DEF GetHeader
  <2> QED BY <1>1, <2>2 DEF Control, ClientFields
<1>5. /\ client'.phase = "body" /\ client'.hdr = r /\ client'.out = client.out
  BY <1>1, <1>4 DEF Control, ClientFields
<1>6. Answer' = r
  BY <1>5 DEF Answer
<1>7. CASE Ans2
  <2>1. down' = <<>>
    BY <1>1, <1>7, PairFacts DEF Ans2, Wire
  <2>2. Ans4'
    BY <1>1, <1>5, <1>6, <1>7, <2>1 DEF Ans2, Ans4, At, Serves, Wire, r
  <2> QED BY <1>1, <1>2, <1>4, <1>6, <2>2 DEF Answering, r
<1>8. CASE Ans3
  <2>1. down' = <<BodyOf(r)>>
    BY <1>1, <1>8, PairFacts DEF Ans3, Wire, r
  <2>2. Ans5'
    BY <1>1, <1>5, <1>6, <1>8, <2>1 DEF Ans3, Ans5, At, Serves, Wire, r
  <2> QED BY <1>1, <1>2, <1>4, <1>6, <2>2 DEF Answering, r
<1> QED BY <1>2, <1>7, <1>8

(* A reply stays one while the server sends it.                            *)
LEMMA SendingStage ==
    ASSUME TalkInv, RecvSend
    PROVE  /\ ~Dead /\ Answering /\ Answering' /\ Answer' = Answer /\ SameTables(server, server')
           /\ UNCHANGED <<client, remote, used>> /\ server'.state # "free"
<1>1. /\ ~Dead /\ server.state = "RECV_SEND" /\ down' = Append(down, Head(server.out))
      /\ server' = [server EXCEPT !.out = Tail(@),
                     !.state = IF Len(server.out) = 1 THEN "RECV_READ" ELSE "RECV_SEND"]
      /\ UNCHANGED <<client, remote, up, used>> /\ DOMAIN server = ServerFields
  BY DEF RecvSend, TalkInv
<1>2. Ans1 \/ Ans2 \/ Ans4
  <2>1. Talk
    BY <1>1 DEF TalkInv
  <2>2. ~Greeting /\ ~Rest /\ ~Lost /\ ~Asking /\ ~Ans3 /\ ~Ans5
    BY <1>1 DEF Greeting, Greets, Rest, Lost, Asking, Ask1, Ask2, Ask3, Ask4, Ask5, Ans3, Ans5, Serves
  <2> QED BY <2>1, <2>2 DEF Talk, Answering
<1>3. /\ server'.hdr = server.hdr /\ server'.out = Tail(server.out) /\ SameTables(server, server')
      /\ server'.state = IF Len(server.out) = 1 THEN "RECV_READ" ELSE "RECV_SEND"
  BY <1>1 DEF ServerFields, SameTables
<1>9. server'.state # "free"
  BY <1>3
<1> DEFINE r == Answer
           a == HeaderOf(r)
           b == BodyOf(r)
<1>6. CASE Ans1
  <2>1. server.out = <<a, b>> /\ down = <<>> /\ client.phase = "header"
    BY <1>6 DEF Ans1, Serves, Wire, At
  <2>2. server'.out = <<b>> /\ server'.state = "RECV_SEND" /\ down' = <<a>>
    BY <1>1, <1>3, <2>1, PairFacts
  <2>3. Answer' = r
    BY <1>1, <2>1, <2>2, PairFacts, PartFields DEF Answer
  <2>4. Ans2'
    BY <1>1, <1>3, <1>6, <2>2, <2>3 DEF Ans1, Ans2, At, Serves, Wire
  <2> QED BY <1>1, <1>3, <1>6, <1>9, <2>3, <2>4 DEF Answering
<1>7. CASE Ans2
  <2>1. server.out = <<b>> /\ down = <<a>> /\ client.phase = "header"
    BY <1>7 DEF Ans2, Serves, Wire, At
  <2>2. server'.out = <<>> /\ server'.state = "RECV_READ" /\ down' = <<a, b>>
    BY <1>1, <1>3, <2>1, PairFacts
  <2>3. Answer' = r
    BY <1>1, <2>1, <2>2, PairFacts, PartFields DEF Answer
  <2>4. Ans3'
    BY <1>1, <1>3, <1>7, <2>2, <2>3 DEF Ans2, Ans3, At, Serves, Wire
  <2> QED BY <1>1, <1>3, <1>7, <1>9, <2>3, <2>4 DEF Answering
<1>8. CASE Ans4
  <2>1. server.out = <<b>> /\ down = <<>> /\ client.phase = "body"
    BY <1>8 DEF Ans4, Serves, Wire, At
  <2>2. server'.out = <<>> /\ server'.state = "RECV_READ" /\ down' = <<b>>
    BY <1>1, <1>3, <2>1, PairFacts
  <2>3. Answer' = r
    BY <1>1, <2>1 DEF Answer
  <2>4. Ans5'
    BY <1>1, <1>3, <1>8, <2>2, <2>3 DEF Ans4, Ans5, At, Serves, Wire
  <2> QED BY <1>1, <1>3, <1>8, <1>9, <2>3, <2>4 DEF Answering
<1> QED BY <1>2, <1>6, <1>7, <1>8

(* The body read, the function returns what its reply says.                *)
LEMMA BodyStage ==
    ASSUME TalkInv, ReadBody
    PROVE  /\ ~Dead /\ client.phase = "body" /\ Answering /\ Answers /\ Answer = client.hdr /\ ~Answering'
           /\ client.hdr.type \in Expected(client.st)
           /\ client' \in Return([client EXCEPT !.hdr = NoMessage], Returns(client.st, client.hdr),
                                 Payload(client.st, client.hdr))
           /\ UNCHANGED <<server, remote, up, used>>
<1>1. /\ ~Dead /\ client.phase = "body" /\ down # <<>> /\ down' = Tail(down) /\ Control(client)
      /\ UNCHANGED <<server, remote, up, used>>
  BY DEF ReadBody, TalkInv
<1>2. Greeted /\ Ans5 /\ Answers
  BY <1>1, Stages DEF Ans4, Wire
<1>3. Answer = client.hdr
  BY <1>1 DEF Answer
<1>4. client.hdr.type \in Expected(client.st)
  BY <1>2, <1>3 DEF Answers
<1>5. client' \in Return([client EXCEPT !.hdr = NoMessage], Returns(client.st, client.hdr),
                         Payload(client.st, client.hdr))
  BY <1>4 DEF ReadBody, ReturnWith
<1>6. ~Answering'
  <2>1. down' = <<>> /\ server'.state = "RECV_READ"
    BY <1>1, <1>2, PairFacts DEF Ans5, Wire, Serves
  <2> QED BY <2>1, AnsweringAfter
<1> QED BY <1>1, <1>2, <1>3, <1>4, <1>5, <1>6 DEF Answering

LEMMA GetHeaderLeak == TalkInv /\ LeakInv /\ GetHeader => LeakInv'
<1> SUFFICES ASSUME TalkInv, LeakInv, GetHeader PROVE LeakInv'
  OBVIOUS
<1>1. /\ ~Dead /\ Answering /\ Answering' /\ Answer' = Answer
      /\ client' = [client EXCEPT !.reqId = @ + 1, !.phase = "body", !.hdr = Answer]
  BY HeaderStage
<1>2. /\ client'.call = client.call /\ client'.st = client.st /\ client'.handle = client.handle
      /\ client'.held = client.held /\ client'.fl = client.fl /\ UNCHANGED <<server, used>>
  BY <1>1 DEF TalkInv, Control, ClientFields, GetHeader
<1> QED BY <1>1, <1>2, LeakSame DEF SameTables

LEMMA RecvSendLeak == TalkInv /\ LeakInv /\ RecvSend => LeakInv'
BY SendingStage, LeakSame

LEMMA ReadBodyLeak == TalkInv /\ LeakInv /\ ReadBody => LeakInv'
<1> SUFFICES ASSUME TalkInv, LeakInv, ReadBody PROVE LeakInv'
  OBVIOUS
<1> DEFINE c == [client EXCEPT !.hdr = NoMessage]
           r == client.hdr
           ret == Returns(client.st, r)
           arg == Payload(client.st, r)
           H == Handles(server)
<1>1. /\ ~Dead /\ client.phase = "body" /\ Answering /\ Answers /\ Answer = r /\ ~Answering'
      /\ r.type \in Expected(client.st) /\ client' \in Return(c, ret, arg)
      /\ UNCHANGED <<server, remote, up, used>>
  BY BodyStage
<1>2. /\ Control(client) /\ Control(c) /\ c.phase = "body" /\ c.st = client.st /\ c.call = client.call
      /\ c.handle = client.handle /\ c.held = client.held /\ c.fl = client.fl
  BY <1>1 DEF TalkInv, Control, ClientFields
<1>3. Owned /\ Tables(server) /\ FilesClosed(client) /\ server.state # "free"
  BY <1>1 DEF LeakInv
<1>4. FilesClosed(c)
  BY <1>2, <1>3 DEF FilesClosed
<1>5. client.st \in {"OPEN", "OPENDIR"} =>
        IF r.type = "HANDLE" THEN ret = "ok" /\ arg = r.arg ELSE r.arg # "OK" => ret # "ok"
  BY DEF Returns, GetHandle, Payload
<1> HIDE DEF c, ret, arg
<1>6. Own(c) = Own(client) /\ Busy(c) = Busy(client)
  BY <1>2 DEF Own, Busy
<1>7. Told(c, ret, arg, H)
  BY <1>1, <1>2, <1>3, <1>5, <1>6 DEF Owned, Told
<1>8. FilesClosed(client') /\ Settled(client', H)
  BY <1>1, <1>2, <1>4, <1>7, ReturnFiles, ReturnSettles
<1>9. Handles(server)' = H /\ Tables(server)'
  BY <1>1, <1>3 DEF Handles, Tables
<1>10. Owned'
  BY <1>1, <1>8, <1>9, SettledAfter
<1> QED BY <1>1, <1>3, <1>8, <1>9, <1>10 DEF LeakInv

LEMMA FailLeak == TalkInv /\ LeakInv /\ ConnectionFails => LeakInv'
<1> SUFFICES ASSUME TalkInv, LeakInv, ConnectionFails PROVE LeakInv'
  OBVIOUS
<1> DEFINE c == [client EXCEPT !.out = <<>>, !.hdr = NoMessage]
<1>1. /\ Dead /\ client.phase \in {"build", "send", "header", "body"} /\ Control(client)
      /\ UNCHANGED <<server, remote, up, down, used>> /\ client' \in Return(c, "fatal", 0)
  BY DEF ConnectionFails, ReturnWith, TalkInv
<1>2. Control(c) /\ c.phase = client.phase /\ c.st = client.st /\ c.call = client.call /\ c.fl = client.fl
  BY <1>1 DEF Control, ClientFields
<1> HIDE DEF c
<1>3. FilesClosed(c)
  BY <1>2 DEF LeakInv, FilesClosed
<1>4. FilesClosed(client')
  BY <1>1, <1>2, <1>3, ReturnFiles
<1> QED BY <1>1, <1>4 DEF LeakInv, Dead, Tables, Handles

LEMMA LocalMoves ==
    ASSUME NEW c, Control(c), c.phase = "local", FilesClosed(c),
           NEW x \in IF c.call.op = "get" THEN GetLocal(c) ELSE PutLocal(c)
    PROVE  /\ FilesClosed(x)
           /\ \A H : Settled(c, H) => Settled(x, H)
<1>1. /\ DOMAIN c = ClientFields /\ c.call.op \in AllOps /\ c.st \in StatesOf(c.call.op)
      /\ c.st \in LocalStates
  BY DEF Control
<1>2. c.call.op \in {"get", "put"} /\ Busy(c)
  BY <1>1 DEF StatesOf, LocalStates, AllOps, Busy
<1>3. CASE c.call.op = "get"
  <2>1. CASE c.st = "LOOKUP"
    <3> DEFINE Like(y) == y.call = c.call /\ y.st = "OPEN_LOCAL" /\ y.handle = c.handle /\ y.held = c.held /\ y.fl = c.fl
    <3>1. \A t, n, s : Like(Goto([c EXCEPT !.table = t, !.ofst = n, !.stale = s], "OPEN_LOCAL"))
      BY <1>1 DEF Goto, ClientFields
    <3>3. Like(Goto(c, "OPEN_LOCAL"))
      BY <1>1 DEF Goto, ClientFields
    <3>4. x = Goto(GetOffset(c), "OPEN_LOCAL")
      BY <1>3, <2>1 DEF GetLocal
    <3> HIDE DEF Like
    <3>5. Like(x)
      BY <3>1, <3>3, <3>4 DEF GetOffset
    <3>2. x.call = c.call /\ x.st = "OPEN_LOCAL" /\ x.handle = c.handle /\ x.held = c.held /\ x.fl = c.fl
      BY <3>5 DEF Like
    <3> QED BY <1>2, <1>3, <2>1, <3>2 DEF Settled, Own, FilesClosed
  <2>2. CASE c.st = "OPEN_LOCAL"
    <3>1. \/ \E v : x = Goto([c EXCEPT !.fl = TRUE, !.files = v], "READ")
          \/ x = Goto([c EXCEPT !.error = TRUE, !.faults = @ + 1], "CLOSE")
      BY <1>1, <1>3, <2>2 DEF GetLocal, GetOpenLocal, ClientFields
    <3>2. x.call = c.call /\ x.st \in {"READ", "CLOSE"} /\ x.handle = c.handle /\ x.held = c.held
      BY <1>1, <3>1 DEF Goto, ClientFields
    <3> QED BY <1>2, <1>3, <2>2, <3>2 DEF Settled, Own, FilesClosed
  <2>3. CASE c.st = "CLOSE_LOCAL"
    <3> DEFINE d == [c EXCEPT !.fl = FALSE]
    <3>1. \/ x = Finish(d, IF c.error THEN "fail" ELSE "ok")
          \/ x = [Finish(d, "fail") EXCEPT !.faults = @ + 1]
      BY <1>3, <2>3 DEF GetLocal
    <3>2. x.call = c.call /\ x.st = "idle" /\ x.handle = c.handle /\ x.held = c.held /\ ~x.fl
      BY <1>1, <3>1 DEF Finish, ClientFields
    <3> QED BY <1>2, <1>3, <2>3, <3>2 DEF Settled, Own, FilesClosed
  <2> QED BY <1>1, <2>1, <2>2, <2>3 DEF LocalStates
<1>4. CASE c.call.op = "put"
  <2>1. CASE c.st = "LOOKUP"
    <3>1. \E st \in {"STAT", "OPEN_LOCAL"} : x = Goto(PutOffset(c), st)
      BY <1>4, <2>1 DEF PutLocal
    <3> DEFINE Like(y) == /\ y.call = c.call /\ y.st \in {"STAT", "OPEN_LOCAL"} /\ y.handle = c.handle
                          /\ y.held = c.held /\ y.fl = c.fl
    <3>2. \A st \in {"STAT", "OPEN_LOCAL"} : \A t, n, s : Like(Goto([c EXCEPT !.table = t, !.ofst = n, !.stale = s], st))
      BY <1>1 DEF Goto, ClientFields
    <3>4. \A st \in {"STAT", "OPEN_LOCAL"} : Like(Goto(c, st))
      BY <1>1 DEF Goto, ClientFields
    <3> HIDE DEF Like
    <3>5. Like(x)
      <4>1. CASE x = Goto(PutOffset(c), "OPEN_LOCAL")
        <5>1. /\ \A t, n, s : Like(Goto([c EXCEPT !.table = t, !.ofst = n, !.stale = s], "OPEN_LOCAL"))
              /\ Like(Goto(c, "OPEN_LOCAL"))
          BY <3>2, <3>4
        <5> QED BY <4>1, <5>1 DEF PutOffset
      <4>2. CASE x = Goto(PutOffset(c), "STAT")
        <5>1. /\ \A t, n, s : Like(Goto([c EXCEPT !.table = t, !.ofst = n, !.stale = s], "STAT"))
              /\ Like(Goto(c, "STAT"))
          BY <3>2, <3>4
        <5> QED BY <4>2, <5>1 DEF PutOffset
      <4> QED BY <3>1, <4>1, <4>2
    <3>3. x.call = c.call /\ x.st \in {"STAT", "OPEN_LOCAL"} /\ x.handle = c.handle /\ x.held = c.held /\ x.fl = c.fl
      BY <3>5 DEF Like
    <3> QED BY <1>2, <1>4, <2>1, <3>3 DEF Settled, Own, FilesClosed
  <2>2. CASE c.st = "OPEN_LOCAL"
    <3>1. \/ x = Finish(c, "fail") \/ x = [Finish(c, "fail") EXCEPT !.faults = @ + 1]
          \/ x = Goto([c EXCEPT !.fl = TRUE], "OPEN")
      BY <1>4, <2>2 DEF PutLocal
    <3>2. x.call = c.call /\ x.handle = c.handle /\ x.held = c.held
          /\ (x.st = "OPEN" \/ (x.st = "idle" /\ x.fl = c.fl))
      BY <1>1, <3>1 DEF Finish, Goto, ClientFields
    <3> QED BY <1>2, <1>4, <2>2, <3>2 DEF Settled, Own, FilesClosed
  <2>3. CASE c.st = "CLOSE_LOCAL"
    <3> DEFINE d == [c EXCEPT !.fl = FALSE]
    <3>1. IF c.handle > 0 THEN x = Goto(d, "CLOSE") ELSE x = Finish(d, "fail")
      BY <1>4, <2>3 DEF PutLocal
    <3>2. x.call = c.call /\ x.handle = c.handle /\ x.held = c.held /\ ~x.fl
          /\ (c.handle > 0 => x.st = "CLOSE") /\ (~(c.handle > 0) => x.st = "idle")
      BY <1>1, <3>1 DEF Finish, Goto, ClientFields
    <3>3. FilesClosed(x)
      BY <3>2 DEF FilesClosed
    <3>4. ASSUME NEW H, Settled(c, H) PROVE Settled(x, H)
      <4>1. CASE c.handle = 0
        BY <1>2, <1>4, <2>3, <3>2, <3>4, <4>1 DEF Settled, Own
      <4>2. CASE c.handle # 0
        <5>1. c.handle \in Nat \ {0}
          BY <1>4, <2>3, <3>4, <4>2 DEF Settled, Own
        <5> QED BY <1>2, <1>4, <2>3, <3>2, <3>4, <5>1 DEF Settled, Own
      <4> QED BY <4>1, <4>2
    <3> QED BY <3>3, <3>4
  <2> QED BY <1>1, <2>1, <2>2, <2>3 DEF LocalStates
<1> QED BY <1>2, <1>3, <1>4

LEMMA LocalLeak == TalkInv /\ LeakInv /\ LocalStep => LeakInv'
<1> SUFFICES ASSUME TalkInv, LeakInv, LocalStep PROVE LeakInv'
  OBVIOUS
<1>1. /\ Control(client) /\ client.phase = "local" /\ client.st # "idle" /\ FilesClosed(client)
      /\ UNCHANGED <<server, remote, up, down, used>>
      /\ client' \in IF client.call.op = "get" THEN GetLocal(client) ELSE PutLocal(client)
  BY DEF TalkInv, LeakInv, LocalStep, Control
<1>2. FilesClosed(client') /\ \A H : Settled(client, H) => Settled(client', H)
  BY <1>1, LocalMoves
<1>3. client'.phase \in Quiet
  BY <1>1, TurnOfLocal, TurnedControl
<1>4. ~Answering /\ ~Answering'
  BY <1>1, <1>3, AnsweringFacts, AnsweringAfter DEF Quiet
<1>5. Handles(server)' = Handles(server) /\ Tables(server)'
  BY <1>1 DEF LeakInv, Handles, Tables
<1>6. ~Dead => Owned'
  BY <1>2, <1>4, <1>5, SettledOwned, SettledAfter DEF LeakInv
<1> QED BY <1>1, <1>2, <1>5, <1>6 DEF LeakInv, Dead

LEMMA WindowFullLeak ==
    ASSUME WindowFull \subseteq {"start"}
    PROVE  TalkInv /\ LeakInv /\ SendWindowFull => LeakInv'
<1> SUFFICES ASSUME TalkInv, LeakInv, SendWindowFull PROVE LeakInv'
  OBVIOUS
<1>1. /\ ~Dead /\ client.phase = "send" /\ Control(client) /\ client.st \in {"OPEN", "RENAME"}
      /\ client' = [WindowFullIn(client) EXCEPT !.out = <<>>]
      /\ UNCHANGED <<server, remote, up, down>> /\ used'.dead = used.dead
      /\ DOMAIN client = ClientFields
  BY DEF SendWindowFull, TalkInv, Control
<1>2. /\ client'.call = client.call /\ client'.held = client.held /\ client'.fl = client.fl
      /\ \/ client'.st = "idle" /\ client'.phase = "idle" /\ client.st = "RENAME"
         \/ /\ client.st = "OPEN" /\ client.call.op = "put"
            /\ client'.st = "CLOSE_LOCAL" /\ client'.phase = "local" /\ client'.handle = 0
         \/ /\ client.st = "OPEN" /\ client.call.op # "put"
            /\ client'.st = "OPEN" /\ client'.phase = "build" /\ client'.handle = client.handle
  <2>1. CASE client.st = "OPEN" /\ client.call.op = "put"
    <3>1. WindowFullIn(client) = Goto([client EXCEPT !.handle = 0, !.error = TRUE], "CLOSE_LOCAL")
      BY <2>1 DEF WindowFullIn
    <3> QED BY <1>1, <2>1, <3>1 DEF Goto, ClientFields, LocalStates
  <2>2. CASE client.st = "OPEN" /\ client.call.op # "put"
    <3>1. WindowFullIn(client) = Goto(client, "OPEN")
      BY <2>2 DEF WindowFullIn
    <3> QED BY <1>1, <2>2, <3>1 DEF Goto, ClientFields, LocalStates
  <2>3. CASE client.st = "RENAME"
    <3>1. WindowFullIn(client) = Finish(client, "fail")
      BY <2>3 DEF WindowFullIn
    <3> QED BY <1>1, <2>3, <3>1 DEF Finish, ClientFields, LocalStates
  <2> QED BY <1>1, <2>1, <2>2, <2>3
<1>3. ~Answering /\ ~Answering'
  BY <1>1, <1>2, AnsweringFacts, AnsweringAfter
<1>4. Own(client) = {} /\ Own(client') = {}
  <2>1. client.call.op # "get" \/ client.st # "RENAME"
    BY <1>1 DEF Control, StatesOf
  <2> QED BY <1>1, <1>2, <2>1 DEF Own
<1>5. Settled(client, Handles(server))
  BY <1>1, <1>3, SettledOwned DEF LeakInv
<1>6. client.call.op # "close"
  BY <1>1 DEF Control, StatesOf
<1>7. Settled(client', Handles(server))
  BY <1>2, <1>4, <1>5, <1>6 DEF Settled
<1>8. Handles(server)' = Handles(server) /\ Tables(server)'
  BY <1>1 DEF LeakInv, Handles, Tables
<1>9. Owned'
  BY <1>3, <1>7, <1>8, SettledAfter
<1>10. FilesClosed(client')
  BY <1>1, <1>2 DEF LeakInv, FilesClosed
<1> QED BY <1>1, <1>8, <1>9, <1>10 DEF LeakInv

(* What the handlers leave in the tables, of a request the client made.    *)
LEMMA RequestPath ==
    ASSUME NEW c, Control(c), c.phase \in {"build", "send", "header", "body"}, c.st = "OPEN"
    PROVE  /\ RequestArg(c)[1] = RemotePath(c) /\ RequestArg(c)[2] = OpenFlags(c)
           /\ RemotePath(c) \in Remotes
<1>1. c.call.op \in {"get", "put", "open"} /\ NamesOf(c.call)
  BY DEF Control, StatesOf, AllOps, NoCall
<1>2. RequestArg(c) = OpenRequest(c)
  BY DEF RequestArg
<1> QED BY <1>1, <1>2 DEF OpenRequest, RemotePath, NamesOf

LEMMA RequestHandle ==
    ASSUME NEW c, c.st \in {"CLOSE", "READDIR"}
    PROVE  RequestArg(c)[1] = c.handle
BY DEF RequestArg, HandleRequest

LEMMA RecvDoLeak == TalkInv /\ LeakInv /\ RecvDo => LeakInv'
<1> SUFFICES ASSUME TalkInv, LeakInv, RecvDo PROVE LeakInv'
  OBVIOUS
<1>1. PICK o \in Handler(server, remote, server.hdr) :
        /\ used' = [used EXCEPT !.faults = @ + (IF o.fault THEN 1 ELSE 0)]
        /\ server' = [o.server EXCEPT !.hdr = NoMessage,
                  !.state = IF o.reply.type = "none" THEN "RECV_READ" ELSE "RECV_SEND",
                  !.out = IF o.reply.type = "none" THEN <<>>
                          ELSE Parts(Message(o.reply.type, server.hdr.id, o.reply.arg,
                                             server.hdr.uid))]
  BY DEF RecvDo
<1>2. /\ ~Dead /\ Greeted /\ Ask5 /\ server.hdr = Asked /\ Asked.type = client.st
      /\ client.st \in Requests /\ up' = <<>> /\ UNCHANGED <<client, down>>
  BY DoingStage
<1>3. /\ DOMAIN server' = ServerFields
      /\ \A x \in {"fileList", "dirList", "handleId", "fds"} : server'[x] = o.server[x]
      /\ o.reply.type = "none" => Lost'
      /\ o.reply.type # "none" =>
           Ans1' /\ Answers' /\ Answer'.type = o.reply.type /\ Answer'.arg = o.reply.arg
  BY <1>1, DoneStage
<1>4. used'.dead = used.dead
  BY <1>1 DEF TalkInv
<1>5. /\ Control(client) /\ client.phase = "header" /\ DOMAIN server = ServerFields /\ Tables(server) /\ Owned
      /\ FilesClosed(client)
  BY <1>2 DEF TalkInv, LeakInv, Ask5, At
<1>6. ~Answering
  BY <1>2, PairFacts, AnsweringFacts DEF Ask5, Wire
<1>7. Settled(client, Handles(server))
  BY <1>5, <1>6, SettledOwned
<1>8. server'.state # "free" /\ (o.reply.type = "none" <=> ~Answering')
  <2>1. CASE o.reply.type = "none"
    <3>1. Lost'
      BY <1>3, <2>1
    <3>2. down' = <<>> /\ server'.state = "RECV_READ"
      BY <3>1 DEF Lost, Wire, Serves
    <3> QED BY <2>1, <3>2, AnsweringAfter
  <2>2. CASE o.reply.type # "none"
    <3>1. Ans1'
      BY <1>3, <2>2
    <3> QED BY <2>2, <3>1 DEF Answering, Ans1, Serves
  <2> QED BY <2>1, <2>2
<1> DEFINE m == server.hdr
<1>9. m.type = client.st /\ m.arg = RequestArg(client)
  BY <1>2, AskedFields
<1>10. SameTables(o.server, server')
  BY <1>3 DEF SameTables
<1>11. Own(client)' = Own(client) /\ Busy(client)' = Busy(client)
  BY <1>2 DEF Own, Busy
<1>12. /\ client'.held \cap Own(client)' = {}
       /\ client'.call.op = "close" /\ Busy(client)' => client'.handle \in client'.held
       /\ Own(client)' \cup client'.held \subseteq Nat \ {0}
  BY <1>2, <1>7, <1>11 DEF Settled
<1>13. /\ Tables(o.server)
       /\ o.reply.type = "none" => Handles(o.server) = client.held \cup Own(client)
       /\ o.reply.type # "none" =>
            CASE client.st \in {"OPEN", "OPENDIR"} ->
                    IF o.reply.type = "HANDLE"
                    THEN /\ o.reply.arg \in Nat \ {0} /\ o.reply.arg \notin client.held
                         /\ Handles(o.server) = client.held \cup {o.reply.arg}
                    ELSE o.reply.arg # "OK" /\ Handles(o.server) = client.held
              [] client.st = "CLOSE" -> Handles(o.server) = (client.held \cup Own(client)) \ {client.handle}
              [] OTHER -> Handles(o.server) = client.held \cup Own(client)
  <2>0. /\ Handles(server) = client.held \cup Own(client)
        /\ Handles(server) \subseteq 1 .. server.handleId /\ server.handleId \in Nat
        /\ server.handleId + 1 \in Nat \ {0} /\ server.handleId + 1 \notin Handles(server)
    BY <1>5, <1>7, HandlesBelow DEF Settled
  <2>1. CASE client.st = "OPEN"
    <3>1. o \in RecvOpen(server, remote, m.arg[1], m.arg[2]) /\ m.arg[1] \in Remotes
      BY <1>5, <1>9, <2>1, RequestPath DEF Handler
    <3>2. Own(client) = {}
      BY <2>1 DEF Own
    <3>3. /\ Tables(o.server)
          /\ \/ /\ o.reply = [type |-> "HANDLE", arg |-> server.handleId + 1]
                /\ Handles(o.server) = Handles(server) \cup {server.handleId + 1}
             \/ /\ o.reply.type = "STATUS" /\ o.reply.arg # "OK"
                /\ Handles(o.server) = Handles(server)
      BY <1>5, <3>1, OpenTables
    <3> QED BY <2>0, <2>1, <3>2, <3>3
  <2>2. CASE client.st = "OPENDIR"
    <3>1. o \in RecvOpenDir(server, remote)
      BY <1>9, <2>2 DEF Handler
    <3>2. Own(client) = {}
      BY <2>2 DEF Own
    <3>3. /\ Tables(o.server)
          /\ \/ /\ o.reply = [type |-> "HANDLE", arg |-> server.handleId + 1]
                /\ Handles(o.server) = Handles(server) \cup {server.handleId + 1}
             \/ /\ o.reply.type = "STATUS" /\ o.reply.arg # "OK"
                /\ Handles(o.server) = Handles(server)
      BY <1>5, <3>1, OpenDirTables
    <3> QED BY <2>0, <2>2, <3>2, <3>3
  <2>3. CASE client.st = "CLOSE"
    <3>1. o \in RecvClose(server, remote, client.handle)
      BY <1>9, <2>3, RequestHandle DEF Handler
    <3>2. Tables(o.server) /\ Handles(o.server) = Handles(server) \ {client.handle} /\ o.reply.type = "STATUS"
      BY <1>5, <3>1, CloseTables
    <3> QED BY <2>0, <2>3, <3>2
  <2>4. CASE client.st = "READDIR"
    <3>1. o \in RecvReadDir(server, remote, m.arg[1])
      BY <1>9, <2>4 DEF Handler
    <3>2. Tables(o.server) /\ Handles(o.server) = Handles(server)
      BY <1>5, <3>1, ReadDirTables
    <3> QED BY <2>0, <2>4, <3>2
  <2>5. CASE client.st \notin {"OPEN", "OPENDIR", "READDIR", "CLOSE"}
    <3>1. o.server = server
      BY <1>2, <1>9, <2>5, OtherTables
    <3> QED BY <1>5, <2>0, <2>5, <3>1
  <2> QED BY <2>1, <2>2, <2>3, <2>4, <2>5
<1>14. Tables(server') /\ Handles(server') = Handles(o.server)
  BY <1>10, <1>13, SameTablesHold
<1>15. Tables(server)' /\ Handles(server)' = Handles(o.server)
  BY <1>14 DEF Tables, Handles
<1>16. Owned'
  <2>1. CASE o.reply.type = "none"
    BY <1>2, <1>8, <1>11, <1>12, <1>13, <1>15, <2>1 DEF Owned
  <2>2. CASE o.reply.type # "none"
    BY <1>2, <1>3, <1>8, <1>11, <1>12, <1>13, <1>15, <2>2 DEF Owned
  <2> QED BY <2>1, <2>2
<1> QED BY <1>2, <1>4, <1>5, <1>8, <1>15, <1>16 DEF LeakInv, FilesClosed, Dead

LEMMA FreeLeak == TalkInv /\ LeakInv /\ ServerFree => LeakInv'
<1> SUFFICES ASSUME TalkInv, LeakInv, ServerFree PROVE LeakInv'
  OBVIOUS
<1>1. /\ Dead /\ UNCHANGED <<client, used>> /\ Tables(server) /\ DOMAIN server = ServerFields
  BY DEF ServerFree, TalkInv, LeakInv
<1>2. /\ server'.fileList = {} /\ server'.dirList = {} /\ server'.handleId = server.handleId
      /\ server'.fds = server.fds \ Handles(server)
  BY <1>1 DEF ServerFree, ServerFields
<1>3. Handles(server)' = {} /\ server'.fds = {}
  BY <1>1, <1>2 DEF Handles, Tables
<1>4. Tables(server)'
  BY <1>1, <1>2, <1>3 DEF Tables
<1> QED BY <1>1, <1>3, <1>4 DEF LeakInv, FilesClosed, Dead

LEMMA DropLeak == TalkInv /\ LeakInv /\ Drop => LeakInv'
<1> SUFFICES ASSUME TalkInv, LeakInv, Drop PROVE LeakInv'
  OBVIOUS
<1>1. UNCHANGED <<client, server>> /\ used'.dead
  BY DEF Drop, TalkInv
<1> QED BY <1>1 DEF LeakInv, FilesClosed, Tables, Handles, Dead

LEMMA LeakStep ==
    ASSUME WindowFull \subseteq {"start"}
    PROVE  TalkInv /\ LeakInv /\ [Next]_vars => LeakInv'
<1> SUFFICES ASSUME TalkInv, LeakInv, [Next]_vars PROVE LeakInv'
  OBVIOUS
<1>1. CASE UNCHANGED vars
  <2>1. Answer' = Answer
    BY <1>1 DEF vars, Answer
  <2>2. Answering' <=> Answering
    BY <1>1, <2>1 DEF vars, Answering, Ans1, Ans2, Ans3, Ans4, Ans5, At, Serves, Wire
  <2> QED BY <1>1, <2>1, <2>2, LeakSame DEF vars, SameTables
<1> QED BY <1>1, AppCallLeak, ClientLeak, WindowFullLeak, InterruptLeak, GetHeaderLeak, ReadBodyLeak,
           LocalLeak, FailLeak, ServerLeak, RecvDoLeak, RecvSendLeak, FreeLeak, DropLeak
        DEF Next, ClientStep, ServerStep

LEMMA LeakInvNoLeak == TalkInv /\ LeakInv => NoLeak
<1> SUFFICES ASSUME TalkInv, LeakInv PROVE NoLeak
  OBVIOUS
<1>1. server.fds = Handles(server)
  BY DEF LeakInv, Tables
<1>2. ~Busy(client) => ~client.fl
  BY DEF LeakInv, FilesClosed, Busy
<1>3. ~Busy(client) /\ ~Dead => Handles(server) = client.held
  <2> SUFFICES ASSUME ~Busy(client), ~Dead PROVE Handles(server) = client.held
    OBVIOUS
  <2>1. client.phase = "idle" /\ client.st = "idle"
    BY DEF Busy, TalkInv, Control
  <2>2. ~Answering /\ Own(client) = {}
    BY <2>1, AnsweringFacts DEF Own
  <2> QED BY <2>2, SettledOwned DEF LeakInv, Settled
<1>4. Dead /\ server.state = "free" => server.fds = {}
  BY <1>1 DEF LeakInv
<1> QED BY <1>1, <1>2, <1>3, <1>4 DEF NoLeak

(* Nothing stays open: the server's descriptors are those of its handles,  *)
(* which every path of RecvOpen(), RecvOpenDir(), RecvClose() and          *)
(* wolfSSH_SFTP_free() keeps; Get, Put and LS have closed the handle they  *)
(* opened and the local file when they return; and a server at rest holds  *)
(* the handles of the application's own open calls and no other.           *)
THEOREM NothingLeaks ==
    ASSUME WindowFull \subseteq {"start"}
    PROVE  Spec => []NoLeak
<1>1. TalkInv /\ LeakInv /\ [Next]_vars => TalkInv' /\ LeakInv'
  BY TalkStep, LeakStep
<1> QED BY <1>1, InitTalk, InitLeak, LeakInvNoLeak, PTL DEF Spec

----------------------------------------------------------------------------
(* Blocks and offsets.                                                     *)

LEMMA BeginsWhole ==
    ASSUME NEW S, NEW t \in Seq(S), NEW s \in Seq(S), NEW n, Begins(t, s, n), n >= Len(s)
    PROVE  t = s
<1>1. Len(t) = Len(s) /\ \A i \in 1 .. Len(t) : t[i] = s[i]
  BY DEF Begins
<1> QED BY <1>1, SeqEqual

LEMMA BeginsEmpty ==
    ASSUME NEW S, NEW s \in Seq(S)
    PROVE  Begins(<<>>, s, 0)
BY DEF Begins

LEMMA BeginsAppend ==
    ASSUME NEW S, NEW t \in Seq(S), NEW s \in Seq(S), NEW n, Begins(t, s, n), n < Len(s)
    PROVE  Begins(Append(t, s[n + 1]), s, n + 1) /\ s[n + 1] \in S
<1>1. n \in Nat /\ n + 1 \in 1 .. Len(s) /\ s[n + 1] \in S /\ Len(t) = n
  BY DEF Begins
<1> DEFINE u == Append(t, s[n + 1])
<1>2. Len(u) = n + 1 /\ u[n + 1] = s[n + 1] /\ \A i \in 1 .. n : u[i] = t[i]
  BY <1>1, AppendProperties
<1> HIDE DEF u
<1>3. Begins(u, s, n + 1)
  BY <1>1, <1>2 DEF Begins
<1> QED BY <1>1, <1>3 DEF u

(* The server puts the block where the client's next one belongs.          *)
LEMMA BeginsPut ==
    ASSUME NEW S, NEW t \in Seq(S), NEW s \in Seq(S), NEW n, Begins(t, s, n), n < Len(s)
    PROVE  Begins(PutBlock(t, n, s[n + 1]), s, n + 1) 
<1>1. PutBlock(t, n, s[n + 1]) = Append(t, s[n + 1])
  BY DEF PutBlock, Begins
<1> QED BY <1>1, BeginsAppend

LEMMA PutBlockType ==
    ASSUME NEW S, NEW t \in Seq(S), NEW n \in Nat, NEW b \in S
    PROVE  PutBlock(t, n, b) \in Seq(S)
<1>1. CASE n < Len(t)
  <2>1. n + 1 \in 1 .. Len(t) /\ PutBlock(t, n, b) = [t EXCEPT ![n + 1] = b]
    BY <1>1 DEF PutBlock
  <2> QED BY <2>1, ExceptSeq
<1>2. CASE ~(n < Len(t))
  BY <1>2 DEF PutBlock
<1> QED BY <1>1, <1>2

(* The table of interrupted transfers.                                     *)

TypedTable(table) ==
    DOMAIN table = 1 .. OfstSlots /\ \A i \in 1 .. OfstSlots : table[i].offset \in Nat

LEMMA SaveOfstKeeps ==
    ASSUME NEW table, TypedTable(table), NEW from, NEW to, NEW off \in Nat, NEW snap
    PROVE  /\ TypedTable(SaveOfst(table, from, to, off, snap))
           /\ Kept(table) /\ (snap # <<>> => Begins(snap[2], snap[1], off)) =>
                 Kept(SaveOfst(table, from, to, off, snap))
<1> DEFINE free == {i \in DOMAIN table : table[i].offset = 0}
           k == CHOOSE i \in free : \A j \in free : i <= j
           e == [from |-> from, to |-> to, offset |-> off, snap |-> snap]
           new == [table EXCEPT ![k] = e]
<1>1. CASE free = {}
  BY <1>1 DEF SaveOfst
<1>2. CASE free # {}
  <2>1. free \subseteq Nat
    BY DEF TypedTable
  <2>2. k \in free
    BY <1>2, <2>1, LeastNatural
  <2>3. SaveOfst(table, from, to, off, snap) = new
    BY <1>2 DEF SaveOfst
  <2>4. k \in 1 .. OfstSlots
    BY <2>2 DEF TypedTable
  <2>5. e.offset = off /\ e.snap = snap
    OBVIOUS
  <2> HIDE DEF k, e, free
  <2>6. DOMAIN new = 1 .. OfstSlots /\ \A i \in 1 .. OfstSlots : new[i] = IF i = k THEN e ELSE table[i]
    BY <2>4 DEF TypedTable
  <2> HIDE DEF new
  <2>7. TypedTable(new)
    BY <2>5, <2>6 DEF TypedTable
  <2>8. Kept(table) /\ (snap # <<>> => Begins(snap[2], snap[1], off)) => Kept(new)
    BY <2>5, <2>6 DEF Kept
  <2> QED BY <2>3, <2>7, <2>8
<1> QED BY <1>1, <1>2

LEMMA GetOfstKeeps ==
    ASSUME NEW table, TypedTable(table), NEW from, NEW to, NEW hit, hit = GetOfst(table, from, to)
    PROVE  /\ TypedTable(hit.table) /\ hit.entry.offset \in Nat
           /\ Kept(table) => Kept(hit.table)
           /\ Kept(table) /\ hit.entry.offset > 0 /\ hit.entry.snap # <<>> =>
                Begins(hit.entry.snap[2], hit.entry.snap[1], hit.entry.offset)
<1> DEFINE M == OfstMatches(table, from, to)
           k == CHOOSE i \in M : \A j \in M : i <= j
           new == [table EXCEPT ![k] = NoOfst]
<1>0. NoOfst.offset = 0
  BY DEF NoOfst
<1>1. CASE M = {}
  <2>1. hit.table = table /\ hit.entry = NoOfst
    BY <1>1 DEF GetOfst
  <2> QED BY <1>0, <2>1
<1>2. CASE M # {}
  <2>1. M \subseteq Nat /\ M \subseteq 1 .. OfstSlots
    BY DEF TypedTable, OfstMatches
  <2>2. k \in M
    BY <1>2, <2>1, LeastNatural
  <2>3. hit.table = new /\ hit.entry = table[k]
    BY <1>2 DEF GetOfst
  <2>4. k \in 1 .. OfstSlots
    BY <2>1, <2>2
  <2> HIDE DEF k, M
  <2>5. DOMAIN new = 1 .. OfstSlots /\ \A i \in 1 .. OfstSlots : new[i] = IF i = k THEN NoOfst ELSE table[i]
    BY <2>4 DEF TypedTable
  <2> HIDE DEF new
  <2>6. TypedTable(new)
    BY <1>0, <2>5 DEF TypedTable
  <2>7. Kept(table) => Kept(new)
    BY <1>0, <2>5 DEF Kept
  <2>8. table[k].offset \in Nat
    BY <2>4 DEF TypedTable
  <2>9. Kept(table) /\ table[k].offset > 0 /\ table[k].snap # <<>> =>
                Begins(table[k].snap[2], table[k].snap[1], table[k].offset)
    BY <2>4 DEF Kept
  <2> QED BY <2>3, <2>6, <2>7, <2>8, <2>9
<1> QED BY <1>1, <1>2

(* A part of a set that is not too small.                                  *)
LEMMA PartOfSize ==
    ASSUME NEW S, IsFiniteSet(S), NEW k \in Nat, Cardinality(S) > k
    PROVE  \E b \in SUBSET S : Cardinality(b) = k
<1>1. Cardinality(S) \in Nat /\ ExistsBijection(1 .. Cardinality(S), S)
  BY FS_CardinalityType
<1>2. PICK g : g \in Bijection(1 .. Cardinality(S), S)
  BY <1>1 DEF ExistsBijection
<1>3. g \in [1 .. Cardinality(S) -> S] /\ \A i, j \in 1 .. Cardinality(S) : g[i] = g[j] => i = j
  BY <1>2 DEF Bijection, Injection, IsInjective
<1> DEFINE b == {g[i] : i \in 1 .. k}
           h == [i \in 1 .. k |-> g[i]]
<1>4. \A i \in 1 .. k : i \in 1 .. Cardinality(S)
  BY <1>1
<1>5. b \in SUBSET S
  BY <1>3, <1>4
<1>6. h \in [1 .. k -> b] /\ \A i, j \in 1 .. k : h[i] = h[j] => i = j
  BY <1>3, <1>4
<1>7. \A t \in b : \E i \in 1 .. k : h[i] = t
  OBVIOUS
<1>8. h \in Bijection(1 .. k, b)
  BY <1>6, <1>7 DEF Bijection, Injection, IsInjective, Surjection
<1>9. Cardinality(b) = k
  <2>1. ExistsBijection(1 .. k, b)
    BY <1>8 DEF ExistsBijection
  <2> HIDE DEF b
  <2> QED BY <2>1, FS_CountingElements
<1> QED BY <1>5, <1>9

----------------------------------------------------------------------------
(* What the client makes of the replies.                                   *)

(* Neither the files nor the offsets of the call have moved.               *)
Same(c, x) ==
    /\ x.call = c.call /\ x.ofst = c.ofst /\ x.stale = c.stale /\ x.cut = c.cut /\ x.files = c.files
    /\ x.table = c.table /\ x.sftpInt = c.sftpInt /\ x.names = c.names

LEMMA SameData ==
    ASSUME NEW c, NEW x, NEW f, Same(c, x)
    PROVE  /\ Source(x, f) = Source(c, f) /\ Target(x, f) = Target(c, f)
           /\ Sound(x, f) <=> Sound(c, f)
BY DEF Same, Source, Target, Sound

(* Source and target of a transfer are files of blocks.                    *)
LEMMA DataTypes ==
    ASSUME NEW c, NEW f, TypedClient(c), TypedRemote(f), NamesOf(c.call), c.call.op \in {"get", "put"}
    PROVE  Source(c, f) \in Seq(Blocks) /\ Target(c, f) \in Seq(Blocks)
BY DEF Source, Target, TypedClient, TypedRemote, NamesOf, Entries

LEMMA SnapIs ==
    ASSUME NEW c
    PROVE  Snap(c) = <<Source(c, remote), Target(c, remote)>> /\ Snap(c) # <<>>
           /\ Snap(c)[1] = Source(c, remote) /\ Snap(c)[2] = Target(c, remote)
<1>1. Snap(c) = <<Source(c, remote), Target(c, remote)>>
  BY DEF Snap, Source, Target
<1> HIDE DEF Snap
<1> QED BY <1>1, PairFacts

(* An interrupted transfer is kept with its files as they are.             *)
LEMMA SavedKept ==
    ASSUME NEW c, TypedClient(c)
    PROVE  /\ TypedTable(Saved(c))
           /\ Kept(c.table) /\ Sound(c, remote) => Kept(Saved(c))
<1> DEFINE snap == IF c.stale THEN <<>> ELSE Snap(c)
<1>1. Saved(c) = SaveOfst(c.table, c.call.from, c.call.to, c.ofst, snap)
  BY DEF Saved
<1>2. Sound(c, remote) /\ snap # <<>> => Begins(snap[2], snap[1], c.ofst)
  BY SnapIs DEF Sound
<1>3. TypedTable(c.table) /\ c.ofst \in Nat
  BY DEF TypedClient, TypedTable
<1> HIDE DEF snap
<1> QED BY <1>1, <1>2, <1>3, SaveOfstKeeps

(* An offset that was kept is good if the files are as they were.          *)
LEMMA FoundKept ==
    ASSUME NEW c, TypedClient(c), NEW hit, hit = GetOfst(c.table, c.call.from, c.call.to)
    PROVE  /\ TypedTable(hit.table) /\ hit.entry.offset \in Nat
           /\ Kept(c.table) => Kept(hit.table)
           /\ Kept(c.table) /\ hit.entry.offset > 0 /\ hit.entry.snap = Snap(c) =>
                Begins(Target(c, remote), Source(c, remote), hit.entry.offset)
<1>1. TypedTable(c.table)
  BY DEF TypedClient, TypedTable
<1> QED BY <1>1, GetOfstKeeps, SnapIs

(* A reply that the function can read is about to be taken.                *)
Replied(c, s, r) ==
    /\ TypedClient(c) /\ TypedRemote(remote) /\ Ended(c, remote) /\ Goes(c, remote, s, TRUE, r)
    /\ r.type \in Expected(c.st)

(* What there is is sound, and no reply is under way.                      *)
Lasts(x, s) == TypedClient(x) /\ Goes(x, remote, s, FALSE, 0) /\ Ended(x, remote)

LEMMA GetFaith ==
    ASSUME NEW c, DOMAIN c = ClientFields, c.call.op = "get", NamesOf(c.call), NEW s, NEW r,
           c.st \in {"STAT", "OPEN", "READ", "CLOSE"}, Replied(c, s, r),
           NEW x \in GetReturn(c, Returns(c.st, r), Payload(c.st, r))
    PROVE  Lasts(x, s)
<1> USE DEF Replied, Lasts
<1> DEFINE ret == Returns(c.st, r)
           arg == Payload(c.st, r)
<1>0. Getting(c, remote, s.fileList, TRUE, r) /\ Kept(c.table)
  BY DEF Goes
<1>1. ASSUME Same(c, x), x.st = "idle", x.result = "fail", x.error = FALSE
      PROVE  TypedClient(x) /\ Goes(x, remote, s, FALSE, 0) /\ Ended(x, remote)
  BY <1>0, <1>1 DEF Same, TypedClient, Goes, Getting, Putting, Listing, Ended
<1>2. CASE c.st = "STAT"
  <2>1. x = Finish(c, "fail") \/ x = Goto([c EXCEPT !.size = arg.size], "OPEN")
    BY <1>2 DEF GetReturn
  <2>2. CASE x = Finish(c, "fail")
    <3>1. Same(c, x) /\ x.st = "idle" /\ x.result = "fail" /\ x.error = FALSE
      BY <2>2 DEF Finish, ClientFields, Same
    <3> QED BY <3>1, <1>1
  <2>3. CASE x = Goto([c EXCEPT !.size = arg.size], "OPEN")
    <3>1. Same(c, x) /\ x.st = "OPEN" /\ x.error = c.error
      BY <2>3 DEF Goto, ClientFields, Same
    <3> QED BY <1>0, <1>2, <3>1 DEF Same, TypedClient, Goes, Getting, Putting, Listing, Ended, Busy
  <2> QED BY <2>1, <2>2, <2>3
<1>3. CASE c.st = "OPEN"
  <2>1. IF ret # "ok" THEN x = Finish(c, "fail") ELSE x = Goto([c EXCEPT !.handle = arg], "LOOKUP")
    BY <1>3 DEF GetReturn
  <2>2. CASE x = Finish(c, "fail")
    <3>1. Same(c, x) /\ x.st = "idle" /\ x.result = "fail" /\ x.error = FALSE
      BY <2>2 DEF Finish, ClientFields, Same
    <3> QED BY <3>1, <1>1
  <2>3. CASE ret = "ok" /\ x = Goto([c EXCEPT !.handle = arg], "LOOKUP")
    <3>1. Same(c, x) /\ x.st = "LOOKUP" /\ x.error = c.error /\ x.handle = arg
      BY <2>3 DEF Goto, ClientFields, Same
    <3>2. r.type = "HANDLE" /\ arg = r.arg /\ [id |-> r.arg, name |-> c.call.from] \in s.fileList
      BY <1>0, <1>3, <2>3 DEF Getting, Returns, GetHandle, Payload
    <3> QED BY <1>0, <1>3, <3>1, <3>2 DEF Same, TypedClient, Goes, Getting, Putting, Listing, Ended, Busy
  <2> QED BY <2>1, <2>2, <2>3
<1>4. CASE c.st = "READ"
  <2>0. Sound(c, remote) /\ ~c.cut /\ c.error = FALSE /\ c.ofst \in Nat /\ c.sftpInt \in BOOLEAN
    BY <1>0, <1>4 DEF Getting, TypedClient
  <2>1. Source(c, remote) \in Seq(Blocks) /\ Target(c, remote) \in Seq(Blocks)
    BY DataTypes
  <2>2. TypedTable(Saved(c)) /\ Kept(Saved(c))
    BY <1>0, <2>0, SavedKept
  <2>3. CASE ret = "eof" /\ x = GetLoopEnd(c)
    <3>1. r.type = "STATUS" /\ r.arg = "EOF" /\ c.ofst >= Len(Source(c, remote))
      BY <1>0, <1>4, <2>3 DEF Getting, Returns, SendReadPacket
    <3>2. /\ x.call = c.call /\ x.st = "CLOSE" /\ x.ofst = c.ofst /\ x.stale = c.stale /\ x.files = c.files
          /\ x.error = c.error /\ x.cut = c.sftpInt /\ x.sftpInt = FALSE
          /\ x.table = IF c.sftpInt THEN Saved(c) ELSE c.table
      BY <2>3 DEF GetLoopEnd, Goto, ClientFields
    <3>3. Source(x, remote) = Source(c, remote) /\ Target(x, remote) = Target(c, remote)
      BY <3>2 DEF Source, Target
    <3>4. ~c.stale => Target(c, remote) = Source(c, remote)
      BY <2>0, <2>1, <3>1, BeginsWhole DEF Sound
    <3>5. Kept(x.table) /\ TypedTable(x.table)
      BY <1>0, <2>2, <3>2 DEF TypedClient, TypedTable
    <3>6. TypedClient(x)
      BY <2>0, <3>2, <3>5 DEF TypedClient, TypedTable
    <3> QED BY <3>2, <3>3, <3>4, <3>5, <3>6 DEF Goes, Getting, Putting, Listing, Ended, Busy
  <2>4. CASE x = GetFails(c) \/ x = [GetFails(c) EXCEPT !.faults = @ + 1]
    <3>1. Same(c, x) /\ x.st = "CLOSE" /\ x.error = TRUE
      BY <2>4 DEF GetFails, Goto, ClientFields, Same
    <3> QED BY <1>0, <3>1 DEF Same, TypedClient, Goes, Getting, Putting, Listing, Ended, Busy
  <2>5. CASE ret = "ok" /\ x = GetBlock(c, arg)
    <3>1. r.type = "DATA" /\ c.ofst < Len(Source(c, remote)) /\ r.arg = Source(c, remote)[c.ofst + 1]
      BY <1>0, <1>4, <2>5 DEF Getting, Returns, SendReadPacket
    <3>2. arg = r.arg
      BY <1>4 DEF Payload
    <3> DEFINE to == c.call.to
               got == [c EXCEPT !.ofst = @ + 1, !.files[to].data = Append(@, arg)]
               data == Append(Target(c, remote), Source(c, remote)[c.ofst + 1])
    <3>3. to \in Locals /\ c.files \in [Locals -> Entries] /\ c.files[to].data = Target(c, remote)
          /\ c.files[to] \in Entries
      BY DEF NamesOf, TypedClient, Target
    <3>4. /\ DOMAIN got = ClientFields /\ got.call = c.call /\ got.ofst = c.ofst + 1 /\ got.stale = c.stale
          /\ got.cut = c.cut /\ got.error = c.error /\ got.sftpInt = c.sftpInt /\ got.table = c.table
          /\ got.handle = c.handle
          /\ got.files = [c.files EXCEPT ![to].data = Append(@, arg)]
      BY DEF ClientFields
    <3>5. data \in Seq(Blocks)
      <4>1. Source(c, remote)[c.ofst + 1] \in Blocks
        BY <2>0, <2>1, <3>1
      <4> QED BY <2>1, <4>1
    <3>6. /\ got.files \in [Locals -> Entries] /\ got.files[to].data = data
      <4>1. got.files = [c.files EXCEPT ![to].data = data]
        BY <3>1, <3>2, <3>3, <3>4
      <4> HIDE DEF data, to, got
      <4>2. [c.files[to] EXCEPT !.data = data] \in Entries /\ [c.files[to] EXCEPT !.data = data].data = data
        BY <3>3, <3>5 DEF Entries
      <4> QED BY <3>3, <4>1, <4>2
    <3>7. TypedClient(got)
      <4>1. got.st = c.st
        BY DEF ClientFields
      <4>2. /\ c.stale \in BOOLEAN /\ c.cut \in BOOLEAN /\ DOMAIN c.table = 1 .. OfstSlots
            /\ \A i \in 1 .. OfstSlots : c.table[i].offset \in Nat
        BY DEF TypedClient
      <4>3. c.ofst + 1 \in Nat
        BY <2>0
      <4> HIDE DEF got, to, data
      <4>4. /\ got.files \in [Locals -> Entries] /\ got.ofst \in Nat
            /\ got.error \in BOOLEAN /\ got.cut \in BOOLEAN /\ got.stale \in BOOLEAN /\ got.sftpInt \in BOOLEAN
            /\ got.error = FALSE
        BY <2>0, <3>4, <3>6, <4>2, <4>3
      <4>5. DOMAIN got.table = 1 .. OfstSlots /\ \A i \in 1 .. OfstSlots : got.table[i].offset \in Nat
        BY <3>4, <4>2
      <4> QED BY <4>4, <4>5 DEF TypedClient
    <3>8. x = IF c.sftpInt THEN GetLoopEnd(got) ELSE Goto(got, "READ")
      BY <2>5 DEF GetBlock
    <3>9. c.stale \/ Begins(data, Source(c, remote), c.ofst + 1)
      <4>1. c.stale \/ Begins(Target(c, remote), Source(c, remote), c.ofst)
        BY <2>0 DEF Sound
      <4> QED BY <2>1, <3>1, <4>1, BeginsAppend
    <3> HIDE DEF got, data
    <3>10. Source(got, remote) = Source(c, remote) /\ Target(got, remote) = data /\ Sound(got, remote)
      <4>1. Source(got, remote) = Source(c, remote) /\ Target(got, remote) = data
        BY <3>4, <3>6 DEF Source, Target
      <4> QED BY <3>4, <3>9, <4>1 DEF Sound
    <3>11. TypedTable(Saved(got)) /\ Kept(Saved(got))
      BY <1>0, <3>4, <3>7, <3>10, SavedKept
    <3>12. CASE c.sftpInt
      <4>1. x = GetLoopEnd(got) /\ got.sftpInt
        BY <3>4, <3>8, <3>12
      <4>2. /\ x.call = got.call /\ x.st = "CLOSE" /\ x.ofst = got.ofst /\ x.stale = got.stale
            /\ x.files = got.files /\ x.error = got.error /\ x.cut = got.sftpInt /\ x.sftpInt = FALSE
            /\ x.table = Saved(got)
        BY <3>4, <4>1 DEF GetLoopEnd, Goto, ClientFields
      <4>3. TypedClient(x)
        BY <3>7, <3>11, <4>2 DEF TypedClient, TypedTable
      <4> QED BY <3>4, <3>11, <4>1, <4>2, <4>3 DEF Goes, Getting, Putting, Listing, Ended, Busy
    <3>13. CASE ~c.sftpInt
      <4>1. x = Goto(got, "READ")
        BY <3>8, <3>13
      <4>2. Same(got, x) /\ x.st = "READ" /\ x.error = got.error /\ x.handle = got.handle
        BY <3>4, <4>1 DEF Goto, ClientFields, Same
      <4>3. Sound(x, remote)
        BY <3>10, <4>2, SameData
      <4>4. [id |-> c.handle, name |-> c.call.from] \in s.fileList
        BY <1>0, <1>4 DEF Getting
      <4>5. TypedClient(x)
        BY <2>0, <3>4, <3>7, <4>2 DEF TypedClient, Same
      <4> QED BY <1>0, <2>0, <3>4, <4>2, <4>3, <4>4, <4>5 DEF Goes, Getting, Putting, Listing, Ended, Busy, Same
    <3> QED BY <3>12, <3>13
  <2>6. \/ ret = "eof" /\ x = GetLoopEnd(c)
        \/ x = GetFails(c) \/ x = [GetFails(c) EXCEPT !.faults = @ + 1]
        \/ ret = "ok" /\ x = GetBlock(c, arg)
    BY <1>4 DEF GetReturn
  <2> QED BY <2>3, <2>4, <2>5, <2>6
<1>5. CASE c.st = "CLOSE"
  <2>1. x = Goto([c EXCEPT !.error = @ \/ ret # "ok"], "CLOSE_LOCAL")
    BY <1>5 DEF GetReturn
  <2> DEFINE e == c.error \/ ret # "ok"
  <2>2. Same(c, x) /\ x.st = "CLOSE_LOCAL" /\ x.error = e
    BY <2>1 DEF Goto, ClientFields, Same
  <2>3. e \in BOOLEAN /\ (~e => ~c.error)
    BY DEF TypedClient
  <2> HIDE DEF e
  <2>4. Target(x, remote) = Target(c, remote) /\ Source(x, remote) = Source(c, remote)
    BY <2>2, SameData
  <2> QED BY <1>0, <1>5, <2>2, <2>3, <2>4 DEF Same, TypedClient, Goes, Getting, Putting, Listing, Ended, Busy
<1> QED BY <1>2, <1>3, <1>4, <1>5

(* The loop of a put ends: done, interrupted or failed.                    *)
PutEnds(d, x) ==
    \/ x = PutLoopEnd(d) /\ (d.sftpInt \/ d.ofst >= Len(Source(d, remote)))
    \/ x = PutLoopEnd([d EXCEPT !.error = TRUE])
    \/ x = [PutLoopEnd([d EXCEPT !.error = TRUE]) EXCEPT !.faults = @ + 1]

(* The loop runs and what it has sent is sound.                            *)
PutLoops(d) ==
    /\ DOMAIN d = ClientFields /\ d.call.op = "put" /\ NamesOf(d.call) /\ d.st \in {"OPEN", "WRITE"}
    /\ TypedClient(d) /\ TypedRemote(remote) /\ Kept(d.table) /\ Sound(d, remote) /\ ~d.cut

LEMMA PutEndFaith ==
    ASSUME NEW d, PutLoops(d), NEW s, NEW x, PutEnds(d, x)
    PROVE  Lasts(x, s)
<1> USE DEF PutLoops, Lasts
<1>1. TypedTable(Saved(d)) /\ Kept(Saved(d)) /\ TypedTable(d.table)
  BY SavedKept DEF TypedClient, TypedTable
<1> DEFINE e == [d EXCEPT !.error = TRUE]
<1>2. /\ DOMAIN e = ClientFields /\ e.call = d.call /\ e.files = d.files /\ e.table = d.table /\ e.ofst = d.ofst
      /\ e.stale = d.stale /\ e.sftpInt = d.sftpInt /\ e.error = TRUE
  BY DEF ClientFields
<1> HIDE DEF e
<1>3. Saved(e) = Saved(d)
  BY <1>2 DEF Saved, Snap
<1>4. d.error = FALSE /\ d.sftpInt \in BOOLEAN /\ d.ofst \in Nat /\ d.stale \in BOOLEAN
  BY DEF TypedClient
<1>5. /\ x.call = d.call /\ x.st = "CLOSE_LOCAL" /\ x.ofst = d.ofst /\ x.stale = d.stale /\ x.files = d.files
      /\ x.cut = d.sftpInt /\ x.sftpInt = FALSE
      /\ x.table = IF d.sftpInt THEN Saved(d) ELSE d.table
      /\ x.error = TRUE \/ (x.error = FALSE /\ (d.sftpInt \/ d.ofst >= Len(Source(d, remote))))
  <2>1. CASE x = PutLoopEnd(d) /\ (d.sftpInt \/ d.ofst >= Len(Source(d, remote)))
    BY <1>4, <2>1 DEF PutLoopEnd, Goto, ClientFields
  <2>2. CASE x = PutLoopEnd(e)
    BY <1>2, <1>3, <2>2 DEF PutLoopEnd, Goto, ClientFields
  <2>3. CASE x = [PutLoopEnd(e) EXCEPT !.faults = @ + 1]
    BY <1>2, <1>3, <2>3 DEF PutLoopEnd, Goto, ClientFields
  <2> QED BY <2>1, <2>2, <2>3 DEF e, PutEnds
<1>6. Source(x, remote) = Source(d, remote) /\ Target(x, remote) = Target(d, remote)
  BY <1>5 DEF Source, Target
<1>7. Source(d, remote) \in Seq(Blocks) /\ Target(d, remote) \in Seq(Blocks)
  BY DataTypes
<1>8. ~x.error /\ ~x.cut /\ ~x.stale => Target(x, remote) = Source(x, remote)
  BY <1>4, <1>5, <1>6, <1>7, BeginsWhole DEF Sound
<1>9. Kept(x.table) /\ TypedTable(x.table)
  BY <1>1, <1>5
<1>10. TypedClient(x)
  BY <1>4, <1>5, <1>9 DEF TypedClient, TypedTable
<1> QED BY <1>5, <1>8, <1>9, <1>10 DEF Goes, Getting, Putting, Listing, Ended, Busy

LEMMA PutNextFaith ==
    ASSUME NEW d, PutLoops(d), NEW s, [id |-> d.handle, name |-> d.call.to] \in s.fileList,
           remote[d.call.to].kind = "file", NEW x \in PutNext(d)
    PROVE  Lasts(x, s)
<1>0. Source(d, remote) = d.files[d.call.from].data /\ Len(Source(d, remote)) \in Nat
  BY DataTypes DEF Source, PutLoops
<1>1. CASE d.ofst >= Len(Source(d, remote))
  <2>1. x = PutLoopEnd(d)
    BY <1>0, <1>1 DEF PutNext
  <2>2. PutEnds(d, x)
    BY <1>1, <2>1 DEF PutEnds
  <2> QED BY <2>2, PutEndFaith
<1>2. CASE ~(d.ofst >= Len(Source(d, remote)))
  <2>1. x = Goto(d, "WRITE") \/ x = [PutLoopEnd([d EXCEPT !.error = TRUE]) EXCEPT !.faults = @ + 1]
    BY <1>0, <1>2 DEF PutNext
  <2>2. CASE x = Goto(d, "WRITE")
    <3> USE DEF PutLoops, Lasts
    <3>1. Same(d, x) /\ x.st = "WRITE" /\ x.error = d.error /\ x.handle = d.handle
      BY <2>2 DEF Goto, ClientFields, Same
    <3>2. Sound(x, remote) /\ Source(x, remote) = Source(d, remote)
      BY <3>1, SameData
    <3>3. d.ofst < Len(Source(d, remote)) /\ d.error = FALSE
      BY <1>0, <1>2 DEF TypedClient
    <3>4. TypedClient(x)
      BY <3>1, <3>3 DEF TypedClient, Same
    <3> QED BY <3>1, <3>2, <3>3, <3>4 DEF Goes, Getting, Putting, Listing, Ended, Busy, Same
  <2>3. CASE x = [PutLoopEnd([d EXCEPT !.error = TRUE]) EXCEPT !.faults = @ + 1]
    <3>1. PutEnds(d, x)
      BY <2>3 DEF PutEnds
    <3> QED BY <3>1, PutEndFaith
  <2> QED BY <2>1, <2>2, <2>3
<1> QED BY <1>1, <1>2

LEMMA PutFaith ==
    ASSUME NEW c, DOMAIN c = ClientFields, c.call.op = "put", NamesOf(c.call), NEW s, NEW r,
           c.st \in {"STAT", "OPEN", "WRITE", "CLOSE"}, Replied(c, s, r),
           NEW x \in PutReturn(c, Returns(c.st, r), Payload(c.st, r))
    PROVE  Lasts(x, s)
<1> USE DEF Replied
<1> DEFINE ret == Returns(c.st, r)
           arg == Payload(c.st, r)
<1>0. Putting(c, remote, s.fileList, TRUE, r) /\ Kept(c.table)
  BY DEF Goes
<1>2. CASE c.st = "STAT"
  <2> USE DEF Lasts
  <2>0. ret # "fatal"
    BY <1>2 DEF Returns, DoStat
  <2> DEFINE n == IF ret = "ok" /\ arg.size = c.ofst THEN c.ofst ELSE 0
  <2>1. x = Goto([c EXCEPT !.ofst = n], "OPEN_LOCAL")
    BY <1>2, <2>0 DEF PutReturn
  <2>2. n \in Nat /\ (n > 0 => n = c.ofst) /\ c.error = FALSE
    BY <1>2 DEF TypedClient
  <2> HIDE DEF n
  <2>3. /\ x.call = c.call /\ x.st = "OPEN_LOCAL" /\ x.ofst = n /\ x.stale = c.stale /\ x.files = c.files
        /\ x.cut = c.cut /\ x.sftpInt = c.sftpInt /\ x.table = c.table /\ x.error = c.error
    BY <2>1 DEF Goto, ClientFields
  <2>4. n > 0 => Sound(x, remote)
    <3> SUFFICES ASSUME n > 0 PROVE Sound(x, remote)
      OBVIOUS
    <3>1. Sound(c, remote)
      BY <1>0, <1>2, <2>2 DEF Putting
    <3>3. Source(x, remote) = Source(c, remote) /\ Target(x, remote) = Target(c, remote)
      BY <2>3 DEF Source, Target
    <3> QED BY <2>2, <2>3, <3>1, <3>3 DEF Sound
  <2>5. ~c.cut
    BY <1>0, <1>2 DEF Putting
  <2>6. TypedClient(x)
    BY <2>2, <2>3 DEF TypedClient
  <2> QED BY <1>0, <2>3, <2>4, <2>5, <2>6 DEF Goes, Getting, Putting, Listing, Ended, Busy
<1>3. CASE c.st = "OPEN"
  <2>1. CASE ret # "ok"
    <3> USE DEF Lasts
    <3>1. x = Goto([c EXCEPT !.handle = 0, !.error = TRUE], "CLOSE_LOCAL")
      BY <1>3, <2>1 DEF PutReturn
    <3>2. Same(c, x) /\ x.st = "CLOSE_LOCAL" /\ x.error = TRUE
      BY <3>1 DEF Goto, ClientFields, Same
    <3> QED BY <1>0, <3>2 DEF Same, TypedClient, Goes, Getting, Putting, Listing, Ended, Busy
  <2>2. CASE ret = "ok"
    <3> DEFINE d == [c EXCEPT !.handle = arg]
    <3>1. x \in PutNext(d)
      BY <1>3, <2>2 DEF PutReturn
    <3>2. /\ r.type = "HANDLE" /\ arg = r.arg /\ [id |-> r.arg, name |-> c.call.to] \in s.fileList
          /\ Sound(c, remote) /\ remote[c.call.to].kind = "file" /\ ~c.cut
      BY <1>0, <1>3, <2>2 DEF Putting, Returns, GetHandle, Payload
    <3>3. /\ DOMAIN d = ClientFields /\ Same(c, d) /\ d.st = c.st /\ d.handle = arg /\ d.error = c.error
      BY DEF ClientFields, Same
    <3> HIDE DEF d
    <3>4. Sound(d, remote)
      BY <3>2, <3>3, SameData
    <3>5. TypedClient(d) /\ Kept(d.table) /\ d.call = c.call /\ ~d.cut
      BY <1>0, <3>2, <3>3 DEF Same, TypedClient
    <3>6. PutLoops(d)
      BY <1>3, <3>3, <3>4, <3>5 DEF PutLoops
    <3> HIDE DEF arg
    <3> QED BY <3>1, <3>2, <3>3, <3>5, <3>6, PutNextFaith
  <2> QED BY <2>1, <2>2
<1>4. CASE c.st = "WRITE"
  <2>0. /\ [id |-> c.handle, name |-> c.call.to] \in s.fileList /\ remote[c.call.to].kind = "file"
        /\ c.ofst < Len(Source(c, remote)) /\ ~c.cut
        /\ IF r.arg = "OK" THEN ~c.stale => Begins(Target(c, remote), Source(c, remote), c.ofst + 1)
           ELSE Sound(c, remote)
        /\ c.error = FALSE
    BY <1>0, <1>4 DEF Putting, TypedClient
  <2>1. ret = "ok" <=> r.arg = "OK"
    BY <1>4 DEF Returns, SendWritePacket, Otherwise, DoStatus
  <2>2. CASE ret # "ok"
    <3>1. x = PutLoopEnd([c EXCEPT !.error = TRUE])
      BY <1>4, <2>2 DEF PutReturn
    <3>2. PutLoops(c)
      BY <1>0, <1>4, <2>0, <2>1, <2>2 DEF PutLoops
    <3>3. PutEnds(c, x)
      BY <3>1 DEF PutEnds
    <3> QED BY <3>2, <3>3, PutEndFaith
  <2>3. CASE ret = "ok"
    <3> DEFINE d == [c EXCEPT !.ofst = @ + 1]
    <3>1. IF c.sftpInt THEN x = PutLoopEnd(d) ELSE x \in PutNext(d)
      BY <1>4, <2>3 DEF PutReturn
    <3>2. /\ DOMAIN d = ClientFields /\ d.call = c.call /\ d.st = c.st /\ d.handle = c.handle /\ d.error = c.error
          /\ d.ofst = c.ofst + 1 /\ d.stale = c.stale /\ d.cut = c.cut /\ d.files = c.files
          /\ d.table = c.table /\ d.sftpInt = c.sftpInt
      BY DEF ClientFields
    <3> HIDE DEF d
    <3>3. c.ofst + 1 \in Nat /\ TypedClient(c)
      BY DEF TypedClient
    <3>4. TypedClient(d)
      BY <3>2, <3>3 DEF TypedClient
    <3>5. Source(d, remote) = Source(c, remote) /\ Target(d, remote) = Target(c, remote)
      BY <3>2 DEF Source, Target
    <3>6. Sound(d, remote)
      BY <2>0, <2>1, <2>3, <3>2, <3>5 DEF Sound
    <3>7. PutLoops(d)
      BY <1>0, <1>4, <2>0, <3>2, <3>4, <3>6 DEF PutLoops
    <3>8. CASE c.sftpInt
      <4>1. PutEnds(d, x)
        BY <3>1, <3>2, <3>8 DEF PutEnds
      <4> QED BY <3>7, <4>1, PutEndFaith
    <3>9. CASE ~c.sftpInt
      BY <2>0, <3>1, <3>2, <3>7, <3>9, PutNextFaith
    <3> QED BY <3>8, <3>9
  <2> QED BY <2>2, <2>3
<1>5. CASE c.st = "CLOSE"
  <2> USE DEF Lasts
  <2>1. x = Finish(c, IF c.error \/ ret # "ok" THEN "fail" ELSE "ok")
    BY <1>5 DEF PutReturn
  <2>2. Same(c, x) /\ x.st = "idle" /\ x.error = FALSE /\ (x.result = "ok" => ~c.error)
    BY <2>1 DEF Finish, ClientFields, Same
  <2>3. Target(x, remote) = Target(c, remote) /\ Source(x, remote) = Source(c, remote)
    BY <2>2, SameData
  <2>4. x.result = "ok" /\ ~x.cut /\ ~x.stale => Target(x, remote) = Source(x, remote)
    BY <1>0, <1>5, <2>2, <2>3 DEF Putting, Same
  <2>5. TypedClient(x)
    BY <2>2 DEF TypedClient, Same
  <2> QED BY <1>0, <2>2, <2>4, <2>5 DEF Same, Goes, Getting, Putting, Listing, Ended, Busy, Did
<1> QED BY <1>2, <1>3, <1>4, <1>5

(* A reply's names come after those listed before.                         *)
LEMMA ApartAppend ==
    ASSUME NEW names \in Seq(SUBSET Remotes), NEW b \in SUBSET Remotes, NEW rest, NEW f,
           b \cap rest = {}, Apart(names, b \cup rest, f)
    PROVE  Append(names, b) \in Seq(SUBSET Remotes) /\ Apart(Append(names, b), rest, f)
<1> DEFINE n == Len(names)
           new == Append(names, b)
<1>1. /\ n \in Nat /\ DOMAIN names = 1 .. n /\ new \in Seq(SUBSET Remotes) /\ DOMAIN new = 1 .. (n + 1)
      /\ new[n + 1] = b /\ \A i \in 1 .. n : new[i] = names[i]
  BY AppendProperties
<1> HIDE DEF n, new
<1>2. Listed(new) = Listed(names) \cup b
  <2>1. \A i \in 1 .. n : i \in 1 .. (n + 1)
    BY <1>1
  <2>2. n + 1 \in 1 .. (n + 1) /\ \A i \in 1 .. (n + 1) : i = n + 1 \/ i \in 1 .. n
    BY <1>1
  <2> QED BY <1>1, <2>1, <2>2 DEF Listed
<1>3. \A i \in 1 .. n : names[i] \subseteq Listed(names)
  BY <1>1 DEF Listed
<1>4. ASSUME NEW i \in 1 .. (n + 1), NEW j \in 1 .. (n + 1), i # j
      PROVE  new[i] \cap new[j] = {}
  <2>1. (i \in 1 .. n \/ i = n + 1) /\ (j \in 1 .. n \/ j = n + 1)
    BY <1>1
  <2>2. CASE i \in 1 .. n /\ j \in 1 .. n
    BY <1>1, <1>4, <2>2 DEF Apart
  <2>3. CASE i = n + 1 /\ j \in 1 .. n
    BY <1>1, <1>3, <2>3 DEF Apart
  <2>4. CASE i \in 1 .. n /\ j = n + 1
    BY <1>1, <1>3, <2>4 DEF Apart
  <2> QED BY <1>4, <2>1, <2>2, <2>3, <2>4
<1>5. Listed(new) \cap rest = {} /\ Listed(new) \cup rest = Existing(f)
  BY <1>2 DEF Apart
<1> QED BY <1>1, <1>4, <1>5 DEF Apart, new

LEMMA ApartNothing ==
    ASSUME NEW f
    PROVE  Apart(<<>>, Existing(f), f)
<1>1. DOMAIN <<>> = {}
  OBVIOUS
<1>2. Listed(<<>>) = {}
  BY <1>1 DEF Listed
<1> QED BY <1>1, <1>2 DEF Apart

LEMMA LsFaith ==
    ASSUME NEW c, DOMAIN c = ClientFields, c.call.op = "ls", NEW s, NEW r,
           c.st \in StatesOf("ls"),
           TypedClient(c), TypedRemote(remote), Goes(c, remote, s, TRUE, r),
           r.type \in Expected(c.st),
           NEW x, x = LsReturn(c, Returns(c.st, r), Payload(c.st, r))
    PROVE  Lasts(x, s)
<1> USE DEF Lasts
<1> DEFINE ret == Returns(c.st, r)
           arg == Payload(c.st, r)
<1>0. Listing(c, remote, s.dirList, TRUE, r) /\ Kept(c.table) /\ c.names \in Seq(SUBSET Remotes)
  BY DEF Goes, Listing
<1>1. ASSUME x = Finish(c, "fail")
      PROVE  Lasts(x, s)
  <2>1. Same(c, x) /\ x.st = "idle" /\ x.result = "fail" /\ x.error = FALSE
    BY <1>1 DEF Finish, ClientFields, Same
  <2>2. TypedClient(x)
    BY <2>1 DEF Same, TypedClient
  <2> QED BY <1>0, <2>1, <2>2 DEF Same, Goes, Getting, Putting, Listing, Ended
<1>2. CASE c.st = "REALPATH"
  <2>1. x = Goto(c, "OPENDIR") \/ x = Finish(c, "fail")
    BY <1>2 DEF LsReturn
  <2>2. CASE x = Goto(c, "OPENDIR")
    <3>1. Same(c, x) /\ x.st = "OPENDIR" /\ x.error = c.error
      BY <2>2 DEF Goto, ClientFields, Same
    <3> QED BY <1>0, <1>2, <3>1 DEF Same, TypedClient, Goes, Getting, Putting, Listing, Ended, Busy
  <2> QED BY <1>1, <2>1, <2>2
<1>3. CASE c.st = "OPENDIR"
  <2>1. CASE ret # "ok"
    <3>1. x = Finish(c, "fail")
      BY <1>3, <2>1 DEF LsReturn
    <3> QED BY <1>1, <3>1
  <2>2. CASE ret = "ok"
    <3>1. x = Goto([c EXCEPT !.handle = arg], "READDIR")
      BY <1>3, <2>2 DEF LsReturn
    <3>2. Same(c, x) /\ x.st = "READDIR" /\ x.error = c.error /\ x.handle = arg
      BY <3>1 DEF Goto, ClientFields, Same
    <3>3. r.type = "HANDLE" /\ arg = r.arg /\ c.names = <<>>
          /\ \E h \in s.dirList : h.id = r.arg /\ h.rest = Existing(remote) /\ ~h.isEof
      BY <1>0, <1>3, <2>2 DEF Listing, Returns, GetHandle, Payload
    <3>4. PICK h \in s.dirList : h.id = arg /\ h.rest = Existing(remote) /\ ~h.isEof
      BY <3>3
    <3>5. Apart(x.names, h.rest, remote)
      BY <3>2, <3>3, <3>4, ApartNothing DEF Same
    <3>6. TypedClient(x)
      BY <1>3, <3>2 DEF Same, TypedClient
    <3> HIDE DEF arg
    <3>7. Listing(x, remote, s.dirList, FALSE, 0)
      BY <1>0, <3>2, <3>4, <3>5 DEF Same, Listing
    <3> QED BY <1>0, <3>2, <3>6, <3>7 DEF Same, Goes, Getting, Putting, Ended, Busy
  <2> QED BY <2>1, <2>2
<1>4. CASE c.st = "READDIR"
  <2>0. PICK h \in s.dirList :
          /\ h.id = c.handle /\ (h.isEof => h.rest = {})
          /\ IF r.type = "NAME"
             THEN /\ r.arg \in SUBSET Remotes /\ r.arg \cap h.rest = {}
                  /\ Apart(c.names, r.arg \cup h.rest, remote)
             ELSE Apart(c.names, {}, remote)
    BY <1>0, <1>4 DEF Listing
  <2>1. (ret = "ok" <=> r.type = "NAME") /\ arg = r.arg
    BY <1>4 DEF Returns, DoName, Payload
  <2>2. CASE ret # "ok"
    <3>1. x = Goto(c, "CLOSE")
      BY <1>4, <2>2 DEF LsReturn
    <3>2. Same(c, x) /\ x.st = "CLOSE" /\ x.error = c.error
      BY <3>1 DEF Goto, ClientFields, Same
    <3>3. TypedClient(x)
      BY <1>4, <3>2 DEF Same, TypedClient
    <3>4. Apart(x.names, {}, remote)
      BY <2>0, <2>1, <2>2, <3>2 DEF Same
    <3> QED BY <1>0, <3>2, <3>3, <3>4 DEF Same, Goes, Getting, Putting, Listing, Ended, Busy
  <2>3. CASE ret = "ok"
    <3> DEFINE new == Append(c.names, arg)
    <3>1. x = Goto([c EXCEPT !.names = Append(@, arg)], "READDIR")
      BY <1>4, <2>3 DEF LsReturn
    <3>2. /\ x.call = c.call /\ x.ofst = c.ofst /\ x.stale = c.stale /\ x.cut = c.cut /\ x.files = c.files
          /\ x.table = c.table /\ x.sftpInt = c.sftpInt /\ x.names = new
          /\ x.st = "READDIR" /\ x.error = c.error /\ x.handle = c.handle
      BY <3>1 DEF Goto, ClientFields
    <3>3. new \in Seq(SUBSET Remotes) /\ Apart(new, h.rest, remote)
      BY <1>0, <2>0, <2>1, <2>3, ApartAppend
    <3> HIDE DEF new
    <3>4. TypedClient(x)
      BY <1>4, <3>2 DEF TypedClient
    <3>5. Listing(x, remote, s.dirList, FALSE, 0)
      BY <2>0, <3>2, <3>3 DEF Listing
    <3> QED BY <1>0, <3>2, <3>4, <3>5 DEF Goes, Getting, Putting, Ended, Busy
  <2> QED BY <2>2, <2>3
<1>5. CASE c.st = "CLOSE"
  <2>1. x = Finish(c, IF ret = "ok" THEN "ok" ELSE "fail")
    BY <1>5 DEF LsReturn
  <2>2. Same(c, x) /\ x.st = "idle" /\ x.error = FALSE
    BY <2>1 DEF Finish, ClientFields, Same
  <2>3. Apart(x.names, {}, remote)
    BY <1>0, <1>5, <2>2 DEF Listing, Same
  <2>4. TypedClient(x)
    BY <2>2 DEF TypedClient, Same
  <2> QED BY <1>0, <2>2, <2>3, <2>4 DEF Same, Goes, Getting, Putting, Listing, Ended, Busy, Did
<1> QED BY <1>2, <1>3, <1>4, <1>5 DEF StatesOf

(* The other calls move neither files nor offsets of their own.            *)
LEMMA OtherReturns ==
    ASSUME NEW c, Control(c), c.phase \in {"build", "send", "header", "body"},
           c.call.op \notin {"get", "put", "ls"}, NEW ret, NEW arg, NEW x \in Return(c, ret, arg)
    PROVE  Same(c, x) /\ (x.error = FALSE \/ (x.error = c.error /\ c.st # "CLOSE"))
<1>1. /\ DOMAIN c = ClientFields /\ c.call.op \in AllOps /\ c.st \in StatesOf(c.call.op)
  BY DEF Control
<1>2. CASE c.call.op = "open"
  <2>1. x = Finish([c EXCEPT !.held = @ \cup {arg}], "ok") \/ x = Finish(c, "fail")
    BY <1>2 DEF Return, OpenReturn
  <2> QED BY <1>1, <2>1 DEF Finish, ClientFields, Same
<1>3. CASE c.call.op = "close"
  <2>1. x = Finish([c EXCEPT !.held = @ \ {c.handle}], Result(ret))
    BY <1>3 DEF Return, CloseReturn
  <2> QED BY <1>1, <2>1 DEF Finish, ClientFields, Same
<1>4. CASE c.call.op \in Plain
  <2>1. PICK r, st : x = Finish(c, r) \/ x = Goto(c, st)
    BY <1>1, <1>4, PlainMoves
  <2>2. c.st # "CLOSE"
    BY <1>1, <1>4 DEF StatesOf, Plain
  <2> QED BY <1>1, <2>1, <2>2 DEF Finish, Goto, ClientFields, Same
<1> QED BY <1>1, <1>2, <1>3, <1>4 DEF AllOps, Plain

LEMMA OtherFaith ==
    ASSUME NEW c, Control(c), c.phase \in {"build", "send", "header", "body"},
           c.call.op \notin {"get", "put", "ls"}, TypedClient(c), NEW ret, NEW arg, NEW x \in Return(c, ret, arg)
    PROVE  TypedClient(x) /\ Ended(x, remote) /\ \A s : Kept(c.table) => Goes(x, remote, s, FALSE, 0)
<1>1. Same(c, x) /\ (x.error = FALSE \/ (x.error = c.error /\ c.st # "CLOSE"))
  BY OtherReturns
<1>2. c.st # "CLOSE_LOCAL" /\ c.call.op \in AllOps
  BY DEF Control, LocalStates
<1>3. x.error = FALSE
  BY <1>1, <1>2 DEF TypedClient
<1>4. TypedClient(x)
  BY <1>1, <1>3 DEF TypedClient, Same
<1>5. x.call.op \notin {"get", "put", "ls"}
  BY <1>1 DEF Same
<1> QED BY <1>1, <1>4, <1>5 DEF Same, Goes, Getting, Putting, Listing, Ended, Did

----------------------------------------------------------------------------
(* FaithInv over the steps.                                                *)

LEMMA FlagNow ==
    /\ ~Answering => (Goes(client, remote, server, Answering, Answer) <=> Goes(client, remote, server, FALSE, 0))
    /\ Answering => (Goes(client, remote, server, Answering, Answer) <=> Goes(client, remote, server, TRUE, Answer))
<1>1. CASE ~Answering
  BY <1>1 DEF Goes, Getting, Putting, Listing
<1>2. CASE Answering
  BY <1>2 DEF Goes, Getting, Putting, Listing
<1> QED BY <1>1, <1>2

LEMMA FlagAfter ==
    /\ ~Answering' => (Goes(client, remote, server, Answering, Answer)' <=> Goes(client', remote', server', FALSE, 0))
    /\ Answering' => (Goes(client, remote, server, Answering, Answer)' <=> Goes(client', remote', server', TRUE, Answer'))
<1>1. CASE ~Answering'
  BY <1>1 DEF Goes, Getting, Putting, Listing
<1>2. CASE Answering'
  BY <1>2 DEF Goes, Getting, Putting, Listing
<1> QED BY <1>1, <1>2

(* Steps that move nothing of the call.                                    *)
LEMMA AlikeData ==
    ASSUME NEW c, NEW x, NEW f, Alike(c, x)
    PROVE  Source(x, f) = Source(c, f) /\ Target(x, f) = Target(c, f) /\ (Sound(x, f) <=> Sound(c, f))
BY DEF Alike, Source, Target, Sound

LEMMA AlikeGoes ==
    ASSUME NEW c, NEW x, NEW f, NEW s, NEW t, Alike(c, x), SameTables(s, t), TypedClient(c)
    PROVE  /\ TypedClient(x) /\ (Ended(c, f) => Ended(x, f))
           /\ Goes(c, f, s, FALSE, 0) => Goes(x, f, t, FALSE, 0)
           /\ \A r : Goes(c, f, s, TRUE, r) => Goes(x, f, t, TRUE, r)
<1>0. /\ Source(x, f) = Source(c, f) /\ Target(x, f) = Target(c, f) /\ (Sound(x, f) <=> Sound(c, f))
      /\ t.fileList = s.fileList /\ t.dirList = s.dirList
  BY AlikeData DEF SameTables
<1>1. TypedClient(x)
  BY DEF Alike, TypedClient
<1>2. Ended(c, f) => Ended(x, f)
  BY <1>0 DEF Alike, Ended, Busy, Did
<1> DEFINE F == s.fileList
           D == s.dirList
<1>3. \A r : /\ Getting(c, f, F, FALSE, r) => Getting(x, f, F, FALSE, r)
             /\ Getting(c, f, F, TRUE, r) => Getting(x, f, F, TRUE, r)
  BY <1>0 DEF Alike, Getting
<1>4. \A r : /\ Putting(c, f, F, FALSE, r) => Putting(x, f, F, FALSE, r)
             /\ Putting(c, f, F, TRUE, r) => Putting(x, f, F, TRUE, r)
  BY <1>0 DEF Alike, Putting
<1>5. \A r : /\ Listing(c, f, D, FALSE, r) => Listing(x, f, D, FALSE, r)
             /\ Listing(c, f, D, TRUE, r) => Listing(x, f, D, TRUE, r)
  BY DEF Alike, Listing
<1>6. Kept(c.table) => Kept(x.table)
  BY DEF Alike
<1> QED BY <1>0, <1>1, <1>2, <1>3, <1>4, <1>5, <1>6 DEF Goes

LEMMA FaithSame ==
    ASSUME FaithInv, used'.dead = used.dead, remote' = remote, Alike(client, client'),
           SameTables(server, server'),
           ~Dead => \/ ~Answering /\ ~Answering'
                    \/ Answering /\ Answering' /\ Answer' = Answer
    PROVE  FaithInv'
<1>1. TypedClient(client) /\ TypedRemote(remote) /\ Ended(client, remote)
  BY DEF FaithInv
<1>2. TypedClient(client') /\ Ended(client', remote)
  BY <1>1, AlikeGoes
<1>3. ASSUME ~Dead
      PROVE  Goes(client, remote, server, Answering, Answer)'
  <2>1. Goes(client, remote, server, Answering, Answer)
    BY <1>3 DEF FaithInv
  <2>2. CASE ~Answering /\ ~Answering'
    <3>1. Goes(client, remote, server, FALSE, 0)
      BY <2>1, <2>2, FlagNow
    <3>2. Goes(client', remote, server', FALSE, 0)
      BY <1>1, <3>1, AlikeGoes
    <3> QED BY <2>2, <3>2, FlagAfter
  <2>3. CASE Answering /\ Answering' /\ Answer' = Answer
    <3>1. Goes(client, remote, server, TRUE, Answer)
      BY <2>1, <2>3, FlagNow
    <3>2. Goes(client', remote, server', TRUE, Answer)
      BY <1>1, <3>1, AlikeGoes
    <3> QED BY <2>3, <3>2, FlagAfter
  <2> QED BY <1>3, <2>2, <2>3
<1> QED BY <1>1, <1>2, <1>3 DEF FaithInv, Dead

LEMMA AlikeSelf == ASSUME NEW c PROVE Alike(c, c)
BY DEF Alike

LEMMA ClientFaith ==
    TalkInv /\ FaithInv /\ (Connect \/ ClientRecvInit \/ SetHeader \/ SendPacketType) => FaithInv'
BY ClientStage, FaithSame DEF SameTables

LEMMA InterruptFaith == TalkInv /\ FaithInv /\ Interrupt => FaithInv'
BY InterruptStage, FaithSame DEF SameTables

LEMMA ServerFaith ==
    TalkInv /\ FaithInv /\ (ServerRecvInit \/ ServerSendInit \/ RecvHeader) => FaithInv'
<1> SUFFICES ASSUME TalkInv, FaithInv, ServerRecvInit \/ ServerSendInit \/ RecvHeader
             PROVE  FaithInv'
  OBVIOUS
<1>1. UNCHANGED <<client, remote, used>> /\ ~Answering /\ ~Answering' /\ SameTables(server, server')
  BY ServerStage
<1>2. Alike(client, client')
  BY <1>1, AlikeSelf
<1> QED BY <1>1, <1>2, FaithSame

LEMMA GetHeaderFaith == TalkInv /\ FaithInv /\ GetHeader => FaithInv'
<1> SUFFICES ASSUME TalkInv, FaithInv, GetHeader PROVE FaithInv'
  OBVIOUS
<1>1. /\ ~Dead /\ Answering /\ Answering' /\ Answer' = Answer
      /\ client' = [client EXCEPT !.reqId = @ + 1, !.phase = "body", !.hdr = Answer]
  BY HeaderStage
<1>2. Alike(client, client') /\ UNCHANGED <<server, remote, used>>
  BY <1>1 DEF TalkInv, Control, ClientFields, GetHeader, Alike
<1> QED BY <1>1, <1>2, FaithSame DEF SameTables

LEMMA RecvSendFaith == TalkInv /\ FaithInv /\ RecvSend => FaithInv'
<1> SUFFICES ASSUME TalkInv, FaithInv, RecvSend PROVE FaithInv'
  OBVIOUS
<1>1. /\ ~Dead /\ Answering /\ Answering' /\ Answer' = Answer /\ SameTables(server, server')
      /\ UNCHANGED <<client, remote, used>>
  BY SendingStage
<1>2. Alike(client, client')
  BY <1>1, AlikeSelf
<1> QED BY <1>1, <1>2, FaithSame

LEMMA EndFaith == TalkInv /\ FaithInv /\ (ServerFree \/ Drop) => FaithInv'
<1> SUFFICES ASSUME TalkInv, FaithInv, ServerFree \/ Drop PROVE FaithInv'
  OBVIOUS
<1>1. UNCHANGED <<client, remote>> /\ used'.dead
  BY DEF Drop, ServerFree, TalkInv, Dead
<1>2. TypedClient(client)' /\ TypedRemote(remote)' /\ Ended(client, remote)'
  BY <1>1 DEF FaithInv
<1> QED BY <1>1, <1>2 DEF FaithInv, Dead

LEMMA InitFaith == Init => FaithInv
<1> SUFFICES ASSUME Init PROVE FaithInv
  OBVIOUS
<1>1. /\ client.files = StartLocal /\ client.ofst = 0 /\ client.error = FALSE /\ client.cut = FALSE
      /\ client.stale = FALSE /\ client.sftpInt = FALSE /\ client.table = [i \in 1 .. OfstSlots |-> NoOfst]
      /\ client.call = NoCall /\ client.st = "idle" /\ client.result = "none" /\ remote = StartRemote
  BY DEF Init
<1>2. NoOfst.offset = 0 /\ NoCall.op = "none"
  BY DEF NoOfst, NoCall
<1>3. \A i \in 1 .. OfstSlots : client.table[i] = NoOfst
  BY <1>1
<1>4. TypedClient(client)
  <2>1. DOMAIN client.table = 1 .. OfstSlots /\ \A i \in 1 .. OfstSlots : client.table[i].offset \in Nat
    BY <1>1, <1>2, <1>3
  <2>2. client.files \in [Locals -> Entries]
    BY <1>1, SftpAssumption
  <2>3. client.ofst \in Nat
    BY <1>1, SMT
  <2>5. /\ client.error \in BOOLEAN /\ client.cut \in BOOLEAN
        /\ client.stale \in BOOLEAN /\ client.sftpInt \in BOOLEAN
    BY <1>1, Zenon
  <2>4. ~client.error
    BY <1>1
  <2> QED BY <2>1, <2>2, <2>3, <2>4, <2>5, Zenon DEF TypedClient
<1>5. TypedRemote(remote)
  BY <1>1, SftpAssumption DEF TypedRemote
<1>6. Kept(client.table)
  BY <1>2, <1>3 DEF Kept
<1>7. Goes(client, remote, server, Answering, Answer)
  BY <1>1, <1>2, <1>6 DEF Goes, Getting, Putting, Listing
<1>8. Ended(client, remote)
  BY <1>1, <1>2 DEF Ended
<1> QED BY <1>4, <1>5, <1>7, <1>8 DEF FaithInv

LEMMA AppCallFaith == TalkInv /\ FaithInv /\ AppCall => FaithInv'
<1> SUFFICES ASSUME TalkInv, FaithInv, AppCall PROVE FaithInv'
  OBVIOUS
<1>1. /\ Control(client) /\ ~Dead /\ client.st = "idle"
      /\ UNCHANGED <<server, remote, up, down>>
  BY DEF TalkInv, AppCall, Busy
<1>2. PICK call \in Calls, h \in client.held \cup {0} :
        client' = Goto([client EXCEPT !.call = call, !.handle = h, !.ofst = 0,
                                      !.size = 0, !.names = <<>>, !.cut = FALSE, !.stale = FALSE,
                                      !.result = "none"], FirstState(call.op))
  BY DEF AppCall
<1>3. /\ client'.call = call /\ client'.st = FirstState(call.op) /\ client'.ofst = 0 /\ client'.names = <<>>
      /\ client'.cut = FALSE /\ client'.stale = FALSE /\ client'.files = client.files
      /\ client'.table = client.table /\ client'.error = client.error /\ client'.sftpInt = client.sftpInt
      /\ client'.phase = IF FirstState(call.op) \in LocalStates THEN "local" ELSE "build"
  BY <1>1, <1>2 DEF Control, Goto, ClientFields
<1>4. ~Answering'
  BY <1>3, AnsweringAfter
<1>5. call.op \in AllOps /\ FirstState(call.op) # "idle"
  BY CallNames, FirstStates
<1>6. /\ call.op = "get" => FirstState(call.op) = "STAT"
      /\ call.op = "put" => FirstState(call.op) = "LOOKUP"
      /\ call.op = "ls" => FirstState(call.op) = "REALPATH"
  BY DEF FirstState
<1>7. TypedClient(client) /\ TypedRemote(remote) /\ Kept(client.table) /\ client.error = FALSE
  BY <1>1 DEF FaithInv, TypedClient, Goes
<1>8. TypedClient(client')
  <2>1. /\ DOMAIN client.table = 1 .. OfstSlots /\ \A i \in 1 .. OfstSlots : client.table[i].offset \in Nat
        /\ client.files \in [Locals -> Entries] /\ client.sftpInt \in BOOLEAN
    BY <1>7 DEF TypedClient
  <2>2. /\ DOMAIN client'.table = 1 .. OfstSlots /\ \A i \in 1 .. OfstSlots : client'.table[i].offset \in Nat
        /\ client'.files \in [Locals -> Entries] /\ client'.sftpInt \in BOOLEAN
    BY <1>3, <2>1
  <2>3. client'.ofst \in Nat
    BY <1>3, SMT
  <2>5. client'.error \in BOOLEAN /\ client'.cut \in BOOLEAN /\ client'.stale \in BOOLEAN
    BY <1>3, <1>7, Zenon
  <2>4. ~client'.error
    BY <1>3, <1>7
  <2> QED BY <2>2, <2>3, <2>4, <2>5, Zenon DEF TypedClient
<1>9. Goes(client', remote, server, FALSE, 0)
  BY <1>3, <1>6, <1>7 DEF Goes, Getting, Putting, Listing
<1>10. Ended(client', remote)
  BY <1>3, <1>5, <1>6 DEF Ended, Busy
<1> QED BY <1>1, <1>4, <1>7, <1>8, <1>9, <1>10, FlagAfter DEF FaithInv

LEMMA WindowFullFaith ==
    ASSUME WindowFull \subseteq {"start"}
    PROVE  TalkInv /\ FaithInv /\ SendWindowFull => FaithInv'
<1> SUFFICES ASSUME TalkInv, FaithInv, SendWindowFull PROVE FaithInv'
  OBVIOUS
<1>1. /\ ~Dead /\ client.phase = "send" /\ Control(client) /\ client.st \in {"OPEN", "RENAME"}
      /\ client' = [WindowFullIn(client) EXCEPT !.out = <<>>]
      /\ UNCHANGED <<server, remote, up, down>> /\ used'.dead = used.dead
      /\ DOMAIN client = ClientFields
  BY DEF SendWindowFull, TalkInv, Control
<1>2. TypedClient(client) /\ TypedRemote(remote) /\ Kept(client.table)
  BY <1>1 DEF FaithInv, Goes
<1>3. ~Answering
  BY <1>1, AnsweringFacts
<1>4. CASE client.st = "OPEN" /\ client.call.op = "put"
  <2>1. WindowFullIn(client) = Goto([client EXCEPT !.handle = 0, !.error = TRUE], "CLOSE_LOCAL")
    BY <1>4 DEF WindowFullIn
  <2>2. Same(client, client') /\ client'.st = "CLOSE_LOCAL" /\ client'.phase = "local" /\ client'.error = TRUE
    BY <1>1, <2>1 DEF Goto, ClientFields, LocalStates, Same
  <2>3. ~Answering'
    BY <2>2, AnsweringAfter
  <2>4. TypedClient(client')
    BY <1>2, <2>2 DEF TypedClient, Same
  <2>5. Goes(client', remote, server, FALSE, 0) /\ Ended(client', remote)
    BY <1>2, <1>4, <2>2 DEF Goes, Getting, Putting, Listing, Ended, Same, Busy
  <2> QED BY <1>1, <1>2, <2>3, <2>4, <2>5, FlagAfter DEF FaithInv, Dead
<1>5. CASE client.st = "OPEN" /\ client.call.op # "put"
  <2>1. WindowFullIn(client) = Goto(client, "OPEN")
    BY <1>5 DEF WindowFullIn
  <2>2. Alike(client, client') /\ client'.phase = "build"
    BY <1>1, <1>5, <2>1 DEF Goto, ClientFields, LocalStates, Alike
  <2>3. ~Answering'
    BY <2>2, AnsweringAfter
  <2> QED BY <1>1, <1>3, <2>2, <2>3, FaithSame DEF SameTables
<1>6. CASE client.st = "RENAME"
  <2>1. WindowFullIn(client) = Finish(client, "fail")
    BY <1>6 DEF WindowFullIn
  <2>2. Same(client, client') /\ client'.st = "idle" /\ client'.phase = "idle" /\ client'.error = FALSE
        /\ client'.result = "fail"
    BY <1>1, <2>1 DEF Finish, ClientFields, Same
  <2>3. ~Answering'
    BY <2>2, AnsweringAfter
  <2>4. TypedClient(client')
    BY <1>2, <2>2 DEF TypedClient, Same
  <2>5. client'.call.op \notin {"get", "put", "ls"}
    BY <1>1, <1>6, <2>2 DEF Control, StatesOf, Same
  <2>6. Goes(client', remote, server, FALSE, 0) /\ Ended(client', remote)
    BY <1>2, <2>2, <2>5 DEF Goes, Getting, Putting, Listing, Ended, Same, Busy
  <2> QED BY <1>1, <1>2, <2>3, <2>4, <2>6, FlagAfter DEF FaithInv, Dead
<1> QED BY <1>1, <1>4, <1>5, <1>6

LEMMA ReturnFaith ==
    ASSUME NEW c, Control(c), c.phase = "body", NEW s, NEW r,
           Replied(c, s, r), NEW x \in Return(c, Returns(c.st, r), Payload(c.st, r))
    PROVE  Lasts(x, s)
<1>1. /\ DOMAIN c = ClientFields /\ c.call.op \in AllOps /\ c.st \in StatesOf(c.call.op) /\ NamesOf(c.call)
      /\ c.st \notin LocalStates
  <2>1. /\ DOMAIN c = ClientFields /\ c.call.op \in AllOps /\ c.st \in StatesOf(c.call.op)
        /\ c.st \notin LocalStates /\ (c.call = NoCall \/ NamesOf(c.call))
    BY DEF Control
  <2>2. c.call # NoCall
    BY <2>1 DEF AllOps, NoCall
  <2> QED BY <2>1, <2>2
<1>2. CASE c.call.op = "get"
  <2>1. x \in GetReturn(c, Returns(c.st, r), Payload(c.st, r)) /\ c.st \in {"STAT", "OPEN", "READ", "CLOSE"}
    BY <1>1, <1>2 DEF Return, StatesOf, LocalStates
  <2> QED BY <1>1, <1>2, <2>1, GetFaith
<1>3. CASE c.call.op = "put"
  <2>1. x \in PutReturn(c, Returns(c.st, r), Payload(c.st, r)) /\ c.st \in {"STAT", "OPEN", "WRITE", "CLOSE"}
    BY <1>1, <1>3 DEF Return, StatesOf, LocalStates
  <2> QED BY <1>1, <1>3, <2>1, PutFaith
<1>4. CASE c.call.op = "ls"
  <2>1. x = LsReturn(c, Returns(c.st, r), Payload(c.st, r))
    BY <1>4 DEF Return
  <2> QED BY <1>1, <1>4, <2>1, LsFaith DEF Replied
<1>5. CASE c.call.op \notin {"get", "put", "ls"}
  <2>1. Kept(c.table)
    BY DEF Goes, Replied
  <2> QED BY <1>5, <2>1, OtherFaith DEF Lasts, Replied
<1> QED BY <1>2, <1>3, <1>4, <1>5

LEMMA ReadBodyFaith == TalkInv /\ FaithInv /\ ReadBody => FaithInv'
<1> SUFFICES ASSUME TalkInv, FaithInv, ReadBody PROVE FaithInv'
  OBVIOUS
<1> DEFINE c == [client EXCEPT !.hdr = NoMessage]
           r == client.hdr
<1>1. /\ ~Dead /\ client.phase = "body" /\ Answering /\ Answer = r /\ ~Answering'
      /\ r.type \in Expected(client.st)
      /\ client' \in Return(c, Returns(client.st, r), Payload(client.st, r))
      /\ UNCHANGED <<server, remote, up, used>>
  BY BodyStage
<1>2. Control(client) /\ Control(c) /\ c.phase = "body" /\ Alike(client, c) /\ c.st = client.st
  BY <1>1 DEF TalkInv, Control, ClientFields, Alike
<1> HIDE DEF c
<1>3. TypedClient(client) /\ TypedRemote(remote) /\ Ended(client, remote) /\ Goes(client, remote, server, TRUE, r)
  BY <1>1, FlagNow DEF FaithInv
<1>4. SameTables(server, server)
  BY DEF SameTables
<1>5. TypedClient(c) /\ Ended(c, remote) /\ Goes(c, remote, server, TRUE, r)
  BY <1>2, <1>3, <1>4, AlikeGoes
<1> HIDE DEF r
<1>6. Replied(c, server, r)
  BY <1>1, <1>2, <1>3, <1>5 DEF Replied
<1>8. Lasts(client', server)
  BY <1>1, <1>2, <1>6, ReturnFaith
<1>7. TypedClient(client') /\ Goes(client', remote, server, FALSE, 0) /\ Ended(client', remote)
  BY <1>8 DEF Lasts
<1> QED BY <1>1, <1>3, <1>7, FlagAfter DEF FaithInv, Dead

(* On a lost connection a call fails, or has all it asked for.             *)
LEMMA FatalFaith ==
    ASSUME NEW c, Control(c), c.phase \in {"build", "send", "header", "body"}, TypedClient(c),
           NEW x \in Return(c, "fatal", 0)
    PROVE  TypedClient(x) /\ Ended(x, remote)
<1>1. /\ DOMAIN c = ClientFields /\ c.call.op \in AllOps /\ c.st \in StatesOf(c.call.op)
      /\ c.st \notin LocalStates
  BY DEF Control
<1>2. ASSUME Same(c, x), \/ x.st = "idle" /\ x.result = "fail" /\ x.error = FALSE
                         \/ x.st \in {"CLOSE", "CLOSE_LOCAL"} /\ x.error = TRUE
      PROVE  TypedClient(x) /\ Ended(x, remote)
  <2>1. TypedClient(x)
    BY <1>2 DEF Same, TypedClient
  <2> QED BY <1>2, <2>1 DEF Ended, Busy
<1>3. CASE c.call.op = "get"
  <2>0. x \in GetReturn(c, "fatal", 0)
    BY <1>3 DEF Return
  <2>1. CASE c.st \in {"STAT", "OPEN"}
    <3>1. x = Finish(c, "fail")
      BY <2>0, <2>1 DEF GetReturn
    <3>2. Same(c, x) /\ x.st = "idle" /\ x.result = "fail" /\ x.error = FALSE
      BY <1>1, <3>1 DEF Finish, ClientFields, Same
    <3> QED BY <1>2, <3>2
  <2>2. CASE c.st = "READ"
    <3>1. x = GetFails(c)
      BY <2>0, <2>2 DEF GetReturn
    <3>2. Same(c, x) /\ x.st = "CLOSE" /\ x.error = TRUE
      BY <1>1, <3>1 DEF GetFails, Goto, ClientFields, Same
    <3> QED BY <1>2, <3>2
  <2>3. CASE c.st = "CLOSE"
    <3>1. x = Goto([c EXCEPT !.error = @ \/ TRUE], "CLOSE_LOCAL")
      BY <2>0, <2>3 DEF GetReturn
    <3>2. Same(c, x) /\ x.st = "CLOSE_LOCAL" /\ x.error = TRUE
      BY <1>1, <3>1 DEF Goto, ClientFields, Same
    <3> QED BY <1>2, <3>2
  <2> QED BY <1>1, <1>3, <2>1, <2>2, <2>3 DEF StatesOf, LocalStates
<1>4. CASE c.call.op = "put"
  <2>0. x \in PutReturn(c, "fatal", 0)
    BY <1>4 DEF Return
  <2>1. CASE c.st = "STAT"
    <3>1. x = Finish([c EXCEPT !.table = Saved(c)], "fail")
      BY <2>0, <2>1 DEF PutReturn
    <3>2. /\ x.call = c.call /\ x.ofst = c.ofst /\ x.stale = c.stale /\ x.cut = c.cut /\ x.files = c.files
          /\ x.table = Saved(c) /\ x.sftpInt = c.sftpInt /\ x.st = "idle" /\ x.result = "fail" /\ x.error = FALSE
      BY <1>1, <3>1 DEF Finish, ClientFields
    <3>3. TypedTable(Saved(c))
      BY SavedKept
    <3>4. TypedClient(x)
      BY <3>2, <3>3 DEF TypedClient, TypedTable
    <3> QED BY <3>2, <3>4 DEF Ended
  <2>2. CASE c.st = "OPEN"
    <3>1. x = Goto([c EXCEPT !.handle = 0, !.error = TRUE], "CLOSE_LOCAL")
      BY <2>0, <2>2 DEF PutReturn
    <3>2. Same(c, x) /\ x.st = "CLOSE_LOCAL" /\ x.error = TRUE
      BY <1>1, <3>1 DEF Goto, ClientFields, Same
    <3> QED BY <1>2, <3>2
  <2>3. CASE c.st = "WRITE"
    <3> DEFINE e == [c EXCEPT !.error = TRUE]
    <3>1. x = PutLoopEnd(e)
      BY <2>0, <2>3 DEF PutReturn
    <3>2. /\ DOMAIN e = ClientFields /\ e.call = c.call /\ e.files = c.files /\ e.table = c.table /\ e.ofst = c.ofst
          /\ e.stale = c.stale /\ e.sftpInt = c.sftpInt /\ e.error = TRUE
      BY <1>1 DEF ClientFields
    <3> HIDE DEF e
    <3>3. Saved(e) = Saved(c)
      BY <3>2 DEF Saved, Snap
    <3>4. /\ x.call = c.call /\ x.st = "CLOSE_LOCAL" /\ x.ofst = c.ofst /\ x.stale = c.stale /\ x.files = c.files
          /\ x.cut = c.sftpInt /\ x.sftpInt = FALSE /\ x.error = TRUE
          /\ x.table = IF c.sftpInt THEN Saved(c) ELSE c.table
      BY <3>1, <3>2, <3>3 DEF PutLoopEnd, Goto, ClientFields
    <3>5. TypedTable(x.table)
      BY <3>4, SavedKept DEF TypedClient, TypedTable
    <3>6. TypedClient(x)
      BY <3>4, <3>5 DEF TypedClient, TypedTable
    <3> QED BY <1>4, <3>4, <3>6 DEF Ended, Busy
  <2>4. CASE c.st = "CLOSE"
    <3>1. x = Finish(c, "fail")
      BY <2>0, <2>4 DEF PutReturn
    <3>2. Same(c, x) /\ x.st = "idle" /\ x.result = "fail" /\ x.error = FALSE
      BY <1>1, <3>1 DEF Finish, ClientFields, Same
    <3> QED BY <1>2, <3>2
  <2> QED BY <1>1, <1>4, <2>1, <2>2, <2>3, <2>4 DEF StatesOf, LocalStates
<1>5. CASE c.call.op = "ls"
  <2>0. x = LsReturn(c, "fatal", 0)
    BY <1>5 DEF Return
  <2>1. CASE c.st # "READDIR"
    <3>1. x = Finish(c, "fail")
      BY <1>1, <1>5, <2>0, <2>1 DEF LsReturn, StatesOf
    <3>2. Same(c, x) /\ x.st = "idle" /\ x.result = "fail" /\ x.error = FALSE
      BY <1>1, <3>1 DEF Finish, ClientFields, Same
    <3> QED BY <1>2, <3>2
  <2>2. CASE c.st = "READDIR"
    <3>1. x = Goto(c, "CLOSE")
      BY <2>0, <2>2 DEF LsReturn
    <3>2. Same(c, x) /\ x.st = "CLOSE" /\ x.error = c.error
      BY <1>1, <3>1 DEF Goto, ClientFields, Same
    <3>3. TypedClient(x)
      BY <2>2, <3>2 DEF Same, TypedClient
    <3> QED BY <1>5, <3>2, <3>3 DEF Same, Ended, Busy
  <2> QED BY <2>1, <2>2
<1>6. CASE c.call.op \notin {"get", "put", "ls"}
  BY <1>6, OtherFaith
<1> QED BY <1>3, <1>4, <1>5, <1>6

LEMMA FailFaith == TalkInv /\ FaithInv /\ ConnectionFails => FaithInv'
<1> SUFFICES ASSUME TalkInv, FaithInv, ConnectionFails PROVE FaithInv'
  OBVIOUS
<1> DEFINE c == [client EXCEPT !.out = <<>>, !.hdr = NoMessage]
<1>1. /\ Dead /\ client.phase \in {"build", "send", "header", "body"} /\ Control(client)
      /\ UNCHANGED <<server, remote, up, down, used>> /\ client' \in Return(c, "fatal", 0)
  BY DEF ConnectionFails, ReturnWith, TalkInv
<1>2. Control(c) /\ c.phase = client.phase /\ Alike(client, c)
  BY <1>1 DEF Control, ClientFields, Alike
<1> HIDE DEF c
<1>3. TypedClient(client) /\ TypedRemote(remote)
  BY DEF FaithInv
<1>4. TypedClient(c)
  BY <1>2, <1>3 DEF Alike, TypedClient
<1>5. TypedClient(client') /\ Ended(client', remote)
  BY <1>1, <1>2, <1>4, FatalFaith
<1> QED BY <1>1, <1>3, <1>5 DEF FaithInv, Dead

(* The client's own steps: the offset kept for the call, the local file.   *)
Stays(c, x) ==
    /\ TypedClient(x) /\ Ended(x, remote)
    /\ \A s : Goes(c, remote, s, FALSE, 0) => Goes(x, remote, s, FALSE, 0)

(* A resumed transfer starts from the offset found, or afresh.             *)
Found(c, x, st) ==
    /\ x.call = c.call /\ x.handle = c.handle /\ x.cut = c.cut /\ x.files = c.files /\ x.error = c.error
    /\ x.names = c.names /\ x.sftpInt = c.sftpInt /\ x.st = st
    /\ \/ x.ofst = c.ofst /\ x.stale = c.stale /\ x.table = c.table
       \/ LET hit == GetOfst(c.table, c.call.from, c.call.to)
          IN  /\ x.table = hit.table /\ x.ofst \in {0, hit.entry.offset}
              /\ x.stale \in BOOLEAN /\ (x.stale <=> x.ofst > 0 /\ hit.entry.snap # Snap(c))

LEMMA FoundFaith ==
    ASSUME NEW c, NamesOf(c.call), c.call.op \in {"get", "put"}, c.st = "LOOKUP", TypedClient(c),
           NEW x, NEW st, Found(c, x, st),
           \/ c.call.op = "get" /\ st = "OPEN_LOCAL"
           \/ c.call.op = "put" /\ st \in {"STAT", "OPEN_LOCAL"}
    PROVE  Stays(c, x)
<1> DEFINE hit == GetOfst(c.table, c.call.from, c.call.to)
<1>0. /\ TypedTable(hit.table) /\ hit.entry.offset \in Nat
      /\ Kept(c.table) => Kept(hit.table)
      /\ Kept(c.table) /\ hit.entry.offset > 0 /\ hit.entry.snap = Snap(c) =>
                Begins(Target(c, remote), Source(c, remote), hit.entry.offset)
  BY FoundKept
<1>1. \/ x.ofst = c.ofst /\ x.stale = c.stale /\ x.table = c.table
      \/ /\ x.table = hit.table /\ x.ofst \in {0, hit.entry.offset}
         /\ x.stale \in BOOLEAN /\ (x.stale <=> x.ofst > 0 /\ hit.entry.snap # Snap(c))
  BY DEF Found
<1> HIDE DEF hit
<1>2. TypedTable(c.table) /\ c.ofst \in Nat /\ c.error = FALSE /\ c.stale \in BOOLEAN
  BY DEF TypedClient, TypedTable
<1>3. TypedTable(x.table) /\ x.ofst \in Nat /\ x.stale \in BOOLEAN /\ (Kept(c.table) => Kept(x.table))
  <2>1. CASE x.ofst = c.ofst /\ x.stale = c.stale /\ x.table = c.table
    BY <1>2, <2>1
  <2>2. CASE /\ x.table = hit.table /\ x.ofst \in {0, hit.entry.offset}
             /\ x.stale \in BOOLEAN /\ (x.stale <=> x.ofst > 0 /\ hit.entry.snap # Snap(c))
    <3>1. x.ofst \in Nat
      BY <1>0, <2>2
    <3> QED BY <1>0, <2>2, <3>1
  <2> QED BY <1>1, <2>1, <2>2
<1>4. TypedClient(x)
  <2>1. x.files \in [Locals -> Entries] /\ x.cut \in BOOLEAN /\ x.sftpInt \in BOOLEAN /\ x.error = FALSE
    BY <1>2 DEF Found, TypedClient
  <2> QED BY <1>3, <2>1 DEF TypedClient, TypedTable
<1>5. Source(x, remote) = Source(c, remote) /\ Target(x, remote) = Target(c, remote)
  BY DEF Found, Source, Target
<1>6. x.st = st /\ x.call = c.call
  BY DEF Found
<1>7. Ended(x, remote)
  BY <1>6 DEF Ended, Busy
<1>8. ASSUME NEW s, Goes(c, remote, s, FALSE, 0)
      PROVE  Goes(x, remote, s, FALSE, 0)
  <2>1. Kept(c.table) /\ c.ofst = 0 /\ ~c.stale /\ ~c.cut
    BY <1>8 DEF Goes, Getting, Putting
  <2>2. ~x.cut /\ x.handle = c.handle
    BY <2>1 DEF Found
  <2>3. x.ofst > 0 => Sound(x, remote)
    <3> SUFFICES ASSUME x.ofst > 0, ~x.stale PROVE Begins(Target(c, remote), Source(c, remote), x.ofst)
      BY <1>5 DEF Sound
    <3>1. x.ofst = hit.entry.offset /\ hit.entry.snap = Snap(c)
      BY <1>1, <2>1
    <3> QED BY <1>0, <2>1, <3>1
  <2>4. c.call.op = "get" => [id |-> c.handle, name |-> c.call.from] \in s.fileList
    BY <1>8 DEF Goes, Getting
  <2> QED BY <1>3, <1>6, <2>1, <2>2, <2>3, <2>4 DEF Goes, Getting, Putting, Listing
<1> QED BY <1>4, <1>7, <1>8 DEF Stays

LEMMA FoundSame ==
    ASSUME NEW c, DOMAIN c = ClientFields, NEW st, NEW x, x = Goto(c, st)
    PROVE  Found(c, x, st)
<1>1. /\ x.call = c.call /\ x.handle = c.handle /\ x.cut = c.cut /\ x.files = c.files /\ x.error = c.error
      /\ x.names = c.names /\ x.sftpInt = c.sftpInt /\ x.st = st
      /\ x.ofst = c.ofst /\ x.stale = c.stale /\ x.table = c.table
  BY DEF Goto, ClientFields
<1> QED BY <1>1 DEF Found

LEMMA FoundThere ==
    ASSUME NEW c, DOMAIN c = ClientFields, NEW st, NEW hit, hit = GetOfst(c.table, c.call.from, c.call.to),
           NEW n \in {0, hit.entry.offset}, NEW b \in BOOLEAN, b <=> n > 0 /\ hit.entry.snap # Snap(c),
           NEW x, x = Goto([c EXCEPT !.table = hit.table, !.ofst = n, !.stale = b], st)
    PROVE  Found(c, x, st)
<1> DEFINE t == hit.table
<1> HIDE DEF t
<1>1. x = Goto([c EXCEPT !.table = t, !.ofst = n, !.stale = b], st)
  BY DEF t
<1>2. /\ x.call = c.call /\ x.handle = c.handle /\ x.cut = c.cut /\ x.files = c.files /\ x.error = c.error
      /\ x.names = c.names /\ x.sftpInt = c.sftpInt /\ x.st = st
      /\ x.table = t /\ x.ofst = n /\ x.stale = b
  BY <1>1 DEF Goto, ClientFields
<1>3. /\ x.table = hit.table /\ x.ofst \in {0, hit.entry.offset}
      /\ x.stale \in BOOLEAN /\ (x.stale <=> x.ofst > 0 /\ hit.entry.snap # Snap(c))
  BY <1>2 DEF t
<1> QED BY <1>2, <1>3 DEF Found

LEMMA LookupFaith ==
    ASSUME NEW c, DOMAIN c = ClientFields, NamesOf(c.call), c.call.op \in {"get", "put"}, c.st = "LOOKUP",
           TypedClient(c), NEW x \in IF c.call.op = "get" THEN GetLocal(c) ELSE PutLocal(c)
    PROVE  Stays(c, x)
<1> DEFINE hit == GetOfst(c.table, c.call.from, c.call.to)
<1>0. hit.entry.offset \in Nat
  BY FoundKept
<1> DEFINE g == IF c.size <= hit.entry.offset \/ Len(c.files[c.call.to].data) # hit.entry.offset
                THEN 0 ELSE hit.entry.offset
           p == IF Len(c.files[c.call.from].data) <= hit.entry.offset THEN 0 ELSE hit.entry.offset
           gs == g > 0 /\ hit.entry.snap # Snap(c)
           ps == p > 0 /\ hit.entry.snap # Snap(c)
<1>3. g \in {0, hit.entry.offset} /\ p \in {0, hit.entry.offset} /\ gs \in BOOLEAN /\ ps \in BOOLEAN
  OBVIOUS
<1>4. CASE c.call.op = "get"
  <2>1. x = Goto(GetOffset(c), "OPEN_LOCAL")
    BY <1>4 DEF GetLocal
  <2>2. GetOffset(c) = c \/ GetOffset(c) = [c EXCEPT !.table = hit.table, !.ofst = g, !.stale = gs]
    BY DEF GetOffset
  <2>3. Found(c, x, "OPEN_LOCAL")
    <3>1. CASE GetOffset(c) = c
      BY <2>1, <3>1, FoundSame
    <3>2. CASE GetOffset(c) = [c EXCEPT !.table = hit.table, !.ofst = g, !.stale = gs]
      <4>1. x = Goto([c EXCEPT !.table = hit.table, !.ofst = g, !.stale = gs], "OPEN_LOCAL")
        BY <2>1, <3>2
      <4>2. hit = GetOfst(c.table, c.call.from, c.call.to) /\ (gs <=> g > 0 /\ hit.entry.snap # Snap(c))
        OBVIOUS
      <4> HIDE DEF hit, g, gs
      <4> QED BY <1>3, <4>1, <4>2, FoundThere
    <3> QED BY <2>2, <3>1, <3>2
  <2> QED BY <1>4, <2>3, FoundFaith
<1>5. CASE c.call.op = "put"
  <2>1. PICK st \in {"STAT", "OPEN_LOCAL"} : x = Goto(PutOffset(c), st)
    BY <1>5 DEF PutLocal
  <2>2. PutOffset(c) = c \/ PutOffset(c) = [c EXCEPT !.table = hit.table, !.ofst = p, !.stale = ps]
    BY DEF PutOffset
  <2>3. Found(c, x, st)
    <3>1. CASE PutOffset(c) = c
      BY <2>1, <3>1, FoundSame
    <3>2. CASE PutOffset(c) = [c EXCEPT !.table = hit.table, !.ofst = p, !.stale = ps]
      <4>1. x = Goto([c EXCEPT !.table = hit.table, !.ofst = p, !.stale = ps], st)
        BY <2>1, <3>2
      <4>2. hit = GetOfst(c.table, c.call.from, c.call.to) /\ (ps <=> p > 0 /\ hit.entry.snap # Snap(c))
        OBVIOUS
      <4> HIDE DEF hit, p, ps
      <4> QED BY <1>3, <4>1, <4>2, FoundThere
    <3> QED BY <2>2, <3>1, <3>2
  <2> QED BY <1>5, <2>3, FoundFaith
<1> QED BY <1>4, <1>5

LEMMA GetOpenFaith ==
    ASSUME NEW c, DOMAIN c = ClientFields, NamesOf(c.call), c.call.op = "get", c.st = "OPEN_LOCAL",
           TypedClient(c), TypedRemote(remote), NEW x \in GetOpenLocal(c)
    PROVE  Stays(c, x)
<1> DEFINE to == c.call.to
           e == IF c.ofst > 0 THEN c.files[to] ELSE File(<<>>)
           d == [c EXCEPT !.fl = TRUE, !.files[to] = e]
<1>1. x = Goto(d, "READ") \/ x = Goto([c EXCEPT !.error = TRUE, !.faults = @ + 1], "CLOSE")
  BY DEF GetOpenLocal
<1>2. CASE x = Goto([c EXCEPT !.error = TRUE, !.faults = @ + 1], "CLOSE")
  <2>1. Same(c, x) /\ x.st = "CLOSE" /\ x.error = TRUE
    BY <1>2 DEF Goto, ClientFields, Same
  <2>2. TypedClient(x)
    BY <2>1 DEF TypedClient, Same
  <2> QED BY <2>1, <2>2 DEF Stays, Goes, Getting, Putting, Listing, Ended, Busy, Same
<1>3. CASE x = Goto(d, "READ")
  <2>1. to \in Locals /\ c.files \in [Locals -> Entries] /\ c.ofst \in Nat /\ c.error = FALSE
    BY DEF NamesOf, TypedClient
  <2>2. e \in Entries /\ (c.ofst > 0 => e = c.files[to]) /\ (c.ofst = 0 => e.data = <<>>)
    BY <2>1 DEF Entries, File
  <2> HIDE DEF e, to
  <2>3. /\ x.call = c.call /\ x.ofst = c.ofst /\ x.stale = c.stale /\ x.cut = c.cut /\ x.table = c.table
        /\ x.sftpInt = c.sftpInt /\ x.handle = c.handle /\ x.error = c.error /\ x.st = "READ"
        /\ x.files = [c.files EXCEPT ![to] = e]
    BY <1>3 DEF Goto, ClientFields
  <2>4. x.files \in [Locals -> Entries] /\ x.files[to] = e
    BY <2>1, <2>2, <2>3
  <2>5. TypedClient(x)
    <3>1. /\ DOMAIN c.table = 1 .. OfstSlots /\ \A i \in 1 .. OfstSlots : c.table[i].offset \in Nat
          /\ c.cut \in BOOLEAN /\ c.stale \in BOOLEAN /\ c.sftpInt \in BOOLEAN /\ c.ofst \in Nat
      BY DEF TypedClient
    <3> QED BY <2>1, <2>3, <2>4, <3>1 DEF TypedClient
  <2>6. Ended(x, remote)
    BY <2>3 DEF Ended, Busy
  <2>7. ASSUME NEW s, Goes(c, remote, s, FALSE, 0)
        PROVE  Goes(x, remote, s, FALSE, 0)
    <3>1. /\ Kept(c.table) /\ ~c.cut /\ [id |-> c.handle, name |-> c.call.from] \in s.fileList
          /\ c.ofst > 0 => Sound(c, remote)
      BY <2>7 DEF Goes, Getting
    <3>2. Source(x, remote) = Source(c, remote) /\ Target(x, remote) = e.data
          /\ Source(c, remote) \in Seq(Blocks) /\ c.files[to].data = Target(c, remote)
      BY <2>3, <2>4, DataTypes DEF Source, Target, to
    <3>3. Sound(x, remote)
      <4>1. CASE c.ofst > 0
        BY <2>2, <2>3, <3>1, <3>2, <4>1 DEF Sound
      <4>2. CASE c.ofst = 0
        BY <2>2, <2>3, <3>2, <4>2, BeginsEmpty DEF Sound
      <4> QED BY <2>1, <4>1, <4>2
    <3> QED BY <2>3, <3>1, <3>3 DEF Goes, Getting, Putting, Listing
  <2> QED BY <2>5, <2>6, <2>7 DEF Stays
<1> QED BY <1>1, <1>2, <1>3

LEMMA LocalFaith ==
    ASSUME NEW c, Control(c), c.phase = "local", TypedClient(c), TypedRemote(remote), Ended(c, remote),
           NEW x \in IF c.call.op = "get" THEN GetLocal(c) ELSE PutLocal(c)
    PROVE  Stays(c, x)
<1>1. /\ DOMAIN c = ClientFields /\ c.call.op \in AllOps /\ c.st \in StatesOf(c.call.op)
      /\ c.st \in LocalStates /\ (c.call = NoCall \/ NamesOf(c.call))
  BY DEF Control
<1>2. c.call.op \in {"get", "put"} /\ NamesOf(c.call)
  BY <1>1 DEF StatesOf, LocalStates, AllOps, NoCall
<1>3. CASE c.st = "LOOKUP"
  BY <1>1, <1>2, <1>3, LookupFaith
<1>4. ASSUME Same(c, x), x.st = "idle", x.result = "fail", x.error = FALSE
      PROVE  Stays(c, x)
  <2>1. TypedClient(x)
    BY <1>4 DEF Same, TypedClient
  <2> QED BY <1>2, <1>4, <2>1 DEF Stays, Same, Goes, Getting, Putting, Listing, Ended, Busy
<1>5. CASE c.st = "OPEN_LOCAL" /\ c.call.op = "get"
  <2>1. x \in GetOpenLocal(c)
    BY <1>5 DEF GetLocal
  <2> QED BY <1>1, <1>2, <1>5, <2>1, GetOpenFaith
<1>6. CASE c.st = "OPEN_LOCAL" /\ c.call.op = "put"
  <2>1. \/ x = Finish(c, "fail") \/ x = [Finish(c, "fail") EXCEPT !.faults = @ + 1]
        \/ x = Goto([c EXCEPT !.fl = TRUE], "OPEN")
    BY <1>6 DEF PutLocal
  <2>2. CASE x = Finish(c, "fail") \/ x = [Finish(c, "fail") EXCEPT !.faults = @ + 1]
    <3>1. Same(c, x) /\ x.st = "idle" /\ x.result = "fail" /\ x.error = FALSE
      BY <1>1, <2>2 DEF Finish, ClientFields, Same
    <3> QED BY <1>4, <3>1
  <2>3. CASE x = Goto([c EXCEPT !.fl = TRUE], "OPEN")
    <3>1. Same(c, x) /\ x.st = "OPEN" /\ x.error = c.error
      BY <1>1, <2>3 DEF Goto, ClientFields, Same
    <3>2. TypedClient(x)
      BY <1>6, <3>1 DEF Same, TypedClient
    <3>3. Sound(x, remote) <=> Sound(c, remote)
      BY <3>1, SameData
    <3>4. Ended(x, remote)
      BY <1>6, <3>1 DEF Ended, Busy, Same
    <3> QED BY <1>6, <3>1, <3>2, <3>3, <3>4 DEF Stays, Same, Goes, Getting, Putting, Listing
  <2> QED BY <2>1, <2>2, <2>3
<1>7. CASE c.st = "CLOSE_LOCAL" /\ c.call.op = "get"
  <2> DEFINE d == [c EXCEPT !.fl = FALSE]
  <2>1. \/ x = Finish(d, IF c.error THEN "fail" ELSE "ok")
        \/ x = [Finish(d, "fail") EXCEPT !.faults = @ + 1]
    BY <1>7 DEF GetLocal
  <2>2. Same(c, x) /\ x.st = "idle" /\ x.error = FALSE /\ (x.result = "fail" \/ ~c.error)
    BY <1>1, <2>1 DEF Finish, ClientFields, Same
  <2>3. Target(x, remote) = Target(c, remote) /\ Source(x, remote) = Source(c, remote)
    BY <2>2, SameData
  <2>4. x.result = "ok" /\ ~x.cut /\ ~x.stale => Target(x, remote) = Source(x, remote)
    BY <1>7, <2>2, <2>3 DEF Ended, Same
  <2>5. TypedClient(x)
    BY <2>2 DEF TypedClient, Same
  <2>6. Ended(x, remote)
    BY <1>7, <2>2, <2>4 DEF Same, Ended, Busy, Did
  <2> QED BY <1>7, <2>2, <2>5, <2>6 DEF Stays, Same, Goes, Getting, Putting, Listing
<1>8. CASE c.st = "CLOSE_LOCAL" /\ c.call.op = "put"
  <2> DEFINE d == [c EXCEPT !.fl = FALSE]
  <2>1. x = Goto(d, "CLOSE") \/ x = Finish(d, "fail")
    BY <1>8 DEF PutLocal
  <2>2. CASE x = Finish(d, "fail")
    <3>1. Same(c, x) /\ x.st = "idle" /\ x.result = "fail" /\ x.error = FALSE
      BY <1>1, <2>2 DEF Finish, ClientFields, Same
    <3> QED BY <1>4, <3>1
  <2>3. CASE x = Goto(d, "CLOSE")
    <3>1. Same(c, x) /\ x.st = "CLOSE" /\ x.error = c.error
      BY <1>1, <2>3 DEF Goto, ClientFields, Same
    <3>2. TypedClient(x)
      BY <3>1 DEF Same, TypedClient
    <3>3. Target(x, remote) = Target(c, remote) /\ Source(x, remote) = Source(c, remote)
      BY <3>1, SameData
    <3>4. Ended(x, remote)
      BY <1>8, <3>1 DEF Ended, Busy, Same
    <3> QED BY <1>8, <3>1, <3>2, <3>3, <3>4 DEF Stays, Same, Goes, Getting, Putting, Listing
  <2> QED BY <2>1, <2>2, <2>3
<1> QED BY <1>1, <1>2, <1>3, <1>5, <1>6, <1>7, <1>8 DEF LocalStates

LEMMA LocalStepFaith == TalkInv /\ FaithInv /\ LocalStep => FaithInv'
<1> SUFFICES ASSUME TalkInv, FaithInv, LocalStep PROVE FaithInv'
  OBVIOUS
<1>1. /\ Control(client) /\ client.phase = "local" /\ client.st # "idle"
      /\ UNCHANGED <<server, remote, up, down, used>>
      /\ client' \in IF client.call.op = "get" THEN GetLocal(client) ELSE PutLocal(client)
  BY DEF TalkInv, LocalStep, Control
<1>2. TypedClient(client) /\ TypedRemote(remote) /\ Ended(client, remote)
  BY DEF FaithInv
<1>3. Stays(client, client')
  BY <1>1, <1>2, LocalFaith
<1>4. client'.phase \in Quiet
  BY <1>1, TurnOfLocal, TurnedControl
<1>5. ~Answering /\ ~Answering'
  BY <1>1, <1>4, AnsweringFacts, AnsweringAfter DEF Quiet
<1>6. ~Dead => Goes(client', remote, server, FALSE, 0)
  BY <1>3, <1>5, FlagNow DEF FaithInv, Stays
<1> QED BY <1>1, <1>2, <1>3, <1>5, <1>6, FlagAfter DEF FaithInv, Dead, Stays

----------------------------------------------------------------------------
(* What the handlers make of the paths and of the open directories.        *)

LEMMA EntryTyped ==
    ASSUME NEW f, TypedRemote(f), NEW n, NEW e \in Entries, e.kind # "file" => e.data = <<>>
    PROVE  TypedRemote([f EXCEPT ![n] = e])
<1> DEFINE g == [f EXCEPT ![n] = e]
<1>1. f \in [Remotes -> Entries]
  BY DEF TypedRemote
<1>2. g \in [Remotes -> Entries] /\ \A q \in Remotes : g[q] = IF q = n THEN e ELSE f[q]
  BY <1>1
<1> HIDE DEF g
<1>3. TypedRemote(g)
  BY <1>2 DEF TypedRemote
<1> QED BY <1>3 DEF g

LEMMA PathsTyped ==
    ASSUME NEW s, NEW f, TypedRemote(f), NEW m, m.type \in {"MKDIR", "RMDIR", "REMOVE", "RENAME", "SETSTAT"},
           m.arg[1] \in Remotes, m.type = "SETSTAT" => m.arg[2] \in Nat, NEW o \in Handler(s, f, m)
    PROVE  TypedRemote(o.remote)
<1>1. None \in Entries /\ None.kind = "none" /\ None.data = <<>>
  BY DEF None, Entries
<1>2. Dir \in Entries /\ Dir.kind = "dir" /\ Dir.data = <<>>
  BY DEF Dir, Entries
<1>3. \A n \in Remotes : f[n] \in Entries /\ (f[n].kind # "file" => f[n].data = <<>>)
  BY DEF TypedRemote
<1> DEFINE n == m.arg[1]
<1>9. TypedRemote([f EXCEPT ![n] = Dir])
  BY <1>2, EntryTyped
<1>10. TypedRemote([f EXCEPT ![n] = None])
  BY <1>1, EntryTyped
<1>4. CASE m.type = "MKDIR"
  <2>1. o.remote = f \/ o.remote = [f EXCEPT ![n] = Dir]
    BY <1>4 DEF Handler, RecvMKDIR, SendStatus, FaultStatus, Outcome
  <2> QED BY <1>9, <2>1
<1>5. CASE m.type = "RMDIR"
  <2>1. o.remote = f \/ o.remote = [f EXCEPT ![n] = None]
    BY <1>5 DEF Handler, RecvRMDIR, SendStatus, FaultStatus, Outcome
  <2> QED BY <1>10, <2>1
<1>6. CASE m.type = "REMOVE"
  <2>1. o.remote = f \/ o.remote = [f EXCEPT ![n] = None]
    BY <1>6 DEF Handler, RecvRemove, SendStatus, FaultStatus, Outcome
  <2> QED BY <1>10, <2>1
<1>7. CASE m.type = "RENAME"
  <2> DEFINE g == [f EXCEPT ![n] = None]
             e == f[n]
  <2>1. o.remote = f \/ o.remote = RenameNoReplace(f, n, m.arg[2])
    BY <1>7 DEF Handler, RecvRename, SendStatus, FaultStatus, Outcome
  <2>2. RenameNoReplace(f, n, m.arg[2]) = f \/ RenameNoReplace(f, n, m.arg[2]) = [g EXCEPT ![m.arg[2]] = e]
    BY DEF RenameNoReplace
  <2>3. TypedRemote(g)
    BY <1>1, EntryTyped
  <2>4. e \in Entries /\ (e.kind # "file" => e.data = <<>>)
    BY <1>3
  <2> HIDE DEF g, e
  <2>5. TypedRemote([g EXCEPT ![m.arg[2]] = e])
    BY <2>3, <2>4, EntryTyped
  <2> QED BY <2>1, <2>2, <2>5
<1>8. CASE m.type = "SETSTAT"
  <2> DEFINE e == [f[n] EXCEPT !.mode = m.arg[2]]
  <2>1. o.remote = f \/ o.remote = [f EXCEPT ![n].mode = m.arg[2]]
    BY <1>8 DEF Handler, RecvSetSTAT, SetFileAttributes, SendStatus, FaultStatus, Outcome
  <2>2. e \in Entries /\ e.kind = f[n].kind /\ e.data = f[n].data
    BY <1>3, <1>8 DEF Entries
  <2>3. [f EXCEPT ![n].mode = m.arg[2]] = [f EXCEPT ![n] = e]
    OBVIOUS
  <2> HIDE DEF e
  <2>4. TypedRemote([f EXCEPT ![n] = e])
    BY <1>3, <2>2, EntryTyped
  <2> QED BY <2>1, <2>3, <2>4
<1> QED BY <1>4, <1>5, <1>6, <1>7, <1>8

LEMMA PathsKept ==
    ASSUME NEW s, NEW f, NEW m, m.type \in {"REALPATH", "STAT", "LSTAT", "READ"}, NEW o \in Handler(s, f, m)
    PROVE  o.remote = f
<1>1. CASE m.type = "REALPATH"
  BY <1>1 DEF Handler, RecvRealPath, Outcome
<1>2. CASE m.type \in {"STAT", "LSTAT"}
  BY <1>2 DEF Handler, RecvSTAT, RecvLSTAT, SendStatus, Outcome
<1>3. CASE m.type = "READ"
  BY <1>3 DEF Handler, RecvRead, SendStatus, FaultStatus, Outcome
<1> QED BY <1>1, <1>2, <1>3

(* A path that was opened is a file: an empty one if it was created or cut *)
(* to nothing, else as it was.                                             *)
LEMMA OpenPaths ==
    ASSUME NEW s, NEW f, TypedRemote(f), NEW n \in Remotes, NEW flags, NEW o \in RecvOpen(s, f, n, flags)
    PROVE  /\ TypedRemote(o.remote)
           /\ flags = {"READ"} => o.remote = f
           /\ o.reply.type = "HANDLE" =>
                /\ o.remote[n].kind = "file"
                /\ \/ o.remote[n].data = <<>> /\ (~Exists(f, n) \/ "TRUNC" \in flags)
                   \/ o.remote[n] = f[n] /\ Exists(f, n) /\ "TRUNC" \notin flags
<1> DEFINE e == IF ~Exists(f, n) \/ "TRUNC" \in flags THEN File(<<>>) ELSE f[n]
           opened == [f EXCEPT ![n] = e]
<1>1. f[n] \in Entries /\ (f[n].kind # "file" => f[n].data = <<>>) /\ f \in [Remotes -> Entries]
  BY DEF TypedRemote
<1>2. File(<<>>) \in Entries /\ File(<<>>).kind = "file" /\ File(<<>>).data = <<>>
  BY DEF File, Entries
<1>3. e \in Entries /\ (e.kind # "file" => e.data = <<>>)
  BY <1>1, <1>2
<1>4. \/ o.remote = f /\ o.reply.type = "STATUS"
      \/ o.remote = opened /\ f[n].kind # "dir" /\ (Exists(f, n) \/ "CREAT" \in flags)
         /\ o.reply.type \in {"STATUS", "HANDLE"}
  BY DEF RecvOpen, SendStatus, FaultStatus, Outcome
<1>5. /\ ~Exists(f, n) \/ "TRUNC" \in flags => e = File(<<>>)
      /\ Exists(f, n) /\ "TRUNC" \notin flags => e = f[n]
  OBVIOUS
<1> HIDE DEF e
<1>6. TypedRemote(opened) /\ opened[n] = e
  BY <1>1, <1>3, EntryTyped
<1>7. e = f[n] => opened = f
  BY <1>1
<1> HIDE DEF opened
<1>8. CASE o.remote = f /\ o.reply.type = "STATUS"
  BY <1>8
<1>9. CASE o.remote = opened /\ f[n].kind # "dir" /\ (Exists(f, n) \/ "CREAT" \in flags)
           /\ o.reply.type \in {"STATUS", "HANDLE"}
  <2>1. CASE ~Exists(f, n) \/ "TRUNC" \in flags
    BY <1>2, <1>5, <1>6, <1>9, <2>1
  <2>2. CASE Exists(f, n) /\ "TRUNC" \notin flags
    <3>1. e = f[n]
      BY <1>5, <2>2
    <3>2. f[n].kind = "file"
      BY <1>1, <1>9, <2>2 DEF Exists, Entries
    <3> QED BY <1>6, <1>7, <1>9, <2>2, <3>1, <3>2
  <2> QED BY <2>1, <2>2
<1> QED BY <1>4, <1>8, <1>9

(* The one open file with a handle's id.                                   *)
LEMMA OneFile ==
    ASSUME NEW s, Tables(s), NEW id, NEW n, [id |-> id, name |-> n] \in s.fileList
    PROVE  FileOf(s, id) # {} /\ (CHOOSE h \in FileOf(s, id) : TRUE).name = n
<1> DEFINE h == [id |-> id, name |-> n]
           H == FileOf(s, id)
           k == CHOOSE g \in H : TRUE
<1>1. h \in s.fileList /\ h.id = id /\ h.name = n
  OBVIOUS
<1> HIDE DEF h
<1>2. h \in H /\ \A g \in H : g = h
  BY <1>1 DEF FileOf, Tables
<1>3. k \in H
  BY <1>2
<1>4. k.name = n
  BY <1>1, <1>2, <1>3
<1> QED BY <1>2, <1>4

LEMMA ReadGives ==
    ASSUME NEW s, Tables(s), NEW f, NEW id, NEW n, [id |-> id, name |-> n] \in s.fileList, NEW off,
           NEW o \in RecvRead(s, f, id, off)
    PROVE  LET data == f[n].data
           IN  \/ /\ ~(off >= Len(data)) /\ o.reply.type = "DATA" /\ o.reply.arg = data[off + 1]
               \/ off >= Len(data) /\ o.reply.type = "STATUS" /\ o.reply.arg = "EOF"
               \/ o.reply.type = "STATUS" /\ o.reply.arg = "FAILURE"
<1> DEFINE data == f[n].data
           h == CHOOSE h \in FileOf(s, id) : TRUE
<1>1. FileOf(s, id) # {} /\ h.name = n
  BY OneFile
<1>2. f[h.name].data = data
  BY <1>1
<1>3. \/ off >= Len(f[h.name].data) /\ o = SendStatus(s, f, "EOF")
      \/ ~(off >= Len(f[h.name].data)) /\ o = Outcome(s, f, "DATA", f[h.name].data[off + 1], FALSE)
      \/ o = FaultStatus(s, f, "FAILURE")
  BY <1>1 DEF RecvRead
<1> HIDE DEF h, data
<1>4. \/ off >= Len(data) /\ o = SendStatus(s, f, "EOF")
      \/ ~(off >= Len(data)) /\ o = Outcome(s, f, "DATA", data[off + 1], FALSE)
      \/ o = FaultStatus(s, f, "FAILURE")
  BY <1>2, <1>3
<1>5. \/ /\ ~(off >= Len(data)) /\ o.reply.type = "DATA" /\ o.reply.arg = data[off + 1]
      \/ off >= Len(data) /\ o.reply.type = "STATUS" /\ o.reply.arg = "EOF"
      \/ o.reply.type = "STATUS" /\ o.reply.arg = "FAILURE"
  BY <1>4 DEF SendStatus, FaultStatus, Outcome
<1> QED BY <1>5 DEF data

LEMMA WriteGives ==
    ASSUME NEW s, Tables(s), NEW f, TypedRemote(f), NEW id, NEW n \in Remotes,
           [id |-> id, name |-> n] \in s.fileList, f[n].kind = "file", NEW off \in Nat, NEW b \in Blocks,
           NEW o \in RecvWrite(s, f, id, off, b)
    PROVE  /\ TypedRemote(o.remote)
           /\ \/ o.remote = f /\ o.reply.type = "STATUS" /\ o.reply.arg = "FAILURE"
              \/ /\ o.reply.type = "STATUS" /\ o.reply.arg = "OK" /\ o.remote[n].kind = "file"
                 /\ o.remote[n].data = PutBlock(f[n].data, off, b)
<1> DEFINE h == CHOOSE h \in FileOf(s, id) : TRUE
           d == PutBlock(f[n].data, off, b)
           e == [f[n] EXCEPT !.data = d]
<1>1. FileOf(s, id) # {} /\ h.name = n
  BY OneFile
<1>2. o = SendStatus(s, [f EXCEPT ![h.name].data = PutBlock(@, off, b)], "OK") \/ o = FaultStatus(s, f, "FAILURE")
  BY <1>1 DEF RecvWrite
<1> HIDE DEF h
<1>3. f \in [Remotes -> Entries] /\ f[n] \in Entries
  BY DEF TypedRemote
<1>4. d \in Seq(Blocks)
  BY <1>3, PutBlockType DEF Entries
<1>5. [f EXCEPT ![h.name].data = PutBlock(@, off, b)] = [f EXCEPT ![n] = e]
  BY <1>1
<1> HIDE DEF d
<1>6. e \in Entries /\ e.kind = "file" /\ e.data = d
  BY <1>3, <1>4 DEF Entries
<1> HIDE DEF e
<1>7. TypedRemote([f EXCEPT ![n] = e]) /\ [f EXCEPT ![n] = e][n] = e
  BY <1>3, <1>6, EntryTyped
<1>8. CASE o = FaultStatus(s, f, "FAILURE")
  BY <1>8 DEF FaultStatus, Outcome
<1>9. CASE o = SendStatus(s, [f EXCEPT ![h.name].data = PutBlock(@, off, b)], "OK")
  <2>1. o.remote = [f EXCEPT ![n] = e] /\ o.reply.type = "STATUS" /\ o.reply.arg = "OK"
    BY <1>5, <1>9 DEF SendStatus, Outcome
  <2> QED BY <1>6, <1>7, <2>1 DEF d
<1> QED BY <1>2, <1>8, <1>9

(* A reply to READDIR takes its names from what is left.                   *)
LEMMA ReadDirGives ==
    ASSUME NEW s, DOMAIN s = ServerFields, Tables(s), NEW f, NEW h \in s.dirList, h.isEof => h.rest = {},
           NEW o \in RecvReadDir(s, f, h.id)
    PROVE  \E g \in o.server.dirList, n \in SUBSET h.rest :
              /\ g.id = h.id /\ g.rest = h.rest \ n /\ (g.isEof => g.rest = {})
              /\ \/ o.reply.type = "STATUS" /\ h.rest = {}
                 \/ o.reply.type = "NAME" /\ o.reply.arg = n
<1> DEFINE hit == {g \in s.dirList : g.id = h.id}
           k == CHOOSE g \in hit : TRUE
           names(g) == IF Cardinality(g.rest) <= MaxReadDir THEN g.rest
                       ELSE CHOOSE b \in SUBSET g.rest : Cardinality(b) = MaxReadDir
           n == names(h)
           eof == h.isEof \/ Cardinality(n) < MaxReadDir
           g == [h EXCEPT !.rest = @ \ n, !.isEof = eof]
           d == [s EXCEPT !.dirList = (@ \ {h}) \cup {g}]
<1>1. h \in hit /\ \A j \in hit : j = h
  BY DEF Tables
<1>2. k = h /\ hit # {}
  BY <1>1
<1>3. o = IF h.isEof \/ n = {} THEN SendStatus(d, f, "EOF") ELSE Outcome(d, f, "NAME", n, FALSE)
  <2>1. o = IF k.isEof \/ names(k) = {}
            THEN SendStatus([s EXCEPT !.dirList = (@ \ {k}) \cup
                       {[k EXCEPT !.rest = @ \ names(k), !.isEof = k.isEof \/ Cardinality(names(k)) < MaxReadDir]}], f, "EOF")
            ELSE Outcome([s EXCEPT !.dirList = (@ \ {k}) \cup
                       {[k EXCEPT !.rest = @ \ names(k), !.isEof = k.isEof \/ Cardinality(names(k)) < MaxReadDir]}], f, "NAME", names(k), FALSE)
    BY <1>2 DEF RecvReadDir
  <2> HIDE DEF k, names
  <2> QED BY <1>2, <2>1
<1>4. h \in [id : 1 .. s.handleId, isEof : BOOLEAN, rest : SUBSET Remotes]
  BY DEF Tables
<1>5. IsFiniteSet(h.rest) /\ MaxReadDir \in Nat /\ MaxReadDir > 0
  BY <1>4, SftpAssumption, FS_Subset
<1>6. Cardinality(h.rest) \in Nat
  BY <1>5, FS_CardinalityType
<1>7. \/ n = h.rest
      \/ n \in SUBSET h.rest /\ Cardinality(n) = MaxReadDir
  <2>1. CASE Cardinality(h.rest) <= MaxReadDir
    BY <2>1
  <2>2. CASE ~(Cardinality(h.rest) <= MaxReadDir)
    <3>1. \E b \in SUBSET h.rest : Cardinality(b) = MaxReadDir
      BY <1>5, <1>6, <2>2, PartOfSize
    <3> QED BY <2>2, <3>1
  <2> QED BY <2>1, <2>2
<1> HIDE DEF names, n
<1>8. n = {} => h.rest = {}
  <2>1. Cardinality({}) = 0
    BY FS_EmptySet
  <2> QED BY <1>5, <1>7, <2>1
<1>9. eof \in BOOLEAN /\ (eof => h.rest \ n = {})
  BY <1>4, <1>5, <1>7
<1> HIDE DEF eof
<1>10. g.id = h.id /\ g.rest = h.rest \ n /\ g.isEof = eof
  BY <1>4
<1> HIDE DEF g
<1>11. g \in d.dirList
  BY DEF ServerFields
<1> HIDE DEF d
<1>12. /\ o.server = d
       /\ \/ o.reply.type = "STATUS" /\ h.rest = {}
          \/ o.reply.type = "NAME" /\ o.reply.arg = n
  <2>1. CASE h.isEof \/ n = {}
    BY <1>3, <1>8, <2>1 DEF SendStatus, Outcome
  <2>2. CASE ~(h.isEof \/ n = {})
    BY <1>3, <2>2 DEF Outcome
  <2> QED BY <2>1, <2>2
<1>13. n \in SUBSET h.rest
  BY <1>7
<1> QED BY <1>9, <1>10, <1>11, <1>12, <1>13

(* What the handler of a request leaves is sound for the reply it makes.   *)
Served(c, o) ==
    /\ TypedRemote(o.remote) /\ Ended(c, o.remote)
    /\ o.reply.type = "none" => Goes(c, o.remote, o.server, FALSE, 0)
    /\ \A r : o.reply.type # "none" /\ r.type = o.reply.type /\ r.arg = o.reply.arg =>
                 Goes(c, o.remote, o.server, TRUE, r)

Requested(c, s, f) ==
    /\ Control(c) /\ c.phase = "header" /\ TypedClient(c) /\ TypedRemote(f) /\ Ended(c, f)
    /\ Goes(c, f, s, FALSE, 0) /\ Tables(s) /\ DOMAIN s = ServerFields

LEMMA RequestedFacts ==
    ASSUME NEW c, NEW s, NEW f, Requested(c, s, f)
    PROVE  /\ DOMAIN c = ClientFields /\ c.call.op \in AllOps /\ c.st \in StatesOf(c.call.op) /\ NamesOf(c.call)
           /\ c.st \notin LocalStates /\ Busy(c)
<1>1. /\ DOMAIN c = ClientFields /\ c.call.op \in AllOps /\ c.st \in StatesOf(c.call.op)
      /\ c.st \notin LocalStates /\ (c.call = NoCall \/ NamesOf(c.call)) /\ c.st # "idle"
  BY DEF Control, Requested
<1>2. c.call # NoCall
  BY <1>1 DEF AllOps, NoCall
<1> QED BY <1>1, <1>2 DEF Busy

(* A call that is no transfer and no listing.                              *)
LEMMA OtherServed ==
    ASSUME NEW c, NEW s, NEW f, Requested(c, s, f), c.call.op \notin {"get", "put", "ls"},
           NEW o, TypedRemote(o.remote)
    PROVE  Served(c, o)
<1>1. Busy(c)
  BY RequestedFacts
<1> QED BY <1>1 DEF Served, Requested, Goes, Getting, Putting, Listing, Ended

LEMMA GetServed ==
    ASSUME NEW c, NEW s, NEW f, Requested(c, s, f), c.call.op = "get", NEW o,
           o.remote = f,
           \/ c.st \in {"STAT", "CLOSE"}
           \/ /\ c.st = "OPEN"
              /\ \/ o.reply.type = "STATUS" /\ o.reply.arg # "OK"
                 \/ o.reply.type = "HANDLE" /\ [id |-> o.reply.arg, name |-> c.call.from] \in o.server.fileList
           \/ /\ c.st = "READ" /\ o.server.fileList = s.fileList
              /\ \/ o.reply.type = "DATA" /\ c.ofst < Len(Source(c, f)) /\ o.reply.arg = Source(c, f)[c.ofst + 1]
                 \/ o.reply.type = "STATUS" /\ o.reply.arg = "EOF" /\ c.ofst >= Len(Source(c, f))
                 \/ o.reply.type = "STATUS" /\ o.reply.arg = "FAILURE"
    PROVE  Served(c, o)
<1>1. Getting(c, f, s.fileList, FALSE, 0) /\ Kept(c.table) /\ TypedRemote(f) /\ Ended(c, f)
  BY DEF Requested, Goes
<1>2. CASE c.st \in {"STAT", "CLOSE"}
  <2>1. \A L, r : Getting(c, f, L, FALSE, 0) /\ Getting(c, f, L, TRUE, r)
    BY <1>1, <1>2 DEF Getting
  <2> QED BY <1>1, <2>1 DEF Served, Goes, Putting, Listing
<1>3. CASE c.st = "OPEN"
  <2>1. \A r : r.type = o.reply.type /\ r.arg = o.reply.arg => Getting(c, f, o.server.fileList, TRUE, r)
    BY <1>1, <1>3 DEF Getting
  <2>2. o.reply.type # "none"
    BY <1>3
  <2> QED BY <1>1, <2>1, <2>2 DEF Served, Goes, Putting, Listing
<1>4. CASE c.st = "READ"
  <2>1. \A r : r.type = o.reply.type /\ r.arg = o.reply.arg => Getting(c, f, o.server.fileList, TRUE, r)
    BY <1>1, <1>4 DEF Getting
  <2>2. o.reply.type # "none"
    BY <1>4
  <2> QED BY <1>1, <2>1, <2>2 DEF Served, Goes, Putting, Listing
<1> QED BY <1>2, <1>3, <1>4

LEMMA PutServed ==
    ASSUME NEW c, NEW s, NEW f, Requested(c, s, f), c.call.op = "put", NEW o, TypedRemote(o.remote),
           \/ c.st \in {"STAT", "CLOSE"} /\ o.remote = f
           \/ /\ c.st = "OPEN"
              /\ \/ o.reply.type = "STATUS" /\ o.reply.arg # "OK"
                 \/ /\ o.reply.type = "HANDLE" /\ Sound(c, o.remote) /\ o.remote[c.call.to].kind = "file"
                    /\ [id |-> o.reply.arg, name |-> c.call.to] \in o.server.fileList
           \/ /\ c.st = "WRITE" /\ o.server.fileList = s.fileList /\ o.remote[c.call.to].kind = "file"
              /\ o.reply.type = "STATUS"
              /\ IF o.reply.arg = "OK"
                 THEN ~c.stale => Begins(Target(c, o.remote), Source(c, o.remote), c.ofst + 1)
                 ELSE Sound(c, o.remote)
    PROVE  Served(c, o)
<1>1. Putting(c, f, s.fileList, FALSE, 0) /\ Kept(c.table) /\ Busy(c)
  BY RequestedFacts DEF Requested, Goes
<1>2. Ended(c, o.remote)
  BY <1>1 DEF Ended
<1>3. Source(c, o.remote) = Source(c, f)
  BY DEF Source
<1>4. CASE c.st \in {"STAT", "CLOSE"} /\ o.remote = f
  <2>1. \A L, r : Putting(c, f, L, FALSE, 0) /\ Putting(c, f, L, TRUE, r)
    BY <1>1, <1>4 DEF Putting
  <2> QED BY <1>1, <1>2, <1>4, <2>1 DEF Served, Goes, Getting, Listing
<1>5. CASE c.st = "OPEN"
  <2>1. \A r : r.type = o.reply.type /\ r.arg = o.reply.arg => Putting(c, o.remote, o.server.fileList, TRUE, r)
    BY <1>1, <1>5 DEF Putting
  <2>2. o.reply.type # "none"
    BY <1>5
  <2> QED BY <1>1, <1>2, <2>1, <2>2 DEF Served, Goes, Getting, Listing
<1>6. CASE c.st = "WRITE"
  <2>1. \A r : r.type = o.reply.type /\ r.arg = o.reply.arg => Putting(c, o.remote, o.server.fileList, TRUE, r)
    BY <1>1, <1>3, <1>6 DEF Putting
  <2>2. o.reply.type # "none"
    BY <1>6
  <2> QED BY <1>1, <1>2, <2>1, <2>2 DEF Served, Goes, Getting, Listing
<1> QED BY <1>4, <1>5, <1>6

LEMMA LsServed ==
    ASSUME NEW c, NEW s, NEW f, Requested(c, s, f), c.call.op = "ls", NEW o, o.remote = f,
           \/ c.st \in {"REALPATH", "CLOSE"}
           \/ /\ c.st = "OPENDIR"
              /\ \/ o.reply.type = "STATUS" /\ o.reply.arg # "OK"
                 \/ /\ o.reply.type = "HANDLE"
                    /\ \E h \in o.server.dirList : h.id = o.reply.arg /\ h.rest = Existing(f) /\ ~h.isEof
           \/ /\ c.st = "READDIR" /\ o.reply.type # "none"
              /\ \E h \in o.server.dirList :
                    /\ h.id = c.handle /\ (h.isEof => h.rest = {})
                    /\ IF o.reply.type = "NAME"
                       THEN /\ o.reply.arg \in SUBSET Remotes /\ o.reply.arg \cap h.rest = {}
                            /\ Apart(c.names, o.reply.arg \cup h.rest, f)
                       ELSE Apart(c.names, {}, f)
    PROVE  Served(c, o)
<1>1. Listing(c, f, s.dirList, FALSE, 0) /\ Kept(c.table) /\ Busy(c) /\ TypedRemote(f)
  BY RequestedFacts DEF Requested, Goes
<1>2. Ended(c, f)
  BY <1>1 DEF Ended
<1>4. CASE c.st \in {"REALPATH", "CLOSE"}
  <2>1. \A D, r : Listing(c, f, D, FALSE, 0) /\ Listing(c, f, D, TRUE, r)
    BY <1>1, <1>4 DEF Listing
  <2> QED BY <1>1, <1>2, <2>1 DEF Served, Goes, Getting, Putting
<1>5. CASE c.st = "OPENDIR"
  <2>1. \A r : r.type = o.reply.type /\ r.arg = o.reply.arg => Listing(c, f, o.server.dirList, TRUE, r)
    BY <1>1, <1>5 DEF Listing
  <2>2. o.reply.type # "none"
    BY <1>5
  <2> QED BY <1>1, <1>2, <2>1, <2>2 DEF Served, Goes, Getting, Putting
<1>6. CASE c.st = "READDIR"
  <2>1. \A r : r.type = o.reply.type /\ r.arg = o.reply.arg => Listing(c, f, o.server.dirList, TRUE, r)
    BY <1>1, <1>6 DEF Listing
  <2>2. o.reply.type # "none"
    BY <1>6
  <2> QED BY <1>1, <1>2, <2>1, <2>2 DEF Served, Goes, Getting, Putting
<1> QED BY <1>4, <1>5, <1>6

LEMMA GetHandled ==
    ASSUME NEW c, NEW s, NEW f, Requested(c, s, f), c.call.op = "get", NEW m, m.type = c.st, m.arg = RequestArg(c),
           NEW o \in Handler(s, f, m)
    PROVE  Served(c, o)
<1>1. /\ c.st \in {"STAT", "OPEN", "READ", "CLOSE"} /\ NamesOf(c.call) /\ DOMAIN s = ServerFields /\ Tables(s)
      /\ TypedClient(c) /\ TypedRemote(f) /\ Control(c) /\ c.phase = "header"
  BY RequestedFacts DEF Requested, StatesOf, LocalStates
<1>2. CASE c.st = "STAT"
  <2>1. o.remote = f
    BY <1>2, PathsKept
  <2> QED BY <1>2, <2>1, GetServed
<1>3. CASE c.st = "CLOSE"
  <2>1. o \in RecvClose(s, f, m.arg[1])
    BY <1>3 DEF Handler
  <2>2. o.remote = f
    BY <1>1, <2>1, CloseTables
  <2> QED BY <1>3, <2>2, GetServed
<1>4. CASE c.st = "OPEN"
  <2>1. /\ RequestArg(c)[1] = c.call.from /\ RequestArg(c)[2] = {"READ"} /\ c.call.from \in Remotes
    BY <1>1, <1>4, RequestPath DEF RemotePath, OpenFlags
  <2>2. o \in RecvOpen(s, f, c.call.from, {"READ"})
    BY <1>4, <2>1 DEF Handler
  <2>3. o.remote = f
    BY <1>1, <2>1, <2>2, OpenPaths
  <2>4. \/ o.reply.type = "STATUS" /\ o.reply.arg # "OK"
        \/ o.reply.type = "HANDLE" /\ [id |-> o.reply.arg, name |-> c.call.from] \in o.server.fileList
    <3>1. \/ /\ o.reply = [type |-> "HANDLE", arg |-> s.handleId + 1]
             /\ o.server.fileList = s.fileList \cup {[id |-> s.handleId + 1, name |-> c.call.from]}
          \/ /\ o.reply.type = "STATUS" /\ o.reply.arg # "OK"
      BY <1>1, <2>1, <2>2, OpenTables
    <3> QED BY <3>1
  <2> QED BY <1>4, <2>3, <2>4, GetServed
<1>5. CASE c.st = "READ"
  <2>1. RequestArg(c)[1] = c.handle /\ RequestArg(c)[2] = c.ofst
    BY <1>5 DEF RequestArg, SendReadRequest
  <2>2. o \in RecvRead(s, f, c.handle, c.ofst)
    BY <1>5, <2>1 DEF Handler
  <2>3. o.remote = f /\ o.server = s
    BY <1>5, PathsKept, OtherTables DEF Requests
  <2>4. [id |-> c.handle, name |-> c.call.from] \in s.fileList
    BY <1>5 DEF Requested, Goes, Getting
  <2>5. f[c.call.from].data = Source(c, f) /\ Len(Source(c, f)) \in Nat /\ c.ofst \in Nat
    BY <1>1, DataTypes DEF Source, TypedClient
  <2>6. LET data == f[c.call.from].data
        IN  \/ /\ ~(c.ofst >= Len(data)) /\ o.reply.type = "DATA" /\ o.reply.arg = data[c.ofst + 1]
            \/ c.ofst >= Len(data) /\ o.reply.type = "STATUS" /\ o.reply.arg = "EOF"
            \/ o.reply.type = "STATUS" /\ o.reply.arg = "FAILURE"
    BY <1>1, <2>2, <2>4, ReadGives
  <2>7. \/ o.reply.type = "DATA" /\ c.ofst < Len(Source(c, f)) /\ o.reply.arg = Source(c, f)[c.ofst + 1]
        \/ o.reply.type = "STATUS" /\ o.reply.arg = "EOF" /\ c.ofst >= Len(Source(c, f))
        \/ o.reply.type = "STATUS" /\ o.reply.arg = "FAILURE"
    BY <2>5, <2>6
  <2> QED BY <1>5, <2>3, <2>7, GetServed
<1> QED BY <1>1, <1>2, <1>3, <1>4, <1>5

LEMMA OpenEntry ==
    ASSUME NEW s, DOMAIN s = ServerFields, Tables(s), NEW f, NEW n \in Remotes, NEW flags,
           NEW o \in RecvOpen(s, f, n, flags)
    PROVE  \/ /\ o.reply = [type |-> "HANDLE", arg |-> s.handleId + 1]
              /\ o.server.fileList = s.fileList \cup {[id |-> s.handleId + 1, name |-> n]}
           \/ o.reply.type = "STATUS" /\ o.reply.arg # "OK"
BY OpenTables

LEMMA PutHandled ==
    ASSUME NEW c, NEW s, NEW f, Requested(c, s, f), c.call.op = "put", NEW m, m.type = c.st, m.arg = RequestArg(c),
           NEW o \in Handler(s, f, m)
    PROVE  Served(c, o)
<1>1. /\ c.st \in {"STAT", "OPEN", "WRITE", "CLOSE"} /\ NamesOf(c.call) /\ DOMAIN s = ServerFields /\ Tables(s)
      /\ TypedClient(c) /\ TypedRemote(f) /\ Control(c) /\ c.phase = "header"
  BY RequestedFacts DEF Requested, StatesOf, LocalStates
<1> DEFINE to == c.call.to
<1>2. /\ to \in Remotes /\ Source(c, f) \in Seq(Blocks) /\ Target(c, f) \in Seq(Blocks) /\ Target(c, f) = f[to].data
      /\ c.ofst \in Nat /\ Target(c, o.remote) = o.remote[to].data /\ Source(c, o.remote) = Source(c, f)
      /\ Source(c, f) = c.files[c.call.from].data
  BY <1>1, DataTypes DEF NamesOf, Source, Target, TypedClient
<1>3. CASE c.st = "STAT"
  <2>1. o.remote = f
    BY <1>3, PathsKept
  <2> QED BY <1>1, <1>3, <2>1, PutServed
<1>4. CASE c.st = "CLOSE"
  <2>1. o \in RecvClose(s, f, m.arg[1])
    BY <1>4 DEF Handler
  <2>2. o.remote = f
    BY <1>1, <2>1, CloseTables
  <2> QED BY <1>1, <1>4, <2>2, PutServed
<1>5. CASE c.st = "OPEN"
  <2> DEFINE flags == OpenFlags(c)
  <2>1. RequestArg(c)[1] = to /\ RequestArg(c)[2] = flags
    BY <1>1, <1>5, RequestPath DEF RemotePath
  <2>2. o \in RecvOpen(s, f, to, flags)
    BY <1>5, <2>1 DEF Handler
  <2>3. flags # {"READ"} /\ ("TRUNC" \in flags <=> c.ofst = 0)
    BY DEF OpenFlags
  <2> HIDE DEF flags
  <2>4. /\ TypedRemote(o.remote)
        /\ o.reply.type = "HANDLE" =>
             /\ o.remote[to].kind = "file"
             /\ \/ o.remote[to].data = <<>> /\ (~Exists(f, to) \/ "TRUNC" \in flags)
                \/ o.remote[to] = f[to] /\ Exists(f, to) /\ "TRUNC" \notin flags
    BY <1>1, <1>2, <2>2, OpenPaths
  <2>5. \/ /\ o.reply = [type |-> "HANDLE", arg |-> s.handleId + 1]
           /\ o.server.fileList = s.fileList \cup {[id |-> s.handleId + 1, name |-> to]}
        \/ /\ o.reply.type = "STATUS" /\ o.reply.arg # "OK"
    <3> HIDE DEF to
    <3>1. to \in Remotes /\ DOMAIN s = ServerFields /\ Tables(s) /\ o \in RecvOpen(s, f, to, flags)
      BY <1>1, <1>2, <2>2
    <3> QED BY ONLY <3>1, OpenEntry
  <2>6. CASE o.reply.type = "STATUS" /\ o.reply.arg # "OK"
    BY <1>5, <2>4, <2>6, PutServed
  <2>7. CASE /\ o.reply = [type |-> "HANDLE", arg |-> s.handleId + 1]
             /\ o.server.fileList = s.fileList \cup {[id |-> s.handleId + 1, name |-> to]}
    <3>1. o.reply.type = "HANDLE" /\ [id |-> o.reply.arg, name |-> to] \in o.server.fileList
      BY <2>7
    <3>2. c.ofst > 0 => Sound(c, f)
      BY <1>5 DEF Requested, Goes, Putting
    <3>3. Sound(c, o.remote)
      <4>1. CASE o.remote[to].data = <<>> /\ "TRUNC" \in flags
        <5>1. c.ofst = 0
          BY <2>3, <4>1
        <5> QED BY <1>2, <4>1, <5>1, BeginsEmpty DEF Sound
      <4>2. CASE o.remote[to].data = <<>> /\ "TRUNC" \notin flags /\ ~Exists(f, to)
        <5>1. c.ofst > 0
          BY <1>2, <2>3, <4>2
        <5>2. f[to].data = <<>>
          BY <1>1, <1>2, <4>2 DEF TypedRemote, Exists
        <5>3. ~Begins(Target(c, f), Source(c, f), c.ofst)
          BY <1>2, <5>1, <5>2 DEF Begins
        <5> QED BY <3>2, <5>1, <5>3 DEF Sound
      <4>3. CASE o.remote[to] = f[to] /\ "TRUNC" \notin flags
        <5>1. c.ofst > 0
          BY <1>2, <2>3, <4>3
        <5> QED BY <1>2, <3>2, <4>3, <5>1 DEF Sound
      <4> QED BY <2>4, <3>1, <4>1, <4>2, <4>3
    <3> QED BY <1>5, <2>4, <3>1, <3>3, PutServed
  <2> QED BY <2>5, <2>6, <2>7
<1>6. CASE c.st = "WRITE"
  <2> DEFINE b == Source(c, f)[c.ofst + 1]
  <2>1. RequestArg(c)[1] = c.handle /\ RequestArg(c)[2] = c.ofst /\ RequestArg(c)[3] = b
    BY <1>2, <1>6 DEF RequestArg, SendWriteRequest
  <2>2. o \in RecvWrite(s, f, c.handle, c.ofst, b)
    BY <1>6, <2>1 DEF Handler
  <2>3. o.server = s
    BY <1>6, OtherTables DEF Requests
  <2>4. [id |-> c.handle, name |-> to] \in s.fileList /\ f[to].kind = "file" /\ c.ofst < Len(Source(c, f))
        /\ Sound(c, f)
    BY <1>6 DEF Requested, Goes, Putting
  <2>5. b \in Blocks
    BY <1>2, <2>4
  <2>6. /\ TypedRemote(o.remote)
        /\ \/ o.remote = f /\ o.reply.type = "STATUS" /\ o.reply.arg = "FAILURE"
           \/ /\ o.reply.type = "STATUS" /\ o.reply.arg = "OK" /\ o.remote[to].kind = "file"
              /\ o.remote[to].data = PutBlock(f[to].data, c.ofst, b)
    BY <1>1, <1>2, <2>2, <2>4, <2>5, WriteGives
  <2>7. ~c.stale => Begins(PutBlock(f[to].data, c.ofst, b), Source(c, f), c.ofst + 1)
    BY <1>2, <2>4, BeginsPut DEF Sound
  <2>8. /\ o.remote[to].kind = "file" /\ o.reply.type = "STATUS"
        /\ IF o.reply.arg = "OK"
           THEN ~c.stale => Begins(Target(c, o.remote), Source(c, o.remote), c.ofst + 1)
           ELSE Sound(c, o.remote)
    <3>1. CASE o.remote = f /\ o.reply.type = "STATUS" /\ o.reply.arg = "FAILURE"
      BY <2>4, <3>1
    <3>2. CASE /\ o.reply.type = "STATUS" /\ o.reply.arg = "OK" /\ o.remote[to].kind = "file"
               /\ o.remote[to].data = PutBlock(f[to].data, c.ofst, b)
      BY <1>2, <2>7, <3>2
    <3> QED BY <2>6, <3>1, <3>2
  <2> QED BY <1>6, <2>3, <2>6, <2>8, PutServed
<1> QED BY <1>1, <1>3, <1>4, <1>5, <1>6

LEMMA LsHandled ==
    ASSUME NEW c, NEW s, NEW f, Requested(c, s, f), c.call.op = "ls", NEW m, m.type = c.st, m.arg = RequestArg(c),
           NEW o \in Handler(s, f, m)
    PROVE  Served(c, o)
<1>1. /\ c.st \in {"REALPATH", "OPENDIR", "READDIR", "CLOSE"} /\ DOMAIN s = ServerFields /\ Tables(s)
  BY RequestedFacts DEF Requested, StatesOf
<1>2. CASE c.st = "REALPATH"
  <2>1. o.remote = f
    BY <1>2, PathsKept
  <2> QED BY <1>2, <2>1, LsServed
<1>3. CASE c.st = "CLOSE"
  <2>1. o \in RecvClose(s, f, m.arg[1])
    BY <1>3 DEF Handler
  <2>2. o.remote = f
    BY <1>1, <2>1, CloseTables
  <2> QED BY <1>3, <2>2, LsServed
<1>4. CASE c.st = "OPENDIR"
  <2> DEFINE new == [id |-> s.handleId + 1, isEof |-> FALSE, rest |-> {n \in Remotes : Exists(f, n)}]
  <2>1. o \in RecvOpenDir(s, f)
    BY <1>4 DEF Handler
  <2>2. /\ o.remote = f
        /\ \/ o.reply = [type |-> "HANDLE", arg |-> s.handleId + 1] /\ o.server.dirList = s.dirList \cup {new}
           \/ o.reply.type = "STATUS" /\ o.reply.arg # "OK"
    BY <1>1, <2>1, OpenDirTables
  <2>3. new.id = s.handleId + 1 /\ new.rest = Existing(f) /\ ~new.isEof
    BY DEF Existing
  <2> HIDE DEF new
  <2>4. \/ o.reply.type = "STATUS" /\ o.reply.arg # "OK"
        \/ /\ o.reply.type = "HANDLE"
           /\ \E h \in o.server.dirList : h.id = o.reply.arg /\ h.rest = Existing(f) /\ ~h.isEof
    BY <2>2, <2>3
  <2> QED BY <1>4, <2>2, <2>4, LsServed
<1>5. CASE c.st = "READDIR"
  <2>1. o \in RecvReadDir(s, f, c.handle)
    BY <1>5, RequestHandle DEF Handler
  <2>2. o.remote = f
    BY <1>1, <2>1, ReadDirTables
  <2>3. PICK h \in s.dirList : h.id = c.handle /\ (h.isEof => h.rest = {}) /\ Apart(c.names, h.rest, f)
    BY <1>5 DEF Requested, Goes, Listing
  <2>4. PICK g \in o.server.dirList, n \in SUBSET h.rest :
          /\ g.id = h.id /\ g.rest = h.rest \ n /\ (g.isEof => g.rest = {})
          /\ \/ o.reply.type = "STATUS" /\ h.rest = {}
             \/ o.reply.type = "NAME" /\ o.reply.arg = n
    BY <1>1, <2>1, <2>3, ReadDirGives
  <2>5. h.rest \in SUBSET Remotes
    BY <1>1 DEF Tables
  <2>6. /\ o.reply.type # "none"
        /\ IF o.reply.type = "NAME"
           THEN /\ o.reply.arg \in SUBSET Remotes /\ o.reply.arg \cap g.rest = {}
                /\ Apart(c.names, o.reply.arg \cup g.rest, f)
           ELSE Apart(c.names, {}, f)
    <3>1. CASE o.reply.type = "STATUS" /\ h.rest = {}
      BY <2>3, <3>1
    <3>2. CASE o.reply.type = "NAME" /\ o.reply.arg = n
      <4>1. n \cup g.rest = h.rest /\ n \cap g.rest = {} /\ n \in SUBSET Remotes
        BY <2>4, <2>5
      <4> QED BY <2>3, <3>2, <4>1
    <3> QED BY <2>4, <3>1, <3>2
  <2> QED BY <1>5, <2>2, <2>3, <2>4, <2>6, LsServed
<1> QED BY <1>1, <1>2, <1>3, <1>4, <1>5

LEMMA OtherHandled ==
    ASSUME NEW c, NEW s, NEW f, Requested(c, s, f), c.call.op \notin {"get", "put", "ls"}, NEW m, m.type = c.st,
           m.arg = RequestArg(c), NEW o \in Handler(s, f, m)
    PROVE  Served(c, o)
<1>1. /\ c.call.op \in AllOps \ {"get", "put", "ls"} /\ c.st \in StatesOf(c.call.op) /\ NamesOf(c.call)
      /\ DOMAIN s = ServerFields /\ Tables(s) /\ TypedRemote(f) /\ Control(c) /\ c.phase = "header"
  BY RequestedFacts DEF Requested
<1>2. c.st \in {"STAT", "LSTAT", "CLOSE", "OPEN", "MKDIR", "RMDIR", "REMOVE", "RENAME", "SETSTAT"}
  BY <1>1 DEF AllOps, StatesOf
<1> SUFFICES TypedRemote(o.remote)
  BY OtherServed
<1>3. CASE c.st \in {"STAT", "LSTAT"}
  BY <1>1, <1>3, PathsKept
<1>4. CASE c.st = "CLOSE"
  <2>1. o \in RecvClose(s, f, m.arg[1])
    BY <1>4 DEF Handler
  <2> QED BY <1>1, <2>1, CloseTables
<1>5. CASE c.st = "OPEN"
  <2>1. RequestArg(c)[1] = RemotePath(c) /\ RemotePath(c) \in Remotes
    BY <1>1, <1>5, RequestPath
  <2>2. o \in RecvOpen(s, f, RemotePath(c), RequestArg(c)[2])
    BY <1>5, <2>1 DEF Handler
  <2> QED BY <1>1, <2>1, <2>2, OpenPaths
<1>6. CASE c.st \in {"MKDIR", "RMDIR", "REMOVE", "RENAME", "SETSTAT"}
  <2>1. c.call.from \in Remotes
    BY <1>1, <1>6 DEF AllOps, StatesOf, NamesOf
  <2>2. m.arg[1] = c.call.from /\ (c.st = "SETSTAT" => m.arg[2] = 1)
    BY <1>1, <1>6 DEF RequestArg, RenameRequest, SetSTATRequest, PathRequest, RemotePath
  <2> QED BY <1>1, <1>6, <2>1, <2>2, PathsTyped
<1> QED BY <1>2, <1>3, <1>4, <1>5, <1>6

LEMMA RecvDoFaith == TalkInv /\ LeakInv /\ FaithInv /\ RecvDo => FaithInv'
<1> SUFFICES ASSUME TalkInv, LeakInv, FaithInv, RecvDo PROVE FaithInv'
  OBVIOUS
<1>1. PICK o \in Handler(server, remote, server.hdr) :
        /\ used' = [used EXCEPT !.faults = @ + (IF o.fault THEN 1 ELSE 0)]
        /\ remote' = o.remote
        /\ server' = [o.server EXCEPT !.hdr = NoMessage,
                  !.state = IF o.reply.type = "none" THEN "RECV_READ" ELSE "RECV_SEND",
                  !.out = IF o.reply.type = "none" THEN <<>>
                          ELSE Parts(Message(o.reply.type, server.hdr.id, o.reply.arg,
                                             server.hdr.uid))]
  BY DEF RecvDo
<1>2. /\ ~Dead /\ Ask5 /\ server.hdr = Asked /\ UNCHANGED <<client, down>>
  BY DoingStage
<1>3. /\ \A x \in {"fileList", "dirList", "handleId", "fds"} : server'[x] = o.server[x]
      /\ o.reply.type = "none" => Lost'
      /\ o.reply.type # "none" =>
           Ans1' /\ Answers' /\ Answer'.type = o.reply.type /\ Answer'.arg = o.reply.arg
  BY <1>1, DoneStage
<1>4. used'.dead = used.dead
  BY <1>1 DEF TalkInv
<1>5. ~Answering
  BY <1>2, PairFacts, AnsweringFacts DEF Ask5, Wire
<1>6. TypedClient(client) /\ TypedRemote(remote) /\ Ended(client, remote) /\ Goes(client, remote, server, FALSE, 0)
  BY <1>2, <1>5, FlagNow DEF FaithInv
<1>7. Requested(client, server, remote)
  BY <1>2, <1>6 DEF Requested, TalkInv, LeakInv, Ask5, At
<1> DEFINE m == server.hdr
<1>8. m.type = client.st /\ m.arg = RequestArg(client)
  BY <1>2, AskedFields
<1>9. Served(client, o)
  <2> HIDE DEF m
  <2>1. o \in Handler(server, remote, m)
    BY DEF m
  <2>2. CASE client.call.op = "get"
    BY <1>7, <1>8, <2>1, <2>2, GetHandled
  <2>3. CASE client.call.op = "put"
    BY <1>7, <1>8, <2>1, <2>3, PutHandled
  <2>4. CASE client.call.op = "ls"
    BY <1>7, <1>8, <2>1, <2>4, LsHandled
  <2>5. CASE client.call.op \notin {"get", "put", "ls"}
    BY <1>7, <1>8, <2>1, <2>5, OtherHandled
  <2> QED BY <2>2, <2>3, <2>4, <2>5
<1>10. SameTables(o.server, server')
  BY <1>3 DEF SameTables
<1>11. TypedRemote(o.remote) /\ Ended(client, o.remote)
  BY <1>9 DEF Served
<1>12. CASE o.reply.type = "none"
  <2>1. ~Answering'
    <3>1. Lost'
      BY <1>3, <1>12
    <3>2. down' = <<>> /\ server'.state = "RECV_READ"
      BY <3>1 DEF Lost, Wire, Serves
    <3> QED BY <3>2, AnsweringAfter
  <2>2. Goes(client, o.remote, o.server, FALSE, 0)
    BY <1>9, <1>12 DEF Served
  <2>3. Goes(client, o.remote, server', FALSE, 0)
    BY <1>6, <1>10, <2>2, AlikeSelf, AlikeGoes
  <2> QED BY <1>1, <1>2, <1>4, <1>6, <1>11, <2>1, <2>3, FlagAfter DEF FaithInv, Dead
<1>13. CASE o.reply.type # "none"
  <2>1. Answering' /\ Answer'.type = o.reply.type /\ Answer'.arg = o.reply.arg
    BY <1>3, <1>13 DEF Answering
  <2>2. Goes(client, o.remote, o.server, TRUE, Answer')
    BY <1>9, <1>13, <2>1 DEF Served
  <2>3. Goes(client, o.remote, server', TRUE, Answer')
    BY <1>6, <1>10, <2>2, AlikeSelf, AlikeGoes
  <2> QED BY <1>1, <1>2, <1>4, <1>6, <1>11, <2>1, <2>3, FlagAfter DEF FaithInv, Dead
<1> QED BY <1>12, <1>13

LEMMA FaithStep ==
    ASSUME WindowFull \subseteq {"start"}
    PROVE  TalkInv /\ LeakInv /\ FaithInv /\ [Next]_vars => FaithInv'
<1> SUFFICES ASSUME TalkInv, LeakInv, FaithInv, [Next]_vars PROVE FaithInv'
  OBVIOUS
<1>1. CASE UNCHANGED vars
  <2>1. Answer' = Answer
    BY <1>1 DEF vars, Answer
  <2>2. Answering' <=> Answering
    BY <1>1, <2>1 DEF vars, Answering, Ans1, Ans2, Ans3, Ans4, Ans5, At, Serves, Wire
  <2> QED BY <1>1, <2>1, <2>2, FaithSame, AlikeSelf DEF vars, SameTables
<1> QED BY <1>1, AppCallFaith, ClientFaith, WindowFullFaith, InterruptFaith, GetHeaderFaith, ReadBodyFaith,
           LocalStepFaith, FailFaith, ServerFaith, RecvDoFaith, RecvSendFaith, EndFaith
        DEF Next, ClientStep, ServerStep

LEMMA FaithInvFaithful == TalkInv /\ FaithInv => Faithful
<1> SUFFICES ASSUME TalkInv, FaithInv, ~Busy(client), client.result = "ok", ~client.cut, ~client.stale
             PROVE  CASE client.call.op = "get" -> client.files[client.call.to].data = remote[client.call.from].data
                      [] client.call.op = "put" -> remote[client.call.to].data = client.files[client.call.from].data
                      [] client.call.op = "ls" ->
                            /\ \A i, j \in DOMAIN client.names : i # j => client.names[i] \cap client.names[j] = {}
                            /\ UNION {client.names[i] : i \in DOMAIN client.names} = {n \in Remotes : Exists(remote, n)}
                      [] OTHER -> TRUE
  BY DEF Faithful
<1>1. Did(client, remote)
  BY DEF FaithInv, Ended
<1>2. CASE client.call.op = "get"
  BY <1>1, <1>2 DEF Did, Target, Source
<1>3. CASE client.call.op = "put"
  BY <1>1, <1>3 DEF Did, Target, Source
<1>4. CASE client.call.op = "ls"
  <2>1. Apart(client.names, {}, remote)
    BY <1>1, <1>4 DEF Did
  <2>2. UNION {client.names[i] : i \in DOMAIN client.names} = {n \in Remotes : Exists(remote, n)}
    BY <2>1 DEF Apart, Listed, Existing
  <2>3. \A i, j \in DOMAIN client.names : i # j => client.names[i] \cap client.names[j] = {}
    BY <2>1 DEF Apart
  <2> QED BY <1>4, <2>2, <2>3
<1>5. CASE client.call.op \notin {"get", "put", "ls"}
  BY <1>5
<1> QED BY <1>2, <1>3, <1>4, <1>5

(* A call that succeeds did what was asked, however many were interrupted, *)
(* refused or cut off before it: wolfSSH_SFTP_Get() and _Put() leave the   *)
(* target as the source is, from an offset kept by SFTP_SaveOfst() too as  *)
(* long as the files are those the offset was kept for, and LS has every   *)
(* name of the directory, each in exactly one of the replies to READDIR.   *)
THEOREM CallsAreFaithful ==
    ASSUME WindowFull \subseteq {"start"}
    PROVE  Spec => []Faithful
<1>1. TalkInv /\ LeakInv /\ FaithInv /\ [Next]_vars => TalkInv' /\ LeakInv' /\ FaithInv'
  BY TalkStep, LeakStep, FaithStep
<1> QED BY <1>1, InitTalk, InitLeak, InitFaith, FaithInvFaithful, PTL DEF Spec
=============================================================================
