-------------------------------- MODULE Sftp --------------------------------
(***************************************************************************)
(* An SFTP client and server of wolfSSH over one session channel: the      *)
(* client's API calls with the request in flight and the states they are   *)
(* resumed in, the server's loop (header, body and handler, reply), the    *)
(* two file systems, the table of interrupted transfers, and the loss of   *)
(* the connection at any point.                                            *)
(*                                                                         *)
(* One step is one case of the switch of the C function that runs.  A call *)
(* that returns with one of the errors of NoticeError() is repeated by the *)
(* application and takes up where it was, so waiting is not a step.  A     *)
(* message crosses a stream in two parts, the header and the body, and is  *)
(* sent and received part by part.  A file is a sequence of blocks: one    *)
(* READ or WRITE moves one block and offsets count blocks.                 *)
(*                                                                         *)
(* uid names a request across both ends; cut, stale and snap               *)
(* remember what became of a call: they are history, read by no guard.     *)
(***************************************************************************)
EXTENDS Integers, Sequences, FiniteSets

CONSTANTS
    Locals,       \* files of the client
    Remotes,      \* paths of the server, all entries of one directory
    Outside,      \* paths beyond the server's confinement
    Ops,          \* the calls the application makes
    StartLocal,   \* what the client's files hold at the start
    StartRemote,  \* what the server's paths hold at the start
    MaxHandles,   \* WOLFSSH_MAX_SFTP_HANDLES
    MaxReadDir,   \* WOLFSSH_MAX_SFTP_READDIR
    OfstSlots,    \* WOLFSSH_MAX_SFTPOFST
    WindowFull,   \* where a send may meet a full window, see SendWindowFull
    MaxCalls,     \* bound: calls of the application
    MaxInts,      \* bound: interrupts
    MaxFaults,    \* bound: failed file operations and lost connections
    MaxFulls      \* bound: full windows met

AllOps == {"get", "put", "ls", "chmod", "rename", "remove", "mkdir", "rmdir", "stat",
           "open", "close"}

\* The blocks that the files hold at the start; a path that is no file holds
\* none.
Blocks ==
    UNION {{StartLocal[n].data[i] : i \in DOMAIN StartLocal[n].data} : n \in Locals} \cup
    UNION {{StartRemote[n].data[i] : i \in DOMAIN StartRemote[n].data} : n \in Remotes}
Entries == [kind : {"none", "file", "dir"}, data : Seq(Blocks), mode : Nat]

ASSUME SftpAssumption ==
    /\ IsFiniteSet(Remotes) /\ Outside \subseteq Remotes
    /\ Ops \subseteq AllOps
    /\ StartLocal \in [Locals -> Entries] /\ StartRemote \in [Remotes -> Entries]
    /\ \A n \in Remotes : StartRemote[n].kind # "file" => StartRemote[n].data = <<>>
    /\ MaxHandles \in Nat /\ MaxReadDir \in Nat \ {0} /\ OfstSlots \in Nat \ {0}
    /\ WindowFull \subseteq {"start", "inside", "shared"}
    /\ MaxCalls \in Nat /\ MaxInts \in Nat /\ MaxFaults \in Nat /\ MaxFulls \in Nat

VARIABLES
    client,  \* the client's WOLFSSH and its files
    server,  \* the server's WOLFSSH and its descriptors
    remote,  \* the server's paths
    up,      \* parts under way to the server
    down,    \* parts under way to the client
    used     \* budgets spent

vars == <<client, server, remote, up, down, used>>

None == [kind |-> "none", data |-> <<>>, mode |-> 0]
File(d) == [kind |-> "file", data |-> d, mode |-> 0]
Dir == [kind |-> "dir", data |-> <<>>, mode |-> 0]

Message(type, id, arg, uid) == [type |-> type, id |-> id, arg |-> arg, uid |-> uid]
NoMessage == Message("none", 0, <<>>, 0)
Parts(m) == << [part |-> "header", m |-> m], [part |-> "body", m |-> m] >>
NoCall == [op |-> "none", from |-> "none", to |-> "none", resume |-> FALSE]

----------------------------------------------------------------------------
\* The table of interrupted transfers.  A free slot has offset 0.

NoOfst == [from |-> "none", to |-> "none", offset |-> 0, snap |-> <<>>]

\* A full table loses the offset.
SaveOfst(table, from, to, off, snap) ==
    LET free == {i \in DOMAIN table : table[i].offset = 0}
    IN  IF free = {} THEN table
        ELSE [table EXCEPT ![CHOOSE i \in free : \A j \in free : i <= j] =
                 [from |-> from, to |-> to, offset |-> off, snap |-> snap]]

OfstMatches(table, from, to) ==
    {i \in DOMAIN table : table[i].from = from /\ table[i].to = to}

GetOfst(table, from, to) ==
    LET hit == OfstMatches(table, from, to)
    IN  IF hit = {} THEN [table |-> table, entry |-> NoOfst]
        ELSE LET i == CHOOSE i \in hit : \A j \in hit : i <= j
             IN  [table |-> [table EXCEPT ![i] = NoOfst], entry |-> table[i]]

----------------------------------------------------------------------------
\* The server's handlers.  Each yields what it may leave behind: the
\* session, the paths and the reply; fault marks a failed file operation.

Outcome(s, f, type, arg, fault) ==
    [server |-> s, remote |-> f, reply |-> [type |-> type, arg |-> arg], fault |-> fault]
SendStatus(s, f, code) == Outcome(s, f, "STATUS", code, FALSE)
FaultStatus(s, f, code) == Outcome(s, f, "STATUS", code, TRUE)

Exists(f, n) == f[n].kind # "none"
Denied(n) == n \in Outside
Capped(list) == Cardinality(list) >= MaxHandles
Handles(s) == {h.id : h \in s.fileList} \cup {h.id : h \in s.dirList}

FailStatus(f, n) == IF Exists(f, n) THEN "FAILURE" ELSE "NOFILE"

RecvRealPath(s, f, n) == {Outcome(s, f, "NAME", {n}, FALSE)}

RecvMKDIR(s, f, n) ==
    IF Denied(n) THEN {SendStatus(s, f, "PERMISSION")}
    ELSE IF Exists(f, n) THEN {SendStatus(s, f, "FAILURE")}
    ELSE {SendStatus(s, [f EXCEPT ![n] = Dir], "OK"), FaultStatus(s, f, "FAILURE")}

RecvRMDIR(s, f, n) ==
    IF Denied(n) THEN {SendStatus(s, f, "PERMISSION")}
    ELSE IF f[n].kind # "dir" THEN {SendStatus(s, f, "FAILURE")}
    ELSE {SendStatus(s, [f EXCEPT ![n] = None], "OK"), FaultStatus(s, f, "FAILURE")}

\* Opening truncates; the descriptor is closed again when the handle cannot
\* be kept.
RecvOpen(s, f, n, flags) ==
    IF Denied(n) THEN {SendStatus(s, f, "PERMISSION")}
    ELSE IF Capped(s.fileList) \/ f[n].kind = "dir" THEN {SendStatus(s, f, "FAILURE")}
    ELSE IF ~Exists(f, n) /\ "CREAT" \notin flags THEN {SendStatus(s, f, "NOFILE")}
    ELSE LET id == s.handleId + 1
             opened == [f EXCEPT ![n] =
                           IF ~Exists(f, n) \/ "TRUNC" \in flags THEN File(<<>>) ELSE @]
         IN  {Outcome([s EXCEPT !.handleId = id, !.fds = @ \cup {id},
                          !.fileList = @ \cup {[id |-> id, name |-> n]}],
                      opened, "HANDLE", id, FALSE),
              FaultStatus(s, f, FailStatus(f, n)),
              FaultStatus([s EXCEPT !.handleId = id], opened, "FAILURE")}

RecvOpenDir(s, f) ==
    IF Capped(s.dirList) THEN {SendStatus(s, f, "FAILURE")}
    ELSE LET id == s.handleId + 1
         IN  {Outcome([s EXCEPT !.handleId = id, !.fds = @ \cup {id},
                          !.dirList = @ \cup {[id |-> id, isEof |-> FALSE,
                                               rest |-> {n \in Remotes : Exists(f, n)}]}],
                      f, "HANDLE", id, FALSE),
              FaultStatus(s, f, "NOFILE")}

\* Mutant: the end of the directory is not answered.
RecvReadDirSilentEnd(s, f, id) ==
    {IF h.rest = {} THEN Outcome(s, f, "none", <<>>, FALSE)
     ELSE Outcome([s EXCEPT !.dirList = (@ \ {h}) \cup {[h EXCEPT !.rest = {}]}],
                  f, "NAME", h.rest, FALSE) : h \in s.dirList}

\* At most MaxReadDir names a reply; reaching the end is remembered.
RecvReadDir(s, f, id) ==
    LET hit == {h \in s.dirList : h.id = id}
    IN  IF hit = {} THEN {Outcome(s, f, "none", <<>>, FALSE)}
        ELSE LET h == CHOOSE h \in hit : TRUE
                 names == IF Cardinality(h.rest) <= MaxReadDir THEN h.rest
                          ELSE CHOOSE b \in SUBSET h.rest : Cardinality(b) = MaxReadDir
                 eof == h.isEof \/ Cardinality(names) < MaxReadDir
                 read == [s EXCEPT !.dirList = (@ \ {h}) \cup
                             {[h EXCEPT !.rest = @ \ names, !.isEof = eof]}]
             IN  {IF h.isEof \/ names = {} THEN SendStatus(read, f, "EOF")
                  ELSE Outcome(read, f, "NAME", names, FALSE)}

\* Mutant: a failed close() keeps the handle.
RecvCloseKeeps(s, f, id) ==
    LET shut == [s EXCEPT !.dirList = {h \in @ : h.id # id},
                          !.fileList = {h \in @ : h.id # id}, !.fds = @ \ {id}]
    IN  {SendStatus(shut, f, "OK"), FaultStatus(s, f, "FAILURE")}

\* Directories first, then files.  The handle goes even if close() fails.
RecvClose(s, f, id) ==
    IF \E h \in s.dirList : h.id = id
    THEN {SendStatus([s EXCEPT !.dirList = {h \in @ : h.id # id}, !.fds = @ \ {id}], f, "OK")}
    ELSE IF \E h \in s.fileList : h.id = id
    THEN LET shut == [s EXCEPT !.fileList = {h \in @ : h.id # id}, !.fds = @ \ {id}]
         IN  {SendStatus(shut, f, "OK"), FaultStatus(shut, f, "FAILURE")}
    ELSE {SendStatus(s, f, "FAILURE")}

FileOf(s, id) == {h \in s.fileList : h.id = id}

RecvRead(s, f, id, off) ==
    IF FileOf(s, id) = {} THEN {SendStatus(s, f, "FAILURE")}
    ELSE LET data == f[(CHOOSE h \in FileOf(s, id) : TRUE).name].data
         IN  {IF off >= Len(data) THEN SendStatus(s, f, "EOF")
              ELSE Outcome(s, f, "DATA", data[off + 1], FALSE),
              FaultStatus(s, f, "FAILURE")}

\* A write beyond the end would leave a hole: the client's offsets never do.
PutBlock(data, off, b) ==
    IF off < Len(data) THEN [data EXCEPT ![off + 1] = b] ELSE Append(data, b)

RecvWrite(s, f, id, off, b) ==
    IF FileOf(s, id) = {} THEN {SendStatus(s, f, "FAILURE")}
    ELSE LET n == (CHOOSE h \in FileOf(s, id) : TRUE).name
         IN  {SendStatus(s, [f EXCEPT ![n].data = PutBlock(@, off, b)], "OK"),
              FaultStatus(s, f, "FAILURE")}

RecvRemove(s, f, n) ==
    IF Denied(n) THEN {SendStatus(s, f, "PERMISSION")}
    ELSE IF f[n].kind # "file" THEN {SendStatus(s, f, FailStatus(f, n))}
    ELSE {SendStatus(s, [f EXCEPT ![n] = None], "OK"), FaultStatus(s, f, "FAILURE")}

\* link() and unlink() for a file, a check and rename() for a directory:
\* neither replaces what the new name holds.
RenameNoReplace(f, old, new) ==
    IF ~Exists(f, old) \/ Exists(f, new) THEN f
    ELSE [f EXCEPT ![old] = None, ![new] = f[old]]

RecvRename(s, f, old, new) ==
    IF Denied(old) \/ Denied(new) THEN {SendStatus(s, f, "PERMISSION")}
    ELSE LET g == RenameNoReplace(f, old, new)
         IN  {SendStatus(s, g, IF g = f THEN FailStatus(f, old) ELSE "OK"),
              FaultStatus(s, f, "FAILURE")}

GetAttributes(f, n) == [kind |-> f[n].kind, size |-> Len(f[n].data)]

RecvSTAT(s, f, n) ==
    IF Denied(n) THEN {SendStatus(s, f, "PERMISSION")}
    ELSE IF ~Exists(f, n) THEN {SendStatus(s, f, "NOFILE")}
    ELSE {Outcome(s, f, "ATTRS", GetAttributes(f, n), FALSE)}

RecvLSTAT(s, f, n) == RecvSTAT(s, f, n)

SetFileAttributes(f, n, mode) == [f EXCEPT ![n].mode = mode]

RecvSetSTAT(s, f, n, mode) ==
    IF Denied(n) THEN {SendStatus(s, f, "PERMISSION")}
    ELSE IF ~Exists(f, n) THEN {SendStatus(s, f, "FAILURE")}
    ELSE {SendStatus(s, SetFileAttributes(f, n, mode), "OK"), FaultStatus(s, f, "FAILURE")}

Handler(s, f, m) ==
    CASE m.type = "REALPATH" -> RecvRealPath(s, f, m.arg[1])
      [] m.type = "RMDIR" -> RecvRMDIR(s, f, m.arg[1])
      [] m.type = "MKDIR" -> RecvMKDIR(s, f, m.arg[1])
      [] m.type = "STAT" -> RecvSTAT(s, f, m.arg[1])
      [] m.type = "LSTAT" -> RecvLSTAT(s, f, m.arg[1])
      [] m.type = "OPEN" -> RecvOpen(s, f, m.arg[1], m.arg[2])
      [] m.type = "READ" -> RecvRead(s, f, m.arg[1], m.arg[2])
      [] m.type = "WRITE" -> RecvWrite(s, f, m.arg[1], m.arg[2], m.arg[3])
      [] m.type = "CLOSE" -> RecvClose(s, f, m.arg[1])
      [] m.type = "REMOVE" -> RecvRemove(s, f, m.arg[1])
      [] m.type = "RENAME" -> RecvRename(s, f, m.arg[1], m.arg[2])
      [] m.type = "SETSTAT" -> RecvSetSTAT(s, f, m.arg[1], m.arg[2])
      [] m.type = "OPENDIR" -> RecvOpenDir(s, f)
      [] m.type = "READDIR" -> RecvReadDir(s, f, m.arg[1])
      [] OTHER -> {SendStatus(s, f, "UNSUPPORTED")}

----------------------------------------------------------------------------
\* The client's requests.  st is the state of the call that runs, named for
\* the request it makes; phase is where the request stands.

\* The states whose request goes out through SendPacketType().
BySendPacketType ==
    {"REALPATH", "OPENDIR", "READDIR", "STAT", "LSTAT", "CLOSE", "REMOVE", "RMDIR"}
LocalStates == {"LOOKUP", "OPEN_LOCAL", "CLOSE_LOCAL"}

FirstState(op) ==
    CASE op \in {"get", "chmod", "rename", "stat"} -> "STAT"
      [] op = "put" -> "LOOKUP"
      [] op = "ls" -> "REALPATH"
      [] op = "remove" -> "LSTAT"
      [] op = "mkdir" -> "MKDIR"
      [] op = "rmdir" -> "RMDIR"
      [] op = "open" -> "OPEN"
      [] op = "close" -> "CLOSE"

\* The path a request names: a put names its target, the others the source.
RemotePath(c) == IF c.call.op = "put" THEN c.call.to ELSE c.call.from

\* A put truncates unless it resumes.
OpenFlags(c) ==
    IF c.call.op # "put" THEN {"READ"}
    ELSE {"WRITE", "CREAT"} \cup (IF c.ofst = 0 THEN {"TRUNC"} ELSE {})

\* What each function puts in its request.
OpenRequest(c) == <<RemotePath(c), OpenFlags(c)>>
SendReadRequest(c) == <<c.handle, c.ofst>>
SendWriteRequest(c) == <<c.handle, c.ofst, c.files[c.call.from].data[c.ofst + 1]>>
RenameRequest(c) == <<c.call.from, c.call.to>>
SetSTATRequest(c) == <<c.call.from, 1>>
HandleRequest(c) == <<c.handle>>
PathRequest(c) == <<RemotePath(c)>>

RequestArg(c) ==
    CASE c.st \in {"CLOSE", "READDIR"} -> HandleRequest(c)
      [] c.st = "OPEN" -> OpenRequest(c)
      [] c.st = "READ" -> SendReadRequest(c)
      [] c.st = "WRITE" -> SendWriteRequest(c)
      [] c.st = "RENAME" -> RenameRequest(c)
      [] c.st = "SETSTAT" -> SetSTATRequest(c)
      [] OTHER -> PathRequest(c)

Request(c) == Message(c.st, c.reqId, RequestArg(c), c.uid + 1)

Goto(c, st) == [c EXCEPT !.st = st, !.phase = IF st \in LocalStates THEN "local" ELSE "build"]

\* A call returns; the next one starts from nothing, except for what a
\* function left in its own state (kept).
Finish(c, result) ==
    [c EXCEPT !.st = "idle", !.phase = "idle", !.result = result, !.error = FALSE]

\* Mutant: an open does not expect a status.
ExpectedNoStatus(st) == IF st = "OPEN" THEN {"HANDLE"} ELSE {"ATTRS", "HANDLE", "DATA", "NAME", "STATUS"}

\* The types a function reads the body of.
Expected(st) ==
    CASE st = "STAT" \/ st = "LSTAT" -> {"ATTRS", "STATUS"}
      [] st \in {"OPEN", "OPENDIR"} -> {"HANDLE", "STATUS"}
      [] st = "READ" -> {"DATA", "STATUS"}
      [] st \in {"REALPATH", "READDIR"} -> {"NAME", "STATUS"}
      [] OTHER -> {"STATUS"}

----------------------------------------------------------------------------
\* What each function makes of the reply: its return value.

DoStat(r) ==
    CASE r.type = "ATTRS" -> "ok"
      [] r.type = "STATUS" /\ r.arg = "OK" -> "ok"
      [] r.type = "STATUS" /\ r.arg = "PERMISSION" -> "permission"
      [] OTHER -> "not_ok"

GetHandle(r) == IF r.type = "HANDLE" \/ r.arg = "OK" THEN "ok" ELSE "not_ok"

SendReadPacket(r) ==
    CASE r.type = "DATA" -> "ok"
      [] r.type = "STATUS" /\ r.arg \in {"OK", "EOF"} -> "eof"
      [] OTHER -> "fatal"

DoName(r) == IF r.type = "NAME" THEN "ok" ELSE "none"

\* The status itself, a protocol error apart.
DoStatus(r) == r.arg

Otherwise(r, err) == IF DoStatus(r) = "OK" THEN "ok" ELSE err
SetSTAT(r) == Otherwise(r, "bad_file")
SendWritePacket(r) == Otherwise(r, "not_ok")
MKDIR(r) == IF DoStatus(r) = "PERMISSION" THEN "permission" ELSE Otherwise(r, "fatal")
Rename(r) == IF DoStatus(r) = "PERMISSION" THEN "fatal" ELSE Otherwise(r, "not_ok")
RMDIR(r) == Otherwise(r, "fatal")
Remove(r) == Otherwise(r, "fatal")
Close(r) == Otherwise(r, "fatal")

Returns(st, r) ==
    CASE st \in {"STAT", "LSTAT"} -> DoStat(r)
      [] st \in {"OPEN", "OPENDIR"} -> GetHandle(r)
      [] st = "READ" -> SendReadPacket(r)
      [] st = "WRITE" -> SendWritePacket(r)
      [] st \in {"REALPATH", "READDIR"} -> DoName(r)
      [] st = "SETSTAT" -> SetSTAT(r)
      [] st = "RENAME" -> Rename(r)
      [] st = "MKDIR" -> MKDIR(r)
      [] st = "RMDIR" -> RMDIR(r)
      [] st = "REMOVE" -> Remove(r)
      [] st = "CLOSE" -> Close(r)

----------------------------------------------------------------------------
\* wolfSSH_SFTP_Get().

\* History: source and target as they stand.
Snap(c) ==
    IF c.call.op = "get" THEN <<remote[c.call.from].data, c.files[c.call.to].data>>
    ELSE <<c.files[c.call.from].data, remote[c.call.to].data>>

Saved(c) ==
    SaveOfst(c.table, c.call.from, c.call.to, c.ofst, IF c.stale THEN <<>> ELSE Snap(c))

\* The loop's end: an interrupt keeps the offset and is then forgotten.
GetLoopEnd(c) ==
    Goto([c EXCEPT !.table = IF c.sftpInt THEN Saved(c) ELSE @,
                   !.cut = c.sftpInt, !.sftpInt = FALSE], "CLOSE")

\* A failure in the loop keeps the interrupt.
GetFails(c) == Goto([c EXCEPT !.error = TRUE], "CLOSE")

GetBlock(c, b) ==
    LET got == [c EXCEPT !.ofst = @ + 1, !.files[c.call.to].data = Append(@, b)]
    IN  IF c.sftpInt THEN GetLoopEnd(got) ELSE Goto(got, "READ")

GetReturn(c, ret, arg) ==
    CASE c.st = "STAT" ->
            {IF ret # "ok" \/ arg.kind # "file" THEN Finish(c, "fail")
             ELSE Goto([c EXCEPT !.size = arg.size], "OPEN")}
      [] c.st = "OPEN" ->
            {IF ret # "ok" THEN Finish(c, "fail")
             ELSE Goto([c EXCEPT !.handle = arg], "LOOKUP")}
      [] c.st = "READ" ->
            CASE ret = "eof" -> {GetLoopEnd(c)}
              [] ret = "ok" -> {GetBlock(c, arg), [GetFails(c) EXCEPT !.faults = @ + 1]}
              [] OTHER -> {GetFails(c)}
      [] c.st = "CLOSE" ->
            {Goto([c EXCEPT !.error = @ \/ ret # "ok"], "CLOSE_LOCAL")}

\* The offset is good only if the remote file goes beyond it and the local
\* file ends there.
GetOffset(c) ==
    LET hit == GetOfst(c.table, c.call.from, c.call.to)
        f == c.files[c.call.to]
        off == IF c.size <= hit.entry.offset \/ Len(f.data) # hit.entry.offset
               THEN 0 ELSE hit.entry.offset
    IN  IF c.call.resume
        THEN [c EXCEPT !.table = hit.table, !.ofst = off,
                       !.stale = off > 0 /\ hit.entry.snap # Snap(c)]
        ELSE c

\* Mutant: always "ab".
GetOpenLocalAppends(c) == {Goto([c EXCEPT !.fl = TRUE], "READ")}

\* "ab" keeps what is there, "wb" starts afresh.
GetOpenLocal(c) ==
    {Goto([c EXCEPT !.fl = TRUE, !.files[c.call.to] =
              IF c.ofst > 0 THEN @ ELSE File(<<>>)], "READ"),
     Goto([c EXCEPT !.error = TRUE, !.faults = @ + 1], "CLOSE")}

GetLocal(c) ==
    CASE c.st = "LOOKUP" -> {Goto(GetOffset(c), "OPEN_LOCAL")}
      [] c.st = "OPEN_LOCAL" -> GetOpenLocal(c)
      [] c.st = "CLOSE_LOCAL" ->
            {Finish([c EXCEPT !.fl = FALSE], IF c.error THEN "fail" ELSE "ok")} \cup
            (IF c.fl THEN {[Finish([c EXCEPT !.fl = FALSE], "fail") EXCEPT !.faults = @ + 1]}
             ELSE {})

----------------------------------------------------------------------------
\* wolfSSH_SFTP_Put().

\* The loop's end, an error's too: an interrupt keeps the offset.
PutLoopEnd(c) ==
    Goto([c EXCEPT !.table = IF c.sftpInt THEN Saved(c) ELSE @,
                   !.cut = c.sftpInt, !.sftpInt = FALSE], "CLOSE_LOCAL")

\* The next block, read just before it is written; no block ends the loop.
PutNext(c) ==
    IF c.ofst >= Len(c.files[c.call.from].data) THEN {PutLoopEnd(c)}
    ELSE {Goto(c, "WRITE"), [PutLoopEnd([c EXCEPT !.error = TRUE]) EXCEPT !.faults = @ + 1]}

PutReturn(c, ret, arg) ==
    CASE c.st = "STAT" ->
            IF ret = "fatal" THEN {Finish([c EXCEPT !.table = Saved(c)], "fail")}
            ELSE {Goto([c EXCEPT !.ofst = IF ret = "ok" /\ arg.size = c.ofst THEN @ ELSE 0],
                       "OPEN_LOCAL")}
      [] c.st = "OPEN" ->
            IF ret # "ok" THEN {Goto([c EXCEPT !.handle = 0, !.error = TRUE], "CLOSE_LOCAL")}
            ELSE PutNext([c EXCEPT !.handle = arg])
      [] c.st = "WRITE" ->
            IF ret # "ok" THEN {PutLoopEnd([c EXCEPT !.error = TRUE])}
            ELSE LET put == [c EXCEPT !.ofst = @ + 1]
                 IN  IF c.sftpInt THEN {PutLoopEnd(put)} ELSE PutNext(put)
      [] c.st = "CLOSE" -> {Finish(c, IF c.error \/ ret # "ok" THEN "fail" ELSE "ok")}

\* The offset is good only if the local file goes beyond it; the remote
\* file is asked next.
PutOffset(c) ==
    LET hit == GetOfst(c.table, c.call.from, c.call.to)
        off == IF Len(c.files[c.call.from].data) <= hit.entry.offset THEN 0
               ELSE hit.entry.offset
    IN  IF c.call.resume
        THEN [c EXCEPT !.table = hit.table, !.ofst = off,
                       !.stale = off > 0 /\ hit.entry.snap # Snap(c)]
        ELSE c

PutLocal(c) ==
    CASE c.st = "LOOKUP" ->
            LET found == PutOffset(c)
            IN  {Goto(found, IF found.ofst > 0 THEN "STAT" ELSE "OPEN_LOCAL")}
      [] c.st = "OPEN_LOCAL" ->
            {IF c.files[c.call.from].kind # "file" THEN Finish(c, "fail")
             ELSE Goto([c EXCEPT !.fl = TRUE], "OPEN"),
             [Finish(c, "fail") EXCEPT !.faults = @ + 1]}
      [] c.st = "CLOSE_LOCAL" ->
            LET shut == [c EXCEPT !.fl = FALSE]
            IN  {IF c.handle > 0 THEN Goto(shut, "CLOSE") ELSE Finish(shut, "fail")}

----------------------------------------------------------------------------
\* The other calls.

LsReturn(c, ret, arg) ==
    CASE c.st = "REALPATH" -> IF ret = "ok" THEN Goto(c, "OPENDIR") ELSE Finish(c, "fail")
      [] c.st = "OPENDIR" ->
            IF ret = "ok" THEN Goto([c EXCEPT !.handle = arg], "READDIR") ELSE Finish(c, "fail")
      [] c.st = "READDIR" ->
            IF ret = "ok" THEN Goto([c EXCEPT !.names = Append(@, arg)], "READDIR")
            ELSE Goto(c, "CLOSE")
      [] c.st = "CLOSE" -> Finish(c, IF ret = "ok" THEN "ok" ELSE "fail")

Result(ret) == IF ret = "ok" THEN "ok" ELSE "fail"

\* CHMOD and Rename ask for the attributes first, Remove for the link's.
ChmodReturn(c, ret) == IF c.st = "STAT" /\ ret = "ok" THEN Goto(c, "SETSTAT") ELSE Finish(c, Result(ret))
RenameReturn(c, ret) == IF c.st = "STAT" /\ ret = "ok" THEN Goto(c, "RENAME") ELSE Finish(c, Result(ret))
RemoveReturn(c, ret) == IF c.st = "LSTAT" /\ ret = "ok" THEN Goto(c, "REMOVE") ELSE Finish(c, Result(ret))

\* An application's own open keeps the handle for its close.
OpenReturn(c, ret, arg) ==
    IF ret = "ok" THEN Finish([c EXCEPT !.held = @ \cup {arg}], "ok") ELSE Finish(c, "fail")
CloseReturn(c, ret) == Finish([c EXCEPT !.held = @ \ {c.handle}], Result(ret))

Return(c, ret, arg) ==
    CASE c.call.op = "get" -> GetReturn(c, ret, arg)
      [] c.call.op = "put" -> PutReturn(c, ret, arg)
      [] c.call.op = "ls" -> {LsReturn(c, ret, arg)}
      [] c.call.op = "chmod" -> {ChmodReturn(c, ret)}
      [] c.call.op = "rename" -> {RenameReturn(c, ret)}
      [] c.call.op = "remove" -> {RemoveReturn(c, ret)}
      [] c.call.op = "open" -> {OpenReturn(c, ret, arg)}
      [] c.call.op = "close" -> {CloseReturn(c, ret)}
      [] OTHER -> {Finish(c, Result(ret))}

----------------------------------------------------------------------------
\* Steps of the client.

Dead == used.dead
Busy(c) == c.st # "idle"

\* The files a call names, what it is after, and what it forgets.
Calls ==
    [op : Ops \cap {"get"}, from : Remotes, to : Locals, resume : BOOLEAN] \cup
    [op : Ops \cap {"put"}, from : Locals, to : Remotes, resume : BOOLEAN] \cup
    {r \in [op : Ops \cap {"rename"}, from : Remotes, to : Remotes, resume : {FALSE}] :
        r.from # r.to} \cup
    [op : Ops \cap {"chmod", "remove", "mkdir", "rmdir", "stat", "open"}, from : Remotes,
     to : {"none"}, resume : {FALSE}] \cup
    [op : Ops \cap {"ls", "close"}, from : {"none"}, to : {"none"}, resume : {FALSE}]

\* Only SendPacketType() negotiates on its own account.
AppCall ==
    /\ ~Busy(client) /\ ~Dead
    /\ used.calls < MaxCalls
    /\ \E call \in Calls :
          /\ client.sftpState = "DONE" \/ FirstState(call.op) \in BySendPacketType \ {"CLOSE"}
          /\ \E h \in IF call.op = "close" THEN client.held ELSE {0} :
                client' = Goto([client EXCEPT !.call = call, !.handle = h, !.ofst = 0,
                                   !.size = 0, !.names = <<>>, !.cut = FALSE, !.stale = FALSE,
                                   !.result = "none"], FirstState(call.op))
    /\ used' = [used EXCEPT !.calls = @ + 1]
    /\ UNCHANGED <<server, remote, up, down>>

\* wolfSSH_SFTP_connect(), of the application's own or from SendPacketType().
Connect ==
    /\ client.sftpState = "BEGIN" /\ ~Dead
    /\ ~Busy(client) \/ client.phase = "build"
    /\ client' = [client EXCEPT !.sftpState = "RECV"]
    /\ up' = Append(up, Parts(Message("INIT", 0, <<>>, 0))[1])
    /\ UNCHANGED <<server, remote, down, used>>

ClientRecvInit ==
    /\ client.sftpState = "RECV" /\ ~Dead
    /\ down # <<>>
    /\ client' = [client EXCEPT !.sftpState = "DONE", !.reqId = @ + 1]
    /\ down' = Tail(down)
    /\ UNCHANGED <<server, remote, up, used>>

\* What an abandoned call left in sendState or setAtrState goes out first,
\* whatever is asked for now.
SetHeader ==
    LET m == Parts(Request(client))
    IN  /\ client.phase = "build" /\ client.sftpState = "DONE" /\ ~Dead
        /\ client' =
              [client EXCEPT !.phase = "send", !.uid = @ + 1,
                 !.out = CASE client.st \in BySendPacketType /\ client.sendState # <<>> -> client.sendState
                           [] client.st = "SETSTAT" /\ client.setAtrState # <<>> -> client.setAtrState
                           [] OTHER -> m,
                 !.sendState = IF client.st \in BySendPacketType THEN <<>> ELSE @,
                 !.setAtrState = IF client.st = "SETSTAT" THEN <<>> ELSE @]
        /\ UNCHANGED <<server, remote, up, down, used>>

SendPacketType ==
    /\ client.phase = "send" /\ ~Dead
    /\ up' = Append(up, Head(client.out))
    /\ client' = [client EXCEPT !.out = Tail(@),
                     !.phase = IF Len(client.out) = 1 THEN "header" ELSE "send"]
    /\ UNCHANGED <<server, remote, down, used>>

\* A full window.  The functions that ask NoticeError() wait; these do not:
\* wolfSSH_SFTP_Open() and _Rename() give up their buffer, LS, Rename and
\* CHMOD give up the call and leave the request where it is.
WindowFullIn(c) ==
    CASE c.st = "OPEN" ->
            IF c.call.op = "put" THEN Goto([c EXCEPT !.handle = 0, !.error = TRUE], "CLOSE_LOCAL")
            ELSE Goto(c, "OPEN")
      [] c.st = "RENAME" -> Finish(c, "fail")
      [] c.st = "SETSTAT" -> Finish([c EXCEPT !.setAtrState = c.out], "fail")
      [] c.st = "READDIR" -> Goto([c EXCEPT !.sendState = c.out], "CLOSE")
      [] OTHER -> Finish([c EXCEPT !.sendState = c.out], "fail")

SendWindowFull ==
    /\ client.phase = "send" /\ ~Dead
    /\ IF client.st \in {"OPEN", "RENAME"}
       THEN (IF Len(client.out) = 2 THEN "start" ELSE "inside") \in WindowFull
       ELSE /\ "shared" \in WindowFull
            /\ client.call.op \in {"ls", "rename"} \/ client.st = "SETSTAT"
    /\ used.fulls < MaxFulls
    /\ used' = [used EXCEPT !.fulls = @ + 1]
    /\ client' = [WindowFullIn(client) EXCEPT !.out = <<>>]
    /\ UNCHANGED <<server, remote, up, down>>

\* A function returns to the call that runs it.
ReturnWith(c, ret, arg) ==
    /\ client' \in Return(c, ret, arg)
    /\ client'.faults + used.faults <= MaxFaults

\* MKDIR, RMDIR, Remove and Close look at the type before the id.
TypeFirst == {"MKDIR", "RMDIR", "REMOVE", "CLOSE"}

\* A wrong type leaves its body in the stream, except to STAT.
GetHeader ==
    LET p == Head(down)
        known == p.part = "header" /\ p.m.id = client.reqId
        wanted == p.m.type \in Expected(client.st) \/ client.st \in {"STAT", "LSTAT"}
        next == [client EXCEPT !.reqId = @ + 1]
    IN  /\ client.phase = "header" /\ ~Dead
        /\ down # <<>>
        /\ \/ /\ ~known
              /\ ReturnWith(client, "fatal", 0)
           \/ /\ known /\ ~wanted
              /\ ReturnWith(IF client.st \in TypeFirst THEN client ELSE next, "fatal", 0)
           \/ /\ known /\ wanted
              /\ client' = [next EXCEPT !.phase = "body", !.hdr = p.m]
        /\ down' = Tail(down)
        /\ UNCHANGED <<server, remote, up, used>>

\* What a function has to show for a status in place of the real answer.
Payload(st, r) ==
    CASE st \in {"STAT", "LSTAT"} /\ r.type # "ATTRS" -> [kind |-> "none", size |-> 0]
      [] st \in {"OPEN", "OPENDIR"} /\ r.type # "HANDLE" -> 0
      [] OTHER -> r.arg

ReadBody ==
    LET r == client.hdr
        ret == IF r.type \in Expected(client.st) THEN Returns(client.st, r) ELSE "fatal"
    IN  /\ client.phase = "body" /\ ~Dead
        /\ down # <<>>
        /\ ReturnWith([client EXCEPT !.hdr = NoMessage], ret, Payload(client.st, r))
        /\ down' = Tail(down)
        /\ UNCHANGED <<server, remote, up, used>>

LocalStep ==
    /\ client.phase = "local"
    /\ client' \in IF client.call.op = "get" THEN GetLocal(client) ELSE PutLocal(client)
    /\ client'.faults + used.faults <= MaxFaults
    /\ UNCHANGED <<server, remote, up, down, used>>

\* On a lost connection every send and every read fails.
ConnectionFails ==
    /\ Dead
    /\ client.phase \in {"build", "send", "header", "body"}
    /\ ReturnWith([client EXCEPT !.out = <<>>, !.hdr = NoMessage], "fatal", 0)
    /\ UNCHANGED <<server, remote, up, down, used>>

ClientStep ==
    \/ Connect
    \/ ClientRecvInit
    \/ SetHeader
    \/ SendPacketType
    \/ GetHeader
    \/ ReadBody
    \/ LocalStep
    \/ ConnectionFails

\* wolfSSH_SFTP_Interrupt(), from a signal handler, another thread or the
\* status callback.
Interrupt ==
    /\ Busy(client) /\ client.call.op \in {"get", "put"}
    /\ ~client.sftpInt
    /\ used.ints < MaxInts
    /\ client' = [client EXCEPT !.sftpInt = TRUE]
    /\ used' = [used EXCEPT !.ints = @ + 1]
    /\ UNCHANGED <<server, remote, up, down>>

----------------------------------------------------------------------------
\* Steps of the server.

ServerRecvInit ==
    /\ server.sftpState = "BEGIN" /\ ~Dead
    /\ up # <<>>
    /\ server' = [server EXCEPT !.sftpState = "RECV"]
    /\ up' = Tail(up)
    /\ UNCHANGED <<client, remote, down, used>>

ServerSendInit ==
    /\ server.sftpState = "RECV" /\ ~Dead
    /\ server' = [server EXCEPT !.sftpState = "DONE"]
    /\ down' = Append(down, Parts(Message("VERSION", 0, <<>>, 0))[1])
    /\ UNCHANGED <<client, remote, up, used>>

\* A body where a header should be is garbage: the read fails and is dropped.
RecvHeader ==
    LET p == Head(up)
    IN  /\ server.sftpState = "DONE" /\ server.state = "RECV_READ" /\ ~Dead
        /\ up # <<>>
        /\ server' = IF p.part = "header"
                     THEN [server EXCEPT !.state = "RECV_DO", !.hdr = p.m] ELSE server
        /\ up' = Tail(up)
        /\ UNCHANGED <<client, remote, down, used>>

\* The reply takes the request's id.  No reply, and the request is dropped.
RecvDo ==
    /\ server.state = "RECV_DO" /\ ~Dead
    /\ up # <<>>
    /\ \E o \in Handler(server, remote, server.hdr) :
          /\ used' = [used EXCEPT !.faults = @ + (IF o.fault THEN 1 ELSE 0)]
          /\ used'.faults + client.faults <= MaxFaults
          /\ remote' = o.remote
          /\ server' = [o.server EXCEPT !.hdr = NoMessage,
                  !.state = IF o.reply.type = "none" THEN "RECV_READ" ELSE "RECV_SEND",
                  !.out = IF o.reply.type = "none" THEN <<>>
                          ELSE Parts(Message(o.reply.type, server.hdr.id, o.reply.arg,
                                             server.hdr.uid))]
    /\ up' = Tail(up)
    /\ UNCHANGED <<client, down>>

RecvSend ==
    /\ server.state = "RECV_SEND" /\ ~Dead
    /\ down' = Append(down, Head(server.out))
    /\ server' = [server EXCEPT !.out = Tail(@),
                     !.state = IF Len(server.out) = 1 THEN "RECV_READ" ELSE "RECV_SEND"]
    /\ UNCHANGED <<client, remote, up, used>>

\* wolfSSH_SFTP_free(), when the connection is gone.
ServerFree ==
    /\ Dead /\ server.state # "free"
    /\ server' = [server EXCEPT !.state = "free", !.fileList = {}, !.dirList = {},
                     !.fds = @ \ Handles(server), !.out = <<>>, !.hdr = NoMessage]
    /\ UNCHANGED <<client, remote, up, down, used>>

ServerStep ==
    \/ ServerRecvInit
    \/ ServerSendInit
    \/ RecvHeader
    \/ RecvDo
    \/ RecvSend
    \/ ServerFree

Drop ==
    /\ ~Dead
    /\ used.faults + client.faults < MaxFaults
    /\ up' = <<>> /\ down' = <<>>
    /\ used' = [used EXCEPT !.dead = TRUE, !.faults = @ + 1]
    /\ UNCHANGED <<client, server, remote>>

----------------------------------------------------------------------------
Init ==
    /\ client = [sftpState |-> "BEGIN", call |-> NoCall, st |-> "idle", phase |-> "idle",
                 out |-> <<>>, sendState |-> <<>>, setAtrState |-> <<>>, hdr |-> NoMessage,
                 reqId |-> 0, uid |-> 0, handle |-> 0, ofst |-> 0, size |-> 0, fl |-> FALSE,
                 error |-> FALSE, sftpInt |-> FALSE, table |-> [i \in 1 .. OfstSlots |-> NoOfst],
                 files |-> StartLocal, names |-> <<>>, held |-> {}, result |-> "none",
                 cut |-> FALSE, stale |-> FALSE, faults |-> 0]
    /\ server = [sftpState |-> "BEGIN", state |-> "RECV_READ", hdr |-> NoMessage, out |-> <<>>,
                 fileList |-> {}, dirList |-> {}, handleId |-> 0, fds |-> {}]
    /\ remote = StartRemote
    /\ up = <<>>
    /\ down = <<>>
    /\ used = [calls |-> 0, ints |-> 0, faults |-> 0, fulls |-> 0, dead |-> FALSE]

Next == AppCall \/ ClientStep \/ SendWindowFull \/ Interrupt \/ ServerStep \/ Drop

Spec == Init /\ [][Next]_vars

\* Both applications run their library: the client repeats a call that
\* returned with an error of NoticeError(), the server calls
\* wolfSSH_SFTP_read() while there is something to read or to send.  Neither
\* must call again, interrupt or lose the connection.
FairSpec == Spec /\ WF_vars(ClientStep) /\ WF_vars(ServerStep)

----------------------------------------------------------------------------
TypeOK ==
    /\ client.sftpState \in {"BEGIN", "RECV", "DONE"}
    /\ client.phase \in {"idle", "local", "build", "send", "header", "body"}
    /\ client.reqId \in Nat /\ client.handle \in Nat /\ client.ofst \in Nat
    /\ client.result \in {"none", "ok", "fail"}
    /\ DOMAIN client.files = Locals /\ DOMAIN client.table = 1 .. OfstSlots
    /\ server.sftpState \in {"BEGIN", "RECV", "DONE"}
    /\ server.state \in {"RECV_READ", "RECV_DO", "RECV_SEND", "free"}
    /\ server.fds \subseteq 1 .. server.handleId
    /\ DOMAIN remote = Remotes
    /\ \A n \in Remotes : remote[n].kind \in {"none", "file", "dir"}

\* A sequence of parts is whole: every header is followed by its own body.
Whole(q) ==
    \A i \in DOMAIN q :
        LET alone == q[i].m.type \in {"INIT", "VERSION"}
        IN  IF q[i].part = "header"
            THEN alone \/ (i < Len(q) /\ q[i + 1] = Parts(q[i].m)[2])
            ELSE i > 1 /\ q[i - 1] = Parts(q[i].m)[1]

Begun(hdr) == IF hdr.type = "none" THEN <<>> ELSE <<Parts(hdr)[1]>>

\* Both ends stay in step.  What was read of a message, what is under way
\* and what is still to be sent make whole messages, in both directions; and
\* a function reads the reply to the request it made and no other: request
\* ids, resumed states and abandoned requests never cross replies over.
InStep ==
    /\ ~Dead => /\ Whole(Begun(server.hdr) \o up \o client.out)
                /\ Whole(Begun(client.hdr) \o down \o server.out)
    /\ client.phase = "body" => client.hdr.uid = client.uid

\* Nothing stays open: the server's descriptors are those of its handles,
\* the client's file is closed when the call returns, and once the server
\* is quiet its handles are the ones the application asked to keep.
NoLeak ==
    /\ server.fds = Handles(server)
    /\ ~Busy(client) => ~client.fl
    /\ (~Busy(client) /\ ~Dead /\ up = <<>> /\ down = <<>> /\ server.state = "RECV_READ")
          => Handles(server) = client.held
    /\ Dead /\ server.state = "free" => server.fds = {}

\* A call that succeeds did what was asked: a transfer that was not cut
\* short leaves target and source alike, resumed ones too unless the files
\* changed since the offset was kept, and a listing has every name once.
Faithful ==
    ~Busy(client) /\ client.result = "ok" /\ ~client.cut /\ ~client.stale =>
        CASE client.call.op = "get" -> client.files[client.call.to].data = remote[client.call.from].data
          [] client.call.op = "put" -> remote[client.call.to].data = client.files[client.call.from].data
          [] client.call.op = "ls" ->
                /\ \A i, j \in DOMAIN client.names : i # j => client.names[i] \cap client.names[j] = {}
                /\ UNION {client.names[i] : i \in DOMAIN client.names} = {n \in Remotes : Exists(remote, n)}
          [] OTHER -> TRUE

\* Every call of the client returns, whatever was given up at a full window,
\* interrupted, refused or lost with the connection: the state a repeated call
\* resumes in never waits for a reply that is not to come.
CallReturns == Busy(client) ~> ~Busy(client)
=============================================================================
