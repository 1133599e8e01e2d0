-------------------------------- MODULE Scp --------------------------------
(***************************************************************************)
(* SCP over a session channel (src/wolfscp.c): the source walks a tree and *)
(* announces every entry, the sink builds it again, and each message waits *)
(* for a confirmation of one byte.  Either end may be the server, which    *)
(* reads the command of the client's exec request; the other end is the    *)
(* client.  A file is a sequence of units, and one unit is what the       *)
(* channel never splits.                                                   *)
(*                                                                         *)
(* Packets wait in net until the end that reads from the channel takes     *)
(* them into the channel's input buffer: one thread per end, so a packet   *)
(* is taken only where the code reads, or where it drives a key exchange   *)
(* that blocks it.  A key exchange is one KEXINIT and one NEWKEYS from     *)
(* each end here; Transport has the rest of it, ChannelWindow the window.  *)
(***************************************************************************)
EXTENDS Integers, Sequences, FiniteSets, SequencesExt

CONSTANTS
    Kind,       \* what each entry of the source's tree is
    Entries,    \* what each of its directories holds
    Size,       \* units in each of its files
    Jobs,       \* the transfers asked for
    AnyUnits,   \* what a source that follows no protocol may send
    BufUnits,   \* DEFAULT_SCP_BUFFER_SZ
    MaxMsg,     \* DEFAULT_SCP_MSG_SZ, in units
    MaxAny,     \* bound on what such a source sends
    MaxRekeys,  \* bound on key exchanges
    MaxFaults   \* bound on failures of the file systems and on changes there

Nodes == DOMAIN Kind
Ends == {"source", "sink"}
Peer(e) == IF e = "source" THEN "sink" ELSE "source"
None == "none"

VARIABLES
    job,     \* the transfer: server, flags of its command, path, rename, peer
    src,     \* the source's WOLFSSH and ScpSendCtx
    snk,     \* the sink's WOLFSSH, with scpRecvDirFd and scpRecvDirs
    net,     \* packets on their way to each end
    buf,     \* channelList->inputBuffer of each end
    keying,  \* isKeying
    gone,    \* "eof" once eofRxd, "close" once the channel is removed
    dirs,    \* directories at the sink: name and parent, by inode
    files,   \* files at the sink: <<directory, name>> to what was written
    budget,  \* key exchanges, faults and free messages so far
    lapse    \* history: where a confirmation and its read came apart

vars == <<job, src, snk, net, buf, keying, gone, dirs, files, budget, lapse>>
wire == <<net, buf, keying, gone>>
disk == <<dirs, files>>

----------------------------------------------------------------------------
(* What goes over the channel.  Every line ends in a newline; a            *)
(* confirmation of success is one zero byte and nothing else.              *)

Ok == [k |-> "ok", nm |-> None, n |-> 0]
Err == [k |-> "err", nm |-> None, n |-> 0]
Line(k, nm, n) == [k |-> k, nm |-> nm, n |-> n]
Unit(node, i) == [k |-> "unit", nm |-> node, n |-> i]
EndsLine(u) == u.k \in {"C", "D", "E", "T", "junk", "err"}

Data(units) == [p |-> "data", u |-> units]
Ctl(p) == [p |-> p, u |-> <<>>]

Base == 1
Away == 2

\* ParseScpCommand(): the flags of "scp -r -p -t path", in their order.
\* MakeScpCmd(), the client's, gives only the direction.
ParseScpCommand(flags, path) ==
    LET tofrom == {i \in DOMAIN flags : flags[i] \in {"t", "f"}}
        last == IF tofrom = {} THEN None ELSE flags[CHOOSE i \in tofrom : \A j \in tofrom : j <= i]
    IN  [ok |-> last # None /\ path,
         dir |-> last,
         recursive |-> "r" \in Range(flags),
         stamp |-> "p" \in Range(flags)]

MakeScpCmd(dir) == <<dir>>

----------------------------------------------------------------------------
Init ==
    /\ job \in Jobs
    /\ src = [st |-> IF job.server = "source" THEN "PARSE_COMMAND" ELSE "SETUP",
              next |-> "DONE", confirm |-> "continue", req |-> "single",
              recursive |-> FALSE, stamp |-> FALSE,
              node |-> None, size |-> 0, len |-> 0, fp |-> -1, offset |-> 0,
              buffered |-> <<>>, hdr |-> FALSE, noprog |-> FALSE,
              dirs |-> <<>>, status |-> IF job.peer = "any" THEN "any" ELSE "run"]
    /\ snk = [st |-> IF job.server = "sink" THEN "PARSE_COMMAND" ELSE "SETUP",
              next |-> "DONE", confirm |-> "continue",
              msg |-> <<>>, name |-> None, rename |-> FALSE, size |-> 0,
              offset |-> 0, fp |-> None, stamp |-> FALSE,
              fd |-> 0, dirs |-> <<>>, depth |-> 0,
              walk |-> <<>>, status |-> "run"]
    /\ net = [e \in Ends |-> <<>>]
    /\ buf = [e \in Ends |-> <<>>]
    /\ keying = [e \in Ends |-> FALSE]
    /\ gone = [e \in Ends |-> None]
    /\ dirs = <<[name |-> "base", up |-> Away], [name |-> "away", up |-> Away]>>
    /\ files = <<>>
    /\ budget = [rekeys |-> 0, faults |-> 0, any |-> 0]
    /\ lapse = {}

CanFault == budget.faults < MaxFaults
Fault == budget' = [budget EXCEPT !.faults = @ + 1]
CanRekey(e) == budget.rekeys < MaxRekeys /\ ~keying[e]

----------------------------------------------------------------------------
(* The channel, as wolfSSH_stream_send(), wolfSSH_stream_read() and        *)
(* wolfSSH_worker() show it to this file.                                  *)

\* net with pkts queued for the other end; a source of any kind reads nothing
Queued(e, pkts) ==
    IF job.peer = "any" /\ e = "sink" THEN net
    ELSE [net EXCEPT ![Peer(e)] = @ \o pkts]

\* ScpStreamSend(): sends once no key exchange is under way.  The packet may
\* reach the high-water mark, and then our KEXINIT follows it.
ScpStreamSend(e, units) ==
    /\ ~keying[e] /\ gone[e] # "close"
    /\ \/ /\ net' = Queued(e, <<Data(units)>>)
          /\ UNCHANGED <<keying, budget>>
       \/ /\ CanRekey(e)
          /\ net' = Queued(e, <<Data(units), Ctl("kexinit")>>)
          /\ keying' = [keying EXCEPT ![e] = TRUE]
          /\ budget' = [budget EXCEPT !.rekeys = @ + 1]
    /\ UNCHANGED <<buf, gone>>

\* The application gives a transfer up: it shuts the session down.
Bye(e) == net' = Queued(e, <<Ctl("close")>>)

\* The states in which an end reads through ScpStreamRead(), and those in
\* which it sends or reads and would drive a key exchange on.
Reading(e) ==
    IF e = "source" THEN src.st \in {"RECEIVE_CONFIRMATION", "FINAL"}
    ELSE \/ snk.st = "RECEIVE_CONFIRMATION"
         \/ snk.st = "RECEIVE_FILE" /\ snk.offset < snk.size

Driving(e) ==
    \/ Reading(e)
    \/ e = "source" /\ src.st \in {"SEND_CONFIRMATION", "CONFIRMATION_WITH_RECEIPT",
            "SEND_TIMESTAMP", "SEND_ENTER_DIRECTORY", "SEND_EXIT_DIRECTORY",
            "SEND_EXIT_DIRECTORY_FINAL", "SEND_FILE_HEADER", "SEND_FILE"}
    \/ e = "sink" /\ snk.st \in {"SEND_CONFIRMATION", "RECEIVE_MESSAGE"}

Running(e) == (IF e = "source" THEN src.status ELSE snk.status) = "run"

TakesWhenIdle(e) ==
    /\ Running(e) /\ Driving(e) /\ net[e] # <<>> /\ gone[e] = None /\ buf[e] = <<>>
    /\ Reading(e) \/ (e = "sink" /\ snk.st = "RECEIVE_MESSAGE")

\* DoReceive() takes the next packet: for a read that finds nothing buffered,
\* or from wolfSSH_worker() because a key exchange holds the end up.
Takes(e) ==
    /\ Running(e) /\ Driving(e) /\ net[e] # <<>> /\ gone[e] # "close"
    /\ \/ keying[e]
       \/ buf[e] = <<>> /\ gone[e] = None
          /\ (Reading(e) \/ (e = "sink" /\ snk.st = "RECEIVE_MESSAGE"))

DoReceive(e) ==
    LET pkt == Head(net[e])
        rest == [net EXCEPT ![e] = Tail(@)]
    IN  /\ Takes(e)
        /\ CASE pkt.p = "data" ->
                  /\ buf' = [buf EXCEPT ![e] = @ \o pkt.u]
                  /\ net' = rest /\ UNCHANGED <<keying, gone>>
             [] pkt.p = "kexinit" ->
                  /\ net' = [rest EXCEPT ![Peer(e)] = @ \o
                        (IF keying[e] THEN <<Ctl("newkeys")>>
                         ELSE <<Ctl("kexinit"), Ctl("newkeys")>>)]
                  /\ keying' = [keying EXCEPT ![e] = TRUE]
                  /\ UNCHANGED <<buf, gone>>
             [] pkt.p = "newkeys" ->
                  /\ keying' = [keying EXCEPT ![e] = FALSE]
                  /\ net' = rest /\ UNCHANGED <<buf, gone>>
             [] pkt.p \in {"eof", "close"} ->
                  /\ gone' = [gone EXCEPT ![e] = pkt.p]
                  /\ net' = rest /\ UNCHANGED <<buf, keying>>
             [] pkt.p = "exit" ->
                  /\ net' = rest /\ UNCHANGED <<buf, keying, gone>>
        /\ UNCHANGED <<job, src, snk, disk, budget, lapse>>

\* The packet DoReceive() takes is the one that reaches this end's receive
\* mark: its data is buffered, but our KEXINIT goes out first.
ReceiveAtMark(e) ==
    /\ Takes(e) /\ Head(net[e]).p = "data" /\ CanRekey(e)
    /\ buf' = [buf EXCEPT ![e] = @ \o Head(net[e]).u]
    /\ keying' = [keying EXCEPT ![e] = TRUE]
    /\ net' = [Queued(e, <<Ctl("kexinit")>>) EXCEPT ![e] = Tail(@)]
    /\ budget' = [budget EXCEPT !.rekeys = @ + 1]
    /\ UNCHANGED gone

\* A read that can return: data, or the end of it (ScpStreamRead()).
HasData(e) == Running(e) /\ ~keying[e] /\ buf[e] # <<>> /\ gone[e] # "close"
AtEnd(e) ==
    /\ Running(e)
    /\ gone[e] = "close" \/ (gone[e] = "eof" /\ buf[e] = <<>>)

----------------------------------------------------------------------------
(* The sink's directories: a descriptor for the one it is in and, for each *)
(* one above it, only its device and inode (WOLFSSH_HAVE_DIRFD).           *)

DirAt(fd, nm) == {i \in DOMAIN dirs : dirs[i].up = fd /\ dirs[i].name = nm /\ i # fd}

\* ScpRecvDirEnter(): made unless it exists, then opened as a directory
ScpRecvDirEnter(nm) ==
    IF <<snk.fd, nm>> \in DOMAIN files
    THEN /\ snk' = [snk EXCEPT !.confirm = "abort", !.st = "SEND_CONFIRMATION",
                               !.next = "RECEIVE_MESSAGE", !.name = nm]
         /\ UNCHANGED disk
    ELSE LET made == DirAt(snk.fd, nm) = {}
             fd == IF made THEN Len(dirs) + 1 ELSE CHOOSE i \in DirAt(snk.fd, nm) : TRUE
         IN  /\ dirs' = IF made THEN Append(dirs, [name |-> nm, up |-> snk.fd]) ELSE dirs
             /\ snk' = [snk EXCEPT !.confirm = "continue", !.st = "SEND_CONFIRMATION",
                            !.next = "RECEIVE_MESSAGE", !.name = nm,
                            !.dirs = <<snk.fd>> \o @, !.fd = fd,
                            !.depth = @ + 1, !.walk = Append(@, fd)]
             /\ UNCHANGED files

LeaveUnchecked(up) == TRUE

\* ScpRecvDirLeave(): ".." must be the directory that was left for this one
ScpRecvDirLeave(up) == up = Head(snk.dirs)

\* wsScpRecvCallback(): WOLFSSH_SCP_END_DIR
EndDir ==
    LET up == dirs[snk.fd].up
        left == snk.depth > 0 /\ snk.dirs # <<>> /\ ScpRecvDirLeave(up)
    IN  /\ snk' = IF left
                  THEN [snk EXCEPT !.confirm = "continue", !.st = "SEND_CONFIRMATION",
                            !.next = "RECEIVE_MESSAGE", !.dirs = Tail(@), !.fd = up,
                            !.depth = @ - 1, !.walk = Front(@)]
                  ELSE [snk EXCEPT !.confirm = "abort", !.st = "SEND_CONFIRMATION",
                            !.next = "RECEIVE_MESSAGE"]
        /\ UNCHANGED disk

\* wsScpRecvCallback(): WOLFSSH_SCP_NEW_FILE, through ScpRecvFileOpen().  What
\* is there is truncated; a directory of that name cannot be opened.
NewFile(nm, sz) ==
    IF DirAt(snk.fd, nm) # {}
    THEN /\ snk' = [snk EXCEPT !.confirm = "abort", !.st = "SEND_CONFIRMATION",
                        !.next = "RECEIVE_FILE", !.name = nm, !.size = sz]
         /\ UNCHANGED disk
    ELSE /\ files' = [f \in DOMAIN files \union {<<snk.fd, nm>>} |->
                        IF f = <<snk.fd, nm>> THEN <<>> ELSE files[f]]
         /\ snk' = [snk EXCEPT !.confirm = "continue", !.st = "SEND_CONFIRMATION",
                        !.next = "RECEIVE_FILE", !.name = nm, !.size = sz,
                        !.fp = <<snk.fd, nm>>]
         /\ UNCHANGED dirs

\* A directory or a file that cannot be made or opened.
SinkAborts(nm) ==
    /\ CanFault /\ Fault
    /\ snk' = [snk EXCEPT !.confirm = "abort", !.st = "SEND_CONFIRMATION",
                          !.next = "RECEIVE_MESSAGE", !.name = nm]
    /\ UNCHANGED disk

----------------------------------------------------------------------------
(* The sink: wolfSSH_SCP_from() or wolfSSH_SCP_accept(), then DoScpSink(). *)

SinkFails == snk' = [snk EXCEPT !.status = "failed"] /\ Bye("sink")

\* The command or the arguments name a place: its last part is the name the
\* first entry gets unless it ends in a delimiter (ScpCheckForRename()), and
\* the rest must be a directory (ParseBasePathHelper()).
ScpCheckForRename(s) == [s EXCEPT !.rename = job.rename]

\* ParseBasePathHelper(): what is left of the path is entered, if it can be
ParseBasePathHelper == CanFault /\ Fault /\ SinkFails

SinkStart ==
    LET cmd == ParseScpCommand(job.flags, job.path)
        go == ScpCheckForRename([snk EXCEPT !.st = "SINK_BEGIN"])
    IN  /\ snk.status = "run"
        /\ snk.st \in {"PARSE_COMMAND", "SETUP"}
        /\ \/ /\ snk.st = "SETUP" \/ (cmd.ok /\ cmd.dir = "t")
              /\ snk' = go /\ UNCHANGED <<net, budget>>
           \/ snk.st = "PARSE_COMMAND" /\ ~cmd.ok /\ SinkFails /\ UNCHANGED budget
           \/ ParseBasePathHelper
        /\ UNCHANGED <<job, src, buf, keying, gone, disk, lapse>>

\* ScpRecvDirOpen(): the directory the transfer was sent to, with none above it
ScpRecvDirOpen(s) ==
    [s EXCEPT !.confirm = "continue", !.fd = Base, !.dirs = <<>>, !.depth = 0, !.walk = <<Base>>]

\* SCP_SINK_BEGIN: wsScpRecvCallback() with WOLFSSH_SCP_NEW_REQUEST
SinkBegin ==
    /\ snk.status = "run" /\ snk.st = "SINK_BEGIN"
    /\ LET s == [snk EXCEPT !.st = "SEND_CONFIRMATION", !.next = "RECEIVE_MESSAGE"]
       IN  \/ snk' = ScpRecvDirOpen(s) /\ UNCHANGED budget
           \/ CanFault /\ Fault /\ snk' = [s EXCEPT !.confirm = "abort"]
    /\ UNCHANGED <<job, src, wire, disk, lapse>>

\* SendScpConfirmation(): one that reports an error ends the transfer here
SinkConfirms ==
    /\ snk.status = "run" /\ snk.st = "SEND_CONFIRMATION"
    /\ \/ /\ snk.confirm # "abort"
          /\ ScpStreamSend("sink", <<Ok>>)
          /\ snk' = [snk EXCEPT !.st = snk.next]
       \/ /\ snk.confirm = "abort" /\ ~keying["sink"] /\ gone["sink"] # "close"
          /\ snk' = [snk EXCEPT !.status = "failed"]
          /\ net' = Queued("sink", <<Data(<<Err>>), Ctl("close")>>)
          /\ UNCHANGED <<buf, keying, gone, budget>>
       \/ gone["sink"] = "close" /\ SinkFails /\ UNCHANGED <<buf, keying, gone, budget>>
    /\ UNCHANGED <<job, src, disk, lapse>>

(* What ReceiveScpMessage() makes of the bytes up to a newline.  Lines that *)
(* arrived together are one message: what follows the first is ignored      *)
(* after E and T, and is part of the name after C and D.                    *)
\* GetScpFileSize(): a decimal number of 32 bits; -1 stands for any other text
GetScpFileSize(u) == [ok |-> u.n >= 0, size |-> u.n]

\* GetScpTimestamp(): a line that is not two times is refused
GetScpTimestamp(u) == u.k = "T" /\ u.n >= 0

\* GetScpFileName(): no name, a dot name and one with a delimiter are refused
GetScpFileName(msg) ==
    LET nm == IF Len(msg) = 1 THEN Head(msg).nm ELSE "glued"
    IN  [ok |-> nm # "bad", name |-> nm]

\* With a name given by the command, the first announcement's is not looked at.
Announced(msg) ==
    LET u == Head(msg)
        size == GetScpFileSize(u)
        file == GetScpFileName(msg)
        fine == CASE u.k \in {"C", "D"} -> size.ok /\ (snk.rename \/ file.ok)
                  [] u.k = "T" -> GetScpTimestamp(u)
                  [] OTHER -> TRUE
    IN  [k |-> IF fine THEN u.k ELSE "junk",
         nm |-> IF snk.rename THEN job.name ELSE file.name,
         n |-> size.size]

ReceiveScpMessage ==
    LET msg == snk.msg \o buf["sink"]
        whole == EndsLine(Last(msg))
        m == Announced(msg)
    IN  /\ snk.st = "RECEIVE_MESSAGE" /\ HasData("sink")
        /\ buf' = [buf EXCEPT !["sink"] = <<>>]
        /\ lapse' = IF Len(msg) > 1 THEN lapse \union {"glued"} ELSE lapse
        /\ \/ /\ ~whole /\ Len(msg) < MaxMsg
              /\ snk' = [snk EXCEPT !.msg = msg]
              /\ UNCHANGED <<net, disk, budget>>
           \/ /\ ~whole /\ Len(msg) >= MaxMsg
              /\ SinkFails /\ UNCHANGED <<disk, budget>>
           \/ /\ whole /\ m.k \notin {"C", "D", "E", "T"}
              /\ SinkFails /\ UNCHANGED <<disk, budget>>
           \/ /\ whole /\ m.k = "T"
              /\ snk' = [snk EXCEPT !.msg = <<>>, !.stamp = TRUE, !.confirm = "continue",
                            !.st = "SEND_CONFIRMATION", !.next = "RECEIVE_MESSAGE"]
              /\ UNCHANGED <<net, disk, budget>>
           \/ /\ whole /\ m.k \in {"C", "D", "E"}
              /\ snk' = [snk EXCEPT !.msg = <<>>, !.st = "CALLBACK", !.next = m.k,
                            !.name = m.nm, !.size = m.n,
                            !.rename = @ /\ m.k = "E"]
              /\ UNCHANGED <<net, disk, budget>>
        /\ UNCHANGED <<job, src, keying, gone>>

\* The receive callback for a directory, the end of one, or a file.
SinkCallback ==
    /\ snk.status = "run" /\ snk.st = "CALLBACK"
    /\ \/ snk.next = "D" /\ ScpRecvDirEnter(snk.name) /\ UNCHANGED budget
       \/ snk.next = "E" /\ EndDir /\ UNCHANGED budget
       \/ snk.next = "C" /\ NewFile(snk.name, snk.size) /\ UNCHANGED budget
       \/ SinkAborts(snk.name)
    /\ UNCHANGED <<job, src, wire, lapse>>

\* The other end is done, or gone: no more messages.  wolfSSH_SCP_from()
\* succeeds; the server's DoScpRequest() goes on to read the channel's end,
\* which a stream_read() after it has come reports as an error.
SinkDone ==
    /\ snk.st = "RECEIVE_MESSAGE" /\ AtEnd("sink")
    /\ snk' = [snk EXCEPT !.st = "DONE",
                   !.status = IF job.server = "sink" THEN "failed" ELSE "ok"]
    /\ Bye("sink")
    /\ UNCHANGED <<job, src, buf, keying, gone, disk, budget, lapse>>

\* WOLFSSH_SCP_FILE_DONE: the file is closed and given its times
FileDone(s) ==
    [s EXCEPT !.offset = 0, !.stamp = FALSE, !.fp = None, !.confirm = "continue",
         !.st = "SEND_CONFIRMATION", !.next = "RECEIVE_CONFIRMATION"]

\* SetTimestampInfo() runs, and may fail, once all is written
SetTimestampInfo(offset) == snk.stamp /\ offset = snk.size

\* WOLFSSH_SCP_FILE_PART and, after the last of them, WOLFSSH_SCP_FILE_DONE
FilePart(part) ==
    LET offset == snk.offset + Len(part)
        written == [files EXCEPT ![snk.fp] = @ \o part]
    IN  \/ /\ files' = written
           /\ snk' = IF offset < snk.size THEN [snk EXCEPT !.offset = offset] ELSE FileDone(snk)
           /\ UNCHANGED <<dirs, budget>>
        \/ \* the write fails, or setting the times does
           /\ CanFault /\ Fault
           /\ files' = files \/ (SetTimestampInfo(offset) /\ files' = written)
           /\ snk' = [snk EXCEPT !.confirm = "abort", !.fp = None,
                         !.st = "SEND_CONFIRMATION", !.next = "DONE"]
           /\ UNCHANGED dirs

\* SCP_RECEIVE_FILE: ReceiveScpFile() asks for what is missing and no more
ReceiveScpFile ==
    LET want == snk.size - snk.offset
        n == Min({want, Len(buf["sink"]), BufUnits})
        part == SubSeq(buf["sink"], 1, n)
    IN  /\ snk.status = "run" /\ snk.st = "RECEIVE_FILE"
        /\ \/ /\ want = 0 /\ FilePart(<<>>)
              /\ UNCHANGED <<net, buf>>
           \/ /\ want > 0 /\ HasData("sink") /\ FilePart(part)
              /\ buf' = [buf EXCEPT !["sink"] = SubSeq(@, n + 1, Len(@))]
              /\ UNCHANGED net
           \/ /\ want > 0 /\ AtEnd("sink") /\ SinkFails
              /\ UNCHANGED <<buf, disk, budget>>
        /\ UNCHANGED <<job, src, keying, gone, lapse>>
----------------------------------------------------------------------------
(* ReceiveScpConfirmation(), at either end: up to a message's worth of     *)
(* bytes is read and the first of them decides.                            *)

ConfirmationRead(e) ==
    /\ HasData(e)
    /\ buf' = [buf EXCEPT ![e] = <<>>]
    /\ lapse' = IF Len(buf[e]) > 1 THEN lapse \union {"glued"} ELSE lapse
    /\ UNCHANGED <<keying, gone, budget>>

\* wolfSSH_stream_read() returns no bytes when the packet it waited for has
\* started a key exchange: no bytes pass for a confirmation of success, and
\* the one that came is still to be read.
ConfirmationMissed(e) ==
    /\ ReceiveAtMark(e)
    /\ lapse' = lapse \union {"zero"}

SinkConfirmed ==
    /\ snk.status = "run" /\ snk.st = "RECEIVE_CONFIRMATION"
    /\ \/ /\ ConfirmationRead("sink")
          /\ \/ /\ Head(buf["sink"]) = Ok
                /\ snk' = [snk EXCEPT !.st = "RECEIVE_MESSAGE"] /\ UNCHANGED net
             \/ Head(buf["sink"]) # Ok /\ SinkFails
       \/ /\ ConfirmationMissed("sink")
          /\ snk' = [snk EXCEPT !.st = "RECEIVE_MESSAGE"]
       \/ /\ AtEnd("sink") /\ SinkFails
          /\ UNCHANGED <<buf, keying, gone, budget, lapse>>
    /\ UNCHANGED <<job, src, disk>>

----------------------------------------------------------------------------
(* The source's walk: wsScpSendCallback() over a stack of open             *)
(* directories, the innermost first, each with what readdir() has left.    *)

\* The units a read of n at offset fp gives, of the file as it is now.
FileRead(s, n) == [i \in 1..Min({n, s.len - s.fp}) |-> Unit(s.node, s.fp + i)]

\* What is read is buffered; the file is closed when it was all of it.
Filled(s, part) ==
    [s EXCEPT !.buffered = @ \o part,
        !.fp = IF Len(part) + s.offset = s.size THEN -1 ELSE s.fp + Len(part),
        !.confirm = "continue",
        !.st = IF s.hdr THEN "SEND_FILE"
               ELSE IF s.stamp THEN "SEND_TIMESTAMP" ELSE "SEND_FILE_HEADER"]

\* A file opened now: _GetFileSize() and then the first read.  A file that
\* changes in between is as long as it is when it is read.
Opened(s, node, now) ==
    LET o == [s EXCEPT !.node = node, !.size = Size[node], !.len = now, !.fp = 0]
    IN  Filled(o, FileRead(o, BufUnits))

SourceFails == src' = [src EXCEPT !.status = "failed"] /\ Bye("source")

\* WS_SCP_ABORT: the directories are freed (ScpSendCtxFreeDirs()) and the
\* sink is told
SourceAborts ==
    src' = [src EXCEPT !.dirs = <<>>, !.fp = -1, !.confirm = "abort",
                !.st = "SEND_CONFIRMATION", !.next = "DONE"]

\* WOLFSSH_SCP_SINGLE_FILE_REQUEST: nothing is said of a file that is not there
SingleFile ==
    /\ src.req = "single"
    /\ \/ /\ Kind[job.node] = "file"
          /\ src' = Opened(src, job.node, Size[job.node])
          /\ UNCHANGED <<net, budget>>
       \/ /\ Kind[job.node] = "file" /\ CanFault /\ Fault
          /\ \/ src' = Opened(src, job.node, Size[job.node] + 1) /\ UNCHANGED net
             \/ SourceFails
       \/ Kind[job.node] # "file" /\ SourceFails /\ UNCHANGED budget

\* ScpNewDir() and ScpPushDir(): a directory opened above the others
ScpNewDir(node) == [dir |-> node, left |-> Entries[node]]
ScpPushDir(s, node) ==
    [s EXCEPT !.dirs = <<ScpNewDir(node)>> \o @, !.node = node, !.st = "SEND_ENTER_DIRECTORY"]

\* FindNextDirEntry(): readdir(), without the two dot names
FindNextDirEntry(s) == Head(s.dirs).left

\* WOLFSSH_SCP_RECURSIVE_REQUEST with no directory open: the first one
RecursiveRoot ==
    /\ src.req = "recursive" /\ src.dirs = <<>>
    /\ \/ /\ Kind[job.node] = "dir"
          /\ src' = ScpPushDir(src, job.node)
          /\ UNCHANGED budget
       \/ Kind[job.node] # "dir" /\ SourceAborts /\ UNCHANGED budget
       \/ CanFault /\ Fault /\ SourceAborts
    /\ UNCHANGED net

\* FindNextDirEntry() has nothing left: ScpPopDir()
ScpPopDir ==
    /\ src.req = "recursive" /\ src.dirs # <<>> /\ FindNextDirEntry(src) = {}
    /\ src' = [src EXCEPT !.dirs = Tail(@),
                   !.st = IF Len(src.dirs) = 1 THEN "SEND_EXIT_DIRECTORY_FINAL"
                          ELSE "SEND_EXIT_DIRECTORY"]
    /\ UNCHANGED <<net, budget>>

\* ScpProcessEntry(): a directory is pushed, a file opened and read; links
\* are refused.  An entry that is neither file nor directory gives no bytes,
\* and so is announced with the size of the file before it.
ScpProcessEntry(node) ==
    LET s == [src EXCEPT !.dirs[1].left = @ \ {node}]
    IN  /\ src.req = "recursive" /\ src.dirs # <<>> /\ node \in FindNextDirEntry(src)
        /\ \/ /\ Kind[node] = "dir"
              /\ src' = ScpPushDir(s, node)
              /\ UNCHANGED budget
           \/ /\ Kind[node] = "file"
              /\ src' = Opened(s, node, Size[node]) /\ UNCHANGED budget
           \/ /\ Kind[node] = "file" /\ CanFault /\ Fault
              /\ src' = Opened(s, node, Size[node] + 1)
           \/ Kind[node] = "link" /\ SourceAborts /\ UNCHANGED budget
           \/ /\ Kind[node] = "other"
              /\ src' = [s EXCEPT !.node = node, !.confirm = "continue",
                             !.st = IF s.stamp THEN "SEND_TIMESTAMP" ELSE "SEND_FILE_HEADER"]
              /\ UNCHANGED budget
           \/ CanFault /\ Fault /\ SourceAborts
        /\ UNCHANGED net

\* WOLFSSH_SCP_CONTINUE_FILE_TRANSFER.  A callback of the application's own
\* may have no bytes to give.
ContinueFile ==
    LET part == FileRead(src, BufUnits - Len(src.buffered))
    IN  /\ src.req = "continue"
        /\ \/ src.fp = -1 /\ SourceAborts /\ UNCHANGED <<net, budget>>
           \/ /\ src.fp # -1 /\ part # <<>>
              /\ src' = Filled(src, part) /\ UNCHANGED net
              /\ UNCHANGED budget
           \/ src.fp # -1 /\ part = <<>> /\ SourceFails /\ UNCHANGED budget
           \/ /\ src.fp # -1 /\ CanFault /\ Fault
              /\ src' = Filled(src, <<>>) /\ UNCHANGED net

\* A file that is open is written to or truncated by someone else.
FileChanges ==
    /\ src.status = "run" /\ src.fp # -1 /\ CanFault /\ Fault
    /\ \E len \in {src.fp, src.size + 1} : src' = [src EXCEPT !.len = len]
    /\ UNCHANGED <<job, snk, wire, disk, lapse>>

----------------------------------------------------------------------------
(* The source: wolfSSH_SCP_to() or wolfSSH_SCP_accept(), then              *)
(* DoScpSource(), one action per state.                                    *)

\* SCP_SOURCE_BEGIN and SCP_SOURCE_INIT (ScpSourceInit())
SourceStart ==
    LET cmd == ParseScpCommand(job.flags, job.path)
        server == src.st = "PARSE_COMMAND"
        recurse == IF server THEN cmd.recursive ELSE job.recurse
    IN  /\ src.status = "run" /\ src.st \in {"PARSE_COMMAND", "SETUP"}
        /\ \/ /\ server => cmd.ok /\ cmd.dir = "f"
              /\ src' = [src EXCEPT !.st = "RECEIVE_CONFIRMATION", !.next = "TRANSFER",
                             !.recursive = recurse, !.stamp = server /\ cmd.stamp,
                             !.req = IF recurse THEN "recursive" ELSE "single"]
              /\ UNCHANGED net
           \/ server /\ ~cmd.ok /\ SourceFails
        /\ UNCHANGED <<job, snk, buf, keying, gone, disk, budget, lapse>>

SourceConfirmed ==
    /\ src.status = "run" /\ src.st = "RECEIVE_CONFIRMATION"
    /\ \/ /\ ConfirmationRead("source")
          /\ \/ /\ Head(buf["source"]) = Ok
                /\ src' = [src EXCEPT !.st = src.next] /\ UNCHANGED net
             \/ Head(buf["source"]) # Ok /\ SourceFails
       \/ /\ ConfirmationMissed("source")
          /\ src' = [src EXCEPT !.st = src.next]
       \/ /\ AtEnd("source") /\ SourceFails
          /\ UNCHANGED <<buf, keying, gone, budget, lapse>>
    /\ UNCHANGED <<job, snk, disk>>

\* SCP_TRANSFER: what wsScpSendCallback() returns selects the next state
Transfer ==
    /\ src.status = "run" /\ src.st = "TRANSFER"
    /\ SingleFile \/ RecursiveRoot \/ ScpPopDir \/ ContinueFile
       \/ \E node \in Nodes : ScpProcessEntry(node)
    /\ UNCHANGED <<job, snk, buf, keying, gone, disk, lapse>>

\* A message of the source and the state it waits in for its confirmation
Announce(st, unit, next) ==
    /\ src.status = "run" /\ src.st = st
    /\ ScpStreamSend("source", <<unit>>)
    /\ src' = [src EXCEPT !.st = "RECEIVE_CONFIRMATION", !.next = next,
                   !.hdr = @ \/ st = "SEND_FILE_HEADER"]
    /\ UNCHANGED <<job, snk, disk, lapse>>

SendScpTimestamp == Announce("SEND_TIMESTAMP", Line("T", None, 0), "SEND_FILE_HEADER")
SendScpFileHeader == Announce("SEND_FILE_HEADER", Line("C", src.node, src.size), "SEND_FILE")
SendScpEnterDirectory == Announce("SEND_ENTER_DIRECTORY", Line("D", src.node, 0), "TRANSFER")
SendScpExitDirectory ==
    \/ Announce("SEND_EXIT_DIRECTORY", Line("E", None, 0), "TRANSFER")
    \/ Announce("SEND_EXIT_DIRECTORY_FINAL", Line("E", None, 0), "DONE")

UnsentNotMoved(s, k) == [s EXCEPT !.buffered = SubSeq(@, 1, Len(@) - k), !.offset = @ + k,
                                  !.noprog = FALSE]

\* SCP_SEND_FILE with bytes buffered: some of them go, the rest move up
Unsent(s, k) == [s EXCEPT !.buffered = SubSeq(@, k + 1, Len(@)), !.offset = @ + k,
                          !.noprog = FALSE]

SendFilePart(k) ==
    /\ src.status = "run" /\ src.st = "SEND_FILE"
    /\ k \in 1..Len(src.buffered)
    /\ ScpStreamSend("source", SubSeq(src.buffered, 1, k))
    /\ src' = Unsent(src, k)
    /\ UNCHANGED <<job, snk, disk, lapse>>

\* SCP_SEND_FILE with none left: read more, or give up, or end the file.  A
\* recursive transfer forgets this file before it goes on to the next entry.
NextFile(s) ==
    IF s.recursive
    THEN [s EXCEPT !.offset = 0, !.hdr = FALSE, !.noprog = FALSE,
             !.next = "TRANSFER", !.req = "recursive"]
    ELSE [s EXCEPT !.next = "DONE"]

SendFileEnds ==
    /\ src.status = "run" /\ src.st = "SEND_FILE" /\ src.buffered = <<>>
    /\ \/ /\ src.offset < src.size /\ src.noprog /\ SourceFails
       \/ /\ src.offset < src.size /\ ~src.noprog
          /\ src' = [src EXCEPT !.noprog = TRUE, !.st = "TRANSFER", !.req = "continue"]
          /\ UNCHANGED net
       \/ /\ src.offset >= src.size
          /\ src' = NextFile([src EXCEPT !.st = "CONFIRMATION_WITH_RECEIPT"])
          /\ UNCHANGED net
    /\ UNCHANGED <<job, snk, buf, keying, gone, disk, budget, lapse>>

\* SendScpConfirmation(): the zero byte after a file, whose own confirmation
\* is then awaited; or the error that ends the transfer
SourceConfirms ==
    /\ src.status = "run"
    /\ \/ /\ src.st = "CONFIRMATION_WITH_RECEIPT"
          /\ ScpStreamSend("source", <<Ok>>)
          /\ src' = [src EXCEPT !.st = "RECEIVE_CONFIRMATION"]
       \/ /\ src.st = "SEND_CONFIRMATION" /\ ~keying["source"] /\ gone["source"] # "close"
          /\ src' = [src EXCEPT !.status = "failed"]
          /\ net' = Queued("source", <<Data(<<Err>>), Ctl("close")>>)
          /\ UNCHANGED <<buf, keying, gone, budget>>
    /\ UNCHANGED <<job, snk, disk, lapse>>

\* The channel was closed under a message that has to be sent
SourceCutOff ==
    /\ src.status = "run" /\ gone["source"] = "close"
    /\ Driving("source") /\ ~Reading("source")
    /\ SourceFails
    /\ UNCHANGED <<job, snk, buf, keying, gone, disk, budget, lapse>>

\* SCP_DONE: wolfSSH_stream_exit() sends the exit status, EOF and CLOSE.  A key
\* exchange under way, or started by the exit status, has EOF refused.  With a
\* write cut short after the exit status, wolfSSH_SCP_to() sends all of it
\* again; DoScpRequest() does not come back to DoScpSource() once it is DONE.
SourceExit ==
    LET over(status) == [src EXCEPT !.st = "FINAL", !.status =
                            IF job.server = "source" THEN "run" ELSE status]
    IN  /\ src.status = "run" /\ src.st = "DONE"
        /\ \/ /\ ~keying["source"] /\ gone["source"] # "close"
              /\ src' = over("ok")
              /\ net' = Queued("source", <<Ctl("exit"), Ctl("eof"), Ctl("close")>>)
              /\ UNCHANGED <<budget, lapse>>
           \/ /\ keying["source"] \/ gone["source"] = "close"
              /\ SourceFails /\ UNCHANGED <<budget, lapse>>
           \/ /\ CanRekey("source") /\ budget' = [budget EXCEPT !.rekeys = @ + 1]
              /\ SourceFails /\ UNCHANGED lapse
           \/ /\ CanFault /\ Fault /\ ~keying["source"] /\ gone["source"] # "close"
              /\ net' = Queued("source", <<Ctl("exit")>>)
              /\ IF job.server = "source"
                 THEN src' = over("ok") /\ lapse' = lapse \union {"short"}
                 ELSE UNCHANGED <<src, lapse>>
        /\ UNCHANGED <<job, snk, buf, keying, gone, disk>>

\* DoScpRequest() on the server reads on for the peer's end of the channel
SourceFinal ==
    /\ src.status = "run" /\ src.st = "FINAL"
    /\ HasData("source") \/ AtEnd("source")
    /\ src' = [src EXCEPT !.status = "ok"]
    /\ UNCHANGED <<job, snk, wire, disk, budget, lapse>>

----------------------------------------------------------------------------
(* Around the two ends.                                                    *)

\* A directory of the sink's is moved away by another program.
DirMoves(i) ==
    /\ i \in DOMAIN dirs \ {Base, Away} /\ dirs[i].up # Away
    /\ CanFault /\ Fault
    /\ dirs' = [dirs EXCEPT ![i].up = Away]
    /\ UNCHANGED <<job, src, snk, wire, files, lapse>>

\* A source that follows no protocol, and may close the channel.
Closed == Line("close", None, 0)

AnySend(u) ==
    /\ job.peer = "any" /\ budget.any < MaxAny /\ Len(net["sink"]) < 2
    /\ net' = [net EXCEPT !["sink"] =
                    Append(@, IF u = Closed THEN Ctl("close") ELSE Data(<<u>>))]
    /\ budget' = [budget EXCEPT !.any = @ + 1]
    /\ UNCHANGED <<job, src, snk, buf, keying, gone, disk, lapse>>

\* A receive that reaches the mark where no confirmation is awaited: the data
\* stays buffered until the key exchange is over.
MarkElsewhere(e) ==
    /\ ReceiveAtMark(e)
    /\ Reading(e) => e = "sink" /\ snk.st = "RECEIVE_FILE"
    /\ UNCHANGED <<job, src, snk, disk, lapse>>

SourceNext ==
    \/ SourceStart \/ SourceConfirmed \/ Transfer \/ SendFileEnds
    \/ SendScpTimestamp \/ SendScpFileHeader \/ SendScpEnterDirectory \/ SendScpExitDirectory
    \/ \E k \in 1..BufUnits + 1 : SendFilePart(k)
    \/ SourceConfirms \/ SourceCutOff \/ SourceExit \/ SourceFinal

SinkNext ==
    \/ SinkStart \/ SinkBegin \/ SinkConfirms \/ ReceiveScpMessage \/ SinkCallback
    \/ SinkDone \/ ReceiveScpFile \/ SinkConfirmed

Next ==
    \/ SourceNext
    \/ SinkNext
    \/ \E e \in Ends : DoReceive(e) \/ MarkElsewhere(e)
    \/ FileChanges
    \/ \E i \in DOMAIN dirs : DirMoves(i)
    \/ \E u \in AnyUnits : AnySend(u)

Spec == Init /\ [][Next]_vars

FairSpec ==
    /\ Spec
    /\ WF_vars(SourceNext) /\ WF_vars(SinkNext)
    /\ \A e \in Ends : WF_vars(DoReceive(e))

----------------------------------------------------------------------------
(* Where the sink has a directory of the source: found by name below the   *)
(* place the transfer was sent to.                                         *)
Landed ==
    LET above(n) == {d \in Nodes : Kind[d] = "dir" /\ n \in Entries[d]}
        first == IF job.rename THEN job.name ELSE job.node
        sent[n \in Nodes] == n = job.node \/ \E d \in above(n) : sent[d]
        at[n \in Nodes] ==
            IF n = job.node THEN DirAt(Base, first)
            ELSE UNION {UNION {DirAt(i, n) : i \in at[d]} : d \in above(n)}
        whole(n) == [i \in 1..Size[n] |-> Unit(n, i)]
        holds(i, nm, n) == <<i, nm>> \in DOMAIN files /\ files[<<i, nm>>] = whole(n)
    IN  IF src.recursive
        THEN \A n \in Nodes : Kind[n] = "file" /\ sent[n] =>
                \A d \in above(n) : \E i \in at[d] : holds(i, n, n)
        ELSE holds(Base, first, job.node)

\* When the source has had its last confirmation, every file it set out to
\* send is at the sink under its place in the tree, with all of its units in
\* order: whatever was cut up, blocked by a key exchange, truncated or grown
\* on the way, unless a confirmation and its read came apart (lapse) or a
\* directory was moved.
Copied ==
    src.st \in {"DONE", "FINAL"} /\ src.status # "failed"
        /\ lapse \intersect {"zero", "glued"} = {}
        /\ (\A i \in DOMAIN dirs \ {Base, Away} : dirs[i].up # Away)
    => Landed

\* The sink writes in the directory that the announcements it accepted lead to,
\* from the one the transfer was sent to: also when the source sends anything
\* in any order, and when a directory is moved while the sink is below it.
Confined == snk.walk # <<>> => snk.fd = Last(snk.walk) /\ snk.walk[1] = Base

\* Every transfer ends at both ends, with success or with an error, unless a
\* confirmation and its read came apart or the server's exit was cut short.
TransferEnds ==
    <>((src.status # "run" /\ snk.status # "run") \/ lapse # {} \/ job.peer = "any")
=============================================================================
