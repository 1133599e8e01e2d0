----------------------------- MODULE SshdRelay -----------------------------
(***************************************************************************)
(* A shell or a command served by wolfsshd (SHELL_Subsystem() of           *)
(* apps/wolfsshd/wolfsshd.c): the process of the connection relays between *)
(* the channel of its peer and a child, over three pipes or over one       *)
(* terminal.  Output the channel does not take waits in a backlog, and     *)
(* input the child does not take in a buffer; neither may hold up the      *)
(* other direction.                                                        *)
(*                                                                         *)
(* One step of the parent is one stage of its loop.  The child runs a      *)
(* program of writes and reads, the peer a script of messages.  Data is in *)
(* units, numbered per stream.                                             *)
(***************************************************************************)
EXTENDS Integers, Sequences, FiniteSets, SequencesExt

CONSTANTS
    Scripts,     \* relay jobs by name: prog, tough, script, window, maxPacket
    PipeCap,     \* units a pipe or the terminal holds
    BufUnits,    \* WOLFSSHD_SHELL_BUFFER_SZ
    FlushTries,  \* WOLFSSHD_SHELL_FLUSH_TRIES
    MaxShort     \* bound on short writes of the socket

VARIABLES
    rel,         \* locals of SHELL_Subsystem() in the parent
    kid,         \* the child
    pipe,        \* units in each pipe; the terminal uses "in" and "out"
    chan,        \* the session channel and the output buffer
    peer         \* the peer, and what is on its way from it

relayVars == <<rel, kid, pipe, chan, peer>>

S == Scripts[rel.job]
Piped == ~rel.pty
Streams == {"out", "err"}
Least(a, b) == IF a < b THEN a ELSE b
Upto(s, n) == SubSeq(s, 1, Least(n, Len(s)))
From(s, n) == SubSeq(s, n + 1, Len(s))

RelayInit ==
    /\ rel = [job |-> "none", pty |-> FALSE, pc |-> "off", backlog |-> <<>>, ext |-> "out", state |-> "READY",
              childIn |-> <<>>, stdin |-> TRUE, empty |-> {}, connected |-> TRUE,
              wantWrite |-> FALSE, noWait |-> FALSE, ready |-> {}, drain |-> TRUE,
              tries |-> 0, end |-> "none"]
    /\ kid = [ip |-> 1, runs |-> FALSE, held |-> FALSE, signal |-> FALSE,
              wrote |-> [s \in Streams |-> 0], read |-> <<>>, sawEof |-> FALSE, status |-> "none"]
    /\ pipe = [s \in {"in", "out", "err"} |-> <<>>]
    /\ chan = [open |-> TRUE, window |-> 0, keying |-> FALSE, stuck |-> FALSE, unsent |-> <<>>,
               input |-> <<>>, eof |-> FALSE, shorts |-> 0]
    /\ peer = [ip |-> 1, net |-> <<>>, owed |-> 0, got |-> [s \in Streams |-> <<>>],
               sent |-> 0, closed |-> FALSE, over |-> FALSE]

----------------------------------------------------------------------------
(* The child.                                                              *)

(* The child's ends are open as long as it, or a process it left in the    *)
(* background, holds them.                                                 *)
Writers == kid.runs \/ kid.held
Op == IF kid.ip \in DOMAIN S.prog THEN S.prog[kid.ip] ELSE "exit"
AtEof(s) == pipe[s] = <<>> /\ ~Writers

(* The end of the child and SIGCHLD.  It ends a wait in select(), unless   *)
(* the signal came just before it.                                         *)
ChildSig(k, status, ends) ==
    [k EXCEPT !.runs = FALSE, !.status = status, !.signal = ends /\ rel.pc = "select"]

ChildWrites(s) ==
    /\ kid.runs /\ Op = s /\ Len(pipe[s]) < PipeCap
    /\ pipe' = [pipe EXCEPT ![s] = Append(@, kid.wrote[s] + 1)]
    /\ kid' = [kid EXCEPT !.wrote[s] = @ + 1, !.ip = @ + 1]
    /\ UNCHANGED <<rel, chan, peer>>

(* "in" reads a unit, "rest" reads to the end of its input; the terminal   *)
(* never ends.                                                             *)
ChildReads ==
    /\ kid.runs /\ Op \in {"in", "rest"}
    /\ \/ /\ pipe["in"] # <<>>
          /\ pipe' = [pipe EXCEPT !["in"] = Tail(@)]
          /\ kid' = [kid EXCEPT !.read = Append(@, Head(pipe["in"])),
                                !.ip = IF Op = "in" THEN @ + 1 ELSE @]
       \/ /\ pipe["in"] = <<>> /\ Piped /\ ~rel.stdin
          /\ kid' = [kid EXCEPT !.ip = @ + 1, !.sawEof = TRUE]
          /\ UNCHANGED pipe
    /\ UNCHANGED <<rel, chan, peer>>

(* "leave" starts a process that keeps the pipes, and it goes on its own.  *)
ChildLeaves ==
    /\ kid.runs /\ Op = "leave"
    /\ kid' = [kid EXCEPT !.held = TRUE, !.ip = @ + 1]
    /\ UNCHANGED <<rel, pipe, chan, peer>>

BackgroundEnds ==
    /\ kid.held /\ kid' = [kid EXCEPT !.held = FALSE]
    /\ UNCHANGED <<rel, pipe, chan, peer>>

ChildExits ==
    /\ kid.runs /\ Op = "exit"
    /\ \E ends \in BOOLEAN : kid' = ChildSig(kid, "exited", ends)
    /\ UNCHANGED <<rel, pipe, chan, peer>>

(* kill() with a signal the child may have a handler for.                  *)
Killed(sig) ==
    IF ~kid.runs \/ (sig = "INT" /\ S.tough) THEN kid ELSE ChildSig(kid, "signaled", FALSE)

----------------------------------------------------------------------------
(* The channel.                                                            *)

(* What wolfSSH_ChannelIdSend() and wolfSSH_extended_data_send() make of n *)
(* units: an error, a reason to wait or a count.                           *)
SendRet ==
    IF chan.keying THEN "REKEYING"
    ELSE IF chan.unsent # <<>> /\ chan.stuck THEN "WANT_WRITE"
    ELSE IF ~chan.open THEN "ERROR"
    ELSE IF chan.window = 0 \/ S.maxPacket = 0 THEN "WINDOW_FULL" ELSE "SENT"
SendCount(n) == Least(n, Least(chan.window, S.maxPacket))
Blocks == {"REKEYING", "WANT_WRITE", "WINDOW_FULL"}

Delivered(p, packets) ==
    FoldLeft(LAMBDA q, m : [q EXCEPT !.got[m.s] = @ \o m.data, !.owed = @ + Len(m.data)], p, packets)

(* A packet goes out behind what waits, all of it or, when the socket is   *)
(* full, none as far as the peer can tell.                                 *)
Put(s, data) ==
    LET packets == Append(chan.unsent, [s |-> s, data |-> data])
    IN \/ /\ ~chan.stuck
          /\ chan' = [chan EXCEPT !.window = @ - Len(data), !.unsent = <<>>]
          /\ peer' = Delivered(peer, packets)
       \/ /\ chan.shorts < MaxShort
          /\ chan' = [chan EXCEPT !.window = @ - Len(data), !.unsent = packets,
                                  !.stuck = TRUE, !.shorts = @ + 1]
          /\ UNCHANGED peer

(* A refused send flushes what waits if it can.                            *)
Flushed(c) == IF c.stuck THEN c ELSE [c EXCEPT !.unsent = <<>>]
FlushedTo(c, p) == IF c.stuck THEN p ELSE Delivered(p, c.unsent)
PutNothing == chan' = Flushed(chan) /\ peer' = FlushedTo(chan, peer)

OutputPending == chan'.unsent # <<>>

SocketDrains ==
    /\ chan.stuck /\ chan' = [chan EXCEPT !.stuck = FALSE]
    /\ UNCHANGED <<rel, kid, pipe, peer>>

----------------------------------------------------------------------------
(* The peer.                                                               *)

Says(m) == [peer EXCEPT !.net = Append(@, m)]
Msg(k, n) == [k |-> k, n |-> n]

(* A script ends with the peer waiting for the channel to be closed.       *)
PeerSends ==
    /\ rel.pc # "off" /\ peer.ip \in DOMAIN S.script /\ ~peer.over
    /\ LET op == S.script[peer.ip]
           p == [peer EXCEPT !.ip = @ + 1]
       IN peer' = CASE op = "data" -> [p EXCEPT !.sent = @ + 1, !.net = Append(@, Msg("data", p.sent + 1))]
                    [] op = "rekey" -> [p EXCEPT !.net = @ \o <<Msg("kexinit", 0), Msg("newkeys", 0)>>]
                    [] op = "hangup" -> [p EXCEPT !.net = Append(@, Msg("hangup", 0)), !.over = TRUE]
                    [] OTHER -> [p EXCEPT !.net = Append(@, Msg(op, 0))]
    /\ UNCHANGED <<rel, kid, pipe, chan>>

PeerCredits ==
    /\ peer.owed > 0 /\ ~peer.over
    /\ peer' = [Says(Msg("credit", peer.owed)) EXCEPT !.owed = 0]
    /\ UNCHANGED <<rel, kid, pipe, chan>>

(* A peer whose channel is closed goes away.                               *)
PeerLeaves ==
    /\ peer.closed /\ ~peer.over
    /\ peer' = [Says(Msg("hangup", 0)) EXCEPT !.over = TRUE]
    /\ UNCHANGED <<rel, kid, pipe, chan>>

(* wolfSSH_worker(): a message, then the output that waits.                *)
Received(m) ==
    CASE m.k = "data" -> [chan EXCEPT !.input = Append(@, m.n)]
      [] m.k = "eof" -> [chan EXCEPT !.eof = TRUE]
      [] m.k = "credit" -> [chan EXCEPT !.window = @ + m.n]
      [] m.k = "kexinit" -> [chan EXCEPT !.keying = TRUE]
      [] m.k = "newkeys" -> [chan EXCEPT !.keying = FALSE]
      [] m.k = "close" -> [chan EXCEPT !.open = FALSE, !.input = <<>>]
      [] OTHER -> chan

WorkerRet ==
    IF peer.net = <<>> THEN "WANT_READ"
    ELSE LET m == Head(peer.net)
         IN IF m.k = "hangup" THEN "ERROR"
            ELSE IF m.k = "close" /\ chan.open THEN "CHANNEL_CLOSED"
            ELSE IF m.k = "kexinit" THEN "REKEYING" ELSE "OK"

worker ==
    LET c == IF peer.net = <<>> THEN chan ELSE Received(Head(peer.net))
        p == [peer EXCEPT !.net = IF @ = <<>> THEN @ ELSE Tail(@),
                          !.closed = @ \/ WorkerRet = "CHANNEL_CLOSED"]
    IN chan' = Flushed(c) /\ peer' = FlushedTo(c, p)

----------------------------------------------------------------------------
(* The loop.                                                               *)

At(pc) == rel.pc = pc
Goto(pc) == rel' = [rel EXCEPT !.pc = pc]
Ends(why, r) == rel' = [r EXCEPT !.pc = "reap", !.end = why]

(* With a terminal there is no standard error to wait for.  A child that   *)
(* could not become the user exits before it runs anything.                *)
RelayStart(name, pty, execs) ==
    /\ At("off")
    /\ rel' = [rel EXCEPT !.job = name, !.pc = "top", !.pty = pty, !.empty = IF pty THEN {"err"} ELSE {}]
    /\ kid' = [kid EXCEPT !.runs = TRUE, !.ip = IF execs THEN 1 ELSE Len(Scripts[name].prog) + 1]
    /\ chan' = [chan EXCEPT !.window = Scripts[name].window]
    /\ UNCHANGED <<pipe, peer>>

(* Mutant: a packet size of zero is not looked at.                         *)
SHELL_BacklogStateAnySize(ret) ==
    IF ret = "REKEYING" \/ OutputPending THEN "BLOCKED"
    ELSE IF ~chan'.open THEN "NEVER"
    ELSE IF chan'.window = 0 THEN "BLOCKED" ELSE "READY"

SHELL_BacklogState(ret) ==
    IF ret = "REKEYING" \/ OutputPending THEN "BLOCKED"
    ELSE IF ~chan'.open \/ S.maxPacket = 0 THEN "NEVER"
    ELSE IF chan'.window = 0 THEN "BLOCKED" ELSE "READY"

NoWait ==
    \/ rel.backlog # <<>> /\ rel.state = "READY"
    \/ chan.input # <<>> /\ rel.childIn = <<>> /\ rel.backlog = <<>>
    \/ rel.empty = Streams /\ rel.backlog = <<>>

LoopTop ==
    /\ At("top")
    /\ IF ~kid.runs /\ rel.backlog = <<>> /\ ~rel.connected
       THEN Ends(IF rel.end = "none" THEN "closed" ELSE rel.end, rel) /\ UNCHANGED kid
       ELSE IF rel.backlog # <<>> /\ rel.state = "NEVER"
       THEN Ends("never", rel) /\ kid' = Killed("INT")
       ELSE rel' = [rel EXCEPT !.pc = "select", !.noWait = NoWait] /\ UNCHANGED kid
    /\ UNCHANGED <<pipe, chan, peer>>

(* Descriptors select() reports: the pipes only while no backlog waits.    *)
ReadyFds ==
    {s \in Streams \ rel.empty : rel.backlog = <<>> /\ (pipe[s] # <<>> \/ AtEof(s))}
        \union (IF peer.net # <<>> THEN {"socket"} ELSE {})
        \union (IF rel.wantWrite /\ ~chan.stuck THEN {"flush"} ELSE {})
        \union (IF rel.childIn # <<>> /\ (Piped => rel.stdin) /\ (Len(pipe["in"]) < PipeCap \/ ~Writers)
                THEN {"stdin"} ELSE {})

Select ==
    /\ At("select")
    /\ \/ kid.signal /\ Goto("top")
       \/ /\ ~kid.signal /\ (ReadyFds # {} \/ rel.noWait)
          /\ rel' = [rel EXCEPT !.pc = "worker", !.ready = ReadyFds]
    /\ kid' = [kid EXCEPT !.signal = FALSE]
    /\ UNCHANGED <<pipe, chan, peer>>

(* The peer closing its channel is the end of the child's input.           *)
LoopWorker ==
    /\ At("worker")
    /\ IF rel.wantWrite \/ rel.backlog # <<>> \/ chan.input # <<>> \/ rel.childIn # <<>>
            \/ "socket" \in rel.ready
       THEN /\ worker
            /\ LET r == [rel EXCEPT !.wantWrite = OutputPending]
               IN CASE WorkerRet = "CHANNEL_CLOSED" ->
                        /\ rel' = [r EXCEPT !.pc = "top", !.connected = FALSE,
                                            !.stdin = IF Piped THEN FALSE ELSE @,
                                            !.childIn = IF Piped /\ rel.stdin THEN <<>> ELSE @,
                                            !.state = IF rel.backlog # <<>> THEN "NEVER" ELSE @]
                        /\ UNCHANGED kid
                    [] WorkerRet = "REKEYING" ->
                        rel' = [r EXCEPT !.pc = "top"] /\ UNCHANGED kid
                    [] WorkerRet = "ERROR" -> Ends("error", r) /\ kid' = Killed("KILL")
                    [] OTHER -> rel' = [r EXCEPT !.pc = "input"] /\ UNCHANGED kid
       ELSE Goto("backlog") /\ UNCHANGED <<kid, chan, peer>>
    /\ UNCHANGED pipe

(* Input goes to the child as far as its pipe takes it.  Its end is passed *)
(* on only behind all of it; a terminal is not told of it.                 *)
LoopInput ==
    /\ At("input")
    /\ LET reads == rel.childIn = <<>> /\ chan.input # <<>> /\ rel.backlog = <<>>
           in == IF reads THEN Upto(chan.input, BufUnits) ELSE rel.childIn
           left == IF reads THEN From(chan.input, BufUnits) ELSE chan.input
           lost == Piped /\ ~rel.stdin
           room == PipeCap - Len(pipe["in"])
           took == IF lost \/ ~Writers THEN <<>> ELSE Upto(in, room)
           kept == IF lost THEN <<>> ELSE From(in, Len(took))
           ends == Piped /\ rel.stdin /\ (~chan.open \/ (chan.eof /\ left = <<>> /\ kept = <<>>))
       IN /\ pipe' = [pipe EXCEPT !["in"] = @ \o took]
          /\ chan' = [chan EXCEPT !.input = left]
          /\ IF in # <<>> /\ ~lost /\ ~Writers
             THEN Ends("stdin", [rel EXCEPT !.childIn = in])
             ELSE rel' = [rel EXCEPT !.pc = "backlog", !.childIn = kept, !.stdin = @ /\ ~ends]
    /\ UNCHANGED <<kid, peer>>

LoopBacklog ==
    /\ At("backlog")
    /\ LET n == SendCount(Len(rel.backlog))
           left == From(rel.backlog, n)
       IN CASE rel.backlog = <<>> -> Goto("err") /\ UNCHANGED <<kid, chan, peer>>
            [] rel.backlog # <<>> /\ SendRet = "SENT" ->
                /\ Put(rel.ext, Upto(rel.backlog, n))
                /\ rel' = IF left = <<>>
                          THEN [rel EXCEPT !.pc = "err", !.backlog = <<>>, !.state = "READY",
                                           !.ext = "out", !.wantWrite = @ \/ OutputPending]
                          ELSE [rel EXCEPT !.pc = "top", !.backlog = left,
                                           !.state = SHELL_BacklogState("SENT"),
                                           !.wantWrite = @ \/ OutputPending]
                /\ UNCHANGED kid
            [] rel.backlog # <<>> /\ SendRet \in Blocks ->
                /\ PutNothing
                /\ rel' = [rel EXCEPT !.pc = "top", !.state = SHELL_BacklogState(SendRet),
                                      !.wantWrite = @ \/ OutputPending]
                /\ UNCHANGED kid
            [] OTHER -> PutNothing /\ Ends("send", rel) /\ kid' = Killed("INT")
    /\ UNCHANGED pipe

(* One read from a stream of the child and one send of what it gave; next  *)
(* is where a send that was cut short goes on, and INT whether a failed    *)
(* one interrupts the child.                                               *)
Forward(s, next, cut, int) ==
    LET data == Upto(pipe[s], BufUnits)
        n == SendCount(Len(data))
        Keep(rest, pc, ret) ==
            rel' = [rel EXCEPT !.pc = pc, !.backlog = rest, !.ext = s,
                               !.state = SHELL_BacklogState(ret),
                               !.wantWrite = @ \/ OutputPending \/ ret = "WANT_WRITE"]
    IN CASE s \notin rel.ready -> Goto(next) /\ UNCHANGED <<kid, pipe, chan, peer>>
         [] s \in rel.ready /\ data = <<>> ->
                rel' = [rel EXCEPT !.pc = next, !.empty = @ \union {s}]
                /\ UNCHANGED <<kid, pipe, chan, peer>>
         [] s \in rel.ready /\ data # <<>> /\ SendRet = "SENT" ->
                /\ pipe' = [pipe EXCEPT ![s] = From(@, Len(data))]
                /\ Put(s, Upto(data, n))
                /\ IF n < Len(data) THEN Keep(From(data, n), cut, "SENT")
                   ELSE rel' = [rel EXCEPT !.pc = next, !.wantWrite = @ \/ OutputPending]
                /\ UNCHANGED kid
         [] s \in rel.ready /\ data # <<>> /\ SendRet \in Blocks ->
                /\ pipe' = [pipe EXCEPT ![s] = From(@, Len(data))]
                /\ PutNothing /\ Keep(data, "top", SendRet) /\ UNCHANGED kid
         [] OTHER ->
                /\ pipe' = [pipe EXCEPT ![s] = From(@, Len(data))]
                /\ PutNothing /\ Ends("send", rel) /\ kid' = IF int THEN Killed("INT") ELSE kid

LoopErr == At("err") /\ Forward("err", "out", "top", FALSE)
LoopOut == At("out") /\ Piped /\ Forward("out", "foot", "foot", TRUE)
LoopPty == At("out") /\ ~Piped /\ Forward("out", "foot", "foot", TRUE)

(* Mutant: the end of standard output counts for both streams.             *)
LoopFootOutOnly ==
    /\ At("foot")
    /\ rel' = IF ~kid.runs /\ rel.connected /\ "out" \in rel.empty /\ rel.backlog = <<>>
              THEN [rel EXCEPT !.pc = "top", !.connected = FALSE, !.end = "foot"]
              ELSE [rel EXCEPT !.pc = "top"]
    /\ UNCHANGED <<kid, pipe, chan, peer>>

(* The session is over when the child is and nothing can come from it any  *)
(* more.                                                                   *)
LoopFoot ==
    /\ At("foot")
    /\ rel' = IF ~kid.runs /\ rel.connected /\ rel.empty = Streams /\ rel.backlog = <<>>
              THEN [rel EXCEPT !.pc = "top", !.connected = FALSE, !.end = "foot"]
              ELSE [rel EXCEPT !.pc = "top"]
    /\ UNCHANGED <<kid, pipe, chan, peer>>

----------------------------------------------------------------------------
(* After the loop.                                                         *)

(* The child is given some time to end, then killed.  Closing a terminal   *)
(* hangs up on it.                                                         *)
Reap ==
    /\ At("reap")
    /\ rel' = [rel EXCEPT !.pc = "flush", !.stdin = FALSE, !.tries = 0,
                          !.drain = rel.backlog = <<>> \/ rel.state # "NEVER",
                          !.backlog = IF rel.state = "NEVER" THEN <<>> ELSE @]
    /\ kid' = IF kid.runs THEN Killed("KILL") ELSE kid
    /\ UNCHANGED <<pipe, chan, peer>>

(* SHELL_FlushOut(): a bounded number of tries, each ending in a wait that *)
(* the peer may or may not meet.  What is over after them is dropped; only *)
(* the backlog's loss keeps the pipes from being drained.                  *)
SHELL_FlushOut(next) ==
    LET n == SendCount(Len(rel.backlog))
        left == From(rel.backlog, n)
        gaveUp == [rel EXCEPT !.pc = next, !.backlog = <<>>, !.drain = @ /\ rel.pc # "flush"]
    IN CASE rel.backlog = <<>> ->
            rel' = [rel EXCEPT !.pc = next] /\ UNCHANGED <<chan, peer>>
         [] rel.backlog # <<>> /\ rel.tries >= FlushTries ->
            rel' = gaveUp /\ UNCHANGED <<chan, peer>>
         [] rel.backlog # <<>> /\ rel.tries < FlushTries /\ SendRet = "SENT" ->
            /\ Put(rel.ext, Upto(rel.backlog, n))
            /\ rel' = [rel EXCEPT !.backlog = left, !.tries = @ + 1]
         [] rel.backlog # <<>> /\ rel.tries < FlushTries /\ SendRet \in Blocks ->
            /\ worker
            /\ rel' = IF WorkerRet \in {"ERROR", "CHANNEL_CLOSED"} THEN gaveUp
                      ELSE [rel EXCEPT !.tries = @ + 1]
         [] OTHER -> rel' = gaveUp /\ UNCHANGED <<chan, peer>>

FlushBacklog == At("flush") /\ SHELL_FlushOut("drain out") /\ UNCHANGED <<kid, pipe>>

(* One read of each pipe, without waiting.                                 *)
DrainRead(s, pc, next) ==
    /\ At(pc)
    /\ LET data == IF Piped /\ rel.drain THEN Upto(pipe[s], BufUnits) ELSE <<>>
       IN /\ rel' = [rel EXCEPT !.pc = next, !.backlog = data, !.ext = s, !.tries = 0]
          /\ pipe' = [pipe EXCEPT ![s] = From(@, Len(data))]
    /\ UNCHANGED <<kid, chan, peer>>

Drain ==
    \/ DrainRead("out", "drain out", "send out")
    \/ At("send out") /\ SHELL_FlushOut("drain err") /\ UNCHANGED <<kid, pipe>>
    \/ DrainRead("err", "drain err", "send err")
    \/ At("send err") /\ SHELL_FlushOut("over") /\ UNCHANGED <<kid, pipe>>

Relaying == rel.pc \notin {"off", "over"}

Parent ==
    \/ LoopTop \/ Select \/ LoopWorker \/ LoopInput \/ LoopBacklog
    \/ LoopErr \/ LoopOut \/ LoopPty \/ LoopFoot
    \/ Reap \/ FlushBacklog \/ Drain

Child == \E s \in Streams : ChildWrites(s) \/ ChildReads \/ ChildLeaves \/ ChildExits

----------------------------------------------------------------------------
(* Properties.                                                             *)

Seq1(n) == [i \in 1..n |-> i]
OnTheWay(s) == FlattenSeq([i \in DOMAIN chan.unsent |->
                    IF chan.unsent[i].s = s THEN chan.unsent[i].data ELSE <<>>])
=============================================================================
