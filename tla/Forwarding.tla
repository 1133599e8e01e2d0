----------------------------- MODULE Forwarding -----------------------------
(***************************************************************************)
(* Remote forwards and global requests: what a client registers with       *)
(* wolfSSH_FwdRemoteSetup() and wolfSSH_FwdRemoteCancel(), the queue that  *)
(* pairs a peer's replies with its requests, and the test that an inbound  *)
(* forwarded-tcpip open names a forward that stands.  The other end is a   *)
(* wolfSSH server with its forwarding callback, or a peer that sends       *)
(* anything.                                                               *)
(*                                                                         *)
(* A send runs the application's send callback, and the one of             *)
(* SendGlobalRequest() its high water callback too, which may call the     *)
(* library again: a request is on the list `pending' for the length of its *)
(* send, and every other call may run in that window.  A request, the      *)
(* registration it builds and the reply slot it claims are named by the    *)
(* serial number of the call.                                              *)
(***************************************************************************)
EXTENDS Integers, Sequences, SequencesExt, FiniteSets, FiniteSetsExt

CONSTANTS
    Addrs,          \* bind addresses
    WildAddrs,      \* those FwdRemoteAddrIsWild() knows
    Ports,          \* ports other than 0
    MaxReplies,     \* WOLFSSH_MAX_FWD_REPLIES
    MaxCalls,       \* bound on requests of the client
    MaxNest,        \* bound on requests inside each other's send
    MaxOpens,       \* bound on channels the peer opens
    MaxStray,       \* bound on what a peer that follows no protocol sends
    PeerKinds,      \* subset of {"wolfssh", "any"}
    MatchModes,     \* subset of {"STRICT", "PORT", "OFF"}
    SendFaults,     \* subset of {"general", "timeout"}
    Nestings        \* subset of {"any", "apart"}: what callbacks may ask for

ASSUME ForwardingAssumption ==
    /\ WildAddrs \subseteq Addrs
    /\ Ports \subseteq Nat \ {0}
    /\ {MaxReplies, MaxCalls, MaxNest, MaxOpens, MaxStray} \subseteq Nat
    /\ PeerKinds \subseteq {"wolfssh", "any"}
    /\ MatchModes \subseteq {"STRICT", "PORT", "OFF"}
    /\ SendFaults \subseteq {"general", "timeout"}
    /\ Nestings \subseteq {"any", "apart"}

VARIABLES
    ssh,        \* the client's session
    toServer,   \* what reached the peer and is not handled
    toClient,   \* what the peer sent and the client has not read
    listeners,  \* binds the server listens at
    dead,       \* framed output was lost: the session is out of step
    opens,      \* channels the peer opened
    stray,      \* messages sent by a peer that follows no protocol
    log         \* history: every request that was not given up, by serial

vars == <<ssh, toServer, toClient, listeners, dead, opens, stray, log>>

None == 0

NoAddr == "no address"

Bind(a, p) == [addr |-> a, port |-> p]

-----------------------------------------------------------------------------
(* The registry: fwdRemoteList, the reply queue, the requests in flight. *)

\* The elements of a sequence at some of its indices, in order.
Kept(q, at) ==
    LET kept[n \in 0 .. Len(q)] ==
            IF n = 0 THEN <<>>
            ELSE IF n \in at THEN Append(kept[n - 1], q[n]) ELSE kept[n - 1]
    IN  kept[Len(q)]

\* FwdReplyVoid() and FwdPendingVoid(): whatever named these forwards names
\* nothing.
FwdReplyVoid(s, gone) ==
    [s EXCEPT !.queue = [i \in DOMAIN @ |->
        IF @[i].entry \in gone THEN [@[i] EXCEPT !.entry = None] ELSE @[i]]]

FwdPendingVoid(s, gone) ==
    LET left(e) == IF e \in gone THEN None ELSE e
    IN  [s EXCEPT !.pending = [i \in DOMAIN @ |->
            [@[i] EXCEPT !.entry = left(s.pending[i].entry),
                         !.found = left(s.pending[i].found)]]]

\* FwdReplyRebind() and FwdPendingRebind(): what named one forward names
\* another.
FwdReplyRebind(s, from, to) ==
    [s EXCEPT !.queue = [i \in DOMAIN @ |->
        IF @[i].entry \in from THEN [@[i] EXCEPT !.entry = to] ELSE @[i]]]

FwdPendingRebind(s, from, to) ==
    [s EXCEPT !.pending = [i \in DOMAIN @ |->
        IF @[i].found \in from THEN [@[i] EXCEPT !.found = to] ELSE @[i]]]

\* Off the list, and freed.
Freed(s, gone) ==
    [s EXCEPT !.list = Kept(@, {i \in DOMAIN @ : @[i] \notin gone}),
              !.heap = [x \in DOMAIN @ \ gone |-> @[x]]]

\* Mutant: requests in flight keep a pointer to what is freed.
FwdRemoteUnlinkKeepsPending(s, gone) == Freed(FwdReplyVoid(s, gone), gone)

\* FwdRemoteUnlink(): off the list, out of every slot and request, and freed.
FwdRemoteUnlink(s, gone) == Freed(FwdPendingVoid(FwdReplyVoid(s, gone), gone), gone)

\* A registration stands at a bind once its port is known.
StandsAt(f, a, p) == ~f.portPending /\ f.port = p /\ f.addr = a

\* FwdRemoteFind(), FwdPendingFind()
FwdRemoteFind(s, a, p) ==
    LET at == {i \in DOMAIN s.list : StandsAt(s.heap[s.list[i]], a, p)}
    IN  IF at = {} THEN None ELSE s.list[Min(at)]

FwdPendingFind(s, a, p) ==
    LET at == {i \in DOMAIN s.pending :
                 /\ s.pending[i].entry # None
                 /\ StandsAt(s.heap[s.pending[i].entry], a, p)}
    IN  IF at = {} THEN None ELSE s.pending[Min(at)].entry

\* FwdPendingHasCancel()
FwdPendingHasCancel(s, e) ==
    \E i \in DOMAIN s.pending : s.pending[i].isCancel /\ s.pending[i].found = e

\* FwdReplyNames(): a slot whose request has not committed names its forward
\* by its bind.
FwdReplyNames(s, slot, e) ==
    \/ slot.entry = e
    \/ slot.uncommitted /\ slot.named /\ StandsAt(s.heap[e], slot.addr, slot.port)

SlotsNaming(s, e) == {i \in DOMAIN s.queue : FwdReplyNames(s, s.queue[i], e)}

\* FwdReplyNewest() as the kind of request it finds, FwdReplyHasSetup()
FwdReplyNewest(s, e) ==
    LET at == SlotsNaming(s, e)
    IN  IF at = {} THEN "none"
        ELSE IF s.queue[Max(at)].isCancel THEN "cancel" ELSE "setup"

FwdReplyHasSetup(s, e) == \E i \in SlotsNaming(s, e) : ~s.queue[i].isCancel

\* The peer named a port another registration stands for: the older one goes,
\* and what asked about it asks about this one.
FoldInto(s, e) ==
    LET dups == {d \in Range(s.list) \ {e} :
                   StandsAt(s.heap[d], s.heap[e].addr, s.heap[e].port)}
    IN  FwdRemoteUnlink(FwdPendingRebind(FwdReplyRebind(s, dups, e), dups, e), dups)

\* FwdRemoteSettle(): apply an answer to the forward it names.
SettleCancel(s, e, success) ==
    IF ~success
    THEN IF ~s.heap[e].confirmed /\ ~FwdReplyHasSetup(s, e)
         THEN FwdRemoteUnlink(s, {e}) ELSE s
    ELSE IF FwdReplyHasSetup(s, e)
         THEN [s EXCEPT !.heap[e].confirmed = FALSE]
         ELSE FwdRemoteUnlink(s, {e})

Confirm(s, e) == [s EXCEPT !.heap[e].confirmed = TRUE]

SettleSetup(s, e, success, port) ==
    IF ~success
    THEN IF ~s.heap[e].confirmed /\ FwdReplyNewest(s, e) = "none"
         THEN FwdRemoteUnlink(s, {e}) ELSE s
    ELSE IF ~s.heap[e].portPending THEN Confirm(s, e)
    ELSE IF port \notin Ports THEN FwdRemoteUnlink(s, {e})
    ELSE Confirm(FoldInto([s EXCEPT !.heap[e].port = port,
                                    !.heap[e].portPending = FALSE], e), e)

FwdRemoteSettle(s, e, isCancel, success, port) ==
    IF e = None THEN s
    ELSE IF isCancel THEN SettleCancel(s, e, success)
    ELSE SettleSetup(s, e, success, port)

\* FwdReplyNew(), and FwdReplyUnqueue() of a slot that may be gone already
FwdReplyNew(s, n, isCancel, named, a, p) ==
    [s EXCEPT !.queue = Append(@, [id |-> n, entry |-> None, isCancel |-> isCancel,
                                   uncommitted |-> TRUE, named |-> named,
                                   addr |-> a, port |-> p])]

FwdReplyUnqueue(s, n) ==
    [s EXCEPT !.queue = Kept(@, {i \in DOMAIN @ : @[i].id # n})]

\* FwdPendingPush(), FwdPendingPop(): requests nest, the head is the innermost.
FwdPendingPush(s, pend) == [s EXCEPT !.pending = <<pend>> \o @]

FwdPendingPop(s) == [s EXCEPT !.pending = Tail(@)]

Pending(n, isCancel, wantReply, isFwd) ==
    [id |-> n, entry |-> None, found |-> None, isCancel |-> isCancel,
     reply |-> wantReply, answered |-> FALSE, success |-> FALSE, port |-> 0,
     fwd |-> isFwd, stage |-> "sending", flushed |-> FALSE]

\* FwdRemotePrepare() for the call numbered n: a setup of a bind nobody
\* registered builds a registration, a request that wants a reply claims its
\* slot, and what the request names is resolved here.
FwdRemotePrepare(s, n, a, p, wantReply, isCancel) ==
    LET listed == FwdRemoteFind(s, a, p)
        found  == IF listed # None THEN listed ELSE FwdPendingFind(s, a, p)
        new    == ~isCancel /\ found = None
        built  == IF ~new THEN s
                  ELSE [s EXCEPT !.heap = [x \in DOMAIN @ \cup {n} |->
                          IF x = n THEN [addr |-> a, port |-> p,
                                         portPending |-> p = 0, confirmed |-> FALSE]
                          ELSE @[x]]]
        slot   == IF wantReply THEN FwdReplyNew(built, n, isCancel, TRUE, a, p) ELSE built
    IN  FwdPendingPush(slot, [Pending(n, isCancel, wantReply, TRUE) EXCEPT
                                !.entry = IF new THEN n ELSE None, !.found = found])

\* FwdReplyPrepare(): a request the application framed itself.
FwdReplyPrepare(s, n) ==
    FwdPendingPush(FwdReplyNew(s, n, FALSE, FALSE, NoAddr, 0),
                   Pending(n, FALSE, TRUE, FALSE))

\* The registration a commit links, or the one that stands at the bind by now.
LinkEntry(s, pend) ==
    LET e   == pend.entry
        dup == IF e = None \/ s.heap[e].portPending THEN None
               ELSE FwdRemoteFind(s, s.heap[e].addr, s.heap[e].port)
    IN  IF e = None THEN [s |-> s, target |-> pend.found]
        ELSE IF dup # None
             THEN [s |-> FwdRemoteUnlink(FwdReplyRebind(s, {e}, dup), {e}), target |-> dup]
             ELSE [s |-> [s EXCEPT !.list = Append(@, e)], target |-> e]

\* A request that wants no reply is the last word on its forward.
LastWord(s, e, isCancel) ==
    IF e = None THEN s
    ELSE IF isCancel THEN FwdRemoteUnlink(s, {e})
    ELSE Confirm(FwdReplyVoid(s, {e}), e)

CommitSlot(s, n, e) ==
    [s EXCEPT !.queue = [i \in DOMAIN @ |->
        IF @[i].id = n
        THEN [@[i] EXCEPT !.entry = e, !.named = FALSE, !.addr = NoAddr, !.port = 0,
                          !.uncommitted = FALSE]
        ELSE @[i]]]

\* Mutant: an answer that came in mid-send settles nothing.
FwdPendingCommitDropsVerdict(s) ==
    LET pend == Head(s.pending)
        link == LinkEntry(FwdPendingPop(s), pend)
    IN  IF pend.reply /\ pend.answered THEN link.s
        ELSE IF pend.reply THEN CommitSlot(link.s, pend.id, link.target)
        ELSE LastWord(link.s, link.target, pend.isCancel)

\* FwdPendingCommit(): the innermost request reached the peer.
FwdPendingCommit(s) ==
    LET pend == Head(s.pending)
        link == LinkEntry(FwdPendingPop(s), pend)
    IN  IF pend.reply /\ pend.answered
        THEN FwdRemoteSettle(link.s, link.target, pend.isCancel, pend.success, pend.port)
        ELSE IF pend.reply THEN CommitSlot(link.s, pend.id, link.target)
        ELSE LastWord(link.s, link.target, pend.isCancel)

\* FwdPendingDiscard(): it never went out.
FwdPendingDiscard(s) ==
    LET pend == Head(s.pending)
        gone == IF pend.entry = None THEN FwdPendingPop(s)
                ELSE FwdRemoteUnlink(FwdPendingPop(s), {pend.entry})
    IN  IF pend.reply THEN FwdReplyUnqueue(gone, pend.id) ELSE gone

\* wolfSSH_SetFwdRemoteMatch(): the application may choose how opens are
\* matched at any time, and nothing but the match reads it.
wolfSSH_SetFwdRemoteMatch(s, mode) == [s EXCEPT !.fwdRemoteMatch = mode]

\* FwdRemoteAddrIsWild(), FwdRemoteAddrMatch()
FwdRemoteAddrIsWild(a) == a \in WildAddrs

FwdRemoteAddrMatch(s, e, a, p) ==
    /\ ~s.heap[e].portPending /\ s.heap[e].port = p
    /\ \/ s.fwdRemoteMatch = "PORT"
       \/ FwdRemoteAddrIsWild(s.heap[e].addr)
       \/ s.heap[e].addr = a

\* The newest request for a forward is a cancel, queued or in its send.
Revoked(s, e) == FwdReplyNewest(s, e) = "cancel" \/ FwdPendingHasCancel(s, e)

\* FwdRemoteMatch(): does an inbound forwarded-tcpip name a forward that stands?
FwdRemoteMatch(s, a, p) ==
    \/ s.fwdRemoteMatch = "OFF"
    \/ \E i \in DOMAIN s.list :
          LET e == s.list[i]
          IN  /\ FwdRemoteAddrMatch(s, e, a, p)
              /\ ~Revoked(s, e)
              /\ s.heap[e].confirmed \/ FwdReplyNewest(s, e) # "none"
    \/ \E i \in DOMAIN s.pending :
          LET pend == s.pending[i]
          IN  /\ pend.entry # None
              /\ FwdRemoteAddrMatch(s, pend.entry, a, p)
              /\ ~Revoked(s, pend.entry)
              /\ ~(pend.answered /\ ~pend.success)

\* Mutant: an answer settles the newest request, not the oldest.
FwdRemoteReplyNewestFirst(s, success, port) ==
    IF s.queue = <<>> THEN s
    ELSE LET slot == Last(s.queue)
         IN  IF slot.uncommitted THEN s
             ELSE FwdRemoteSettle([s EXCEPT !.queue = Front(@)], slot.entry,
                                  slot.isCancel, success, port)

\* FwdRemoteReply(): the oldest slot is answered; the verdict on a request
\* still in its send is parked for the commit.
FwdRemoteReply(s, success, port) ==
    IF s.queue = <<>> THEN s
    ELSE LET slot == Head(s.queue)
             d    == [s EXCEPT !.queue = Tail(@)]
         IN  IF slot.uncommitted
             THEN [d EXCEPT !.pending = [i \in DOMAIN @ |->
                     IF @[i].id = slot.id
                     THEN [@[i] EXCEPT !.answered = TRUE, !.success = success, !.port = port]
                     ELSE @[i]]]
             ELSE FwdRemoteSettle(d, slot.entry, slot.isCancel, success, port)

\* FwdRemoteFreeList(), with the session.
FwdRemoteFreeList(s) ==
    [s EXCEPT !.heap = [x \in DOMAIN @ \ Range(s.list) |-> @[x]],
              !.list = <<>>, !.queue = <<>>]

-----------------------------------------------------------------------------
(* The client: its calls, its sends and what it reads. *)

Request(n, kind, a, p, wantReply) ==
    [id |-> n, kind |-> kind, addr |-> a, port |-> p, want |-> wantReply]

Frame(s, m) == [s EXCEPT !.out = Append(@, m)]

\* SendPacketFlush() drained the output buffer: every request still in its
\* send sees txFlushCount move.
Drained(s) ==
    [s EXCEPT !.out = <<>>,
              !.pending = [i \in DOMAIN @ |-> [@[i] EXCEPT !.flushed = TRUE]]]

\* The bytes reach the peer.  One that follows no protocol sends what it likes
\* whatever it gets.
OnTheWire == IF ssh.peer = "any" THEN toServer ELSE toServer \o ssh.out

\* The application may call into the session between calls and from its
\* callbacks, but a send callback that has written its bytes sends nothing
\* more before it returns: the library would send the same bytes again.
MaySend(s) == s.pending # <<>> => Head(s.pending).stage # "written"

Room(s, wantReply) == wantReply => Len(s.queue) < MaxReplies

\* A port-0 request of this address is not answered yet.
PortUnknown(s, a) == \E e \in DOMAIN s.heap : s.heap[e].addr = a /\ s.heap[e].portPending

\* What the callbacks of a send do.  "any": whatever they like.  "apart":
\* they make no request about a bind whose request is being sent, nor one
\* that may turn out to be when a port is named, and leave the session alone
\* while a request that wants no reply is being sent.
Reenters(s) == s.nesting = "any" \/ \A i \in DOMAIN s.pending : s.pending[i].reply

Nests(s, a, p) ==
    \/ s.nesting = "any"
    \/ \A i \in DOMAIN s.pending :
          LET m == log[s.pending[i].id]
          IN  m.addr # a \/ (m.port # p /\ 0 \notin {m.port, p})

CanCall(s) ==
    /\ ~dead /\ Len(log) < MaxCalls
    /\ Len(s.pending) < MaxNest
    /\ MaySend(s) /\ Reenters(s)

Logged(fwd, a, p, wantReply, isCancel) ==
    [fwd |-> fwd, addr |-> a, port |-> p, want |-> wantReply, isCancel |-> isCancel,
     givenUp |-> FALSE, heard |-> FALSE, success |-> FALSE]

\* wolfSSH_FwdRemoteSetup(): the arguments are checked, the registry prepared
\* and the packet framed; its send is under way.
wolfSSH_FwdRemoteSetup(a, p, wantReply) ==
    LET n == Len(log) + 1
    IN  /\ CanCall(ssh)
        /\ p = 0 => wantReply
        /\ Room(ssh, wantReply)
        /\ Nests(ssh, a, p)
        /\ ssh' = Frame(FwdRemotePrepare(ssh, n, a, p, wantReply, FALSE),
                        Request(n, "setup", a, p, wantReply))
        /\ log' = Append(log, Logged(TRUE, a, p, wantReply, FALSE))
        /\ UNCHANGED <<toServer, toClient, listeners, dead, opens, stray>>

\* wolfSSH_FwdRemoteCancel().  A forward cannot be cancelled before the reply
\* that names its port has been applied, and the application does not try.
wolfSSH_FwdRemoteCancel(a, p, wantReply) ==
    LET n == Len(log) + 1
    IN  /\ CanCall(ssh)
        /\ p # 0
        /\ Room(ssh, wantReply)
        /\ Nests(ssh, a, p)
        /\ PortUnknown(ssh, a) => wantReply /\ FwdRemoteFind(ssh, a, p) # None
        /\ ssh' = Frame(FwdRemotePrepare(ssh, n, a, p, wantReply, TRUE),
                        Request(n, "cancel", a, p, wantReply))
        /\ log' = Append(log, Logged(TRUE, a, p, wantReply, TRUE))
        /\ UNCHANGED <<toServer, toClient, listeners, dead, opens, stray>>

\* wolfSSH_global_request() with a reply wanted: it takes its place in the queue.
wolfSSH_global_request ==
    LET n == Len(log) + 1
    IN  /\ CanCall(ssh)
        /\ Room(ssh, TRUE)
        /\ ssh' = Frame(FwdReplyPrepare(ssh, n), Request(n, "app", NoAddr, 0, TRUE))
        /\ log' = Append(log, Logged(FALSE, NoAddr, 0, TRUE, FALSE))
        /\ UNCHANGED <<toServer, toClient, listeners, dead, opens, stray>>

\* The send callback of the innermost request puts the bytes on the wire and
\* has not returned.
CallbackWrites ==
    /\ ~dead
    /\ ssh.pending # <<>>
    /\ Head(ssh.pending).stage = "sending"
    /\ ~Head(ssh.pending).flushed
    /\ toServer' = OnTheWire
    /\ ssh' = [ssh EXCEPT !.out = <<>>, !.pending[1].stage = "written"]
    /\ UNCHANGED <<toClient, listeners, dead, opens, stray, log>>

\* The callback returns the count it wrote.  SendGlobalRequestFwd() commits
\* before its high water check, SendGlobalRequest()'s caller after it.
CallbackReturns ==
    /\ ssh.pending # <<>>
    /\ Head(ssh.pending).stage = "written"
    /\ LET d == Drained(ssh)
       IN  ssh' = IF Head(ssh.pending).fwd THEN FwdPendingCommit(d)
                  ELSE [d EXCEPT !.pending[1].stage = "highwater"]
    /\ UNCHANGED <<toServer, toClient, listeners, dead, opens, stray, log>>

HighwaterReturns ==
    /\ ssh.pending # <<>>
    /\ Head(ssh.pending).stage = "highwater"
    /\ ssh' = FwdPendingCommit(ssh)
    /\ UNCHANGED <<toServer, toClient, listeners, dead, opens, stray, log>>

\* The callback would block: the packet stays framed, or a send made inside
\* the callback took it along.  Either way it is delivered.
CallbackBlocks ==
    /\ ssh.pending # <<>>
    /\ Head(ssh.pending).stage = "sending"
    /\ ssh' = FwdPendingCommit(ssh)
    /\ UNCHANGED <<toServer, toClient, listeners, dead, opens, stray, log>>

\* SendPacketDelivered() for an error of the callback: only a flush made
\* meanwhile says that the request went out.  A general error drops what is
\* framed, and with it the sequence numbers it was sealed with.
CallbackFails(fault) ==
    LET pend == Head(ssh.pending)
        left == IF fault = "general" THEN [ssh EXCEPT !.out = <<>>] ELSE ssh
    IN  /\ ssh.pending # <<>>
        /\ pend.stage = "sending"
        /\ dead' = (dead \/ (fault = "general" /\ ssh.out # <<>>))
        /\ IF pend.flushed
           THEN ssh' = FwdPendingCommit(left) /\ UNCHANGED log
           ELSE /\ ssh' = FwdPendingDiscard(left)
                /\ log' = [log EXCEPT ![pend.id].givenUp = TRUE]
        /\ UNCHANGED <<toServer, toClient, listeners, opens, stray>>

\* Any other send, or wolfSSH_worker(), drains the output buffer.
Flush ==
    /\ ~dead
    /\ MaySend(ssh)
    /\ ssh.out # <<>>
    /\ toServer' = OnTheWire
    /\ ssh' = Drained(ssh)
    /\ UNCHANGED <<toClient, listeners, dead, opens, stray, log>>

\* DoRequestSuccess(), DoRequestFailure()
ReceiveReply ==
    /\ ~dead
    /\ Reenters(ssh)
    /\ toClient # <<>>
    /\ Head(toClient).kind = "reply"
    /\ LET m == Head(toClient)
       IN  /\ ssh' = FwdRemoteReply(ssh, m.success, m.port)
           /\ log' = IF m.id = None THEN log
                     ELSE [log EXCEPT ![m.id].heard = TRUE, ![m.id].success = m.success,
                                      ![m.id].port = IF @ = 0 THEN m.port ELSE @]
    /\ toClient' = Tail(toClient)
    /\ UNCHANGED <<toServer, listeners, dead, opens, stray>>

\* DoChannelOpen() of a forwarded-tcpip: FwdRemoteMatch() says how it is
\* answered, and the answer takes what is framed along or waits with it.  A
\* tcpip-forward sent to a client is refused by DoGlobalRequest() the same way.
ReceiveOther ==
    /\ ~dead
    /\ MaySend(ssh) /\ Reenters(ssh)
    /\ toClient # <<>>
    /\ Head(toClient).kind # "reply"
    /\ toClient' = Tail(toClient)
    /\ \/ toServer' = OnTheWire /\ ssh' = Drained(ssh)
       \/ UNCHANGED <<toServer, ssh>>
    /\ UNCHANGED <<listeners, dead, opens, stray, log>>

\* SshResourceFree(): the session goes between calls.
Free ==
    /\ ~dead
    /\ ssh.pending = <<>>
    /\ dead' = TRUE
    /\ ssh' = FwdRemoteFreeList(ssh)
    /\ UNCHANGED <<toServer, toClient, listeners, opens, stray, log>>

-----------------------------------------------------------------------------
(* The peer. *)

FromPeer(kind, n, ok, a, p) ==
    [kind |-> kind, id |-> n, success |-> ok, addr |-> a, port |-> p]

\* What the server's forwarding callback answers: there is none, it refuses,
\* it says success, or it names the port it bound.
Callback(res, p) == [res |-> res, port |-> p]

CallbackAnswers ==
    {Callback(r, 0) : r \in {"none", "refuse", "success"}} \cup {Callback("port", p) : p \in Ports}

\* DoGlobalRequestFwd(): the setup of a port-0 request that named no port is
\* undone and refused; only such a request is answered with a port.
DoGlobalRequestFwd(l, m, cb) ==
    LET verdict(ls, ok, p) == [l |-> ls, success |-> ok, port |-> p]
    IN  IF cb.res \in {"none", "refuse"} THEN verdict(l, FALSE, 0)
        ELSE IF m.kind = "cancel"
        THEN IF cb.res = "success" THEN verdict(l \ {Bind(m.addr, m.port)}, TRUE, 0)
             ELSE verdict(l, FALSE, 0)
        ELSE IF m.port # 0 THEN verdict(l \cup {Bind(m.addr, m.port)}, TRUE, 0)
        ELSE IF cb.res = "success" THEN verdict(l, FALSE, 0)
        ELSE verdict(l \cup {Bind(m.addr, cb.port)}, TRUE, cb.port)

\* The generic callback of DoGlobalRequestAny() settles a request by itself;
\* GlobalRequestNeedsFwdCb() keeps a port-0 forward from it.
GlobalRequestNeedsFwdCb(m) == m.kind = "setup" /\ m.port = 0

DoGlobalRequestAny(l, m, ok) ==
    [l       |-> CASE ok /\ m.kind = "setup"  -> l \cup {Bind(m.addr, m.port)}
                   [] ok /\ m.kind = "cancel" -> l \ {Bind(m.addr, m.port)}
                   [] OTHER -> l,
     success |-> ok, port |-> 0]

\* External: a listening socket is bound once, so no callback allocates a port
\* the server already listens at for this address.
CallbackBinds(l, m, cb) ==
    cb.res = "port" => Bind(m.addr, cb.port) \notin l

\* What DoGlobalRequest() of a server makes of a request, whatever its
\* callbacks say.
Verdicts(l, m) ==
    {DoGlobalRequestAny(l, m, ok) : ok \in
        IF GlobalRequestNeedsFwdCb(m) THEN {} ELSE BOOLEAN}
    \cup IF m.kind = "app" THEN {}
         ELSE {DoGlobalRequestFwd(l, m, cb) :
                 cb \in {c \in CallbackAnswers : CallbackBinds(l, m, c)}}

\* DoGlobalRequest(): the server answers a request that wants a reply as it
\* handles it.
DoGlobalRequest ==
    /\ ssh.peer = "wolfssh"
    /\ toServer # <<>>
    /\ LET m == Head(toServer)
       IN  \E v \in Verdicts(listeners, m) :
             /\ listeners' = v.l
             /\ toClient' = IF m.want
                            THEN Append(toClient,
                                        FromPeer("reply", m.id, v.success, NoAddr, v.port))
                            ELSE toClient
    /\ toServer' = Tail(toServer)
    /\ UNCHANGED <<ssh, dead, opens, stray, log>>

\* wolfSSH_ChannelFwdNewRemote(): somebody connected to a listener.
OpenForwarded ==
    /\ ssh.peer = "wolfssh"
    /\ opens < MaxOpens
    /\ \E b \in listeners :
          toClient' = Append(toClient, FromPeer("open", None, FALSE, b.addr, b.port))
    /\ opens' = opens + 1
    /\ UNCHANGED <<ssh, toServer, listeners, dead, stray, log>>

\* A peer that follows no protocol, one message at a time: what counts is when
\* the client reads it.
Stray ==
    /\ ssh.peer = "any"
    /\ toClient = <<>>
    /\ stray < MaxStray
    /\ stray' = stray + 1
    /\ \/ \E p \in Ports \cup {0} :
             toClient' = Append(toClient, FromPeer("reply", None, TRUE, NoAddr, p))
       \/ \E kind \in {"reply", "request"} :
             toClient' = Append(toClient, FromPeer(kind, None, FALSE, NoAddr, 0))
    /\ UNCHANGED <<ssh, toServer, listeners, dead, opens, log>>

-----------------------------------------------------------------------------

Init ==
    /\ ssh \in [heap : {<<>>}, list : {<<>>}, queue : {<<>>}, pending : {<<>>},
                out : {<<>>}, fwdRemoteMatch : {"STRICT"},
                peer : PeerKinds, nesting : Nestings]
    /\ ssh.peer = "any" => ssh.nesting = "any"
    /\ toServer = <<>>
    /\ toClient = <<>>
    /\ listeners = {}
    /\ dead = FALSE
    /\ opens = 0
    /\ stray = 0
    /\ log = <<>>

Call ==
    \/ \E a \in Addrs, p \in Ports \cup {0}, w \in BOOLEAN : wolfSSH_FwdRemoteSetup(a, p, w)
    \/ \E a \in Addrs, p \in Ports, w \in BOOLEAN : wolfSSH_FwdRemoteCancel(a, p, w)
    \/ wolfSSH_global_request

Send ==
    \/ CallbackWrites
    \/ CallbackReturns
    \/ HighwaterReturns
    \/ CallbackBlocks
    \/ \E f \in SendFaults : CallbackFails(f)
    \/ Flush

Next ==
    \/ Call
    \/ Send
    \/ ReceiveReply
    \/ ReceiveOther
    \/ Free
    \/ DoGlobalRequest
    \/ OpenForwarded
    \/ Stray

Spec == Init /\ [][Next]_vars

-----------------------------------------------------------------------------
(* Properties *)

Ids(q) == [i \in DOMAIN q |-> q[i].id]

\* The requests of a stream that want a reply, and the replies of one.
Wanted(q) == Kept(Ids(q), {i \in DOMAIN q : q[i].want})
Replies(q) == Kept(Ids(q), {i \in DOMAIN q : q[i].kind = "reply"})

\* Replies carry no request id, so the queue must hold exactly the requests
\* the peer will answer, in the order it will answer them, whatever was sent
\* from inside whose send and whichever sends were given up (FwdReplyNew()
\* claims the slot before the send, FwdReplyUnqueue() gives it back).
Paired ==
    (ssh.peer = "wolfssh" /\ ~dead)
      => Ids(ssh.queue) = Replies(toClient) \o Wanted(toServer) \o Wanted(ssh.out)

\* No pointer outlives what it points to and nothing is leaked: a registration
\* is on the list or held by the one request that is sending it, slots and
\* requests name registrations that exist, and a bind has one registration
\* (FwdRemoteUnlink(), FwdPendingCommit(), FwdRemoteSettle()).
Owned ==
    LET held == {i \in DOMAIN ssh.pending : ssh.pending[i].entry # None}
        live == DOMAIN ssh.heap
    IN  /\ live = Range(ssh.list) \cup {ssh.pending[i].entry : i \in held}
        /\ Cardinality(live) = Len(ssh.list) + Cardinality(held)
        /\ \A i \in DOMAIN ssh.queue : ssh.queue[i].entry \in live \cup {None}
        /\ \A i \in DOMAIN ssh.pending :
              {ssh.pending[i].entry, ssh.pending[i].found} \subseteq live \cup {None}
        /\ \A d, e \in Range(ssh.list) :
              ( /\ ~ssh.heap[d].portPending /\ ~ssh.heap[e].portPending
                /\ ssh.heap[d].addr = ssh.heap[e].addr
                /\ ssh.heap[d].port = ssh.heap[e].port ) => d = e

\* The requests that reached the peer, or will, and name a bind.
Naming(a, p) ==
    {n \in DOMAIN log : /\ log[n].fwd /\ ~log[n].givenUp
                        /\ log[n].addr = a /\ log[n].port = p}

\* The last request in a set that changed what the peer listens at.
Effective(n) == ~log[n].want \/ (log[n].heard /\ log[n].success)

\* What the client was told, and asked for, of a bind: while answers are owed
\* the last request sent governs, and afterwards the last that was granted.
Stands(a, p) ==
    LET all  == Naming(a, p)
        owed == {n \in all : log[n].want /\ ~log[n].heard}
        done == {n \in all : Effective(n)}
    IN  IF owed # {} THEN ~log[Max(all)].isCancel
        ELSE done # {} /\ ~log[Max(done)].isCancel

\* The last request sent governs (wolfssh/ssh.h): an open is admitted exactly
\* when the forward it names stands by what the client asked for and was
\* answered, between calls and inside the send of the newest request, whatever
\* crossed or was folded, in each mode of wolfSSH_SetFwdRemoteMatch()
\* (FwdRemoteMatch()).  An answer parked on a request in its send is applied
\* at the commit, and callbacks keep "apart" from what is being sent.
Governed ==
    ( /\ ssh.peer = "wolfssh" /\ ~dead
      /\ ssh.nesting = "apart"
      /\ \A i \in DOMAIN ssh.pending :
            LET pend == ssh.pending[i]
            IN  /\ pend.id = Len(log)
                /\ ~pend.answered
                /\ pend.reply \/ pend.isCancel )
      => \A a \in Addrs, p \in Ports, mode \in MatchModes :
            FwdRemoteMatch(wolfSSH_SetFwdRemoteMatch(ssh, mode), a, p)
              <=> \/ mode = "OFF"
                  \/ \E b \in Addrs : /\ b = a \/ b \in WildAddrs \/ mode = "PORT"
                                      /\ Stands(b, p)
=============================================================================
