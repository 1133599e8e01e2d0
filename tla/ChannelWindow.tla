--------------------------- MODULE ChannelWindow ---------------------------
(***************************************************************************)
(* Flow control of one direction of one open channel.  The sender spends   *)
(* peerWindowSz; the receiver charges windowSz for what arrives, buffers   *)
(* it, and gives credit back as the application reads: at once, or parked  *)
(* in pendingWindowAdjust while a key exchange runs, after a disconnect,   *)
(* or when the send failed.                                                *)
(*                                                                         *)
(* Bytes are counted, not carried.  A queue is everything between the two  *)
(* sessions: the output buffer of one, the network, the input buffer of    *)
(* the other.  The four totals sent, rcvd, granted and credited are        *)
(* history: no guard reads them.                                           *)
(***************************************************************************)
EXTENDS Integers, Sequences

CONSTANTS
    WindowSz,        \* ctx->windowSz of the receiver, and its buffer's size
    MaxPacketSz,     \* ctx->maxPacketSz of the receiver
    PeerMaxPacketSz, \* ctx->maxPacketSz of the sender
    UINT32_MAX,
    SendFaults,      \* what may become of a window adjust (see CreditWindow)
    MaxFaults,       \* bound: window adjusts that do not succeed
    MaxSend,         \* bound: bytes the sending application writes in all
    MaxWrite,        \* bound: bytes of one write, and of one read
    MaxWire          \* bound: data packets under way at once

ASSUME WindowAssumption ==
    /\ WindowSz \in Nat \ {0}
    /\ MaxPacketSz \in Nat
    /\ PeerMaxPacketSz \in Nat
    /\ UINT32_MAX \in Nat
    /\ WindowSz <= UINT32_MAX
    /\ SendFaults \subseteq {"none", "memory", "timeout"}
    /\ MaxFaults \in Nat
    /\ MaxSend \in Nat
    /\ MaxWrite \in Nat
    /\ MaxWire \in Nat

VARIABLES
    peerWindowSz,         \* sender's channel->peerWindowSz
    windowSz,             \* receiver's channel->windowSz
    length, idx,          \* receiver's channel->inputBuffer
    unreadExt,            \* receiver's channel->extDataBuffer, length - idx
    pendingWindowAdjust,  \* receiver's channel->pendingWindowAdjust
    isKeying,             \* receiver's ssh->isKeying # 0
    disconnected,         \* receiver's ssh->disconnected
    dataWire,             \* data packets, sender to receiver
    adjustWire,           \* window adjusts, receiver to sender
    refused,              \* the error codes the two ends have raised
    faults,               \* window adjusts that did not succeed
    sent, rcvd,           \* bytes of data ever sent and received
    granted, credited     \* bytes of credit ever sent and received

window == <<peerWindowSz, windowSz, length, idx, unreadExt, pendingWindowAdjust>>
session == <<isKeying, disconnected>>
history == <<sent, rcvd, granted, credited>>
vars == <<window, session, dataWire, adjustWire, refused, faults, history>>

Min2(a, b) == IF a <= b THEN a ELSE b

\* What the data of a packet is: channel data, extended data of type stderr,
\* or extended data of a type wolfSSH does not know (it never sends one).
Kinds == {"stdout", "stderr", "other"}

\* upto is the sender's total once this packet is counted.
DataPackets == [kind : Kinds, sz : Nat, upto : Nat]
Adjusts == [sz : Nat, upto : Nat]

Refusals == {"WS_RECV_OVERFLOW_E", "WS_FATAL_ERROR", "WS_OVERFLOW_E"}

----------------------------------------------------------------------------
\* ChannelNew() on the receiver, ChannelUpdatePeer() on the sender.
Init ==
    /\ peerWindowSz = WindowSz
    /\ windowSz = WindowSz
    /\ length = 0 /\ idx = 0 /\ unreadExt = 0
    /\ pendingWindowAdjust = 0
    /\ isKeying = FALSE /\ disconnected = FALSE
    /\ dataWire = <<>> /\ adjustWire = <<>>
    /\ refused = {} /\ faults = 0
    /\ sent = 0 /\ rcvd = 0 /\ granted = 0 /\ credited = 0

\* Mutant: the write is cut to the packet limits only.
SendBoundNoWindow == Min2(MaxPacketSz, PeerMaxPacketSz)

\* SendChannelData() and SendChannelExtendedData(): the write is cut down to
\* the peer's window and both packet limits; a full window refuses it.
SendBound == Min2(Min2(peerWindowSz, MaxPacketSz), PeerMaxPacketSz)

SendChannelData(kind, dataSz) ==
    LET sz == Min2(dataSz, SendBound) IN
    /\ peerWindowSz # 0
    /\ SendBound = 0 => dataSz = 0
    /\ Len(dataWire) < MaxWire
    /\ sent + sz <= MaxSend
    /\ peerWindowSz' = peerWindowSz - sz
    /\ sent' = sent + sz
    /\ dataWire' = Append(dataWire, [kind |-> kind, sz |-> sz, upto |-> sent'])
    /\ UNCHANGED <<windowSz, length, idx, unreadExt, pendingWindowAdjust,
                   session, adjustWire, refused, faults, rcvd, granted, credited>>

----------------------------------------------------------------------------
\* SendChannelWindowAdjust() up to BundlePacket().
Bundle(total) ==
    /\ adjustWire' = Append(adjustWire, [sz |-> total, upto |-> granted + total])
    /\ granted' = granted + total

\* ChannelCreditWindow().  The send of an adjust may succeed, now or on a
\* later flush ("none"); fail before it is bundled ("memory"); or report
\* WS_SOCKET_ERROR_E with the packet still in the output buffer, for a later
\* flush to send ("timeout", which an I/O callback may answer).
CreditWindow(amount, keying) ==
    LET total == pendingWindowAdjust + amount
        park == total = 0 \/ keying \/ disconnected
    IN  IF total > UINT32_MAX
        THEN /\ refused' = refused \cup {"WS_OVERFLOW_E"}
             /\ UNCHANGED <<pendingWindowAdjust, adjustWire, granted, faults>>
        ELSE /\ UNCHANGED refused
             /\ \E fault \in SendFaults :
                   /\ fault = "none" \/ faults < MaxFaults
                   /\ faults' = IF park \/ fault = "none" THEN faults ELSE faults + 1
                   /\ pendingWindowAdjust' = IF ~park /\ fault = "none" THEN 0 ELSE total
                   /\ IF park \/ fault = "memory" THEN UNCHANGED <<adjustWire, granted>>
                                                  ELSE Bundle(total)

----------------------------------------------------------------------------
\* A data packet that DoPacket() hands to its handler; after a disconnect
\* every message is skipped.
Arrives(kind) ==
    /\ ~disconnected
    /\ dataWire # <<>>
    /\ Head(dataWire).kind = kind
    /\ dataWire' = Tail(dataWire)
    /\ rcvd' = rcvd + Head(dataWire).sz

\* Mutant: the last byte of the buffer is never used.
RoomForTooStrict(sz) == length + sz < WindowSz

\* DoChannelData() and ChannelPutData()
RoomFor(sz) == length < WindowSz /\ length + sz <= WindowSz

DoChannelData ==
    LET sz == Head(dataWire).sz
        ok == sz <= MaxPacketSz /\ sz <= windowSz /\ RoomFor(sz)
    IN  /\ Arrives("stdout")
        /\ length' = IF ok THEN length + sz ELSE length
        /\ windowSz' = IF ok THEN windowSz - sz ELSE windowSz
        /\ refused' = IF ok THEN refused
                      ELSE IF sz <= MaxPacketSz /\ sz > windowSz
                           THEN refused \cup {"WS_FATAL_ERROR"}
                           ELSE refused \cup {"WS_RECV_OVERFLOW_E"}
        /\ UNCHANGED <<peerWindowSz, idx, unreadExt, pendingWindowAdjust, session,
                       adjustWire, faults, sent, granted, credited>>

ExtAccepted(sz) == sz <= MaxPacketSz /\ sz <= windowSz

\* DoChannelExtendedData() of type stderr: buffered, and charged.
DoChannelExtendedData ==
    LET sz == Head(dataWire).sz
        ok == ExtAccepted(sz)
    IN  /\ Arrives("stderr")
        /\ unreadExt' = IF ok THEN unreadExt + sz ELSE unreadExt
        /\ windowSz' = IF ok THEN windowSz - sz ELSE windowSz
        /\ refused' = IF ok THEN refused ELSE refused \cup {"WS_RECV_OVERFLOW_E"}
        /\ UNCHANGED <<peerWindowSz, length, idx, pendingWindowAdjust, session,
                       adjustWire, faults, sent, granted, credited>>

\* DoChannelExtendedData() of another type: dropped, never charged, and
\* credited to the peer, which did charge it.
DropExtendedData ==
    LET sz == Head(dataWire).sz
    IN  /\ Arrives("other")
        /\ IF ExtAccepted(sz) THEN CreditWindow(sz, isKeying)
           ELSE /\ refused' = refused \cup {"WS_RECV_OVERFLOW_E"}
                /\ UNCHANGED <<pendingWindowAdjust, adjustWire, granted, faults>>
        /\ UNCHANGED <<peerWindowSz, windowSz, length, idx, unreadExt, session,
                       sent, credited>>

\* DoChannelWindowAdjust() on the sender.
DoChannelWindowAdjust ==
    LET sz == Head(adjustWire).sz
        ok == peerWindowSz + sz <= UINT32_MAX
    IN  /\ adjustWire # <<>>
        /\ adjustWire' = Tail(adjustWire)
        /\ credited' = credited + sz
        /\ peerWindowSz' = IF ok THEN peerWindowSz + sz ELSE peerWindowSz
        /\ refused' = IF ok THEN refused ELSE refused \cup {"WS_OVERFLOW_E"}
        /\ UNCHANGED <<windowSz, length, idx, unreadExt, pendingWindowAdjust,
                       session, dataWire, faults, sent, rcvd, granted>>

----------------------------------------------------------------------------
\* _ChannelRead(), and the tail of wolfSSH_stream_read(): take up to bufSz
\* bytes, then _UpdateChannelWindow(), which compacts the buffer and gives
\* the room back once it is more than half full or the window is shut.
MakesRoom == length > WindowSz \div 2 \/ windowSz = 0

\* Mutants: credit without compaction; a read that forgets earlier ones.
ChannelReadNoCompact(bufSz) ==
    LET taken == Min2(bufSz, length - idx)
    IN  /\ idx' = idx + taken
        /\ CreditWindow(taken, isKeying)
        /\ windowSz' = windowSz + taken
        /\ UNCHANGED <<peerWindowSz, length, unreadExt, session, dataWire, sent, rcvd, credited>>

ChannelReadRereads(bufSz) ==
    /\ idx' = Min2(bufSz, length - idx)
    /\ UNCHANGED <<peerWindowSz, windowSz, length, unreadExt, pendingWindowAdjust, session,
                   dataWire, adjustWire, refused, faults, history>>

ChannelRead(bufSz) ==
    LET taken == Min2(bufSz, length - idx)
        bytesToAdd == idx + taken
    IN  /\ IF MakesRoom
           THEN /\ length' = length - bytesToAdd
                /\ idx' = 0
                /\ CreditWindow(bytesToAdd, isKeying)
                /\ windowSz' = windowSz + bytesToAdd
           ELSE /\ idx' = bytesToAdd
                /\ UNCHANGED <<length, windowSz, pendingWindowAdjust, adjustWire,
                               granted, refused, faults>>
        /\ UNCHANGED <<peerWindowSz, unreadExt, session, dataWire, sent, rcvd, credited>>

\* _ChannelReadExt()
ChannelReadExt(bufSz) ==
    LET taken == Min2(bufSz, unreadExt)
    IN  /\ taken > 0
        /\ unreadExt' = unreadExt - taken
        /\ windowSz' = windowSz + taken
        /\ CreditWindow(taken, isKeying)
        /\ UNCHANGED <<peerWindowSz, length, idx, session, dataWire, sent, rcvd, credited>>

----------------------------------------------------------------------------
\* A key exchange begins at the receiver, and ends with both NEWKEYS, where
\* SendNewKeys() or DoNewKeys() flushes what was parked.
StartRekey ==
    /\ ~isKeying /\ ~disconnected
    /\ isKeying' = TRUE
    /\ UNCHANGED <<window, disconnected, dataWire, adjustWire, refused, faults, history>>

\* Mutants: parked credit is dropped; it is not flushed.
EndRekeyDrops ==
    /\ isKeying /\ ~disconnected
    /\ isKeying' = FALSE
    /\ pendingWindowAdjust' = 0
    /\ UNCHANGED <<peerWindowSz, windowSz, length, idx, unreadExt, disconnected,
                   dataWire, adjustWire, refused, faults, history>>

EndRekeyForgets ==
    /\ isKeying /\ ~disconnected
    /\ isKeying' = FALSE
    /\ UNCHANGED <<window, disconnected, dataWire, adjustWire, refused, faults, history>>

EndRekey ==
    /\ isKeying /\ ~disconnected
    /\ isKeying' = FALSE
    /\ CreditWindow(0, FALSE)
    /\ UNCHANGED <<peerWindowSz, windowSz, length, idx, unreadExt, disconnected,
                   dataWire, sent, rcvd, credited>>

\* A DISCONNECT sent or received.
Disconnect ==
    /\ ~disconnected
    /\ disconnected' = TRUE
    /\ UNCHANGED <<window, isKeying, dataWire, adjustWire, refused, faults, history>>

----------------------------------------------------------------------------
Deliver == DoChannelData \/ DoChannelExtendedData \/ DropExtendedData

Next ==
    \/ \E kind \in Kinds, n \in 0..MaxWrite : SendChannelData(kind, n)
    \/ DoChannelData
    \/ DoChannelExtendedData
    \/ DropExtendedData
    \/ DoChannelWindowAdjust
    \/ \E n \in 1..MaxWrite : ChannelRead(n)
    \/ \E n \in 1..MaxWrite : ChannelReadExt(n)
    \/ StartRekey
    \/ EndRekey
    \/ Disconnect

\* Both ends keep turning the crank (wolfSSH_worker() receives and flushes),
\* the receiving application drains both streams, as ssh.h tells it to, and
\* a key exchange that starts ends.
Fairness ==
    /\ WF_vars(Deliver)
    /\ WF_vars(DoChannelWindowAdjust)
    /\ WF_vars(\E n \in 1..MaxWrite : ChannelRead(n))
    /\ WF_vars(\E n \in 1..MaxWrite : ChannelReadExt(n))
    /\ WF_vars(EndRekey)

Spec == Init /\ [][Next]_vars

FairSpec == Spec /\ Fairness

----------------------------------------------------------------------------
(* Properties.                                                             *)

\* Every counter is a word32 that never wraps, and every queue holds packets.
TypeOK ==
    /\ peerWindowSz \in 0..WindowSz
    /\ windowSz \in 0..WindowSz
    /\ length \in 0..WindowSz
    /\ idx \in 0..length
    /\ unreadExt \in 0..WindowSz
    /\ pendingWindowAdjust \in 0..WindowSz
    /\ isKeying \in BOOLEAN
    /\ disconnected \in BOOLEAN
    /\ dataWire \in Seq(DataPackets)
    /\ adjustWire \in Seq(Adjusts)
    /\ refused \subseteq Refusals
    /\ faults \in Nat
    /\ sent \in Nat /\ rcvd \in Nat /\ granted \in Nat /\ credited \in Nat

\* No credit is lost and none is invented: what the receiver will accept is
\* what the sender may still send, plus the data and the credit under way,
\* plus the credit parked.  A parked credit sent twice, or dropped by a
\* rekey, breaks the balance for good (ChannelCreditWindow()).
Conservation ==
    windowSz = peerWindowSz + (sent - rcvd) + (granted - credited) + pendingWindowAdjust

\* The buffer always has room for what the window admits: stdout and stderr
\* share one window, and _UpdateChannelWindow() opens it only by what it
\* compacted away.
BufferFits == windowSz + length + unreadExt = WindowSz

\* Between two ends that follow the window, no error path of the window code
\* is ever taken: ChannelPutData() and DoChannelExtendedData() refuse no data
\* and DoChannelWindowAdjust() and ChannelCreditWindow() overflow nothing.
NoOverrun == refused = {}

\* A sender stopped by WS_WINDOW_FULL is let go on: credit comes back while
\* the session lives and the application reads, unless a window adjust could
\* not be allocated (its credit is parked, and nothing may come to send it).
SenderUnblocks == (peerWindowSz = 0) ~> (peerWindowSz > 0 \/ disconnected \/ faults > 0)

\* This direction of the channel implements a stream bounded by WindowSz.
\* Data of an unknown type is consumed when it is dropped.
Stream == INSTANCE BoundedStream WITH
    Capacity <- WindowSz,
    produced <- sent,
    consumed <- rcvd - (length - idx) - unreadExt

StreamSpec == Stream!Spec

----------------------------------------------------------------------------
(* The inductive invariant behind the properties.                          *)

\* A queue accounts for exactly the bytes between two totals.
Chain(q, lo, hi) ==
    /\ lo <= hi
    /\ hi = IF q = <<>> THEN lo ELSE q[Len(q)].upto
    /\ \A j \in 1..Len(q) :
          /\ q[j].upto <= hi
          /\ q[j].upto - q[j].sz = IF j = 1 THEN lo ELSE q[j - 1].upto

\* A data packet keeps the packet limit and was sent into an open window:
\* what the window then held is unspent still, or spent behind the packet.
SentInWindow ==
    \A j \in 1..Len(dataWire) :
        /\ dataWire[j].sz <= MaxPacketSz
        /\ peerWindowSz + (sent - (dataWire[j].upto - dataWire[j].sz)) >= 1

IInv ==
    /\ TypeOK
    /\ Conservation
    /\ BufferFits
    /\ NoOverrun
    /\ Chain(dataWire, rcvd, sent)
    /\ Chain(adjustWire, credited, granted)
    /\ SentInWindow
============================================================================
