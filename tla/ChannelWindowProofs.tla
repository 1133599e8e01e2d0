------------------------ MODULE ChannelWindowProofs ------------------------
(***************************************************************************)
(* The window of a channel is safe for every window size, packet limit and *)
(* pattern of reads, rekeys and failed sends, provided no failed send      *)
(* leaves its packet queued (the "timeout" fault, which TLC shows breaks   *)
(* the balance).                                                           *)
(***************************************************************************)
EXTENDS ChannelWindow, TLAPS

----------------------------------------------------------------------------
(* Queues that account for the bytes between two totals.                   *)

\* A set of packets, each with a size and the running total it ends at.
Sized(S) == \A p \in S : p.sz \in Nat /\ p.upto \in Nat

\* An empty queue is one of length zero.
LEMMA EmptyIsLengthZero ==
    ASSUME NEW S, NEW q \in Seq(S)
    PROVE  Len(q) \in Nat /\ (q = <<>> <=> Len(q) = 0)
  OBVIOUS

\* Appending a packet of sz bytes moves the upper total by sz: what Bundle()
\* and SendChannelData() do.
LEMMA ChainAppend ==
    ASSUME NEW S, Sized(S), NEW q \in Seq(S), NEW lo \in Nat, NEW hi \in Nat,
           NEW p \in S, p.upto = hi + p.sz, Chain(q, lo, hi)
    PROVE  Chain(Append(q, p), lo, hi + p.sz)
<1> DEFINE r == Append(q, p)
<1>1. p.sz \in Nat /\ p.upto \in Nat
  BY DEF Sized
<1>2. r \in Seq(S) /\ Len(r) = Len(q) + 1 /\ r # <<>> /\ r[Len(q) + 1] = p
  OBVIOUS
<1>3. \A j \in 1..Len(q) : r[j] = q[j] /\ q[j].upto \in Nat /\ q[j].sz \in Nat
  BY DEF Sized
<1>4. Len(q) \in Nat /\ (q = <<>> <=> Len(q) = 0)
  BY EmptyIsLengthZero
<1>5. lo <= hi + p.sz
  BY <1>1 DEF Chain
<1>6. hi + p.sz = r[Len(r)].upto
  BY <1>2
<1>7. ASSUME NEW j \in 1..Len(r)
      PROVE  /\ r[j].upto <= hi + p.sz
             /\ r[j].upto - r[j].sz = IF j = 1 THEN lo ELSE r[j - 1].upto
  <2>1. CASE j \in 1..Len(q)
    <3>1. j # 1 => j - 1 \in 1..Len(q)
      BY <2>1, <1>4
    <3> QED BY <2>1, <3>1, <1>1, <1>3 DEF Chain
  <2>2. CASE j = Len(q) + 1
    <3>1. CASE Len(q) = 0
      BY <3>1, <2>2, <1>1, <1>2, <1>4 DEF Chain
    <3>2. CASE Len(q) # 0
      <4>1. Len(q) \in 1..Len(q) /\ j # 1 /\ j - 1 = Len(q)
        BY <3>2, <2>2, <1>4
      <4>2. hi = q[Len(q)].upto
        BY <3>2, <1>4 DEF Chain
      <4> QED BY <4>1, <4>2, <2>2, <1>1, <1>2, <1>3
    <3> QED BY <3>1, <3>2
  <2> QED BY <2>1, <2>2, <1>2, <1>4
<1> QED BY <1>2, <1>5, <1>6, <1>7 DEF Chain

\* Taking the head moves the lower total by its size, and the head is never
\* larger than what is under way: what the three receive handlers do.
LEMMA ChainTail ==
    ASSUME NEW S, Sized(S), NEW q \in Seq(S), NEW lo \in Nat, NEW hi \in Nat,
           Chain(q, lo, hi), q # <<>>
    PROVE  /\ Head(q) \in S
           /\ Head(q) = q[1]
           /\ 1 \in 1..Len(q)
           /\ Head(q).sz \in Nat
           /\ Head(q).upto = lo + Head(q).sz
           /\ lo + Head(q).sz <= hi
           /\ Tail(q) \in Seq(S)
           /\ \A j \in 1..Len(Tail(q)) : j + 1 \in 1..Len(q) /\ Tail(q)[j] = q[j + 1]
           /\ Chain(Tail(q), lo + Head(q).sz, hi)
<1> DEFINE t == Tail(q)  m == lo + Head(q).sz
<1>1. Len(q) \in Nat /\ Len(q) >= 1 /\ 1 \in 1..Len(q) /\ Head(q) = q[1] /\ q[1] \in S
  OBVIOUS
<1>2. \A j \in 1..Len(q) : q[j].upto \in Nat /\ q[j].sz \in Nat
  BY DEF Sized
<1>3. t \in Seq(S) /\ Len(t) = Len(q) - 1 /\ (t = <<>> <=> Len(t) = 0)
  <2>1. t \in Seq(S) /\ Len(t) = Len(q) - 1
    BY <1>1
  <2> QED BY <2>1, EmptyIsLengthZero
<1>4. \A j \in 1..Len(t) : j + 1 \in 1..Len(q) /\ t[j] = q[j + 1]
  BY <1>1, <1>3
<1>5. q[1].upto = m /\ m <= hi /\ q[1].sz \in Nat /\ m \in Nat
  BY <1>1, <1>2 DEF Chain
<1>6. hi = IF t = <<>> THEN m ELSE t[Len(t)].upto
  <2>1. CASE Len(q) = 1
    <3>1. t = <<>>
      BY <2>1, <1>3
    <3> QED BY <3>1, <2>1, <1>5 DEF Chain
  <2>2. CASE Len(q) # 1
    <3>1. Len(t) \in 1..Len(t) /\ t # <<>> /\ Len(t) + 1 = Len(q)
      BY <2>2, <1>1, <1>3
    <3> QED BY <3>1, <1>4 DEF Chain
  <2> QED BY <2>1, <2>2
<1>7. ASSUME NEW j \in 1..Len(t)
      PROVE  /\ t[j].upto <= hi
             /\ t[j].upto - t[j].sz = IF j = 1 THEN m ELSE t[j - 1].upto
  <2>1. j + 1 \in 1..Len(q) /\ t[j] = q[j + 1] /\ j + 1 # 1 /\ (j + 1) - 1 = j
    BY <1>4
  <2>2. q[j + 1].upto <= hi /\ q[j + 1].upto - q[j + 1].sz = q[j].upto
    BY <2>1 DEF Chain
  <2>3. CASE j = 1
    BY <2>1, <2>2, <2>3, <1>5
  <2>4. CASE j # 1
    <3>1. j - 1 \in 1..Len(t) /\ (j - 1) + 1 = j
      BY <2>4, <1>1, <1>3
    <3>2. t[j - 1] = q[j]
      BY <3>1, <1>4
    <3> QED BY <2>1, <2>2, <2>4, <3>2
  <2> QED BY <2>3, <2>4
<1>8. Chain(t, m, hi)
  BY <1>5, <1>6, <1>7 DEF Chain
<1> QED BY <1>1, <1>3, <1>4, <1>5, <1>8

LEMMA PacketsSized == Sized(DataPackets) /\ Sized(Adjusts)
  BY DEF Sized, DataPackets, Adjusts

----------------------------------------------------------------------------
(* One step.                                                               *)

\* The invariant, in the terms arithmetic needs.
LEMMA Typing ==
    ASSUME IInv
    PROVE  /\ WindowSz \in Nat /\ MaxPacketSz \in Nat /\ PeerMaxPacketSz \in Nat
           /\ peerWindowSz \in Nat /\ windowSz \in Nat /\ length \in Nat /\ idx \in Nat
           /\ unreadExt \in Nat /\ pendingWindowAdjust \in Nat /\ faults \in Nat
           /\ sent \in Nat /\ rcvd \in Nat /\ granted \in Nat /\ credited \in Nat
           /\ idx <= length
           /\ windowSz = peerWindowSz + (sent - rcvd) + (granted - credited)
                         + pendingWindowAdjust
           /\ windowSz + length + unreadExt = WindowSz
           /\ rcvd <= sent /\ credited <= granted
<1>1. /\ WindowSz \in Nat /\ MaxPacketSz \in Nat /\ PeerMaxPacketSz \in Nat
  BY WindowAssumption
<1>2. /\ peerWindowSz \in 0..WindowSz /\ windowSz \in 0..WindowSz /\ length \in 0..WindowSz
      /\ idx \in 0..length /\ unreadExt \in 0..WindowSz /\ pendingWindowAdjust \in 0..WindowSz
      /\ faults \in Nat /\ sent \in Nat /\ rcvd \in Nat /\ granted \in Nat /\ credited \in Nat
  BY DEF IInv, TypeOK
<1>3. rcvd <= sent /\ credited <= granted
  BY DEF IInv, Chain
<1>4. /\ windowSz = peerWindowSz + (sent - rcvd) + (granted - credited) + pendingWindowAdjust
      /\ windowSz + length + unreadExt = WindowSz
  BY DEF IInv, Conservation, BufferFits
<1> QED BY <1>1, <1>2, <1>3, <1>4

\* What a step does to the queues, and to the counters.
Wires ==
    /\ dataWire \in Seq(DataPackets) /\ adjustWire \in Seq(Adjusts)
    /\ Chain(dataWire, rcvd, sent) /\ Chain(adjustWire, credited, granted)
    /\ SentInWindow

Counters ==
    /\ peerWindowSz \in Nat /\ windowSz \in Nat /\ length \in Nat /\ idx \in Nat
    /\ unreadExt \in Nat /\ pendingWindowAdjust \in Nat /\ faults \in Nat
    /\ sent \in Nat /\ rcvd \in Nat /\ granted \in Nat /\ credited \in Nat
    /\ idx <= length

Balances == Conservation /\ BufferFits

Flags == isKeying \in BOOLEAN /\ disconnected \in BOOLEAN

\* The bounds of the type invariant follow from the two balances, so a step
\* has only to keep the counters natural and the balances.
LEMMA Assemble ==
    Counters /\ Balances /\ Wires /\ NoOverrun /\ Flags => IInv
<1> SUFFICES ASSUME Counters, Balances, Wires, NoOverrun, Flags PROVE IInv
  OBVIOUS
<1>1. rcvd <= sent /\ credited <= granted
  BY DEF Wires, Chain
<1>2. /\ windowSz = peerWindowSz + (sent - rcvd) + (granted - credited) + pendingWindowAdjust
      /\ windowSz + length + unreadExt = WindowSz
  BY DEF Balances, Conservation, BufferFits
<1>3. /\ peerWindowSz <= windowSz /\ pendingWindowAdjust <= windowSz
      /\ windowSz <= WindowSz /\ length <= WindowSz /\ unreadExt <= WindowSz
  BY <1>1, <1>2 DEF Counters
<1>4. WindowSz \in Nat
  BY WindowAssumption
<1>5. /\ peerWindowSz \in 0..WindowSz /\ windowSz \in 0..WindowSz /\ length \in 0..WindowSz
      /\ idx \in 0..length /\ unreadExt \in 0..WindowSz
      /\ pendingWindowAdjust \in 0..WindowSz
  BY <1>3, <1>4 DEF Counters
<1>6. TypeOK
  BY <1>5 DEF TypeOK, Counters, Wires, NoOverrun, Flags
<1> QED BY <1>6 DEF IInv, Balances, Wires

LEMMA Reassemble ==
    ASSUME Counters', Balances', Wires', NoOverrun', Flags'
    PROVE  IInv'
  BY Assemble, PTL

\* ChannelCreditWindow(), unless a failed send leaves its packet queued,
\* moves the amount into credit under way or parked, and into one of them.
LEMMA CreditStep ==
    ASSUME NEW amount \in Nat, NEW keying \in BOOLEAN, IInv,
           "timeout" \notin SendFaults,
           pendingWindowAdjust + amount <= WindowSz,
           CreditWindow(amount, keying), UNCHANGED credited
    PROVE  /\ refused' = refused
           /\ faults' \in Nat
           /\ pendingWindowAdjust' \in Nat
           /\ granted' \in Nat
           /\ granted' + pendingWindowAdjust' = granted + pendingWindowAdjust + amount
           /\ adjustWire' \in Seq(Adjusts)
           /\ Chain(adjustWire, credited, granted)'
<1> DEFINE total == pendingWindowAdjust + amount
           p == [sz |-> total, upto |-> granted + total]
<1>1. total \in Nat /\ ~(total > UINT32_MAX)
  BY WindowAssumption DEF IInv, TypeOK
<1>2. granted \in Nat /\ credited \in Nat /\ faults \in Nat /\ adjustWire \in Seq(Adjusts)
  BY DEF IInv, TypeOK
<1>3. PICK fault \in SendFaults :
        /\ faults' = faults \/ faults' = faults + 1
        /\ \/ pendingWindowAdjust' = total /\ UNCHANGED <<adjustWire, granted>>
           \/ pendingWindowAdjust' = 0 /\ Bundle(total)
  BY <1>1, <1>2, WindowAssumption DEF CreditWindow
<1>4. refused' = refused
  BY <1>1 DEF CreditWindow
<1>5. CASE pendingWindowAdjust' = total /\ UNCHANGED <<adjustWire, granted>>
  <2>1. adjustWire' = adjustWire /\ granted' = granted /\ credited' = credited
    BY <1>5
  <2>2. Chain(adjustWire', credited', granted')
    BY <2>1 DEF IInv
  <2>3. granted' + pendingWindowAdjust' = granted + pendingWindowAdjust + amount
    BY <2>1, <1>5 DEF IInv, TypeOK
  <2>4. faults' \in Nat /\ pendingWindowAdjust' \in Nat
    BY <1>1, <1>2, <1>3, <1>5
  <2> QED BY <2>1, <2>2, <2>3, <2>4, <1>2, <1>4
<1>6. CASE pendingWindowAdjust' = 0 /\ Bundle(total)
  <2>1. p \in Adjusts /\ p.sz = total /\ p.upto = granted + p.sz
    BY <1>1, <1>2 DEF Adjusts
  <2>2. Chain(adjustWire, credited, granted)
    BY DEF IInv
  <2>3. Chain(Append(adjustWire, p), credited, granted + p.sz)
    BY <2>1, <2>2, <1>2, ChainAppend, PacketsSized
  <2>4. adjustWire' = Append(adjustWire, p) /\ granted' = granted + total
    BY <1>6 DEF Bundle
  <2>5. adjustWire' \in Seq(Adjusts)
    BY <2>1, <2>4, <1>2
  <2>6. Chain(adjustWire', credited', granted')
    BY <2>1, <2>3, <2>4
  <2>7. granted' + pendingWindowAdjust' = granted + pendingWindowAdjust + amount
    BY <2>4, <1>2, <1>6 DEF IInv, TypeOK
  <2>8. granted' \in Nat /\ faults' \in Nat /\ pendingWindowAdjust' \in Nat
    BY <2>4, <1>1, <1>2, <1>3, <1>6
  <2> QED BY <2>5, <2>6, <2>7, <2>8, <1>4
<1> QED BY <1>3, <1>5, <1>6

\* What a data packet that arrives is: within the packet limit, the window
\* and the bytes under way.
LEMMA ArrivalStep ==
    ASSUME NEW kind \in Kinds, IInv, Arrives(kind), UNCHANGED <<sent, peerWindowSz>>
    PROVE  LET sz == Head(dataWire).sz
           IN  /\ sz \in Nat
               /\ sz <= MaxPacketSz
               /\ sz <= windowSz
               /\ sz + pendingWindowAdjust <= windowSz
               /\ windowSz >= 1
               /\ rcvd' = rcvd + sz /\ rcvd' \in Nat
               /\ dataWire' \in Seq(DataPackets)
               /\ Chain(dataWire, rcvd, sent)'
               /\ SentInWindow'
<1> DEFINE sz == Head(dataWire).sz
<1>1. /\ dataWire \in Seq(DataPackets) /\ dataWire # <<>>
      /\ rcvd \in Nat /\ sent \in Nat /\ Chain(dataWire, rcvd, sent)
  BY DEF IInv, TypeOK, Arrives
<1>2. /\ Head(dataWire) = dataWire[1] /\ 1 \in 1..Len(dataWire)
      /\ sz \in Nat /\ dataWire[1].upto = rcvd + sz /\ rcvd + sz <= sent
      /\ Tail(dataWire) \in Seq(DataPackets)
      /\ Chain(Tail(dataWire), rcvd + sz, sent)
  BY <1>1, ChainTail, PacketsSized
<1>3. \A j \in 1..Len(Tail(dataWire)) :
         j + 1 \in 1..Len(dataWire) /\ Tail(dataWire)[j] = dataWire[j + 1]
  BY <1>1, ChainTail, PacketsSized
<1>4. dataWire' = Tail(dataWire) /\ rcvd' = rcvd + sz
  BY DEF Arrives
<1>5. sz <= MaxPacketSz /\ peerWindowSz + (sent - rcvd) >= 1
  BY <1>1, <1>2 DEF IInv, SentInWindow
<1>6. granted - credited >= 0 /\ granted - credited \in Int
  BY DEF IInv, Chain, TypeOK
<1>7. sz <= windowSz /\ sz + pendingWindowAdjust <= windowSz /\ windowSz >= 1
  BY <1>1, <1>2, <1>5, <1>6 DEF IInv, Conservation, TypeOK
<1>8. SentInWindow'
  BY <1>3, <1>4 DEF IInv, SentInWindow
<1>9. Chain(dataWire, rcvd, sent)'
  BY <1>2, <1>4
<1>10. rcvd' \in Nat /\ dataWire' \in Seq(DataPackets)
  BY <1>1, <1>2, <1>4
<1> QED BY <1>2, <1>4, <1>5, <1>7, <1>8, <1>9, <1>10

\* SendChannelData() keeps the balance: what leaves the window is under way.
LEMMA SendStep ==
    ASSUME IInv, NEW kind \in Kinds, NEW n \in 0..MaxWrite, SendChannelData(kind, n)
    PROVE  IInv'
<1> DEFINE sz == Min2(n, SendBound)
           p == [kind |-> kind, sz |-> sz, upto |-> sent + sz]
<1>1. sz \in Nat /\ sz <= peerWindowSz /\ sz <= MaxPacketSz /\ peerWindowSz >= 1
  <2>1. n \in Nat /\ peerWindowSz # 0
    BY WindowAssumption DEF SendChannelData
  <2> QED BY <2>1, Typing DEF SendBound, Min2
<1>2. /\ peerWindowSz' = peerWindowSz - sz /\ sent' = sent + sz
      /\ UNCHANGED <<windowSz, length, idx, unreadExt, pendingWindowAdjust, faults, rcvd,
                     granted, credited>>
  BY DEF SendChannelData
<1>3. /\ dataWire' = Append(dataWire, p)
      /\ UNCHANGED <<adjustWire, isKeying, disconnected, refused>>
  BY DEF SendChannelData, session
<1> HIDE DEF sz
<1>4. Counters' /\ Balances'
  BY <1>1, <1>2, Typing DEF Counters, Balances, Conservation, BufferFits
<1>5. p \in DataPackets /\ p.sz = sz /\ p.upto = sent + p.sz
  BY <1>1, Typing DEF DataPackets
<1>6. dataWire \in Seq(DataPackets)
  BY DEF IInv, TypeOK
<1>7. Chain(Append(dataWire, p), rcvd, sent + p.sz)
  BY <1>5, <1>6, Typing, ChainAppend, PacketsSized DEF IInv
<1>8. SentInWindow'
  <2> SUFFICES ASSUME NEW j \in 1..Len(dataWire')
               PROVE  /\ dataWire'[j].sz <= MaxPacketSz
                      /\ peerWindowSz' + (sent' - (dataWire'[j].upto - dataWire'[j].sz)) >= 1
    BY DEF SentInWindow
  <2>1. CASE j \in 1..Len(dataWire)
    <3>1. dataWire'[j] = dataWire[j]
      BY <2>1, <1>3, <1>6
    <3>2. /\ dataWire[j].sz <= MaxPacketSz
          /\ peerWindowSz + (sent - (dataWire[j].upto - dataWire[j].sz)) >= 1
      BY <2>1 DEF IInv, SentInWindow
    <3>3. dataWire[j].upto - dataWire[j].sz \in Int
      BY <2>1, <1>6, PacketsSized DEF Sized
    <3>4. \A x \in Int : (peerWindowSz - sz) + ((sent + sz) - x) = peerWindowSz + (sent - x)
      <4>1. peerWindowSz \in Int /\ sent \in Int /\ sz \in Int
        BY <1>1, Typing
      <4> QED BY <4>1
    <3> QED BY <3>1, <3>2, <3>3, <3>4, <1>2
  <2>2. CASE j = Len(dataWire) + 1
    <3>1. dataWire'[j] = p
      BY <2>2, <1>3, <1>6
    <3> QED BY <3>1, <1>1, <1>2, <1>5, Typing
  <2> QED BY <2>1, <2>2, <1>3, <1>6
<1>9. Wires'
  BY <1>2, <1>3, <1>5, <1>6, <1>7, <1>8 DEF IInv, TypeOK, Wires
<1>10. NoOverrun' /\ Flags'
  BY <1>3 DEF IInv, TypeOK, NoOverrun, Flags
<1> QED BY <1>4, <1>9, <1>10, Reassemble

\* DoChannelData(): the buffer has room for what the window admits.
LEMMA DataStep == ASSUME IInv, DoChannelData PROVE IInv'
<1> DEFINE sz == Head(dataWire).sz
<1>1. Arrives("stdout") /\ UNCHANGED <<sent, peerWindowSz>>
  BY DEF DoChannelData
<1>2. /\ sz \in Nat /\ sz <= MaxPacketSz /\ sz <= windowSz /\ windowSz >= 1
      /\ rcvd' = rcvd + sz
  BY <1>1, ArrivalStep DEF Kinds
<1>3. RoomFor(sz)
  BY <1>2, Typing DEF RoomFor
<1>4. /\ length' = length + sz /\ windowSz' = windowSz - sz
      /\ UNCHANGED <<peerWindowSz, idx, unreadExt, pendingWindowAdjust, faults, sent, granted,
                     credited>>
  BY <1>2, <1>3 DEF DoChannelData
<1>5. UNCHANGED <<adjustWire, isKeying, disconnected, refused>>
  BY <1>2, <1>3 DEF DoChannelData, session
<1>6. Wires'
  <2>1. /\ dataWire' \in Seq(DataPackets) /\ Chain(dataWire, rcvd, sent)' /\ SentInWindow'
    BY <1>1, ArrivalStep DEF Kinds
  <2> QED BY <2>1, <1>4, <1>5 DEF IInv, TypeOK, Wires
<1> HIDE DEF sz
<1>7. Counters' /\ Balances'
  BY <1>2, <1>4, Typing DEF Counters, Balances, Conservation, BufferFits
<1>8. NoOverrun' /\ Flags'
  BY <1>5 DEF IInv, TypeOK, NoOverrun, Flags
<1> QED BY <1>6, <1>7, <1>8, Reassemble

\* DoChannelExtendedData() of type stderr charges the same window.
LEMMA ExtendedDataStep == ASSUME IInv, DoChannelExtendedData PROVE IInv'
<1> DEFINE sz == Head(dataWire).sz
<1>1. Arrives("stderr") /\ UNCHANGED <<sent, peerWindowSz>>
  BY DEF DoChannelExtendedData
<1>2. sz \in Nat /\ sz <= MaxPacketSz /\ sz <= windowSz /\ rcvd' = rcvd + sz
  BY <1>1, ArrivalStep DEF Kinds
<1>3. /\ unreadExt' = unreadExt + sz /\ windowSz' = windowSz - sz
      /\ UNCHANGED <<peerWindowSz, length, idx, pendingWindowAdjust, faults, sent, granted,
                     credited>>
  BY <1>2 DEF DoChannelExtendedData, ExtAccepted
<1>4. UNCHANGED <<adjustWire, isKeying, disconnected, refused>>
  BY <1>2 DEF DoChannelExtendedData, ExtAccepted, session
<1>5. Wires'
  <2>1. /\ dataWire' \in Seq(DataPackets) /\ Chain(dataWire, rcvd, sent)' /\ SentInWindow'
    BY <1>1, ArrivalStep DEF Kinds
  <2> QED BY <2>1, <1>3, <1>4 DEF IInv, TypeOK, Wires
<1> HIDE DEF sz
<1>6. Counters' /\ Balances'
  BY <1>2, <1>3, Typing DEF Counters, Balances, Conservation, BufferFits
<1>7. NoOverrun' /\ Flags'
  BY <1>4 DEF IInv, TypeOK, NoOverrun, Flags
<1> QED BY <1>5, <1>6, <1>7, Reassemble

\* Data of an unknown type: the credit balances what its sender charged.
LEMMA DropStep ==
    ASSUME IInv, "timeout" \notin SendFaults, DropExtendedData PROVE IInv'
<1> DEFINE sz == Head(dataWire).sz
<1>1. Arrives("other") /\ UNCHANGED <<sent, peerWindowSz, credited>>
  BY DEF DropExtendedData
<1>2. /\ sz \in Nat /\ sz <= MaxPacketSz /\ sz <= windowSz
      /\ sz + pendingWindowAdjust <= windowSz /\ rcvd' = rcvd + sz
  BY <1>1, ArrivalStep DEF Kinds
<1>3. CreditWindow(sz, isKeying) /\ UNCHANGED <<isKeying, disconnected>>
  BY <1>2 DEF DropExtendedData, ExtAccepted, session
<1>4. UNCHANGED <<peerWindowSz, windowSz, length, idx, unreadExt, sent, credited>>
  BY DEF DropExtendedData
<1>5. pendingWindowAdjust + sz <= WindowSz
  <2> HIDE DEF sz
  <2> QED BY <1>2, Typing
<1>6. isKeying \in BOOLEAN /\ disconnected \in BOOLEAN
  BY DEF IInv, TypeOK
<1>7. /\ refused' = refused /\ adjustWire' \in Seq(Adjusts)
      /\ Chain(adjustWire, credited, granted)'
  BY <1>2, <1>3, <1>4, <1>5, <1>6, CreditStep
<1>8. /\ faults' \in Nat /\ pendingWindowAdjust' \in Nat /\ granted' \in Nat
      /\ granted' + pendingWindowAdjust' = granted + pendingWindowAdjust + sz
  BY <1>2, <1>3, <1>4, <1>5, <1>6, CreditStep
<1>9. Wires'
  <2>1. /\ dataWire' \in Seq(DataPackets) /\ Chain(dataWire, rcvd, sent)' /\ SentInWindow'
    BY <1>1, ArrivalStep DEF Kinds
  <2> QED BY <2>1, <1>7 DEF Wires
<1> HIDE DEF sz
<1>10. Counters' /\ Balances'
  BY <1>2, <1>4, <1>8, Typing DEF Counters, Balances, Conservation, BufferFits
<1>11. NoOverrun' /\ Flags'
  BY <1>3, <1>6, <1>7 DEF IInv, NoOverrun, Flags
<1> QED BY <1>9, <1>10, <1>11, Reassemble

\* DoChannelWindowAdjust(): what was granted and not yet credited fits.
LEMMA AdjustStep == ASSUME IInv, DoChannelWindowAdjust PROVE IInv'
<1> DEFINE sz == Head(adjustWire).sz
<1>1. adjustWire \in Seq(Adjusts) /\ adjustWire # <<>> /\ Chain(adjustWire, credited, granted)
  BY DEF IInv, TypeOK, DoChannelWindowAdjust
<1>2. sz \in Nat /\ credited + sz <= granted
  BY <1>1, Typing, ChainTail, PacketsSized
<1>3. peerWindowSz + sz <= UINT32_MAX
  <2>1. UINT32_MAX \in Nat /\ WindowSz <= UINT32_MAX
    BY WindowAssumption
  <2> HIDE DEF sz
  <2> QED BY <2>1, <1>2, Typing
<1>4. /\ peerWindowSz' = peerWindowSz + sz /\ credited' = credited + sz
      /\ UNCHANGED <<windowSz, length, idx, unreadExt, pendingWindowAdjust, faults, sent, rcvd,
                     granted>>
  BY <1>3 DEF DoChannelWindowAdjust
<1>5. adjustWire' = Tail(adjustWire) /\ UNCHANGED <<dataWire, isKeying, disconnected, refused>>
  BY <1>3 DEF DoChannelWindowAdjust, session
<1>6. Chain(adjustWire, credited, granted)' /\ adjustWire' \in Seq(Adjusts)
  <2>1. Tail(adjustWire) \in Seq(Adjusts) /\ Chain(Tail(adjustWire), credited + sz, granted)
    BY <1>1, Typing, ChainTail, PacketsSized
  <2> QED BY <2>1, <1>4, <1>5
<1> HIDE DEF sz
<1>7. Counters' /\ Balances'
  BY <1>2, <1>4, Typing DEF Counters, Balances, Conservation, BufferFits
<1>8. SentInWindow'
  <2> SUFFICES ASSUME NEW j \in 1..Len(dataWire)
               PROVE  /\ dataWire[j].sz <= MaxPacketSz
                      /\ peerWindowSz' + (sent' - (dataWire[j].upto - dataWire[j].sz)) >= 1
    BY <1>5 DEF SentInWindow
  <2>1. dataWire \in Seq(DataPackets)
    BY DEF IInv, TypeOK
  <2>2. dataWire[j].upto - dataWire[j].sz \in Int
    BY <2>1, PacketsSized DEF Sized
  <2>3. /\ dataWire[j].sz <= MaxPacketSz
        /\ peerWindowSz + (sent - (dataWire[j].upto - dataWire[j].sz)) >= 1
    BY DEF IInv, SentInWindow
  <2>4. \A x \in Int : peerWindowSz + (sent - x) >= 1 => (peerWindowSz + sz) + (sent - x) >= 1
    <3>1. peerWindowSz \in Int /\ sent \in Int /\ sz \in Nat
      BY <1>2, Typing
    <3> QED BY <3>1
  <2> QED BY <2>2, <2>3, <2>4, <1>4
<1>9. Wires'
  BY <1>4, <1>5, <1>6, <1>8 DEF IInv, TypeOK, Wires
<1>10. NoOverrun' /\ Flags'
  BY <1>5 DEF IInv, TypeOK, NoOverrun, Flags
<1> QED BY <1>7, <1>9, <1>10, Reassemble

\* Giving credit back while the buffers give up the same room, as a read and
\* the end of a rekey do.
LEMMA CreditBack ==
    ASSUME IInv, "timeout" \notin SendFaults, NEW amount \in Nat, NEW keying \in BOOLEAN,
           CreditWindow(amount, keying),
           windowSz' = windowSz + amount,
           length' \in Nat, unreadExt' \in Nat, idx' \in Nat, idx' <= length',
           length' + unreadExt' + amount = length + unreadExt,
           Flags',
           UNCHANGED <<peerWindowSz, dataWire, sent, rcvd, credited>>
    PROVE  IInv'
<1>1. pendingWindowAdjust + amount <= WindowSz
  BY Typing
<1>2. refused' = refused /\ adjustWire' \in Seq(Adjusts) /\ Chain(adjustWire, credited, granted)'
  BY <1>1, CreditStep
<1>3. /\ faults' \in Nat /\ pendingWindowAdjust' \in Nat /\ granted' \in Nat
      /\ granted' + pendingWindowAdjust' = granted + pendingWindowAdjust + amount
  BY <1>1, CreditStep
<1>4. Counters' /\ Balances'
  BY <1>3, Typing DEF Counters, Balances, Conservation, BufferFits
<1>5. Wires' /\ NoOverrun'
  BY <1>2 DEF IInv, TypeOK, NoOverrun, SentInWindow, Wires
<1> QED BY <1>4, <1>5, Reassemble

\* What a read takes is unread, and it never takes more than is there.
LEMMA ReadAmount ==
    ASSUME IInv, NEW n \in 1..MaxWrite
    PROVE  /\ n \in Nat
           /\ Min2(n, length - idx) \in Nat /\ Min2(n, length - idx) <= length - idx
           /\ idx + Min2(n, length - idx) \in Nat
           /\ idx + Min2(n, length - idx) <= length
           /\ Min2(n, unreadExt) \in Nat /\ Min2(n, unreadExt) <= unreadExt
<1>1. n \in Nat
  BY WindowAssumption
<1>2. length \in Nat /\ idx \in Nat /\ idx <= length /\ unreadExt \in Nat
  BY Typing
<1> QED BY <1>1, <1>2 DEF Min2

\* _ChannelRead() and _UpdateChannelWindow(): the window opens by what the
\* buffer gave up.
LEMMA ReadStep ==
    ASSUME IInv, "timeout" \notin SendFaults, NEW n \in 1..MaxWrite, ChannelRead(n)
    PROVE  IInv'
<1> DEFINE bytesToAdd == idx + Min2(n, length - idx)
<1>1. bytesToAdd \in Nat /\ bytesToAdd <= length
  BY ReadAmount
<1>2. UNCHANGED <<peerWindowSz, unreadExt, isKeying, disconnected, dataWire, sent, rcvd, credited>>
  BY DEF ChannelRead, session
<1>3. isKeying \in BOOLEAN /\ Flags'
  BY <1>2 DEF IInv, TypeOK, Flags
<1>4. CASE MakesRoom
  <2>1. /\ length' = length - bytesToAdd /\ idx' = 0 /\ windowSz' = windowSz + bytesToAdd
        /\ CreditWindow(bytesToAdd, isKeying)
    BY <1>4 DEF ChannelRead
  <2> HIDE DEF bytesToAdd
  <2>2. /\ length' \in Nat /\ unreadExt' \in Nat /\ idx' \in Nat /\ idx' <= length'
        /\ length' + unreadExt' + bytesToAdd = length + unreadExt
    BY <2>1, <1>1, <1>2, Typing
  <2> QED BY <2>1, <2>2, <1>1, <1>2, <1>3, CreditBack
<1>5. CASE ~MakesRoom
  <2>1. /\ idx' = bytesToAdd
        /\ UNCHANGED <<length, windowSz, pendingWindowAdjust, granted, faults>>
    BY <1>5 DEF ChannelRead
  <2>2. UNCHANGED <<adjustWire, refused>>
    BY <1>5 DEF ChannelRead
  <2> HIDE DEF bytesToAdd
  <2>3. Counters' /\ Balances'
    BY <2>1, <1>1, <1>2, Typing DEF Counters, Balances, Conservation, BufferFits
  <2>4. Wires' /\ NoOverrun'
    BY <2>1, <2>2, <1>2 DEF IInv, TypeOK, NoOverrun, SentInWindow, Wires
  <2> QED BY <2>3, <2>4, <1>3, Reassemble
<1> QED BY <1>4, <1>5

\* _ChannelReadExt() gives back what it took at once.
LEMMA ReadExtStep ==
    ASSUME IInv, "timeout" \notin SendFaults, NEW n \in 1..MaxWrite, ChannelReadExt(n)
    PROVE  IInv'
<1> DEFINE taken == Min2(n, unreadExt)
<1>1. taken \in Nat /\ taken <= unreadExt
  BY ReadAmount
<1>2. UNCHANGED <<peerWindowSz, length, idx, isKeying, disconnected, dataWire, sent, rcvd, credited>>
  BY DEF ChannelReadExt, session
<1>3. isKeying \in BOOLEAN /\ Flags'
  BY <1>2 DEF IInv, TypeOK, Flags
<1>4. /\ unreadExt' = unreadExt - taken /\ windowSz' = windowSz + taken
      /\ CreditWindow(taken, isKeying)
  BY DEF ChannelReadExt
<1> HIDE DEF taken
<1>5. /\ length' \in Nat /\ unreadExt' \in Nat /\ idx' \in Nat /\ idx' <= length'
      /\ length' + unreadExt' + taken = length + unreadExt
  BY <1>1, <1>2, <1>4, Typing
<1> QED BY <1>1, <1>2, <1>3, <1>4, <1>5, CreditBack

\* SendPendingChannelWindowAdjust(), at the end of a key exchange.
LEMMA EndRekeyStep ==
    ASSUME IInv, "timeout" \notin SendFaults, EndRekey PROVE IInv'
<1>1. /\ CreditWindow(0, FALSE) /\ isKeying' = FALSE
      /\ UNCHANGED <<peerWindowSz, windowSz, length, idx, unreadExt, disconnected,
                     dataWire, sent, rcvd, credited>>
  BY DEF EndRekey
<1>2. Flags'
  BY <1>1 DEF IInv, TypeOK, Flags
<1>3. /\ windowSz' = windowSz + 0 /\ length' \in Nat /\ unreadExt' \in Nat /\ idx' \in Nat
      /\ idx' <= length' /\ length' + unreadExt' + 0 = length + unreadExt
  BY <1>1, Typing
<1> QED BY <1>1, <1>2, <1>3, CreditBack

\* Nothing but a flag changes.
LEMMA FlagStep ==
    ASSUME IInv, Flags',
           UNCHANGED <<window, dataWire, adjustWire, refused, faults, history>>
    PROVE  IInv'
  BY DEF IInv, TypeOK, Conservation, BufferFits, NoOverrun, SentInWindow, Flags,
         window, history

----------------------------------------------------------------------------
(* Theorems.                                                               *)

\* Every step of the two sessions keeps the inductive invariant, whatever
\* the sizes, unless a send fails and leaves its packet queued.
LEMMA InvariantStep ==
    ASSUME IInv, "timeout" \notin SendFaults, [Next]_vars PROVE IInv'
<1>1. ASSUME NEW kind \in Kinds, NEW n \in 0..MaxWrite, SendChannelData(kind, n) PROVE IInv'
  BY <1>1, SendStep
<1>2. CASE DoChannelData
  BY <1>2, DataStep
<1>3. CASE DoChannelExtendedData
  BY <1>3, ExtendedDataStep
<1>4. CASE DropExtendedData
  BY <1>4, DropStep
<1>5. CASE DoChannelWindowAdjust
  BY <1>5, AdjustStep
<1>6. ASSUME NEW n \in 1..MaxWrite, ChannelRead(n) PROVE IInv'
  BY <1>6, ReadStep
<1>7. ASSUME NEW n \in 1..MaxWrite, ChannelReadExt(n) PROVE IInv'
  BY <1>7, ReadExtStep
<1>8. CASE StartRekey
  BY <1>8, FlagStep DEF StartRekey, IInv, TypeOK, Flags
<1>9. CASE EndRekey
  BY <1>9, EndRekeyStep
<1>10. CASE Disconnect
  BY <1>10, FlagStep DEF Disconnect, IInv, TypeOK, Flags
<1>11. CASE UNCHANGED vars
  BY <1>11, FlagStep DEF vars, session, IInv, TypeOK, Flags
<1> QED BY <1>1, <1>2, <1>3, <1>4, <1>5, <1>6, <1>7, <1>8, <1>9, <1>10, <1>11 DEF Next

\* A channel that has just been opened satisfies the invariant.
LEMMA InvariantInit == Init => IInv
<1> SUFFICES ASSUME Init PROVE IInv
  OBVIOUS
<1>1. WindowSz \in Nat
  BY WindowAssumption
<1>2. Counters /\ Balances
  BY <1>1 DEF Init, Counters, Balances, Conservation, BufferFits
<1>3. Wires
  <2>1. dataWire = <<>> /\ adjustWire = <<>> /\ sent = 0 /\ rcvd = 0 /\ granted = 0 /\ credited = 0
    BY DEF Init
  <2>2. Chain(<<>>, 0, 0)
    BY DEF Chain
  <2> QED BY <2>1, <2>2 DEF Wires, SentInWindow
<1>4. NoOverrun /\ Flags
  BY DEF Init, NoOverrun, Flags
<1> QED BY <1>2, <1>3, <1>4, Assemble

\* The window code keeps its inductive invariant.
THEOREM WindowInvariant ==
    ASSUME "timeout" \notin SendFaults PROVE Spec => []IInv
<1>1. IInv /\ [Next]_vars => IInv'
  BY InvariantStep
<1> QED BY <1>1, InvariantInit, PTL DEF Spec

\* No counter of the window wraps or leaves its range.
THEOREM WindowTyped ==
    ASSUME "timeout" \notin SendFaults PROVE Spec => []TypeOK
<1>1. IInv => TypeOK
  BY DEF IInv
<1> QED BY <1>1, WindowInvariant, PTL

\* Whatever is parked by a rekey, retried after a failed allocation or sent
\* at once by a read, ChannelCreditWindow() neither loses nor repeats it.
THEOREM CreditConserved ==
    ASSUME "timeout" \notin SendFaults PROVE Spec => []Conservation
<1>1. IInv => Conservation
  BY DEF IInv
<1> QED BY <1>1, WindowInvariant, PTL

\* The window never admits more than the input buffer has room for.
THEOREM RoomForTheWindow ==
    ASSUME "timeout" \notin SendFaults PROVE Spec => []BufferFits
<1>1. IInv => BufferFits
  BY DEF IInv
<1> QED BY <1>1, WindowInvariant, PTL

\* Two wolfSSH ends never make each other fail on the window.
THEOREM NothingRefused ==
    ASSUME "timeout" \notin SendFaults PROVE Spec => []NoOverrun
<1>1. IInv => NoOverrun
  BY DEF IInv
<1> QED BY <1>1, WindowInvariant, PTL

----------------------------------------------------------------------------
(* One direction of a channel is a bounded stream.                         *)

\* The refinement mapping: what has been handed over, and what was taken.
Consumed == rcvd - (length - idx) - unreadExt

\* Bytes taken and bytes handed over, as the invariant bounds them.
LEMMA Outstanding ==
    ASSUME IInv
    PROVE  Consumed \in Int /\ Consumed <= sent /\ sent - Consumed + peerWindowSz <= WindowSz
<1>1. /\ rcvd - (length - idx) - unreadExt <= sent
      /\ sent - (rcvd - (length - idx) - unreadExt) + peerWindowSz <= WindowSz
  BY Typing
<1> QED BY <1>1, Typing DEF Consumed

\* A step that hands n bytes over and takes none.
LEMMA Produces ==
    ASSUME IInv, NEW n \in Nat, n <= peerWindowSz, sent' = sent + n, Consumed' = Consumed
    PROVE  Stream!Next
<1>1. n \in 0..WindowSz /\ sent + n - Consumed <= WindowSz
  BY Outstanding, Typing
<1>2. Stream!Produce(n)
  BY <1>1 DEF Stream!Produce, Consumed
<1> QED BY <1>1, <1>2 DEF Stream!Next

\* A step that takes n bytes and hands none over.
LEMMA Consumes ==
    ASSUME IInv, NEW n \in Nat, Consumed + n <= sent, n <= WindowSz,
           sent' = sent, Consumed' = Consumed + n
    PROVE  Stream!Next
<1>1. n \in 0..WindowSz
  BY Typing
<1>2. Stream!Consume(n)
  BY DEF Stream!Consume, Consumed
<1> QED BY <1>1, <1>2 DEF Stream!Next

\* DoChannelData() and DoChannelExtendedData() move bytes into a buffer.
LEMMA BufferingStutters ==
    ASSUME IInv, DoChannelData \/ DoChannelExtendedData
    PROVE  sent' = sent /\ Consumed' = Consumed
<1> DEFINE sz == Head(dataWire).sz
<1>1. UNCHANGED <<sent, peerWindowSz, idx>>
  BY DEF DoChannelData, DoChannelExtendedData
<1>2. CASE DoChannelData
  <2>1. Arrives("stdout")
    BY <1>2 DEF DoChannelData
  <2>2. sz \in Nat /\ sz <= MaxPacketSz /\ sz <= windowSz /\ windowSz >= 1 /\ rcvd' = rcvd + sz
    BY <2>1, <1>1, ArrivalStep DEF Kinds
  <2>3. RoomFor(sz)
    BY <2>2, Typing DEF RoomFor
  <2>4. length' = length + sz /\ unreadExt' = unreadExt
    BY <2>2, <2>3, <1>2 DEF DoChannelData
  <2> HIDE DEF sz
  <2> QED BY <2>2, <2>4, <1>1, Typing DEF Consumed
<1>3. CASE DoChannelExtendedData
  <2>1. Arrives("stderr")
    BY <1>3 DEF DoChannelExtendedData
  <2>2. sz \in Nat /\ sz <= MaxPacketSz /\ sz <= windowSz /\ rcvd' = rcvd + sz
    BY <2>1, <1>1, ArrivalStep DEF Kinds
  <2>3. unreadExt' = unreadExt + sz /\ length' = length
    BY <2>2, <1>3 DEF DoChannelExtendedData, ExtAccepted
  <2> HIDE DEF sz
  <2> QED BY <2>2, <2>3, <1>1, Typing DEF Consumed
<1> QED BY <1>2, <1>3

\* Every step hands bytes over, takes bytes, or does neither.
LEMMA StreamStep ==
    ASSUME IInv, [Next]_vars
    PROVE  [Stream!Next]_<<sent, Consumed>>
<1>1. ASSUME NEW kind \in Kinds, NEW n \in 0..MaxWrite, SendChannelData(kind, n)
      PROVE  Stream!Next
  <2> DEFINE sz == Min2(n, SendBound)
  <2>1. sz \in Nat /\ sz <= peerWindowSz
    <3>1. n \in Nat
      BY WindowAssumption
    <3> QED BY <3>1, Typing DEF SendBound, Min2
  <2>2. sent' = sent + sz /\ UNCHANGED <<rcvd, length, idx, unreadExt>>
    BY <1>1 DEF SendChannelData
  <2> HIDE DEF sz
  <2>3. Consumed' = Consumed
    BY <2>2 DEF Consumed
  <2> QED BY <2>1, <2>2, <2>3, Produces
<1>2. CASE DoChannelData \/ DoChannelExtendedData
  BY <1>2, BufferingStutters
<1>3. CASE DropExtendedData
  <2> DEFINE sz == Head(dataWire).sz
  <2>1. /\ Arrives("other")
        /\ UNCHANGED <<sent, peerWindowSz, length, idx, unreadExt>>
    BY <1>3 DEF DropExtendedData
  <2>2. sz \in Nat /\ sz <= windowSz /\ rcvd' = rcvd + sz
    BY <2>1, ArrivalStep DEF Kinds
  <2>3. rcvd + sz <= sent
    BY <2>1, ChainTail, PacketsSized DEF Arrives, IInv, TypeOK
  <2> HIDE DEF sz
  <2>4. Consumed' = Consumed + sz /\ Consumed + sz <= sent /\ sz <= WindowSz
    BY <2>1, <2>2, <2>3, Typing DEF Consumed
  <2> QED BY <2>1, <2>2, <2>4, Consumes
<1>4. ASSUME NEW n \in 1..MaxWrite, ChannelRead(n) PROVE Stream!Next
  <2> DEFINE m == Min2(n, length - idx)
  <2>1. m \in Nat /\ m <= length - idx
    BY ReadAmount
  <2>2. UNCHANGED <<sent, rcvd, unreadExt>>
    BY <1>4 DEF ChannelRead
  <2>3. \/ length' = length - (idx + m) /\ idx' = 0
        \/ length' = length /\ idx' = idx + m
    BY <1>4 DEF ChannelRead
  <2> HIDE DEF m
  <2>4. Consumed' = Consumed + m
    BY <2>1, <2>2, <2>3, Typing DEF Consumed
  <2>5. Consumed + m <= sent /\ m <= WindowSz
    BY <2>1, Typing DEF Consumed
  <2> QED BY <2>1, <2>2, <2>4, <2>5, Consumes
<1>5. ASSUME NEW n \in 1..MaxWrite, ChannelReadExt(n) PROVE Stream!Next
  <2> DEFINE m == Min2(n, unreadExt)
  <2>1. m \in Nat /\ m <= unreadExt
    BY ReadAmount
  <2>2. UNCHANGED <<sent, rcvd, length, idx>> /\ unreadExt' = unreadExt - m
    BY <1>5 DEF ChannelReadExt
  <2> HIDE DEF m
  <2>3. Consumed' = Consumed + m /\ Consumed + m <= sent /\ m <= WindowSz
    BY <2>1, <2>2, Typing DEF Consumed
  <2> QED BY <2>1, <2>2, <2>3, Consumes
<1>6. CASE DoChannelWindowAdjust \/ StartRekey \/ EndRekey \/ Disconnect \/ UNCHANGED vars
  <2>1. UNCHANGED <<sent, rcvd, length, idx, unreadExt>>
    BY <1>6 DEF DoChannelWindowAdjust, StartRekey, EndRekey, Disconnect, vars, window, history
  <2> QED BY <2>1 DEF Consumed
<1> QED BY <1>1, <1>2, <1>3, <1>4, <1>5, <1>6 DEF Next

\* Whatever either end does, one direction of a channel is to its two
\* applications a stream with at most WindowSz bytes outstanding: the window
\* code implements BoundedStream.
THEOREM StreamRefinement ==
    ASSUME "timeout" \notin SendFaults PROVE Spec => StreamSpec
<1>1. Init => Stream!Init
  BY DEF Init, Stream!Init
<1>2. IInv /\ [Next]_vars => [Stream!Next]_<<sent, Consumed>>
  BY StreamStep
<1>3. Spec => []IInv
  BY WindowInvariant
<1> QED BY <1>1, <1>2, <1>3, PTL DEF Spec, StreamSpec, Stream!Spec, Consumed
============================================================================
