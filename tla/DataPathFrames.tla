-------------------------- MODULE DataPathFrames --------------------------
EXTENDS DataPathLemmas

(***************************************************************************)
(* What frames in the queues promise, the ways a step can affect it, and    *)
(* that every action keeps the promise.                                     *)
(***************************************************************************)

-----------------------------------------------------------------------------
(* What is learned stays: a MAC address is never forgotten, and the         *)
(* interface an address was learned on never changes.                       *)
Learned ==
  /\ nextHops \subseteq nextHops'
  /\ \A a \in Addrs : directlyConnected[a] # None => directlyConnected'[a] = directlyConnected[a]

(* Every step only adds to the ARP table or renews an entry in place.       *)
LEMMA LearnedNext ==
  ASSUME TypeOK, Next
  PROVE  Learned
<1>1. ASSUME UNCHANGED <<nextHops, directlyConnected>> PROVE Learned
  BY Zenon, <1>1 DEF Learned
<1>2. ASSUME NEW a, NEW i, Learn(a, i) PROVE Learned
  <2>1. directlyConnected \in [Addrs -> Ifaces \cup {None}]
    BY Zenon DEF TypeOK, ArpOK
  <2>. QED  BY Zenon, <1>2, <2>1 DEF Learn, Learned
<1>3. CASE PollReturn \/ RxBatch \/ RxFrame \/ RxEnqueue \/ RxNextRing \/ TxDone
  BY Zenon, <1>1, <1>3 DEF PollReturn, RxBatch, RxFrame, RxEnqueue, RxNextRing, TxDone, arp
<1>4. CASE Nic
  BY Zenon, <1>1, <1>4 DEF Nic, RxSync, TxSync, arp
<1>5. ASSUME NEW w \in Workers, Worker(w) PROVE Learned
  BY Zenon, <1>1, <1>5 DEF Worker, WorkerDequeue, WorkerDrop, WorkerFatal, Die, WorkerForward,
       WorkerNoMac, WorkerArp, WorkerUnsupported, arp
<1>6. ASSUME NEW w \in Workers, Tx(w) PROVE Learned
  BY Zenon, <1>1, <1>2, <1>6 DEF Tx, TxForward, TxDiscard, TxNoMacRequest, TxNoMacWait, TxNoMacFatal,
     Die, TxArpForeign, TxArpRequest, TxArpReply, TxArpUnknown, arp
<1>. QED  BY Zenon, <1>3, <1>4, <1>5, <1>6 DEF Next, Manager

(* A packet that could be sent still can: entries do not disappear.         *)
LEMMA SendableStays ==
  ASSUME ArpOK, Learned, NEW p \in Packet, NEW i, Sendable(p, i)
  PROVE  Sendable(p, i)'
<1>1. CASE p.type # "ip"
  BY Zenon, <1>1 DEF Sendable
<1>2. CASE p.type = "ip"
  <2>1. p \in IpPacket
    BY <1>2 DEF Packet, IpPacket, ArpPacket, Other, Blank
  <2>2. ntohl[p.d_ip] \in Addrs
    BY Zenon, <2>1, TablesAssumption DEF IpPacket
  <2>3. p # Blank /\ p.nh = NhAddr(p) /\ NhKnown(p) /\ i = NhIface(p)
    BY Zenon, <1>2 DEF Sendable
  <2>4. NhKnown(p)'
    BY Zenon, <2>2, <2>3 DEF NhKnown, Learned
  <2>5. NhIface(p)' = NhIface(p)
    BY Zenon, <2>2, <2>3 DEF NhKnown, NhIface, Learned
  <2>. QED  BY Zenon, <2>3, <2>4, <2>5 DEF Sendable
<1>. QED  BY Zenon, <1>1, <1>2

(* A frame keeps its promise while its packet is not written.               *)
LEMMA OutOKStays ==
  ASSUME TypeOK, Learned, NEW f \in Frame, OutOK(f), pkt'[f.buf] = pkt[f.buf]
  PROVE  OutOK(f)'
<1>1. PICK p \in Packet : p = pkt[f.buf]
  BY Zenon DEF Frame, TypeOK, RingsOK
<1>2. CASE f.flags = {}
  <2>1. Sendable(p, f.id)'
    BY Zenon, <1>1, <1>2, SendableStays DEF OutOK, TypeOK
  <2>2. (pkt[f.buf])' = p
    BY Zenon, <1>1
  <2>3. Sendable(pkt[f.buf], f.id)'
    BY Zenon, <2>1, <2>2 DEF Sendable, NhAddr, NhKnown, NhIface, Index
  <2>. QED  BY Zenon, <1>2, <2>3 DEF OutOK
<1>3. CASE f.flags # {}
  BY Zenon, <1>3 DEF OutOK
<1>. QED  BY Zenon, <1>2, <1>3

(* Exclusive ownership, cell by cell.                                       *)
LEMMA Distinct ==
  ASSUME BufferExclusive
  PROVE  /\ \A q, r \in Rings, s, t \in Slots : slot[q][s] = slot[r][t] => q = r /\ s = t
         /\ \A q \in Rings, s \in Slots, v \in Workers :
               /\ \A n \in 1 .. Len(outRing[v]) : slot[q][s] # outRing[v][n].buf
               /\ \A n \in 1 .. Len(work[v]) : slot[q][s] # work[v][n].buf
         /\ \A v, w \in Workers : \A n \in 1 .. Len(outRing[v]) :
               /\ \A m \in 1 .. Len(work[w]) : work[w][m].buf # outRing[v][n].buf
               /\ \A m \in 1 .. Len(outRing[w]) :
                     outRing[w][m].buf = outRing[v][n].buf => w = v /\ m = n
<1>1. ASSUME NEW v \in Workers
      PROVE  /\ \A n \in 1 .. Len(outRing[v]) : /\ <<"frame", <<"out", v>>, n>> \in Cells
                                               /\ Holds(<<"frame", <<"out", v>>, n>>) = outRing[v][n].buf
             /\ \A n \in 1 .. Len(work[v]) : /\ <<"frame", <<"work", v>>, n>> \in Cells
                                            /\ Holds(<<"frame", <<"work", v>>, n>>) = work[v][n].buf
  <2>1. /\ <<"out", v>> \in Queues /\ Queue(<<"out", v>>) = outRing[v]
        /\ <<"work", v>> \in Queues /\ Queue(<<"work", v>>) = work[v]
    BY Zenon, QueueFacts DEF QueueDesc
  <2>. QED  BY <2>1, CellFacts DEF CellDesc
<1>2. \A q \in Rings, s \in Slots : <<"slot", q, s>> \in Cells /\ Holds(<<"slot", q, s>>) = slot[q][s]
  BY Zenon, CellFacts DEF CellDesc
<1>3. ASSUME NEW q \in Rings, NEW r \in Rings, NEW s \in Slots, NEW t \in Slots,
             slot[q][s] = slot[r][t]
      PROVE  q = r /\ s = t
  <2>. DEFINE c == <<"slot", q, s>>
              d == <<"slot", r, t>>
  <2>1. c \in Cells /\ d \in Cells /\ Holds(c) = Holds(d)
    BY Zenon, <1>2, <1>3
  <2>. HIDE DEF c, d
  <2>2. c = d
    BY Zenon, <2>1 DEF BufferExclusive
  <2>. QED  BY Zenon, <2>2 DEF c, d
<1>4. ASSUME NEW q \in Rings, NEW s \in Slots, NEW v \in Workers,
             NEW n \in 1 .. Len(outRing[v]), slot[q][s] = outRing[v][n].buf
      PROVE  FALSE
  <2>. DEFINE c == <<"slot", q, s>>
              d == <<"frame", <<"out", v>>, n>>
  <2>1. c \in Cells /\ d \in Cells /\ Holds(c) = Holds(d)
    BY <1>1, <1>2, <1>4
  <2>. HIDE DEF c, d
  <2>2. c = d
    BY Zenon, <2>1 DEF BufferExclusive
  <2>. QED  BY Zenon, <2>2 DEF c, d
<1>5. ASSUME NEW q \in Rings, NEW s \in Slots, NEW v \in Workers,
             NEW n \in 1 .. Len(work[v]), slot[q][s] = work[v][n].buf
      PROVE  FALSE
  <2>. DEFINE c == <<"slot", q, s>>
              d == <<"frame", <<"work", v>>, n>>
  <2>1. c \in Cells /\ d \in Cells /\ Holds(c) = Holds(d)
    BY <1>1, <1>2, <1>5
  <2>. HIDE DEF c, d
  <2>2. c = d
    BY Zenon, <2>1 DEF BufferExclusive
  <2>. QED  BY Zenon, <2>2 DEF c, d
<1>6. ASSUME NEW v \in Workers, NEW w \in Workers, NEW n \in 1 .. Len(outRing[v]),
             NEW m \in 1 .. Len(work[w]), work[w][m].buf = outRing[v][n].buf
      PROVE  FALSE
  <2>. DEFINE c == <<"frame", <<"work", w>>, m>>
              d == <<"frame", <<"out", v>>, n>>
  <2>1. c \in Cells /\ d \in Cells /\ Holds(c) = Holds(d)
    BY <1>1, <1>6
  <2>. HIDE DEF c, d
  <2>2. c = d
    BY Zenon, <2>1 DEF BufferExclusive
  <2>. QED  BY Zenon, <2>2 DEF c, d
<1>7. ASSUME NEW v \in Workers, NEW w \in Workers, NEW n \in 1 .. Len(outRing[v]),
             NEW m \in 1 .. Len(outRing[w]), outRing[w][m].buf = outRing[v][n].buf
      PROVE  w = v /\ m = n
  <2>. DEFINE c == <<"frame", <<"out", w>>, m>>
              d == <<"frame", <<"out", v>>, n>>
  <2>1. c \in Cells /\ Holds(c) = outRing[w][m].buf
    BY Zenon, <1>1
  <2>2. d \in Cells /\ Holds(d) = outRing[v][n].buf
    BY Zenon, <1>1
  <2>. HIDE DEF c, d
  <2>3. c = d
    BY Zenon, <1>7, <2>1, <2>2 DEF BufferExclusive
  <2>. QED  BY Zenon, <2>3 DEF c, d
<1>. QED  BY Zenon, <1>3, <1>4, <1>5, <1>6, <1>7

(* A worker's frame and a slot have different buffers.                      *)
LEMMA SlotNotWork ==
  ASSUME BufferExclusive, NEW q \in Rings, NEW s \in Slots, NEW w \in Workers,
         NEW n \in 1 .. Len(work[w])
  PROVE  slot[q][s] # work[w][n].buf
BY Distinct

OutPktSame ==
  \A v \in Workers : \A n \in 1 .. Len(outRing[v]) :
     pkt'[outRing[v][n].buf] = pkt[outRing[v][n].buf]

(* The frames of a queue are frames. *)
LEMMA OutElem ==
  ASSUME TypeOK, NEW v \in Workers, NEW n \in 1 .. Len(outRing[v])
  PROVE  outRing[v][n] \in Frame
BY DEF TypeOK, QueuesOK

(* Steps that neither touch outRing nor write a packet in it.               *)
LEMMA FramesSame ==
  ASSUME TypeOK, FramesOK, Learned, OutPktSame, outRing' = outRing,
         Fresh(batch)', Fresh(inRing)', \A w \in Workers : Fresh(work[w])'
  PROVE  FramesOK'
<1>1. ASSUME NEW v \in Workers, NEW n \in 1 .. Len(outRing[v])
      PROVE  OutOK(outRing[v][n])'
  <2>1. PICK f \in Frame : f = outRing[v][n]
    BY Zenon, OutElem
  <2>2. OutOK(f)'
    BY Zenon, <2>1, OutOKStays DEF FramesOK, OutPktSame
  <2>3. (outRing[v][n])' = f
    BY Zenon, <2>1
  <2>. QED  BY Zenon, <2>2, <2>3 DEF OutOK, Sendable, NhAddr, NhKnown, NhIface, Index
<1>. QED  BY Zenon, <1>1 DEF FramesOK

(* A worker enqueues a frame that keeps its promise.                        *)
LEMMA FramesEnqueue ==
  ASSUME TypeOK, FramesOK, Learned, OutPktSame, NEW w \in Workers, work[w] # <<>>,
         NEW g \in Frame, Enqueue(w, g), OutOK(g)', UNCHANGED <<inRing, batch>>
  PROVE  FramesOK'
<1>1. Fresh(batch)' /\ Fresh(inRing)'
  BY Zenon DEF FramesOK, Fresh
<1>2. ASSUME NEW v \in Workers PROVE Fresh(work[v])'
  <2>1. work \in [Workers -> Seq(Frame)] /\ work' = [work EXCEPT ![w] = Tail(work[w])]
    BY Zenon DEF TypeOK, QueuesOK, Enqueue
  <2>2. CASE v = w
    <3>1. /\ work'[w] = Tail(work[w]) /\ Len(work[w]) \in Nat
          /\ Len(Tail(work[w])) = Len(work[w]) - 1
          /\ \A n \in 1 .. Len(work[w]) - 1 : Tail(work[w])[n] = work[w][n + 1]
      BY <2>1, SeqFacts
    <3>2. \A n \in 1 .. Len(work[w]) - 1 : n + 1 \in 1 .. Len(work[w])
      BY <3>1
    <3>. QED  BY <2>2, <3>1, <3>2 DEF FramesOK, Fresh
  <2>3. CASE v # w
    BY Zenon, <2>1, <2>3 DEF FramesOK, Fresh
  <2>. QED  BY Zenon, <2>2, <2>3
<1>3. ASSUME NEW v \in Workers, NEW n \in 1 .. Len(outRing'[v])
      PROVE  OutOK(outRing[v][n])'
  <2>1. PICK f \in Frame : f = outRing'[v][n] /\ OutOK(f)'
    <3>1. \/ n \in 1 .. Len(outRing[v]) /\ outRing'[v][n] = outRing[v][n]
          \/ outRing'[v][n] = g
      <4>1. outRing[v] \in Seq(Frame) /\ outRing[w] \in Seq(Frame) /\ outRing \in [Workers -> Seq(Frame)]
        BY Zenon DEF TypeOK, QueuesOK
      <4>2. CASE outRing' = outRing
        BY Zenon, <4>2
      <4>3. CASE outRing' = [outRing EXCEPT ![w] = Append(outRing[w], g)]
        <5>1. CASE v = w
          <6>1. outRing'[v] = Append(outRing[v], g)
            BY Zenon, <4>1, <4>3, <5>1
          <6>. QED  BY <4>1, <6>1
        <5>2. CASE v # w
          BY Zenon, <4>1, <4>3, <5>2
        <5>. QED  BY Zenon, <5>1, <5>2
      <4>. QED  BY Zenon, <4>2, <4>3 DEF Enqueue
    <3>2. CASE n \in 1 .. Len(outRing[v]) /\ outRing'[v][n] = outRing[v][n]
      <4>1. PICK f \in Frame : f = outRing[v][n]
        BY Zenon, <3>2, OutElem
      <4>2. OutOK(f)'
        BY Zenon, <3>2, <4>1, OutOKStays DEF FramesOK, OutPktSame
      <4>. QED  BY Zenon, <3>2, <4>1, <4>2
    <3>. QED  BY Zenon, <3>1, <3>2
  <2>. QED  BY Zenon, <2>1 DEF OutOK, Sendable, NhAddr, NhKnown, NhIface, Index
<1>. QED  BY Zenon, <1>1, <1>2, <1>3 DEF FramesOK

(* The promise of a frame is the promise of the place it is in.             *)
LEMMA OutOKAt ==
  ASSUME NEW f, NEW v, NEW n, f = outRing'[v][n], OutOK(f)'
  PROVE  OutOK(outRing[v][n])'
BY Zenon DEF OutOK, Sendable, NhAddr, NhKnown, NhIface, Index

(* The manager takes a frame out of outRing and may write its packet: no    *)
(* other frame has that buffer.                                             *)
LEMMA FramesShift ==
  ASSUME TypeOK, BufferExclusive, FramesOK, Learned, NEW w \in Workers, outRing[w] # <<>>,
         outRing' = [outRing EXCEPT ![w] = Tail(outRing[w])],
         NEW z, pkt' = [pkt EXCEPT ![OutFrame(w).buf] = z],
         UNCHANGED <<inRing, work, batch>>
  PROVE  FramesOK'
<1>1. Fresh(batch)' /\ Fresh(inRing)' /\ \A v \in Workers : Fresh(work[v])'
  BY Zenon DEF FramesOK, Fresh
<1>2. /\ outRing \in [Workers -> Seq(Frame)] /\ pkt \in [Bufs -> Packet]
      /\ OutFrame(w) = outRing[w][1] /\ Len(outRing[w]) \in Nat \ {0}
      /\ outRing'[w] = Tail(outRing[w]) /\ Len(Tail(outRing[w])) = Len(outRing[w]) - 1
      /\ \A n \in 1 .. Len(outRing[w]) - 1 : Tail(outRing[w])[n] = outRing[w][n + 1]
  BY OutFacts, SeqFacts DEF TypeOK, RingsOK, QueuesOK
<1>3. ASSUME NEW v \in Workers, NEW n \in 1 .. Len(outRing'[v])
      PROVE  OutOK(outRing[v][n])'
  <2>1. PICK m \in 1 .. Len(outRing[v]) : /\ outRing'[v][n] = outRing[v][m]
                                          /\ ~(v = w /\ m = 1)
    <3>1. CASE v = w
      <4>1. n + 1 \in 1 .. Len(outRing[w]) /\ n + 1 # 1 /\ n \in 1 .. Len(outRing[w]) - 1
        BY <1>2, <3>1
      <4>. QED  BY Zenon, <1>2, <3>1, <4>1
    <3>2. CASE v # w
      BY Zenon, <1>2, <3>2
    <3>. QED  BY Zenon, <3>1, <3>2
  <2>2. PICK f \in Frame : f = outRing[v][m]
    BY Zenon, OutElem
  <2>3. f.buf # OutFrame(w).buf /\ f.buf \in Bufs
    <3>1. 1 \in 1 .. Len(outRing[w])
      BY <1>2
    <3>. QED  BY <1>2, <2>1, <2>2, <3>1, Distinct DEF Frame
  <2>4. pkt'[f.buf] = pkt[f.buf]
    BY Zenon, <1>2, <2>3
  <2>5. OutOK(f)'
    BY Zenon, <2>2, <2>4, OutOKStays DEF FramesOK
  <2>6. f = outRing'[v][n]
    BY Zenon, <2>1, <2>2
  <2>. QED  BY Zenon, <2>5, <2>6, OutOKAt
<1>. QED  BY Zenon, <1>1, <1>3 DEF FramesOK

(* The RX half of Manager::process: frames are created without flags.       *)
LEMMA FramesRx ==
  ASSUME TypeOK, FramesOK, Learned,
         PollReturn \/ RxBatch \/ RxFrame \/ RxEnqueue \/ RxNextRing \/ TxDone
  PROVE  FramesOK'
<1>1. pkt' = pkt /\ outRing' = outRing /\ work' = work
  BY Zenon DEF PollReturn, RxBatch, RxFrame, RxEnqueue, RxNextRing, TxDone
<1>2. OutPktSame /\ \A w \in Workers : Fresh(work[w])'
  BY Zenon, <1>1 DEF OutPktSame, FramesOK, Fresh
<1>3. inRing \in Seq(Frame) /\ batch \in Seq(Frame) /\ Fresh(inRing) /\ Fresh(batch)
  BY Zenon DEF TypeOK, QueuesOK, FramesOK
<1>4. Fresh(batch)' /\ Fresh(inRing)'
  <2>1. CASE PollReturn \/ RxNextRing \/ TxDone
    BY Zenon, <1>3, <2>1 DEF PollReturn, RxNextRing, TxDone, Fresh
  <2>2. CASE RxBatch
    BY <1>3, <2>2 DEF RxBatch, Fresh
  <2>3. CASE RxFrame
    <3>1. PICK g : g.flags = {} /\ batch' = Append(batch, g) /\ inRing' = inRing
      BY Zenon, <2>3 DEF RxFrame
    <3>. QED  BY <1>3, <3>1 DEF Fresh
  <2>4. CASE RxEnqueue
    <3>1. batch' = <<>> /\ (inRing' = inRing \/ inRing' = inRing \o batch)
      BY Zenon, <2>4 DEF RxEnqueue
    <3>2. ASSUME NEW s, s = inRing \o batch PROVE Fresh(s)
      <4>1. ASSUME NEW n \in 1 .. Len(s) PROVE s[n].flags = {}
        <5>1. /\ Len(s) = Len(inRing) + Len(batch) /\ Len(inRing) \in Nat /\ Len(batch) \in Nat
              /\ s[n] = IF n <= Len(inRing) THEN inRing[n] ELSE batch[n - Len(inRing)]
          BY <1>3, <3>2
        <5>2. n \in 1 .. Len(inRing) \/ (~(n <= Len(inRing)) /\ n - Len(inRing) \in 1 .. Len(batch))
          BY <5>1
        <5>. QED  BY <1>3, <5>1, <5>2 DEF Fresh
      <4>. QED  BY Zenon, <4>1 DEF Fresh
    <3>3. CASE inRing' = inRing \o batch
      <4>1. PICK s : s = inRing' /\ Fresh(s)
        BY Zenon, <3>2, <3>3
      <4>. QED  BY <3>1, <4>1 DEF Fresh
    <3>. QED  BY <1>3, <3>1, <3>3 DEF Fresh
  <2>. QED  BY Zenon, <2>1, <2>2, <2>3, <2>4
<1>. QED  BY Zenon, <1>1, <1>2, <1>4, FramesSame

(* The NIC writes only buffers in slots, which no frame holds.              *)
LEMMA FramesNic ==
  ASSUME TypeOK, BufferExclusive, FramesOK, Learned, Nic
  PROVE  FramesOK'
<1>1. PICK q \in Rings, s \in Slots : \E z : pkt' = [pkt EXCEPT ![slot[q][s]] = z]
  <2>1. PICK q \in Rings : TxSync(q) \/ \E p \in Arrivals[<<q[2], q[3]>>] : RxSync(q, p)
    BY Zenon DEF Nic
  <2>2. tail[q] \in Slots /\ nm_ring_next(tail[q]) \in Slots
    BY Zenon, RingFacts DEF TypeOK, RingsOK
  <2>. QED  BY Zenon, <2>1, <2>2 DEF TxSync, RxSync
<1>2. outRing' = outRing /\ batch' = batch /\ inRing' = inRing /\ work' = work
  BY Zenon DEF Nic, TxSync, RxSync, manager
<1>3. OutPktSame
  <2>1. ASSUME NEW v \in Workers, NEW n \in 1 .. Len(outRing[v])
        PROVE  pkt'[outRing[v][n].buf] = pkt[outRing[v][n].buf]
    <3>1. outRing[v][n].buf \in Bufs /\ pkt \in [Bufs -> Packet]
      BY Zenon, OutElem DEF Frame, TypeOK, RingsOK
    <3>2. slot[q][s] # outRing[v][n].buf
      BY Distinct
    <3>. QED  BY Zenon, <1>1, <3>1, <3>2
  <2>. QED  BY Zenon, <2>1 DEF OutPktSame
<1>. QED  BY Zenon, <1>2, <1>3, FramesSame DEF FramesOK, Fresh

(* A worker takes frames, or drops one.                                     *)
LEMMA FramesDequeue ==
  ASSUME TypeOK, FramesOK, Learned, NEW w \in Workers,
         WorkerDequeue(w) \/ WorkerDrop(w) \/ WorkerFatal(w)
  PROVE  FramesOK'
<1>1. pkt' = pkt /\ outRing' = outRing /\ batch' = batch
  BY Zenon DEF WorkerDequeue, WorkerDrop, WorkerFatal, Die, rings, manager
<1>2. OutPktSame /\ Fresh(batch)'
  BY Zenon, <1>1 DEF OutPktSame, FramesOK, Fresh
<1>3. work \in [Workers -> Seq(Frame)] /\ inRing \in Seq(Frame) /\ Fresh(inRing)
  BY Zenon DEF TypeOK, QueuesOK, FramesOK
<1>4. Fresh(inRing)' /\ \A v \in Workers : Fresh(work[v])'
  <2>1. CASE WorkerFatal(w)
    BY Zenon, <2>1 DEF WorkerFatal, Die, FramesOK, Fresh
  <2>2. CASE WorkerDrop(w)
    <3>1. /\ work' = [work EXCEPT ![w] = Tail(work[w])] /\ work[w] # <<>> /\ inRing' = inRing
      BY Zenon, <2>2 DEF WorkerDrop
    <3>2. /\ Len(work[w]) \in Nat /\ Len(Tail(work[w])) = Len(work[w]) - 1
          /\ \A n \in 1 .. Len(work[w]) - 1 : Tail(work[w])[n] = work[w][n + 1]
      BY <1>3, <3>1, SeqFacts
    <3>3. \A n \in 1 .. Len(work[w]) - 1 : n + 1 \in 1 .. Len(work[w])
      BY <3>2
    <3>4. Fresh(Tail(work[w]))
      BY Zenon, <3>2, <3>3 DEF FramesOK, Fresh
    <3>. QED  BY Zenon, <1>3, <3>1, <3>4 DEF FramesOK, Fresh
  <2>3. CASE WorkerDequeue(w)
    <3>1. PICK k \in 1 .. Min({WORKER_BULK_SIZE, Len(inRing)}) :
             /\ work' = [work EXCEPT ![w] = SubSeq(inRing, 1, k)]
             /\ inRing' = SubSeq(inRing, k + 1, Len(inRing))
      BY Zenon, <2>3 DEF WorkerDequeue
    <3>2. k \in 0 .. Len(inRing) /\ Len(inRing) \in Nat
      <4>1. Len(inRing) \in Nat
        BY <1>3
      <4>2. /\ Min({WORKER_BULK_SIZE, Len(inRing)}) \in Nat
            /\ Min({WORKER_BULK_SIZE, Len(inRing)}) <= Len(inRing)
        BY Zenon, <4>1, MinPairFacts, SizesAssumption
      <4>. QED  BY <4>1, <4>2
    <3>3. /\ Len(SubSeq(inRing, 1, k)) = k
          /\ \A n \in 1 .. k : SubSeq(inRing, 1, k)[n] = inRing[n]
          /\ Len(SubSeq(inRing, k + 1, Len(inRing))) = Len(inRing) - k
          /\ \A n \in 1 .. Len(inRing) - k :
                 SubSeq(inRing, k + 1, Len(inRing))[n] = inRing[k + n]
      BY <1>3, <3>2, SubSeqFacts
    <3>4. /\ \A n \in 1 .. k : n \in 1 .. Len(inRing)
          /\ \A n \in 1 .. Len(inRing) - k : k + n \in 1 .. Len(inRing)
      BY <3>2
    <3>5. Fresh(SubSeq(inRing, 1, k))
      BY Zenon, <1>3, <3>3, <3>4 DEF Fresh
    <3>6. Fresh(SubSeq(inRing, k + 1, Len(inRing)))
      BY Zenon, <1>3, <3>3, <3>4 DEF Fresh
    <3>. QED  BY Zenon, <1>3, <3>1, <3>5, <3>6 DEF FramesOK, Fresh
  <2>. QED  BY Zenon, <2>1, <2>2, <2>3
<1>. QED  BY Zenon, <1>1, <1>2, <1>4, FramesSame

(* A forwarded packet carries the MAC of a next hop on the frame's          *)
(* interface.                                                               *)
LEMMA FramesForward ==
  ASSUME TypeOK, BufferExclusive, FramesOK, Learned, NEW w \in Workers, WorkerForward(w)
  PROVE  FramesOK'
<1>1. work[w] # <<>> /\ CurPacket(w).type = "ip" /\ NhIface(CurPacket(w)) # None /\ NhKnown(CurPacket(w))
  BY Zenon DEF WorkerForward, Routable
<1>2. PICK c \in Frame : c = CurFrame(w) /\ c = work[w][1]
  BY Zenon, <1>1, CurFacts
<1>3. PICK p \in IpPacket : p = CurPacket(w) /\ p = pkt[c.buf]
  BY Zenon, <1>1, <1>2, CurFacts DEF CurPacket
<1>. PICK g : g = [c EXCEPT !.id = NhIface(p), !.flags = {}]
  OBVIOUS
<1>. PICK r : r = [p EXCEPT !.nh = NhAddr(p)]
  BY Zenon
<1>4. Enqueue(w, g) /\ UNCHANGED <<inRing, batch, arp>> /\ pkt' = [pkt EXCEPT ![c.buf] = r]
  BY Zenon, <1>2, <1>3 DEF WorkerForward, manager
<1>5. /\ g \in Frame /\ g.flags = {} /\ g.buf = c.buf /\ g.id = NhIface(p)
      /\ c.buf \in Bufs /\ pkt \in [Bufs -> Packet]
  <2>1. NhIface(p) \in Ifaces
    BY Zenon, <1>1, <1>3, RouteFacts DEF TypeOK
  <2>. QED  BY Zenon, <2>1 DEF Frame, TypeOK, RingsOK
<1>6. r.type = "ip" /\ r.d_ip = p.d_ip /\ r.nh = NhAddr(p) /\ r # Blank
  BY Zenon DEF IpPacket, Blank
<1>7. OutPktSame
  <2>1. ASSUME NEW v \in Workers, NEW n \in 1 .. Len(outRing[v])
        PROVE  pkt'[outRing[v][n].buf] = pkt[outRing[v][n].buf]
    <3>1. outRing[v][n].buf \in Bufs
      BY Zenon, OutElem DEF Frame
    <3>2. 1 \in 1 .. Len(work[w])
      BY <1>1, SeqFacts DEF TypeOK, QueuesOK
    <3>3. c.buf # outRing[v][n].buf
      BY <1>2, <3>2, Distinct
    <3>. QED  BY Zenon, <1>4, <1>5, <3>1, <3>3
  <2>. QED  BY Zenon, <2>1 DEF OutPktSame
<1>8. Sendable(r, g.id)
  <2>1. Index(r) = Index(p)
    BY Zenon, <1>6 DEF Index
  <2>. QED  BY Zenon, <1>1, <1>3, <1>5, <1>6, <2>1 DEF Sendable, NhAddr, NhKnown, NhIface
<1>9. Sendable(r, g.id)'
  <2>1. NhAddr(p) \in Addrs
    BY Zenon, RouteFacts DEF TypeOK
  <2>2. r \in Packet
    BY Zenon, <2>1 DEF Packet, IpPacket
  <2>. QED  BY Zenon, <1>8, <2>2, SendableStays DEF TypeOK
<1>10. (pkt[g.buf])' = r
  BY Zenon, <1>4, <1>5
<1>11. OutOK(g)'
  <2>1. Sendable(pkt[g.buf], g.id)'
    BY Zenon, <1>9, <1>10 DEF Sendable, NhAddr, NhKnown, NhIface, Index
  <2>. QED  BY Zenon, <1>5, <2>1 DEF OutOK
<1>. QED  BY Zenon, <1>1, <1>4, <1>5, <1>7, <1>11, FramesEnqueue

(* A worker flags a frame: NOMAC only for an IPv4 packet.                   *)
LEMMA FramesFlag ==
  ASSUME TypeOK, FramesOK, Learned, NEW w \in Workers,
         WorkerNoMac(w) \/ WorkerArp(w) \/ WorkerUnsupported(w)
  PROVE  FramesOK'
<1>1. work[w] # <<>> /\ pkt' = pkt /\ UNCHANGED <<inRing, batch>>
  BY Zenon DEF WorkerNoMac, WorkerArp, WorkerUnsupported, Routable, manager
<1>2. PICK c \in Frame : c = CurFrame(w) /\ c.flags = {}
  <2>1. 1 \in 1 .. Len(work[w])
    BY <1>1, SeqFacts DEF TypeOK, QueuesOK
  <2>. QED  BY <1>1, <2>1, CurFacts DEF FramesOK, Fresh
<1>3. OutPktSame
  BY Zenon, <1>1 DEF OutPktSame
<1>4. PICK p \in Packet : p = CurPacket(w) /\ p = pkt[c.buf]
  BY Zenon, <1>1, <1>2, CurFacts DEF CurPacket
<1>5. CASE WorkerNoMac(w)
  <2>. PICK g : g = [c EXCEPT !.id = NhIface(p), !.flags = {"NOMAC"}]
    OBVIOUS
  <2>1. p \in IpPacket /\ p.type = "ip" /\ NhIface(p) \in Ifaces /\ Enqueue(w, g)
    <3>1. p \in IpPacket /\ p.type = "ip" /\ NhIface(p) # None /\ Enqueue(w, g)
      BY Zenon, <1>1, <1>2, <1>4, <1>5, CurFacts DEF WorkerNoMac, Routable
    <3>. QED  BY Zenon, <3>1, RouteFacts DEF TypeOK
  <2>2. g \in Frame /\ g.flags = {"NOMAC"} /\ g.buf = c.buf
    BY Zenon, <2>1 DEF Frame
  <2>3. OutOK(g)'
    BY Zenon, <1>1, <1>4, <2>1, <2>2 DEF OutOK
  <2>. QED  BY Zenon, <1>1, <1>3, <2>1, <2>2, <2>3, FramesEnqueue
<1>6. CASE WorkerArp(w)
  <2>. DEFINE g == [c EXCEPT !.flags = c.flags \cup {"ARP"}]
  <2>1. p.type = "arp" /\ Enqueue(w, g)
    BY Zenon, <1>2, <1>4, <1>6 DEF WorkerArp
  <2>2. g \in Frame /\ g.flags = {"ARP"} /\ g.buf = c.buf
    BY Zenon, <1>2 DEF Frame
  <2>. HIDE DEF g
  <2>3. OutOK(g)'
    BY Zenon, <1>1, <1>4, <2>1, <2>2 DEF OutOK
  <2>. QED  BY Zenon, <1>1, <1>3, <2>1, <2>2, <2>3, FramesEnqueue
<1>7. CASE WorkerUnsupported(w)
  <2>. DEFINE g == [c EXCEPT !.id = 0, !.flags = {"DISCARD"}]
  <2>1. Enqueue(w, g)
    BY Zenon, <1>2, <1>7 DEF WorkerUnsupported
  <2>2. g \in Frame /\ g.flags = {"DISCARD"} /\ g.buf = c.buf
    <3>1. 0 \in Ifaces
      BY SizesAssumption DEF Ifaces
    <3>. QED  BY Zenon, <3>1 DEF Frame
  <2>. HIDE DEF g
  <2>3. OutOK(g)'
    BY Zenon, <2>2 DEF OutOK
  <2>. QED  BY Zenon, <1>1, <1>3, <2>1, <2>2, <2>3, FramesEnqueue
<1>. QED  BY Zenon, <1>5, <1>6, <1>7

(* The TX half of Manager::process.                                         *)
LEMMA FramesTx ==
  ASSUME TypeOK, BufferExclusive, FramesOK, Learned, NEW w \in Workers, Tx(w)
  PROVE  FramesOK'
<1>1. inRing' = inRing /\ work' = work /\ batch' = batch
  BY Zenon DEF Tx, TxForward, TxDiscard, TxNoMacRequest, TxNoMacWait, TxNoMacFatal,
     TxArpForeign, TxArpRequest, TxArpReply, TxArpUnknown, Die, manager
<1>2. CASE outRing' = outRing /\ pkt' = pkt
  <2>1. OutPktSame
    BY Zenon, <1>2 DEF OutPktSame
  <2>. QED  BY Zenon, <1>1, <1>2, <2>1, FramesSame DEF FramesOK, Fresh
<1>3. CASE /\ outRing[w] # <<>> /\ outRing' = [outRing EXCEPT ![w] = Tail(outRing[w])]
           /\ \E z : pkt' = [pkt EXCEPT ![OutFrame(w).buf] = z]
  BY Zenon, <1>1, <1>3, FramesShift
<1>4. ASSUME NEW p, Transmit(w, p), outRing[w] # <<>> PROVE FramesOK'
  BY Zenon, <1>2, <1>3, <1>4 DEF Transmit
<1>5. ASSUME Reclaim(w), outRing[w] # <<>> PROVE FramesOK'
  BY Zenon, <1>3, <1>5 DEF Reclaim
<1>6. CASE TxNoMacFatal(w)
  BY Zenon, <1>2, <1>6 DEF TxNoMacFatal, Die
<1>7. CASE TxDiscard(w) \/ TxNoMacWait(w) \/ TxArpForeign(w)
  BY Zenon, <1>5, <1>7 DEF TxDiscard, TxNoMacWait, TxArpForeign, Flagged, ArpFrame
<1>8. CASE TxForward(w) \/ TxNoMacRequest(w) \/ TxArpRequest(w) \/ TxArpReply(w) \/ TxArpUnknown(w)
  BY Zenon, <1>4, <1>8 DEF TxForward, TxNoMacRequest, TxArpRequest, TxArpReply, TxArpUnknown, Flagged, ArpFrame
<1>. QED  BY Zenon, <1>6, <1>7, <1>8 DEF Tx

(* No frame exists at the start.                                            *)
LEMMA FramesInit == Init => FramesOK
<1>. SUFFICES ASSUME Init PROVE FramesOK
  OBVIOUS
<1>1. /\ batch = <<>> /\ inRing = <<>>
      /\ \A w \in Workers : work[w] = <<>> /\ outRing[w] = <<>>
  BY Zenon DEF Init
<1>2. 1 .. Len(<<>>) = {}
  OBVIOUS
<1>. QED  BY Zenon, <1>1, <1>2 DEF FramesOK, Fresh

(* Every step keeps the promises of the frames.                             *)
LEMMA FramesNext ==
  ASSUME TypeOK, BufferExclusive, FramesOK, Next
  PROVE  FramesOK'
<1>1. Learned
  BY Zenon, LearnedNext
<1>. QED  BY Zenon, <1>1, FramesRx, FramesNic, FramesDequeue, FramesForward, FramesFlag, FramesTx
          DEF Next, Manager, Worker

(* NoMacIsIp is one of those promises.                                      *)
LEMMA NoMacFromFrames == FramesOK => NoMacIsIp
<1>. SUFFICES ASSUME FramesOK, NEW w \in Workers, NEW n \in 1 .. Len(outRing[w]),
                     "NOMAC" \in outRing[w][n].flags
              PROVE  pkt[outRing[w][n].buf].type = "ip"
  BY Zenon DEF NoMacIsIp
<1>1. OutOK(outRing[w][n])
  BY Zenon DEF FramesOK
<1>. QED  BY <1>1 DEF OutOK

-----------------------------------------------------------------------------
(* Every frame handed to the NIC may be sent on the interface of its ring.  *)
SentOK ==
  \A q \in TxRings, s \in Slots : Pending(q, s) => Sendable(pkt[slot[q][s]], q[2])

(* A filled slot after the step was filled before it, with the same buffer  *)
(* and the same packet ...                                                  *)
Kept(q, s) ==
  /\ Pending(q, s)
  /\ slot'[q][s] = slot[q][s]
  /\ pkt'[slot[q][s]] = pkt[slot[q][s]]

(* ... or the step filled it.                                               *)
Filled(q, s) == ~Pending(q, s) /\ Sendable(pkt[slot[q][s]], q[2])'

(* Steps that leave the slot, its ring and its packet alone.                *)
LEMMA KeptSame ==
  ASSUME NEW q, NEW s, Pending(q, s)', head'[q] = head[q], tail'[q] = tail[q],
         slot'[q][s] = slot[q][s], pkt'[slot[q][s]] = pkt[slot[q][s]]
  PROVE  Kept(q, s)
BY Zenon DEF Kept, Pending

(* The NIC: a TX slot it has not sent yet stays as it is.                   *)
LEMMA KeptNic ==
  ASSUME TypeOK, BufferExclusive, Nic, NEW q \in TxRings, NEW s \in Slots, Pending(q, s)'
  PROVE  Kept(q, s)
<1>1. PICK r \in Rings : TxSync(r) \/ \E p \in Arrivals[<<r[2], r[3]>>] : RxSync(r, p)
  BY Zenon DEF Nic
<1>2. /\ q \in Rings /\ q[1] = "tx" /\ head' = head /\ slot' = slot
      /\ tail' = [tail EXCEPT ![r] = nm_ring_next(tail[r])]
      /\ nm_ring_next(tail[r]) # head[r]
      /\ tail[r] \in Slots /\ nm_ring_next(tail[r]) \in Slots /\ head[r] \in Slots
  BY Zenon, <1>1, RingTypes, RingFacts DEF TxSync, RxSync, TxRings
<1>3. ASSUME NEW x \in Slots, NEW z, pkt' = [pkt EXCEPT ![slot[r][x]] = z], ~(q = r /\ s = x)
      PROVE  pkt'[slot[q][s]] = pkt[slot[q][s]]
  <2>1. slot[q][s] \in Bufs /\ slot[q][s] # slot[r][x]
    BY <1>2, <1>3, RingTypes, Distinct
  <2>. QED  BY Zenon, <1>3, <2>1, RingTypes
<1>4. CASE q = r
  <2>1. tail'[q] = nm_ring_next(tail[q]) /\ TxSync(q)
    BY Zenon, <1>1, <1>2, <1>4, RingTypes DEF RxSync
  <2>2. Pending(q, s) /\ s # nm_ring_next(tail[q])
    BY <1>2, <1>4, <2>1, PendingTail DEF Pending
  <2>. QED  BY Zenon, <1>2, <1>3, <1>4, <2>1, <2>2 DEF Kept, TxSync
<1>5. CASE q # r
  <2>1. tail'[q] = tail[q]
    BY Zenon, <1>2, <1>5, RingTypes
  <2>2. pkt'[slot[q][s]] = pkt[slot[q][s]]
    BY Zenon, <1>1, <1>2, <1>3, <1>5 DEF TxSync, RxSync
  <2>. QED  BY Zenon, <1>2, <2>1, <2>2, KeptSame
<1>. QED  BY Zenon, <1>4, <1>5

(* The RX half of Manager::process does not touch TX rings.                 *)
LEMMA KeptRx ==
  ASSUME TypeOK, PollReturn \/ RxBatch \/ RxFrame \/ RxEnqueue \/ RxNextRing \/ TxDone,
         NEW q \in TxRings, NEW s \in Slots, Pending(q, s)'
  PROVE  Kept(q, s)
<1>1. q \in Rings /\ q # RxRing /\ pkt' = pkt /\ tail' = tail
  BY DEF PollReturn, RxBatch, RxFrame, RxEnqueue, RxNextRing, TxDone, rings, TxRings, RxRing
<1>2. slot'[q] = slot[q] /\ head'[q] = head[q]
  <2>1. CASE RxFrame
    BY Zenon, <1>1, <2>1, RingTypes DEF RxFrame
  <2>2. CASE PollReturn \/ RxBatch \/ RxEnqueue \/ RxNextRing \/ TxDone
    BY Zenon, <2>2 DEF PollReturn, RxBatch, RxEnqueue, RxNextRing, TxDone, rings
  <2>. QED  BY Zenon, <2>1, <2>2
<1>. QED  BY Zenon, <1>1, <1>2, KeptSame

(* A worker writes only the buffer of its own frame.                        *)
LEMMA KeptWorker ==
  ASSUME TypeOK, BufferExclusive, NEW w \in Workers, Worker(w),
         NEW q \in TxRings, NEW s \in Slots, Pending(q, s)'
  PROVE  Kept(q, s)
<1>1. q \in Rings /\ head' = head /\ tail' = tail /\ slot' = slot
  BY Zenon DEF Worker, WorkerDequeue, WorkerDrop, WorkerFatal, WorkerForward, WorkerNoMac,
     WorkerArp, WorkerUnsupported, Die, rings, TxRings
<1>2. pkt'[slot[q][s]] = pkt[slot[q][s]]
  <2>1. CASE WorkerForward(w)
    <3>1. work[w] # <<>> /\ \E z : pkt' = [pkt EXCEPT ![CurFrame(w).buf] = z]
      BY Zenon, <2>1 DEF WorkerForward, Routable
    <3>2. CurFrame(w) = work[w][1] /\ 1 \in 1 .. Len(work[w])
      <4>1. work[w] \in Seq(Frame)
        BY Zenon DEF TypeOK, QueuesOK
      <4>. QED  BY <3>1, <4>1, SeqFacts DEF CurFrame
    <3>3. slot[q][s] # CurFrame(w).buf
      BY Zenon, <1>1, <3>2, SlotNotWork
    <3>4. slot[q][s] \in Bufs
      BY <1>1, RingTypes
    <3>. QED  BY Zenon, <3>1, <3>3, <3>4, RingTypes
  <2>2. CASE ~WorkerForward(w)
    BY Zenon, <2>2 DEF Worker, WorkerDequeue, WorkerDrop, WorkerFatal, WorkerNoMac,
       WorkerArp, WorkerUnsupported, Die
  <2>. QED  BY Zenon, <2>1, <2>2
<1>. QED  BY Zenon, <1>1, <1>2, KeptSame

(* The frame the manager takes has a buffer that is in no slot.             *)
LEMMA OutNotInSlot ==
  ASSUME TypeOK, BufferExclusive, NEW w \in Workers, outRing[w] # <<>>,
         NEW q \in Rings, NEW s \in Slots, NEW z, pkt' = [pkt EXCEPT ![OutFrame(w).buf] = z]
  PROVE  /\ pkt'[slot[q][s]] = pkt[slot[q][s]]
         /\ pkt'[OutFrame(w).buf] = z
<1>1. OutFrame(w) = outRing[w][1] /\ 1 \in 1 .. Len(outRing[w]) /\ OutFrame(w).buf \in Bufs
  BY Zenon, OutFirst DEF Frame
<1>2. slot[q][s] # OutFrame(w).buf /\ slot[q][s] \in Bufs
  BY <1>1, Distinct, RingTypes
<1>. QED  BY Zenon, <1>1, <1>2, RingTypes

(* Filling a TX slot leaves the slots before it alone, and the new one      *)
(* holds the frame's buffer and packet.                                     *)
LEMMA KeptTransmit ==
  ASSUME TypeOK, BufferExclusive, NEW w \in Workers, outRing[w] # <<>>,
         NEW p, Transmit(w, p), tail' = tail,
         NEW q \in TxRings, NEW s \in Slots, Pending(q, s)'
  PROVE  \/ Kept(q, s)
         \/ /\ ~Pending(q, s)
            /\ slot'[q][s] = OutFrame(w).buf /\ pkt'[OutFrame(w).buf] = p
            /\ q[2] = OutFrame(w).id
<1>1. q \in Rings /\ tail'[q] = tail[q]
  BY Zenon DEF TxRings
<1>2. CASE TxRingId(w) \notin Workers
  BY Zenon, <1>1, <1>2, KeptSame DEF Transmit
<1>3. CASE TxRingId(w) \in Workers
  <2>1. PICK r \in Rings : r = <<"tx", OutFrame(w).id, TxRingId(w)>>
    <3>1. OutFrame(w).id \in Ifaces
      BY Zenon, OutFacts DEF Frame
    <3>. QED  BY Zenon, <1>3, <3>1 DEF Rings
  <2>2. CASE ~(nm_ring_space(head[r], tail[r]) > 0)
    <3>1. slot' = slot /\ head' = head /\ \E z : pkt' = [pkt EXCEPT ![OutFrame(w).buf] = z]
      BY Zenon, <1>3, <2>1, <2>2 DEF Transmit
    <3>2. PICK z : pkt' = [pkt EXCEPT ![OutFrame(w).buf] = z]
      BY Zenon, <3>1
    <3>3. pkt'[slot[q][s]] = pkt[slot[q][s]] /\ pkt'[OutFrame(w).buf] = z
      BY Zenon, <1>1, <3>2, OutNotInSlot
    <3>. QED  BY Zenon, <1>1, <3>1, <3>3, KeptSame
  <2>3. CASE nm_ring_space(head[r], tail[r]) > 0
    <3>1. /\ slot' = [slot EXCEPT ![r] = [@ EXCEPT ![head[r]] = OutFrame(w).buf]]
          /\ head' = [head EXCEPT ![r] = nm_ring_next(head[r])]
          /\ pkt' = [pkt EXCEPT ![OutFrame(w).buf] = p]
      BY Zenon, <1>3, <2>1, <2>3 DEF Transmit
    <3>2. /\ pkt'[slot[q][s]] = pkt[slot[q][s]] /\ pkt'[OutFrame(w).buf] = p
      BY Zenon, <1>1, <3>1, OutNotInSlot
    <3>3. head[r] \in Slots /\ tail[r] \in Slots
      BY Zenon, RingTypes
    <3>4. CASE q # r
      <4>1. head'[q] = head[q] /\ slot'[q][s] = slot[q][s]
        BY Zenon, <1>1, <3>1, <3>4, RingTypes
      <4>. QED  BY Zenon, <1>1, <3>2, <4>1, KeptSame
    <3>5. CASE q = r /\ s # head[r]
      <4>1. head'[q] = nm_ring_next(head[q]) /\ slot'[q][s] = slot[q][s]
        BY Zenon, <1>1, <3>1, <3>3, <3>5, RingTypes
      <4>2. Pending(q, s)
        BY <1>1, <2>3, <3>3, <3>5, <4>1, PendingHead DEF Pending
      <4>. QED  BY Zenon, <3>2, <4>1, <4>2 DEF Kept
    <3>6. CASE q = r /\ s = head[r]
      <4>1. slot'[q][s] = OutFrame(w).buf /\ q[2] = OutFrame(w).id
        BY Zenon, <1>1, <2>1, <3>1, <3>3, <3>6, RingTypes
      <4>2. ~Pending(q, s)
        BY Zenon, <2>3, <3>3, <3>6, PendingHead DEF Pending
      <4>. QED  BY Zenon, <3>2, <4>1, <4>2
    <3>. QED  BY Zenon, <3>4, <3>5, <3>6
  <2>. QED  BY Zenon, <2>2, <2>3
<1>. QED  BY Zenon, <1>2, <1>3

(* A frame that is transmitted may be sent: it is the manager's own ARP     *)
(* frame, or it comes from the worker without a flag.                       *)
LEMMA TransmitSendable ==
  ASSUME TypeOK, BufferExclusive, Learned, NEW w \in Workers, outRing[w] # <<>>,
         NEW p \in Packet, Transmit(w, p), tail' = tail, Sendable(p, OutFrame(w).id),
         NEW q \in TxRings, NEW s \in Slots, Pending(q, s)'
  PROVE  Kept(q, s) \/ Filled(q, s)
<1>1. PICK i : i = OutFrame(w).id
  OBVIOUS
<1>2. Sendable(p, i)'
  BY Zenon, <1>1, SendableStays DEF TypeOK
<1>3. CASE /\ ~Pending(q, s) /\ q[2] = OutFrame(w).id
           /\ slot'[q][s] = OutFrame(w).buf /\ pkt'[OutFrame(w).buf] = p
  <2>1. (pkt[slot[q][s]])' = p /\ q[2] = i
    BY Zenon, <1>1, <1>3
  <2>2. Sendable(pkt[slot[q][s]], q[2])'
    BY Zenon, <1>2, <2>1 DEF Sendable, NhAddr, NhKnown, NhIface, Index
  <2>. QED  BY Zenon, <1>3, <2>2 DEF Filled
<1>. QED  BY Zenon, <1>3, KeptTransmit

(* An ARP packet carries its addresses itself.                              *)
LEMMA ArpSendable ==
  ASSUME NEW p, NEW i, p.type = "arp"
  PROVE  Sendable(p, i)
BY DEF Sendable, Blank

(* The TX half: a pending slot is an old one, or a fresh one with a packet  *)
(* that may leave there.                                                    *)
LEMMA KeptTx ==
  ASSUME IInv, Learned, NEW w \in Workers, Tx(w),
         NEW q \in TxRings, NEW s \in Slots, Pending(q, s)'
  PROVE  Kept(q, s) \/ Filled(q, s)
<1>. USE DEF IInv
<1>1. q \in Rings /\ tail' = tail
  BY Zenon DEF Tx, TxForward, TxDiscard, TxNoMacRequest, TxNoMacWait, TxNoMacFatal,
     TxArpForeign, TxArpRequest, TxArpReply, TxArpUnknown, Die, rings, TxRings
<1>2. CASE TxDiscard(w) \/ TxNoMacWait(w) \/ TxArpForeign(w)
  <2>1. outRing[w] # <<>> /\ Reclaim(w)
    BY Zenon, <1>2 DEF TxDiscard, TxNoMacWait, TxArpForeign, Flagged, ArpFrame
  <2>2. slot' = slot /\ head' = head /\ \E z : pkt' = [pkt EXCEPT ![OutFrame(w).buf] = z]
    BY Zenon, <2>1 DEF Reclaim
  <2>3. PICK z : pkt' = [pkt EXCEPT ![OutFrame(w).buf] = z]
    BY Zenon, <2>2
  <2>4. pkt'[slot[q][s]] = pkt[slot[q][s]] /\ pkt'[OutFrame(w).buf] = z
    BY Zenon, <1>1, <2>1, <2>3, OutNotInSlot
  <2>. QED  BY Zenon, <1>1, <2>2, <2>4, KeptSame
<1>3. CASE TxNoMacFatal(w)
  BY Zenon, <1>1, <1>3, KeptSame DEF TxNoMacFatal, Die, rings
<1>4. CASE TxForward(w)
  <2>1. /\ outRing[w] # <<>> /\ OutFrame(w).flags \subseteq {"HOST"}
        /\ Transmit(w, OutPacket(w))
    BY Zenon, <1>4 DEF TxForward
  <2>2. OutOK(OutFrame(w))
    BY Zenon, <2>1, OutFirst DEF FramesOK
  <2>3. Sendable(OutPacket(w), OutFrame(w).id)
    <3>1. OutFrame(w).flags = {}
      BY Zenon, <2>1, <2>2 DEF OutOK
    <3>. QED  BY Zenon, <2>2, <3>1 DEF OutOK, OutPacket
  <2>. QED  BY Zenon, <1>1, <2>1, <2>3, OutFacts, TransmitSendable
<1>5. ASSUME NEW p, outRing[w] # <<>>, Transmit(w, p), p.type = "arp", p \in Packet
      PROVE  Kept(q, s) \/ Filled(q, s)
  BY Zenon, <1>1, <1>5, ArpSendable, TransmitSendable
<1>6. CASE TxNoMacRequest(w)
  <2>1. outRing[w] # <<>> /\ "NOMAC" \in OutFrame(w).flags
    BY Zenon, <1>6 DEF TxNoMacRequest, Flagged
  <2>2. OutPacket(w) \in IpPacket /\ OutFrame(w).id \in Ifaces
    <3>1. OutPacket(w).type = "ip"
      BY Zenon, <2>1, NoMacFromFrames, OutFirst DEF NoMacIsIp, OutPacket
    <3>. QED  BY Zenon, <2>1, <3>1, OutFacts DEF Frame
  <2>. DEFINE p == prepareRequest(OutFrame(w).id, OutPacket(w).d_ip)
  <2>3. p.type = "arp" /\ p \in Packet
    <3>1. OutPacket(w).d_ip \in Addrs
      BY Zenon, <2>2 DEF IpPacket
    <3>2. IPs[OutFrame(w).id] \in Seq(Addrs) /\ IPs[OutFrame(w).id] # <<>>
      BY Zenon, <1>6, <2>2, TablesAssumption DEF TxNoMacRequest
    <3>3. ntohl[IPs[OutFrame(w).id][1]] \in Addrs
      BY <3>2, SeqFacts, TablesAssumption
    <3>. QED  BY Zenon, <3>1, <3>3 DEF prepareRequest, Packet, ArpPacket
  <2>. QED  BY Zenon, <1>5, <1>6, <2>1, <2>3 DEF TxNoMacRequest
<1>7. CASE TxArpRequest(w) \/ TxArpReply(w) \/ TxArpUnknown(w)
  <2>1. outRing[w] # <<>> /\ OutPacket(w).type = "arp"
    BY Zenon, <1>7 DEF TxArpRequest, TxArpReply, TxArpUnknown, ArpFrame, Flagged
  <2>2. OutPacket(w) \in ArpPacket /\ OutPacket(w) \in Packet
    BY Zenon, <2>1, OutFacts
  <2>. DEFINE p == [type |-> "arp", op |-> "reply",
                    s_ip |-> OutPacket(w).t_ip, t_ip |-> OutPacket(w).s_ip]
  <2>3. p.type = "arp" /\ p \in Packet
    BY Zenon, <2>2 DEF Packet, ArpPacket
  <2>. QED  BY Zenon, <1>5, <1>7, <2>1, <2>2, <2>3 DEF TxArpRequest, TxArpReply, TxArpUnknown
<1>. QED  BY Zenon, <1>2, <1>3, <1>4, <1>6, <1>7 DEF Tx

(* The same for every step.                                                 *)
LEMMA PendingStep ==
  ASSUME IInv, Next, NEW q \in TxRings, NEW s \in Slots, Pending(q, s)'
  PROVE  Kept(q, s) \/ Filled(q, s)
<1>1. Learned
  BY Zenon, LearnedNext DEF IInv
<1>. QED  BY Zenon, <1>1, KeptNic, KeptRx, KeptWorker, KeptTx DEF Next, Manager, IInv

(* A pending slot that is kept is still right.                              *)
LEMMA SentKept ==
  ASSUME TypeOK, SentOK, Learned, NEW q \in TxRings, NEW s \in Slots, Kept(q, s)
  PROVE  Sendable(pkt[slot[q][s]], q[2])'
<1>1. PICK p \in Packet : p = pkt[slot[q][s]]
  BY Zenon, RingTypes DEF TxRings
<1>2. Sendable(p, q[2])
  BY Zenon, <1>1 DEF SentOK, Kept
<1>3. Sendable(p, q[2])'
  BY Zenon, <1>2, SendableStays DEF TypeOK
<1>4. (pkt[slot[q][s]])' = p
  BY Zenon, <1>1 DEF Kept
<1>. QED  BY Zenon, <1>3, <1>4 DEF Sendable, NhAddr, NhKnown, NhIface, Index

(* SentOK holds at the start and, given IInv, is kept by every step.        *)
LEMMA SentInductive ==
  /\ Init => SentOK
  /\ IInv /\ SentOK /\ [Next]_vars => SentOK'
<1>1. ASSUME Init, NEW q \in TxRings, NEW s \in Slots PROVE ~Pending(q, s)
  <2>1. head[q] = 0 /\ tail[q] = NumSlots - 1
    BY Zenon, <1>1 DEF Init, TxRings
  <2>. QED  BY <2>1, NumSlotsAssumption DEF Pending, UserSlot, nm_ring_space, Slots
<1>2. ASSUME IInv, SentOK, Next PROVE SentOK'
  BY Zenon, <1>2, LearnedNext, PendingStep, SentKept DEF SentOK, Filled, IInv
<1>3. ASSUME IInv, SentOK, UNCHANGED vars PROVE SentOK'
  <2>1. Learned /\ \A q \in TxRings, s \in Slots : Pending(q, s)' => Kept(q, s)
    BY Zenon, <1>3 DEF Learned, Kept, Pending, vars, rings, arp
  <2>. QED  BY Zenon, <1>3, <2>1, SentKept DEF SentOK, IInv
<1>. QED  BY Zenon, <1>1, <1>2, <1>3 DEF SentOK

-----------------------------------------------------------------------------
(* The queues of frames that no worker has looked at.                       *)
Early == {<<"in", 0>>, <<"batch", 0>>} \cup ({"work"} \X Workers)

(* Every packet on its way to a worker is one the worker will not drop.     *)
CleanRings ==
  \A q \in Rings \ TxRings, s \in Slots :
     UserSlot(head[q], tail[q], s) => Transit(pkt[slot[q][s]], q[2])

CleanQueue(k) == \A n \in 1 .. Len(Queue(k)) : Transit(pkt[Queue(k)[n].buf], Queue(k)[n].id)

Clean == CleanRings /\ \A k \in Early : CleanQueue(k)

(* A step that leaves the RX rings alone, and one after which the frames in *)
(* these queues are some of those before it, without frame n of queue j.    *)
RxSame ==
  \A q \in Rings \ TxRings : head'[q] = head[q] /\ tail'[q] = tail[q] /\ slot'[q] = slot[q]

EarlyHad(f, j, n) ==
  \E i \in Early : \E l \in 1 .. Len(Queue(i)) : f = Queue(i)[l] /\ ~(i = j /\ l = n)

FromEarly(j, n) ==
  \A k \in Early : \A m \in 1 .. Len(Queue(k)') : EarlyHad(Queue(k)'[m], j, n)

UnwrittenBut(j, n) ==
  \A i \in Early : \A l \in 1 .. Len(Queue(i)) :
     ~(i = j /\ l = n) => pkt'[Queue(i)[l].buf] = pkt[Queue(i)[l].buf]

(* The names of these queues.                                               *)
LEMMA EarlyFacts ==
  /\ \A k : k \in Early <=> \/ k = <<"in", 0>> \/ k = <<"batch", 0>>
                            \/ \E w \in Workers : k = <<"work", w>>
  /\ \A k \in Early : k \in Queues /\ \A w : k # <<"out", w>>
<1>1. \A k : k \in Early <=> \/ k = <<"in", 0>> \/ k = <<"batch", 0>>
                             \/ \E w \in Workers : k = <<"work", w>>
  BY DEF Early
<1>2. ASSUME NEW k \in Early PROVE k \in Queues /\ \A w : k # <<"out", w>>
  BY <1>1, QueueFacts DEF QueueDesc
<1>. QED  BY Zenon, <1>1, <1>2

(* Frames that are still there stay clean while their packet is the same.   *)
LEMMA CleanStays ==
  ASSUME Clean, CleanRings', NEW j, NEW n, FromEarly(j, n), UnwrittenBut(j, n)
  PROVE  Clean'
<1>1. ASSUME NEW k \in Early, NEW m \in 1 .. Len(Queue(k)')
      PROVE  Transit(pkt'[Queue(k)'[m].buf], Queue(k)'[m].id)
  <2>1. PICK i \in Early : \E l \in 1 .. Len(Queue(i)) : Queue(k)'[m] = Queue(i)[l] /\ ~(i = j /\ l = n)
    BY Zenon DEF FromEarly, EarlyHad
  <2>2. PICK l \in 1 .. Len(Queue(i)) : Queue(k)'[m] = Queue(i)[l] /\ ~(i = j /\ l = n)
    BY Zenon, <2>1
  <2>3. Transit(pkt[Queue(i)[l].buf], Queue(i)[l].id)
    BY Zenon DEF Clean, CleanQueue
  <2>4. pkt'[Queue(i)[l].buf] = pkt[Queue(i)[l].buf]
    BY Zenon, <2>2 DEF UnwrittenBut
  <2>. QED  BY <2>2, <2>3, <2>4
<1>. QED  BY Zenon, <1>1 DEF Clean, CleanQueue

(* Steps that write no packet.                                              *)
LEMMA CleanMove ==
  ASSUME Clean, RxSame, pkt' = pkt, NEW j, NEW n, FromEarly(j, n)
  PROVE  Clean'
<1>1. CleanRings'
  BY DEF Clean, CleanRings, RxSame
<1>2. UnwrittenBut(j, n)
  BY Zenon DEF UnwrittenBut
<1>. QED  BY Zenon, <1>1, <1>2, CleanStays

(* Steps that write the packet of frame n of queue j, which leaves.         *)
LEMMA CleanWrite ==
  ASSUME TypeOK, BufferExclusive, Clean, RxSame, NEW j \in Queues, NEW n \in 1 .. Len(Queue(j)),
         NEW z, pkt' = [pkt EXCEPT ![Queue(j)[n].buf] = z], FromEarly(j, n)
  PROVE  Clean'
<1>1. ASSUME NEW b \in Bufs, b # Queue(j)[n].buf PROVE pkt'[b] = pkt[b]
  BY Zenon, <1>1, RingTypes
<1>2. CleanRings'
  <2>1. ASSUME NEW q \in Rings \ TxRings, NEW s \in Slots
        PROVE  slot[q][s] \in Bufs /\ slot[q][s] # Queue(j)[n].buf
    BY Zenon, RingTypes, SlotNotFrame
  <2>2. ASSUME NEW q \in Rings \ TxRings, NEW s \in Slots PROVE pkt'[slot[q][s]] = pkt[slot[q][s]]
    BY Zenon, <1>1, <2>1
  <2>. QED  BY <2>2 DEF Clean, CleanRings, RxSame
<1>3. ASSUME NEW i \in Early, NEW l \in 1 .. Len(Queue(i)), ~(i = j /\ l = n)
      PROVE  pkt'[Queue(i)[l].buf] = pkt[Queue(i)[l].buf]
  <2>1. i \in Queues /\ Queue(i)[l].buf \in Bufs
    BY Zenon, EarlyFacts, QueueElem DEF Frame
  <2>2. Queue(i)[l].buf # Queue(j)[n].buf
    BY <1>3, <2>1, FrameApart
  <2>. QED  BY Zenon, <1>1, <2>1, <2>2
<1>4. UnwrittenBut(j, n)
  BY Zenon, <1>3 DEF UnwrittenBut
<1>. QED  BY Zenon, <1>2, <1>4, CleanStays

(* FromEarly, one queue at a time.                                          *)
LEMMA EarlyCases ==
  ASSUME NEW j, NEW n,
         \A m \in 1 .. Len(inRing') : EarlyHad(inRing'[m], j, n),
         \A m \in 1 .. Len(batch') : EarlyHad(batch'[m], j, n),
         \A w \in Workers : \A m \in 1 .. Len(work'[w]) : EarlyHad(work'[w][m], j, n)
  PROVE  FromEarly(j, n)
<1>1. ASSUME NEW k \in Early, NEW m \in 1 .. Len(Queue(k)') PROVE EarlyHad(Queue(k)'[m], j, n)
  <2>1. CASE k = <<"in", 0>>
    BY Zenon, <1>1, <2>1, QueueFactsNext DEF QueueDesc
  <2>2. CASE k = <<"batch", 0>>
    BY Zenon, <1>1, <2>2, QueueFactsNext DEF QueueDesc
  <2>3. ASSUME NEW w \in Workers, k = <<"work", w>> PROVE EarlyHad(Queue(k)'[m], j, n)
    BY Zenon, <1>1, <2>3, QueueFactsNext DEF QueueDesc
  <2>. QED  BY Zenon, <2>1, <2>2, <2>3, EarlyFacts
<1>. QED  BY Zenon, <1>1 DEF FromEarly

(* The frames that were there, as elements of the program's queues.         *)
LEMMA EarlyElem ==
  ASSUME NEW j, NEW n
  PROVE  /\ j # <<"in", 0>> => \A m \in 1 .. Len(inRing) : EarlyHad(inRing[m], j, n)
         /\ j # <<"batch", 0>> => \A m \in 1 .. Len(batch) : EarlyHad(batch[m], j, n)
         /\ \A w \in Workers : \A m \in 1 .. Len(work[w]) :
               ~(j = <<"work", w>> /\ n = m) => EarlyHad(work[w][m], j, n)
<1>1. ASSUME j # <<"in", 0>>, NEW m \in 1 .. Len(inRing) PROVE EarlyHad(inRing[m], j, n)
  <2>1. <<"in", 0>> \in Early /\ Queue(<<"in", 0>>) = inRing
    BY Zenon, EarlyFacts, QueueFacts DEF QueueDesc
  <2>. QED  BY Zenon, <1>1, <2>1 DEF EarlyHad
<1>2. ASSUME j # <<"batch", 0>>, NEW m \in 1 .. Len(batch) PROVE EarlyHad(batch[m], j, n)
  <2>1. <<"batch", 0>> \in Early /\ Queue(<<"batch", 0>>) = batch
    BY Zenon, EarlyFacts, QueueFacts DEF QueueDesc
  <2>. QED  BY Zenon, <1>2, <2>1 DEF EarlyHad
<1>3. ASSUME NEW w \in Workers, NEW m \in 1 .. Len(work[w]), ~(j = <<"work", w>> /\ n = m)
      PROVE  EarlyHad(work[w][m], j, n)
  <2>1. <<"work", w>> \in Early /\ Queue(<<"work", w>>) = work[w]
    BY Zenon, EarlyFacts, QueueFacts DEF QueueDesc
  <2>. QED  BY Zenon, <1>3, <2>1 DEF EarlyHad
<1>. QED  BY Zenon, <1>1, <1>2, <1>3

(* The queues stay as they are, but for a batch that may be emptied.        *)
LEMMA EarlySame ==
  ASSUME NEW w, NEW n, inRing' = inRing, work' = work, batch' = batch \/ batch' = <<>>
  PROVE  FromEarly(<<"out", w>>, n)
<1>1. <<"out", w>> # <<"in", 0>> /\ <<"out", w>> # <<"batch", 0>> /\ \A v : <<"out", w>> # <<"work", v>>
  OBVIOUS
<1>2. 1 .. Len(<<>>) = {}
  OBVIOUS
<1>. PICK j : j = <<"out", w>>
  BY Zenon
<1>3. /\ \A m \in 1 .. Len(inRing) : EarlyHad(inRing[m], j, n)
      /\ \A m \in 1 .. Len(batch) : EarlyHad(batch[m], j, n)
      /\ \A v \in Workers : \A m \in 1 .. Len(work[v]) : EarlyHad(work[v][m], j, n)
  BY Zenon, <1>1, EarlyElem
<1>4. \A m \in 1 .. Len(batch') : EarlyHad(batch'[m], j, n)
  BY Zenon, <1>2, <1>3
<1>. QED  BY Zenon, <1>3, <1>4, EarlyCases

(* A worker lets go of its frame.                                           *)
LEMMA EarlyHandled ==
  ASSUME TypeOK, NEW w \in Workers, work[w] # <<>>, inRing' = inRing, batch' = batch,
         work' = [work EXCEPT ![w] = Tail(work[w])]
  PROVE  FromEarly(<<"work", w>>, 1)
<1>1. <<"work", w>> # <<"in", 0>> /\ <<"work", w>> # <<"batch", 0>>
  OBVIOUS
<1>2. \A v \in Workers : <<"work", w>> = <<"work", v>> => v = w
  BY Zenon
<1>. PICK j : j = <<"work", w>>
  BY Zenon
<1>3. work \in [Workers -> Seq(Frame)]
  BY Zenon DEF TypeOK, QueuesOK
<1>4. /\ work'[w] = Tail(work[w]) /\ Len(work[w]) \in Nat
      /\ Len(Tail(work[w])) = Len(work[w]) - 1
      /\ \A n \in 1 .. Len(work[w]) - 1 : Tail(work[w])[n] = work[w][n + 1]
  BY <1>3, SeqFacts
<1>5. \A n \in 1 .. Len(work[w]) - 1 : n + 1 \in 1 .. Len(work[w]) /\ 1 # n + 1
  BY <1>4
<1>6. \A m \in 1 .. Len(work[w]) : 1 # m => EarlyHad(work[w][m], j, 1)
  BY Zenon, EarlyElem
<1>7. \A m \in 1 .. Len(work'[w]) : EarlyHad(work'[w][m], j, 1)
  BY Zenon, <1>4, <1>5, <1>6
<1>8. ASSUME NEW v \in Workers, v # w PROVE \A m \in 1 .. Len(work'[v]) : EarlyHad(work'[v][m], j, 1)
  <2>1. work'[v] = work[v]
    BY Zenon, <1>3, <1>8
  <2>. QED  BY Zenon, <1>2, <1>8, <2>1, EarlyElem
<1>9. /\ \A m \in 1 .. Len(inRing') : EarlyHad(inRing'[m], j, 1)
      /\ \A m \in 1 .. Len(batch') : EarlyHad(batch'[m], j, 1)
  BY Zenon, <1>1, EarlyElem
<1>. QED  BY Zenon, <1>7, <1>8, <1>9, EarlyCases

(* Nothing has been received at first.                                      *)
LEMMA CleanInit == Init => Clean
<1>. SUFFICES ASSUME Init PROVE Clean
  OBVIOUS
<1>1. ASSUME NEW q \in Rings \ TxRings, NEW s \in Slots PROVE ~UserSlot(head[q], tail[q], s)
  <2>1. q[1] = "rx"
    BY Zenon DEF Rings, TxRings
  <2>2. head[q] = 0 /\ tail[q] = 0
    BY Zenon, <2>1 DEF Init
  <2>. QED  BY <2>2, NumSlotsAssumption DEF UserSlot, nm_ring_space, Slots
<1>2. ASSUME NEW k \in Early PROVE Queue(k) = <<>>
  BY SMTT(20), EarlyFacts, QueueFacts DEF QueueDesc, Init
<1>3. 1 .. Len(<<>>) = {}
  OBVIOUS
<1>4. ASSUME NEW k \in Early PROVE CleanQueue(k)
  BY Zenon, <1>2, <1>3 DEF CleanQueue
<1>. QED  BY Zenon, <1>1, <1>4 DEF Clean, CleanRings

(* The NIC: it writes into slots, no frame has their buffers.               *)
LEMMA CleanNic ==
  ASSUME TypeOK, BufferExclusive, Clean, TransitOnly, Nic
  PROVE  Clean'
<1>1. PICK r \in Rings : TxSync(r) \/ \E p \in Arrivals[<<r[2], r[3]>>] : RxSync(r, p)
  BY Zenon DEF Nic
<1>2. /\ head' = head /\ slot' = slot /\ inRing' = inRing /\ work' = work /\ batch' = batch
      /\ tail' = [tail EXCEPT ![r] = nm_ring_next(tail[r])]
      /\ nm_ring_next(tail[r]) # head[r]
      /\ tail[r] \in Slots /\ nm_ring_next(tail[r]) \in Slots /\ head[r] \in Slots
  BY Zenon, <1>1, RingTypes, RingFacts DEF TxSync, RxSync, manager
<1>3. PICK x \in Slots : \E z : /\ pkt' = [pkt EXCEPT ![slot[r][x]] = z]
                                /\ r[1] # "tx" => x = tail[r] /\ Transit(z, r[2])
  <2>1. CASE TxSync(r)
    BY Zenon, <1>2, <2>1 DEF TxSync
  <2>2. ASSUME NEW p \in Arrivals[<<r[2], r[3]>>], RxSync(r, p)
        PROVE  pkt' = [pkt EXCEPT ![slot[r][tail[r]]] = p] /\ Transit(p, r[2])
    <3>1. r[2] \in Ifaces /\ r[3] \in Workers
      BY Zenon DEF Rings
    <3>. QED  BY Zenon, <2>2, <3>1 DEF RxSync, TransitOnly
  <2>. QED  BY Zenon, <1>1, <1>2, <2>1, <2>2
<1>4. PICK z : /\ pkt' = [pkt EXCEPT ![slot[r][x]] = z]
               /\ r[1] # "tx" => x = tail[r] /\ Transit(z, r[2])
  BY Zenon, <1>3
<1>5. ASSUME NEW q \in Rings \ TxRings, NEW s \in Slots, UserSlot(head'[q], tail'[q], s)
      PROVE  Transit(pkt'[slot'[q][s]], q[2])
  <2>1. q[1] # "tx" /\ slot[r][x] \in Bufs /\ slot[q][s] \in Bufs
    <3>1. q[1] # "tx"
      BY Zenon DEF Rings, TxRings
    <3>. QED  BY Zenon, <3>1, RingTypes
  <2>2. CASE q = r /\ s = x
    <3>1. pkt'[slot[q][s]] = z
      BY Zenon, <1>4, <2>1, <2>2, RingTypes
    <3>. QED  BY Zenon, <1>2, <1>4, <2>1, <2>2, <3>1
  <2>3. CASE ~(q = r /\ s = x)
    <3>1. slot[q][s] # slot[r][x]
      BY <2>3, Distinct
    <3>2. pkt'[slot'[q][s]] = pkt[slot[q][s]]
      BY Zenon, <1>2, <1>4, <2>1, <3>1, RingTypes
    <3>3. UserSlot(head[q], tail[q], s)
      <4>1. CASE q = r
        BY <1>2, <1>4, <1>5, <2>1, <2>3, <4>1, UserNext, RingTypes
      <4>2. CASE q # r
        BY Zenon, <1>2, <1>5, <4>2, RingTypes
      <4>. QED  BY Zenon, <4>1, <4>2
    <3>. QED  BY Zenon, <3>2, <3>3 DEF Clean, CleanRings
  <2>. QED  BY Zenon, <2>2, <2>3
<1>6. FromEarly(<<"out", 0>>, 0)
  BY Zenon, <1>2, EarlySame
<1>7. ASSUME NEW i \in Early, NEW l \in 1 .. Len(Queue(i))
      PROVE  pkt'[Queue(i)[l].buf] = pkt[Queue(i)[l].buf]
  <2>1. i \in Queues /\ Queue(i)[l].buf \in Bufs
    BY Zenon, EarlyFacts, QueueElem DEF Frame
  <2>2. Queue(i)[l].buf # slot[r][x]
    BY Zenon, <2>1, SlotNotFrame
  <2>. QED  BY Zenon, <1>4, <2>1, <2>2, RingTypes
<1>8. UnwrittenBut(<<"out", 0>>, 0)
  BY Zenon, <1>7 DEF UnwrittenBut
<1>9. CleanRings'
  BY Zenon, <1>5 DEF CleanRings
<1>. QED  BY Zenon, <1>6, <1>8, <1>9, CleanStays

(* A frame is received: its slot was the program's, and no longer is.       *)
LEMMA CleanRxFrame ==
  ASSUME TypeOK, BatchFits, Clean, RxFrame
  PROVE  Clean'
<1>. DEFINE h == head[RxRing]
            f == [buf |-> slot[RxRing][h], id |-> at[1], flags |-> {}]
<1>1. /\ RxRing \in Rings \ TxRings /\ RxRing[2] = at[1]
      /\ h \in Slots /\ tail[RxRing] \in Slots
  BY PlaceFacts DEF RxRing, TxRings
<1>2. /\ pkt' = pkt /\ tail' = tail /\ inRing' = inRing /\ work' = work
      /\ batch' = Append(batch, f)
      /\ head' = [head EXCEPT ![RxRing] = nm_ring_next(h)]
  BY Zenon DEF RxFrame
<1>3. nm_ring_space(h, tail[RxRing]) > 0
  <2>1. pc = "fill" /\ left > 0 /\ left <= nm_ring_space(h, tail[RxRing]) /\ left \in Nat
    BY Zenon DEF RxFrame, BatchFits, TypeOK, PlaceOK
  <2>. QED  BY <1>1, <2>1, SpaceFacts
<1>4. Transit(pkt[f.buf], f.id)
  <2>1. UserSlot(h, tail[RxRing], h)
    BY Zenon, <1>1, <1>3, PendingHead
  <2>2. Transit(pkt[slot[RxRing][h]], at[1])
    BY Zenon, <1>1, <2>1 DEF Clean, CleanRings
  <2>. QED  BY <2>2
<1>5. ASSUME NEW q \in Rings \ TxRings, NEW s \in Slots, UserSlot(head'[q], tail'[q], s)
      PROVE  Transit(pkt'[slot'[q][s]], q[2])
  <2>1. UserSlot(head[q], tail[q], s) /\ ~(q = RxRing /\ s = h)
    <3>1. CASE q = RxRing
      <4>1. UserSlot(nm_ring_next(h), tail[RxRing], s)
        BY Zenon, <1>1, <1>2, <1>5, <3>1, RingTypes
      <4>. QED  BY Zenon, <1>1, <1>3, <3>1, <4>1, UserNext
    <3>2. CASE q # RxRing
      BY Zenon, <1>2, <1>5, <3>2, RingTypes
    <3>. QED  BY Zenon, <3>1, <3>2
  <2>2. slot'[q][s] = slot[q][s]
    BY Zenon, <2>1, RingTypes DEF RxFrame
  <2>. QED  BY Zenon, <1>2, <2>1, <2>2 DEF Clean, CleanRings
<1>. HIDE DEF f
<1>6. ASSUME NEW m \in 1 .. Len(batch') PROVE Transit(pkt[batch'[m].buf], batch'[m].id)
  <2>1. batch \in Seq(Frame) /\ <<"batch", 0>> \in Early /\ Queue(<<"batch", 0>>) = batch
    BY Zenon, EarlyFacts, QueueFacts DEF QueueDesc, TypeOK, QueuesOK
  <2>2. (m \in 1 .. Len(batch) /\ batch'[m] = batch[m]) \/ batch'[m] = f
    BY <1>2, <2>1
  <2>3. ASSUME m \in 1 .. Len(batch) PROVE Transit(pkt[batch[m].buf], batch[m].id)
    BY Zenon, <2>1, <2>3 DEF Clean, CleanQueue
  <2>. QED  BY Zenon, <1>4, <2>2, <2>3
<1>7. ASSUME NEW k \in Early PROVE CleanQueue(k)'
  <2>1. CASE k = <<"batch", 0>>
    BY Zenon, <1>2, <1>6, <2>1, QueueFactsNext DEF QueueDesc, CleanQueue
  <2>2. CASE k # <<"batch", 0>>
    <3>1. Queue(k)' = Queue(k)
      <4>1. k = <<"in", 0>> \/ \E w \in Workers : k = <<"work", w>>
        BY Zenon, <2>2, EarlyFacts
      <4>. QED  BY Zenon, <1>2, <4>1, QueueFacts, QueueFactsNext DEF QueueDesc
    <3>. QED  BY Zenon, <1>2, <3>1 DEF Clean, CleanQueue
  <2>. QED  BY Zenon, <2>1, <2>2
<1>. QED  BY Zenon, <1>5, <1>7 DEF Clean, CleanRings

(* The other steps of the manager up to the TX half move frames, at most.   *)
LEMMA CleanRx ==
  ASSUME TypeOK, Clean, PollReturn \/ RxBatch \/ RxEnqueue \/ RxNextRing \/ TxDone
  PROVE  Clean'
<1>1. RxSame /\ pkt' = pkt /\ work' = work
  BY Zenon DEF PollReturn, RxBatch, RxEnqueue, RxNextRing, TxDone, rings, RxSame
<1>2. CASE PollReturn \/ RxBatch \/ RxNextRing \/ TxDone
  <2>1. inRing' = inRing /\ (batch' = batch \/ batch' = <<>>)
    BY Zenon, <1>2 DEF PollReturn, RxBatch, RxNextRing, TxDone
  <2>. QED  BY Zenon, <1>1, <2>1, EarlySame, CleanMove
<1>3. CASE RxEnqueue
  <2>1. /\ batch' = <<>> /\ (inRing' = inRing \o batch \/ inRing' = inRing)
        /\ inRing \in Seq(Frame) /\ batch \in Seq(Frame)
    BY Zenon, <1>3 DEF RxEnqueue, TypeOK, QueuesOK
  <2>2. PICK j : j = <<"out", 0>>
    BY Zenon
  <2>3. j # <<"in", 0>> /\ j # <<"batch", 0>> /\ \A v : j # <<"work", v>>
    BY <2>2
  <2>4. /\ \A m \in 1 .. Len(inRing) : EarlyHad(inRing[m], j, 0)
        /\ \A m \in 1 .. Len(batch) : EarlyHad(batch[m], j, 0)
        /\ \A v \in Workers : \A m \in 1 .. Len(work'[v]) : EarlyHad(work'[v][m], j, 0)
    BY Zenon, <1>1, <2>3, EarlyElem
  <2>5. ASSUME NEW m \in 1 .. Len(inRing') PROVE EarlyHad(inRing'[m], j, 0)
    <3>1. \/ m \in 1 .. Len(inRing) /\ inRing'[m] = inRing[m]
          \/ \E l \in 1 .. Len(batch) : inRing'[m] = batch[l]
      <4>1. CASE inRing' = inRing
        BY Zenon, <4>1
      <4>2. CASE inRing' = inRing \o batch
        <5>1. m \in 1 .. Len(inRing) => inRing'[m] = inRing[m]
          BY <2>1, <4>2
        <5>2. m \notin 1 .. Len(inRing) =>
                m - Len(inRing) \in 1 .. Len(batch) /\ inRing'[m] = batch[m - Len(inRing)]
          BY <2>1, <4>2
        <5>. QED  BY Zenon, <5>1, <5>2
      <4>. QED  BY Zenon, <2>1, <4>1, <4>2
    <3>. QED  BY Zenon, <2>4, <3>1
  <2>6. \A m \in 1 .. Len(batch') : EarlyHad(batch'[m], j, 0)
    BY <2>1
  <2>. QED  BY Zenon, <1>1, <2>4, <2>5, <2>6, EarlyCases, CleanMove
<1>. QED  BY Zenon, <1>2, <1>3

(* A worker takes frames from inRing.                                       *)
LEMMA EarlyDequeue ==
  ASSUME TypeOK, NEW w \in Workers, WorkerDequeue(w)
  PROVE  FromEarly(<<"out", w>>, 0)
<1>1. /\ inRing \in Seq(Frame) /\ Len(inRing) \in Nat /\ work \in [Workers -> Seq(Frame)]
      /\ WORKER_BULK_SIZE \in Nat
  BY SizesAssumption DEF TypeOK, QueuesOK
<1>2. PICK x \in 1 .. Min({WORKER_BULK_SIZE, Len(inRing)}) :
         /\ work' = [work EXCEPT ![w] = SubSeq(inRing, 1, x)]
         /\ inRing' = SubSeq(inRing, x + 1, Len(inRing))
  BY Zenon DEF WorkerDequeue
<1>3. x \in 0 .. Len(inRing) /\ x \in Nat /\ batch' = batch
  <2>1. batch' = batch
    BY Zenon DEF WorkerDequeue, manager
  <2>2. PICK y : y = Min({WORKER_BULK_SIZE, Len(inRing)}) /\ y \in Nat /\ y <= Len(inRing)
    BY Zenon, <1>1, MinPairFacts
  <2>3. x \in 1 .. y
    BY Zenon, <2>2
  <2>. QED  BY <1>1, <2>1, <2>2, <2>3
<1>4. PICK j : j = <<"out", w>>
  BY Zenon
<1>5. j # <<"in", 0>> /\ j # <<"batch", 0>> /\ \A v : j # <<"work", v>>
  BY <1>4
<1>6. /\ \A m \in 1 .. Len(inRing) : EarlyHad(inRing[m], j, 0)
      /\ \A m \in 1 .. Len(batch') : EarlyHad(batch'[m], j, 0)
      /\ \A v \in Workers : \A m \in 1 .. Len(work[v]) : EarlyHad(work[v][m], j, 0)
  BY Zenon, <1>3, <1>5, EarlyElem
<1>7. /\ Len(SubSeq(inRing, 1, x)) = x
      /\ \A i \in 1 .. x : SubSeq(inRing, 1, x)[i] = inRing[i]
      /\ Len(SubSeq(inRing, x + 1, Len(inRing))) = Len(inRing) - x
      /\ \A i \in 1 .. Len(inRing) - x : SubSeq(inRing, x + 1, Len(inRing))[i] = inRing[x + i]
  BY <1>1, <1>3, SubSeqFacts
<1>8. /\ \A i \in 1 .. x : i \in 1 .. Len(inRing)
      /\ \A i \in 1 .. Len(inRing) - x : x + i \in 1 .. Len(inRing)
  BY <1>1, <1>3
<1>9. \A m \in 1 .. Len(inRing') : EarlyHad(inRing'[m], j, 0)
  BY Zenon, <1>2, <1>6, <1>7, <1>8
<1>10. ASSUME NEW v \in Workers, NEW m \in 1 .. Len(work'[v]) PROVE EarlyHad(work'[v][m], j, 0)
  <2>1. CASE v = w
    <3>1. work'[v] = SubSeq(inRing, 1, x)
      BY Zenon, <1>1, <1>2, <2>1
    <3>. QED  BY Zenon, <1>6, <1>7, <1>8, <1>10, <3>1
  <2>2. CASE v # w
    <3>1. work'[v] = work[v]
      BY Zenon, <1>1, <1>2, <2>2
    <3>. QED  BY Zenon, <1>6, <1>10, <3>1
  <2>. QED  BY Zenon, <2>1, <2>2
<1>. QED  BY Zenon, <1>4, <1>6, <1>9, <1>10, EarlyCases

(* Worker::process: the one packet it writes is that of the frame it        *)
(* enqueues.                                                                *)
LEMMA CleanWorker ==
  ASSUME TypeOK, BufferExclusive, Clean, NEW w \in Workers, Worker(w)
  PROVE  Clean'
<1>1. RxSame
  BY Zenon DEF Worker, WorkerDequeue, WorkerDrop, WorkerFatal, WorkerForward, WorkerNoMac,
     WorkerArp, WorkerUnsupported, Die, rings, RxSame
<1>2. CASE WorkerDequeue(w)
  <2>1. pkt' = pkt
    BY Zenon, <1>2 DEF WorkerDequeue
  <2>. QED  BY Zenon, <1>1, <1>2, <2>1, EarlyDequeue, CleanMove
<1>3. CASE WorkerFatal(w)
  <2>1. pkt' = pkt /\ inRing' = inRing /\ work' = work /\ batch' = batch
    BY Zenon, <1>3 DEF WorkerFatal, Die, manager
  <2>. QED  BY Zenon, <1>1, <2>1, EarlySame, CleanMove
<1>4. CASE WorkerDrop(w) \/ WorkerNoMac(w) \/ WorkerArp(w) \/ WorkerUnsupported(w)
  <2>1. /\ work[w] # <<>> /\ pkt' = pkt /\ inRing' = inRing /\ batch' = batch
        /\ work' = [work EXCEPT ![w] = Tail(work[w])]
    BY Zenon, <1>4 DEF WorkerDrop, WorkerNoMac, WorkerArp, WorkerUnsupported, Routable, Enqueue,
       manager
  <2>. QED  BY Zenon, <1>1, <2>1, EarlyHandled, CleanMove
<1>5. CASE WorkerForward(w)
  <2>1. /\ work[w] # <<>> /\ inRing' = inRing /\ batch' = batch
        /\ work' = [work EXCEPT ![w] = Tail(work[w])]
    BY Zenon, <1>5 DEF WorkerForward, Routable, Enqueue, manager
  <2>2. PICK j : j = <<"work", w>>
    BY Zenon
  <2>3. j \in Queues /\ Queue(j) = work[w] /\ FromEarly(j, 1)
    BY Zenon, <2>1, <2>2, EarlyHandled, QueueFacts DEF QueueDesc
  <2>4. CurFrame(w) = Queue(j)[1] /\ 1 \in 1 .. Len(Queue(j))
    <3>1. work[w] \in Seq(Frame)
      BY Zenon DEF TypeOK, QueuesOK
    <3>. QED  BY <2>1, <2>3, <3>1, SeqFacts DEF CurFrame
  <2>5. PICK z : pkt' = [pkt EXCEPT ![Queue(j)[1].buf] = z]
    BY Zenon, <1>5, <2>4 DEF WorkerForward
  <2>. QED  BY Zenon, <1>1, <2>3, <2>4, <2>5, CleanWrite
<1>. QED  BY Zenon, <1>2, <1>3, <1>4, <1>5 DEF Worker

(* The TX half writes to frames that are out of the workers' hands.         *)
LEMMA CleanTx ==
  ASSUME TypeOK, BufferExclusive, Clean, NEW w \in Workers, Tx(w)
  PROVE  Clean'
<1>1. inRing' = inRing /\ work' = work /\ batch' = batch /\ tail' = tail
  BY Zenon DEF Tx, TxForward, TxDiscard, TxNoMacRequest, TxNoMacWait, TxNoMacFatal, TxArpForeign,
     TxArpRequest, TxArpReply, TxArpUnknown, Die, rings, manager
<1>2. PICK j : j = <<"out", w>>
  BY Zenon
<1>3. j \in Queues /\ Queue(j) = outRing[w] /\ \A n : FromEarly(j, n)
  BY Zenon, <1>1, <1>2, EarlySame, QueueFacts DEF QueueDesc
<1>4. ASSUME RxSame, pkt' = pkt PROVE Clean'
  BY Zenon, <1>3, <1>4, CleanMove
<1>5. ASSUME RxSame, outRing[w] # <<>>, NEW z, pkt' = [pkt EXCEPT ![OutFrame(w).buf] = z]
      PROVE  Clean'
  <2>1. OutFrame(w) = Queue(j)[1] /\ 1 \in 1 .. Len(Queue(j))
    BY Zenon, <1>3, <1>5, OutFirst
  <2>. QED  BY Zenon, <1>3, <1>5, <2>1, CleanWrite
<1>6. ASSUME outRing[w] # <<>>, Reclaim(w) PROVE Clean'
  BY Zenon, <1>1, <1>5, <1>6 DEF Reclaim, RxSame
<1>7. ASSUME NEW p, outRing[w] # <<>>, Transmit(w, p) PROVE Clean'
  <2>1. CASE slot' = slot /\ head' = head
    <3>1. RxSame
      BY Zenon, <1>1, <2>1 DEF RxSame
    <3>2. pkt' = pkt \/ \E z : pkt' = [pkt EXCEPT ![OutFrame(w).buf] = z]
      BY Zenon, <1>7 DEF Transmit
    <3>. QED  BY Zenon, <1>4, <1>5, <1>7, <3>1, <3>2
  <2>2. CASE ~(slot' = slot /\ head' = head)
    <3>. DEFINE q == <<"tx", OutFrame(w).id, TxRingId(w)>>
    <3>1. /\ TxRingId(w) \in Workers
          /\ slot' = [slot EXCEPT ![q] = [@ EXCEPT ![head[q]] = OutFrame(w).buf]]
          /\ head' = [head EXCEPT ![q] = nm_ring_next(head[q])]
          /\ pkt' = [pkt EXCEPT ![OutFrame(w).buf] = p]
      BY Zenon, <1>7, <2>2 DEF Transmit
    <3>2. q \in TxRings
      <4>1. OutFrame(w).id \in Ifaces
        BY Zenon, <1>7, OutFacts DEF Frame
      <4>. QED  BY Zenon, <3>1, <4>1 DEF TxRings, Rings
    <3>. HIDE DEF q
    <3>3. RxSame
      BY Zenon, <1>1, <3>1, <3>2, RingTypes DEF RxSame
    <3>. QED  BY Zenon, <1>5, <1>7, <3>1, <3>3
  <2>. QED  BY Zenon, <2>1, <2>2
<1>8. CASE TxNoMacFatal(w)
  BY Zenon, <1>4, <1>8 DEF TxNoMacFatal, Die, rings, RxSame
<1>9. CASE TxDiscard(w) \/ TxNoMacWait(w) \/ TxArpForeign(w)
  BY Zenon, <1>6, <1>9 DEF TxDiscard, TxNoMacWait, TxArpForeign, ArpFrame, Flagged
<1>10. CASE TxForward(w) \/ TxNoMacRequest(w)
  BY Zenon, <1>7, <1>10 DEF TxForward, TxNoMacRequest, Flagged
<1>11. CASE TxArpRequest(w) \/ TxArpReply(w) \/ TxArpUnknown(w)
  BY Zenon, <1>7, <1>11 DEF TxArpRequest, TxArpReply, TxArpUnknown, ArpFrame, Flagged
<1>. QED  BY Zenon, <1>8, <1>9, <1>10, <1>11 DEF Tx
=============================================================================
