-------------------------- MODULE DataPathLemmas --------------------------
EXTENDS DataPath, TLAPS

(***************************************************************************)
(* Facts about the operators of DataPath, the inductive invariant, type     *)
(* correctness, the cells that hold a buffer, and that every action keeps   *)
(* them exclusive.                                                          *)
(***************************************************************************)

(* nm_ring_next stays on the ring.                                          *)
LEMMA RingFacts ==
  ASSUME NEW s \in Slots
  PROVE  nm_ring_next(s) \in Slots
BY NumSlotsAssumption DEF Slots, nm_ring_next

(* The two parts of a sequence cut after n elements, as a bulk dequeue      *)
(* does.                                                                    *)
LEMMA SubSeqFacts ==
  ASSUME NEW S, NEW s \in Seq(S), NEW n \in 0 .. Len(s)
  PROVE  /\ SubSeq(s, 1, n) \in Seq(S) /\ Len(SubSeq(s, 1, n)) = n
         /\ \A i \in 1 .. n : SubSeq(s, 1, n)[i] = s[i]
         /\ SubSeq(s, n + 1, Len(s)) \in Seq(S)
         /\ Len(SubSeq(s, n + 1, Len(s))) = Len(s) - n
         /\ \A i \in 1 .. Len(s) - n : SubSeq(s, n + 1, Len(s))[i] = s[n + i]
OBVIOUS

(* What front, back, pop_back and the rest of a non-empty sequence are.     *)
LEMMA SeqFacts ==
  ASSUME NEW S, NEW s \in Seq(S), s # <<>>
  PROVE  /\ Len(s) \in Nat \ {0} /\ Head(s) \in S /\ Tail(s) \in Seq(S)
         /\ back(s) \in S /\ pop_back(s) \in Seq(S)
         /\ Len(pop_back(s)) = Len(s) - 1 /\ Len(Tail(s)) = Len(s) - 1
         /\ Head(s) = s[1] /\ back(s) = s[Len(s)]
         /\ \A n \in 1 .. Len(s) - 1 : pop_back(s)[n] = s[n] /\ Tail(s)[n] = s[n + 1]
<1>1. Len(s) \in Nat \ {0} /\ \A n \in 1 .. Len(s) : s[n] \in S
  OBVIOUS
<1>2. /\ Head(s) \in S /\ Head(s) = s[1] /\ Tail(s) \in Seq(S)
      /\ Len(Tail(s)) = Len(s) - 1
      /\ \A n \in 1 .. Len(s) - 1 : Tail(s)[n] = s[n + 1]
  BY <1>1
<1>3. back(s) = s[Len(s)] /\ back(s) \in S
  BY <1>1 DEF back
<1>4. /\ pop_back(s) \in Seq(S) /\ Len(pop_back(s)) = Len(s) - 1
      /\ \A n \in 1 .. Len(s) - 1 : pop_back(s)[n] = s[n]
  <2>1. pop_back(s) = SubSeq(s, 1, Len(s) - 1)
    BY Zenon DEF pop_back
  <2>. DEFINE m == Len(s) - 1
  <2>2. m \in 0 .. Len(s)
    BY <1>1
  <2>. HIDE DEF m
  <2>3. /\ SubSeq(s, 1, m) \in Seq(S) /\ Len(SubSeq(s, 1, m)) = m
        /\ \A n \in 1 .. m : SubSeq(s, 1, m)[n] = s[n]
    BY <2>2, SubSeqFacts
  <2>. QED  BY Zenon, <2>1, <2>3 DEF m
<1>. QED  BY Zenon, <1>1, <1>2, <1>3, <1>4

(* The least of three numbers, as the size of a batch is computed.          *)
LEMMA MinFacts ==
  ASSUME NEW a \in Nat, NEW b \in Nat, NEW c \in Nat
  PROVE  /\ Min({a, b, c}) \in Nat
         /\ Min({a, b, c}) <= a /\ Min({a, b, c}) <= b /\ Min({a, b, c}) <= c
<1>1. \E x \in {a, b, c} : \A y \in {a, b, c} : x <= y
  OBVIOUS
<1>2. /\ Min({a, b, c}) \in {a, b, c}
      /\ \A y \in {a, b, c} : Min({a, b, c}) <= y
  BY Zenon, <1>1 DEF Min
<1>. QED  BY Zenon, <1>2

(* The least of two numbers, as a bulk dequeue computes its size.           *)
LEMMA MinPairFacts ==
  ASSUME NEW a \in Nat, NEW b \in Nat
  PROVE  Min({a, b}) \in Nat /\ Min({a, b}) <= a /\ Min({a, b}) <= b
<1>1. \E x \in {a, b} : \A y \in {a, b} : x <= y
  OBVIOUS
<1>2. Min({a, b}) \in {a, b} /\ \A y \in {a, b} : Min({a, b}) <= y
  BY Zenon, <1>1 DEF Min
<1>. QED  BY Zenon, <1>2

-----------------------------------------------------------------------------
(* A packet that can leave on interface i: an IPv4 packet carries the MAC   *)
(* of its next hop, which is known to be on that interface.                 *)
Sendable(p, i) ==
  /\ p # Blank
  /\ p.type = "ip" => p.nh = NhAddr(p) /\ NhKnown(p) /\ i = NhIface(p)

(* What a frame in outRing promises: at most one flag, and a packet that    *)
(* suits it.                                                                *)
OutOK(f) ==
  /\ f.flags \in {{}, {"NOMAC"}, {"ARP"}, {"DISCARD"}}
  /\ f.flags = {"NOMAC"} => pkt[f.buf].type = "ip"
  /\ f.flags = {"ARP"} => pkt[f.buf].type = "arp"
  /\ f.flags = {} => Sendable(pkt[f.buf], f.id)

Fresh(s) == \A n \in 1 .. Len(s) : s[n].flags = {}

FramesOK ==
  /\ Fresh(batch) /\ Fresh(inRing) /\ \A w \in Workers : Fresh(work[w])
  /\ \A w \in Workers : \A n \in 1 .. Len(outRing[w]) : OutOK(outRing[w][n])

(* The inductive invariant, but for what the TX rings hold.                 *)
IInv == TypeOK /\ BufferExclusive /\ BatchFits /\ FramesOK

(* nm_ring_space is a count.                                                *)
LEMMA SpaceFacts ==
  ASSUME NEW h \in Slots, NEW t \in Slots
  PROVE  nm_ring_space(h, t) \in Nat
BY NumSlotsAssumption DEF Slots, nm_ring_space

(* The ring the manager is at exists, and numFrames is within what it read. *)
LEMMA PlaceFacts ==
  ASSUME TypeOK
  PROVE  /\ RxRing \in Rings /\ at[1] \in Ifaces /\ at[2] \in Workers
         /\ head[RxRing] \in Slots /\ tail[RxRing] \in Slots
         /\ numFrames \in Nat /\ numFrames <= Len(freeBufs)
         /\ numFrames <= nm_ring_space(head[RxRing], tail[RxRing])
<1>1. RxRing \in Rings /\ at[1] \in Ifaces /\ at[2] \in Workers
  BY Zenon DEF TypeOK, PlaceOK, RxRing, Rings
<1>2. head[RxRing] \in Slots /\ tail[RxRing] \in Slots
  BY Zenon, <1>1 DEF TypeOK, RingsOK
<1>3. Len(freeBufs) \in Nat
  BY DEF TypeOK, QueuesOK
<1>. QED  BY Zenon, <1>1, <1>2, <1>3, SpaceFacts, MinFacts, SizesAssumption DEF numFrames

(* A worker has a frame, and the packet in it can be routed.                *)
LEMMA CurFacts ==
  ASSUME TypeOK, NEW w \in Workers, work[w] # <<>>
  PROVE  /\ CurFrame(w) \in Frame /\ CurFrame(w) = work[w][1]
         /\ Tail(work[w]) \in Seq(Frame)
         /\ CurPacket(w) \in Packet
         /\ CurPacket(w).type = "ip" => CurPacket(w) \in IpPacket
<1>1. /\ CurFrame(w) \in Frame /\ CurFrame(w) = work[w][1]
      /\ Tail(work[w]) \in Seq(Frame)
  BY Zenon, SeqFacts DEF CurFrame, TypeOK, QueuesOK
<1>2. CurPacket(w) \in Packet
  BY Zenon, <1>1 DEF CurPacket, TypeOK, RingsOK, Frame
<1>. QED  BY <1>1, <1>2 DEF Packet, IpPacket, ArpPacket, Other, Blank

(* The manager has a frame in its hands: its type and its packet's type.    *)
LEMMA OutFacts ==
  ASSUME TypeOK, NEW w \in Workers, outRing[w] # <<>>
  PROVE  /\ OutFrame(w) \in Frame /\ OutFrame(w) = outRing[w][1]
         /\ Tail(outRing[w]) \in Seq(Frame)
         /\ OutPacket(w) \in Packet
         /\ OutPacket(w).type = "ip" => OutPacket(w) \in IpPacket
         /\ OutPacket(w).type = "arp" => OutPacket(w) \in ArpPacket
<1>1. /\ OutFrame(w) \in Frame /\ OutFrame(w) = outRing[w][1]
      /\ Tail(outRing[w]) \in Seq(Frame)
  BY Zenon, SeqFacts DEF OutFrame, TypeOK, QueuesOK
<1>2. OutPacket(w) \in Packet
  BY Zenon, <1>1 DEF OutPacket, TypeOK, RingsOK, Frame
<1>. QED  BY <1>1, <1>2 DEF Packet, IpPacket, ArpPacket, Other, Blank

(* A lookup gives an address and, if the neighbour is known, an interface.  *)
LEMMA RouteFacts ==
  ASSUME ArpOK, NEW p \in IpPacket
  PROVE  /\ NhAddr(p) \in Addrs
         /\ NhIface(p) \in Ifaces \cup {None}
<1>1. p.d_ip \in Addrs /\ ntohl[p.d_ip] \in Addrs /\ Index(p) \in NhIndex
  BY Zenon, TablesAssumption DEF IpPacket, Index
<1>2. CASE Index(p).kind = "via"
  <2>1. Index(p).nh \in NextHops
    BY <1>1, <1>2 DEF NhIndex
  <2>. QED  BY Zenon, <1>1, <1>2, <2>1, TablesAssumption DEF NhAddr, NhIface
<1>3. CASE Index(p).kind = "direct"
  <2>1. Index(p).iface \in Ifaces
    BY <1>1, <1>3 DEF NhIndex
  <2>. QED  BY Zenon, <1>1, <1>3, <2>1 DEF NhAddr, NhIface, ArpOK
<1>4. CASE Index(p).kind = "invalid"
  BY Zenon, <1>1, <1>4 DEF NhAddr, NhIface
<1>. QED  BY <1>1, <1>2, <1>3, <1>4 DEF NhIndex

-----------------------------------------------------------------------------
(* Type correctness, one lemma per group of actions.                        *)
LEMMA TypeInit == Init => TypeOK
<1>. SUFFICES ASSUME Init PROVE TypeOK
  OBVIOUS
<1>1. /\ 0 \in Slots /\ NumSlots - 1 \in Slots /\ 0 \in Ifaces /\ 0 \in Workers
  BY NumSlotsAssumption, SizesAssumption DEF Slots, Ifaces, Workers
<1>2. RingsOK
  BY Zenon, <1>1, BuffersAssumption DEF Init, RingsOK, Packet
<1>3. QueuesOK
  BY BuffersAssumption DEF Init, QueuesOK
<1>4. PlaceOK /\ ArpOK
  BY Zenon, <1>1 DEF Init, PlaceOK, ArpOK
<1>. QED  BY Zenon, <1>2, <1>3, <1>4 DEF TypeOK

(* The NIC keeps the types.                                                 *)
LEMMA TypeNic ==
  ASSUME TypeOK, NEW q \in Rings,
         TxSync(q) \/ \E p \in Arrivals[<<q[2], q[3]>>] : RxSync(q, p)
  PROVE  TypeOK'
<1>1. /\ q[2] \in Ifaces /\ q[3] \in Workers
      /\ Arrivals[<<q[2], q[3]>>] \subseteq Packet
  BY Zenon, ArrivalsAssumption DEF Rings
<1>2. tail[q] \in Slots /\ nm_ring_next(tail[q]) \in Slots
  BY Zenon, RingFacts DEF TypeOK, RingsOK
<1>3. RingsOK'
  <2>1. CASE TxSync(q)
    BY Zenon, <1>2, <2>1 DEF TxSync, TypeOK, RingsOK, Packet
  <2>2. ASSUME NEW p \in Arrivals[<<q[2], q[3]>>], RxSync(q, p) PROVE RingsOK'
    BY Zenon, <1>1, <1>2, <2>2 DEF RxSync, TypeOK, RingsOK
  <2>. QED  BY Zenon, <2>1, <2>2
<1>4. QueuesOK'
  BY Zenon DEF TxSync, RxSync, TypeOK, QueuesOK, manager
<1>5. PlaceOK'
  BY Zenon DEF TxSync, RxSync, TypeOK, PlaceOK, manager
<1>6. ArpOK'
  BY Zenon DEF TxSync, RxSync, TypeOK, ArpOK, arp
<1>. QED  BY Zenon, <1>3, <1>4, <1>5, <1>6 DEF TypeOK

(* The RX half of Manager::process keeps the types. BatchFits: a frame is   *)
(* taken only while freeBufs has a buffer.                                  *)
LEMMA TypeRx ==
  ASSUME TypeOK, BatchFits, PollReturn \/ RxBatch \/ RxFrame \/ RxEnqueue \/ RxNextRing
  PROVE  TypeOK'
<1>1. ArpOK'
  BY Zenon DEF PollReturn, RxBatch, RxFrame, RxEnqueue, RxNextRing, TypeOK, ArpOK, arp
<1>2. <<0, 0>> \in Ifaces \X Workers /\ 0 \in Workers
  BY SizesAssumption DEF Ifaces, Workers
<1>3. CASE PollReturn
  BY Zenon, <1>1, <1>2, <1>3 DEF PollReturn, TypeOK, RingsOK, QueuesOK, PlaceOK, rings
<1>4. CASE RxBatch
  <2>1. RingsOK' /\ QueuesOK'
    BY <1>4 DEF RxBatch, TypeOK, RingsOK, QueuesOK, rings
  <2>2. PlaceOK'
    BY Zenon, <1>4, PlaceFacts DEF RxBatch, TypeOK, PlaceOK
  <2>. QED  BY Zenon, <1>1, <2>1, <2>2 DEF TypeOK
<1>5. CASE RxFrame
  <2>1. /\ RxRing \in Rings /\ at[1] \in Ifaces
        /\ head[RxRing] \in Slots /\ nm_ring_next(head[RxRing]) \in Slots
    BY Zenon, PlaceFacts, RingFacts
  <2>2. freeBufs \in Seq(Bufs) /\ freeBufs # <<>>
    <3>1. freeBufs \in Seq(Bufs) /\ left \in Nat /\ left > 0 /\ left <= Len(freeBufs)
      BY Zenon, <1>5 DEF RxFrame, BatchFits, TypeOK, QueuesOK, PlaceOK
    <3>. QED  BY <3>1
  <2>3. back(freeBufs) \in Bufs /\ pop_back(freeBufs) \in Seq(Bufs)
    BY Zenon, <2>2, SeqFacts
  <2>4. [buf |-> slot[RxRing][head[RxRing]], id |-> at[1], flags |-> {}] \in Frame
    BY Zenon, <2>1 DEF Frame, TypeOK, RingsOK
  <2>5. RingsOK'
    BY Zenon, <1>5, <2>1, <2>3 DEF RxFrame, TypeOK, RingsOK
  <2>6. QueuesOK'
    BY <1>5, <2>3, <2>4 DEF RxFrame, TypeOK, QueuesOK
  <2>7. PlaceOK'
    <3>1. left \in Nat /\ left > 0 /\ left' = left - 1
      BY Zenon, <1>5 DEF RxFrame, TypeOK, PlaceOK
    <3>2. left' \in Nat
      BY <3>1
    <3>. QED  BY Zenon, <1>5, <3>2 DEF RxFrame, TypeOK, PlaceOK
  <2>. QED  BY Zenon, <1>1, <2>5, <2>6, <2>7 DEF TypeOK
<1>6. CASE RxEnqueue
  <2>1. RingsOK' /\ PlaceOK'
    BY Zenon, <1>6 DEF RxEnqueue, TypeOK, RingsOK, PlaceOK, rings
  <2>2. QueuesOK'
    BY <1>6 DEF RxEnqueue, TypeOK, QueuesOK
  <2>. QED  BY Zenon, <1>1, <2>1, <2>2 DEF TypeOK
<1>7. CASE RxNextRing
  <2>1. RingsOK' /\ QueuesOK'
    BY Zenon, <1>7 DEF RxNextRing, TypeOK, RingsOK, QueuesOK, rings
  <2>2. at' \in Ifaces \X Workers
    <3>1. at \in Ifaces \X Workers /\ at[1] \in Ifaces /\ at[2] \in Workers
      BY Zenon, PlaceFacts DEF TypeOK, PlaceOK
    <3>2. /\ at[2] + 1 < NumWorkers => at[2] + 1 \in Workers
          /\ at[1] + 1 < NumInterfaces => at[1] + 1 \in Ifaces
      BY <3>1, SizesAssumption DEF Ifaces, Workers
    <3>. QED  BY <1>2, <1>7, <3>1, <3>2 DEF RxNextRing
  <2>3. PlaceOK'
    BY Zenon, <1>2, <1>7, <2>2 DEF RxNextRing, TypeOK, PlaceOK
  <2>. QED  BY Zenon, <1>1, <2>1, <2>3 DEF TypeOK
<1>. QED  BY Zenon, <1>3, <1>4, <1>5, <1>6, <1>7

(* Enqueuing a frame in outRing keeps the types of the queues.              *)
LEMMA TypeEnqueue ==
  ASSUME TypeOK, NEW w \in Workers, work[w] # <<>>, NEW g \in Frame,
         Enqueue(w, g), UNCHANGED <<freeBufs, inRing, batch>>
  PROVE  QueuesOK'
<1>1. Tail(work[w]) \in Seq(Frame)
  BY Zenon, CurFacts
<1>2. work' \in [Workers -> Seq(Frame)]
  BY Zenon, <1>1 DEF Enqueue, TypeOK, QueuesOK
<1>3. Append(outRing[w], g) \in Seq(Frame)
  BY DEF TypeOK, QueuesOK
<1>4. outRing' \in [Workers -> Seq(Frame)]
  BY Zenon, <1>3 DEF Enqueue, TypeOK, QueuesOK
<1>. QED  BY Zenon, <1>2, <1>4 DEF TypeOK, QueuesOK

(* Worker::process keeps the types.                                         *)
LEMMA TypeWorker ==
  ASSUME TypeOK, NEW w \in Workers, Worker(w)
  PROVE  TypeOK'
<1>1. ArpOK'
  BY Zenon DEF Worker, WorkerDequeue, WorkerDrop, WorkerFatal, WorkerForward, WorkerNoMac,
         WorkerArp, WorkerUnsupported, Die, TypeOK, ArpOK, arp
<1>2. PlaceOK'
  BY Zenon DEF Worker, WorkerDequeue, WorkerDrop, WorkerFatal, WorkerForward, WorkerNoMac,
         WorkerArp, WorkerUnsupported, Die, TypeOK, PlaceOK, manager
<1>3. Routable(w) => work[w] # <<>> /\ CurPacket(w) \in IpPacket
  BY Zenon, CurFacts DEF Routable
<1>4. RingsOK'
  <2>1. CASE WorkerForward(w)
    <3>1. /\ CurPacket(w) \in IpPacket /\ CurFrame(w).buf \in Bufs
          /\ CurPacket(w) = pkt[CurFrame(w).buf] /\ NhAddr(CurPacket(w)) \in Addrs
      BY Zenon, <1>3, <2>1, CurFacts, RouteFacts DEF WorkerForward, CurPacket, Frame, TypeOK
    <3>2. [CurPacket(w) EXCEPT !.nh = NhAddr(CurPacket(w))] \in Packet
      BY Zenon, <3>1 DEF IpPacket, Packet
    <3>. QED  BY Zenon, <2>1, <3>1, <3>2 DEF WorkerForward, TypeOK, RingsOK, rings
  <2>2. CASE ~WorkerForward(w)
    BY Zenon, <2>2 DEF Worker, WorkerDequeue, WorkerDrop, WorkerFatal, WorkerNoMac,
         WorkerArp, WorkerUnsupported, Die, TypeOK, RingsOK, rings
  <2>. QED  BY Zenon, <2>1, <2>2
<1>5. QueuesOK'
  <2>1. CASE WorkerDequeue(w)
    <3>1. PICK n \in 1 .. Min({WORKER_BULK_SIZE, Len(inRing)}) :
               /\ work' = [work EXCEPT ![w] = SubSeq(inRing, 1, n)]
               /\ inRing' = SubSeq(inRing, n + 1, Len(inRing))
      BY Zenon, <2>1 DEF WorkerDequeue
    <3>2. inRing \in Seq(Frame) /\ Len(inRing) \in Nat
      BY DEF TypeOK, QueuesOK
    <3>3. n \in 0 .. Len(inRing)
      BY <3>2, MinPairFacts, SizesAssumption
    <3>4. SubSeq(inRing, 1, n) \in Seq(Frame) /\ SubSeq(inRing, n + 1, Len(inRing)) \in Seq(Frame)
      BY Zenon, <3>2, <3>3, SubSeqFacts
    <3>. QED  BY Zenon, <2>1, <3>1, <3>4 DEF WorkerDequeue, TypeOK, QueuesOK, manager
  <2>2. CASE WorkerDrop(w)
    BY Zenon, <2>2, CurFacts DEF WorkerDrop, TypeOK, QueuesOK, manager
  <2>3. CASE WorkerFatal(w)
    BY Zenon, <2>3 DEF WorkerFatal, Die, TypeOK, QueuesOK, manager
  <2>4. CASE WorkerForward(w)
    BY Zenon, <1>3, <2>4, CurFacts, RouteFacts, TypeEnqueue DEF WorkerForward, Frame, manager, TypeOK
  <2>5. CASE WorkerNoMac(w)
    BY Zenon, <1>3, <2>5, CurFacts, RouteFacts, TypeEnqueue DEF WorkerNoMac, Frame, manager, TypeOK
  <2>6. CASE WorkerArp(w)
    BY Zenon, <2>6, CurFacts, TypeEnqueue DEF WorkerArp, Frame, manager
  <2>7. CASE WorkerUnsupported(w)
    <3>1. 0 \in Ifaces
      BY SizesAssumption DEF Ifaces
    <3>. QED  BY Zenon, <2>7, <3>1, CurFacts, TypeEnqueue DEF WorkerUnsupported, Frame, manager
  <2>. QED  BY Zenon, <2>1, <2>2, <2>3, <2>4, <2>5, <2>6, <2>7 DEF Worker
<1>. QED  BY Zenon, <1>1, <1>2, <1>4, <1>5 DEF TypeOK

(* The two ways the body of the TX loop ends.                               *)
LEMMA TypeReclaim ==
  ASSUME TypeOK, NEW w \in Workers, outRing[w] # <<>>, Reclaim(w),
         UNCHANGED <<tail, inRing, work, pc, at, left, batch>>
  PROVE  RingsOK' /\ QueuesOK' /\ PlaceOK'
<1>1. OutFrame(w).buf \in Bufs /\ Tail(outRing[w]) \in Seq(Frame)
  BY Zenon, OutFacts DEF Frame
<1>2. RingsOK'
  BY Zenon, <1>1 DEF Reclaim, TypeOK, RingsOK, Packet
<1>3. QueuesOK'
  BY <1>1 DEF Reclaim, TypeOK, QueuesOK
<1>4. PlaceOK'
  BY Zenon DEF Reclaim, TypeOK, PlaceOK
<1>. QED  BY Zenon, <1>2, <1>3, <1>4

(* The second way: the frame's buffer is swapped into a TX slot.            *)
LEMMA TypeTransmit ==
  ASSUME TypeOK, NEW w \in Workers, outRing[w] # <<>>, NEW p \in Packet, Transmit(w, p),
         UNCHANGED <<tail, inRing, work, pc, at, left, batch>>
  PROVE  RingsOK' /\ QueuesOK' /\ PlaceOK'
<1>. DEFINE q == <<"tx", OutFrame(w).id, TxRingId(w)>>
<1>1. OutFrame(w).buf \in Bufs /\ OutFrame(w).id \in Ifaces /\ Tail(outRing[w]) \in Seq(Frame)
  BY Zenon, OutFacts DEF Frame
<1>2. CASE TxRingId(w) \notin Workers
  <2>1. RingsOK' /\ QueuesOK'
    BY Zenon, <1>2 DEF Transmit, TypeOK, RingsOK, QueuesOK
  <2>2. PlaceOK'
    BY Zenon, <1>2 DEF Transmit, TypeOK, PlaceOK
  <2>. QED  BY Zenon, <2>1, <2>2
<1>3. CASE TxRingId(w) \in Workers
  <2>1. q \in Rings
    BY Zenon, <1>1, <1>3 DEF Rings
  <2>2. /\ head[q] \in Slots /\ nm_ring_next(head[q]) \in Slots /\ slot[q][head[q]] \in Bufs
    BY Zenon, <2>1, RingFacts DEF TypeOK, RingsOK
  <2>3. freeBufs' \in Seq(Bufs)
    <3>1. \/ freeBufs' = Append(freeBufs, slot[q][head[q]])
          \/ freeBufs' = Append(freeBufs, OutFrame(w).buf)
      BY Zenon, <1>3 DEF Transmit
    <3>2. freeBufs \in Seq(Bufs)
      BY Zenon DEF TypeOK, QueuesOK
    <3>3. OutFrame(w).buf \in Bufs /\ slot[q][head[q]] \in Bufs
      BY Zenon, <1>1, <2>2
    <3>. HIDE DEF q
    <3>. QED  BY <3>1, <3>2, <3>3
  <2>4. slot' \in [Rings -> [Slots -> Bufs]]
    <3>1. \/ slot' = [slot EXCEPT ![q] = [@ EXCEPT ![head[q]] = OutFrame(w).buf]]
          \/ slot' = slot
      BY Zenon, <1>3 DEF Transmit
    <3>2. slot \in [Rings -> [Slots -> Bufs]]
      BY Zenon DEF TypeOK, RingsOK
    <3>. HIDE DEF q
    <3>. QED  BY <1>1, <2>1, <2>2, <3>1, <3>2
  <2>5. head' \in [Rings -> Slots]
    <3>1. \/ head' = [head EXCEPT ![q] = nm_ring_next(head[q])]
          \/ head' = head
      BY Zenon, <1>3 DEF Transmit
    <3>2. head \in [Rings -> Slots]
      BY Zenon DEF TypeOK, RingsOK
    <3>. HIDE DEF q
    <3>. QED  BY Zenon, <2>1, <2>2, <3>1, <3>2
  <2>6. pkt' \in [Bufs -> Packet]
    BY Zenon, <1>1, <1>3 DEF Transmit, TypeOK, RingsOK, Packet
  <2>7. RingsOK'
    BY Zenon, <2>4, <2>5, <2>6 DEF TypeOK, RingsOK
  <2>8. QueuesOK'
    BY Zenon, <1>1, <1>3, <2>3 DEF Transmit, TypeOK, QueuesOK
  <2>9. PlaceOK'
    BY Zenon, <1>3 DEF Transmit, TypeOK, PlaceOK
  <2>. QED  BY Zenon, <2>7, <2>8, <2>9
<1>. QED  BY Zenon, <1>2, <1>3

(* Learning a neighbour keeps the types of the ARP table.                   *)
LEMMA TypeLearn ==
  ASSUME ArpOK, NEW a \in Addrs, NEW i \in Ifaces, Learn(a, i), UNCHANGED missingMACs
  PROVE  ArpOK'
BY Zenon DEF ArpOK, Learn, Registered

(* The TX half of Manager::process keeps the types. NoMacIsIp: a frame      *)
(* flagged NOMAC has an IP header to read.                                  *)
LEMMA TypeTx ==
  ASSUME TypeOK, NoMacIsIp, NEW w \in Workers, Tx(w)
  PROVE  TypeOK'
<1>1. CASE TxForward(w)
  BY Zenon, <1>1, OutFacts, TypeTransmit DEF TxForward, TypeOK, ArpOK, arp
<1>2. CASE TxDiscard(w)
  BY Zenon, <1>2, TypeReclaim DEF TxDiscard, Flagged, TypeOK, ArpOK, arp
<1>3. CASE TxNoMacRequest(w)
  <2>1. outRing[w] # <<>> /\ outRing[w] \in Seq(Frame)
    BY Zenon, <1>3 DEF TxNoMacRequest, Flagged, TypeOK, QueuesOK
  <2>2. OutPacket(w) \in IpPacket /\ OutFrame(w).id \in Ifaces
    <3>1. 1 \in 1 .. Len(outRing[w]) /\ OutFrame(w) = outRing[w][1]
      BY <2>1, OutFacts
    <3>2. OutPacket(w).type = "ip"
      BY Zenon, <1>3, <3>1 DEF TxNoMacRequest, Flagged, NoMacIsIp, OutPacket
    <3>. QED  BY Zenon, <2>1, <3>2, OutFacts DEF Frame
  <2>3. OutPacket(w).d_ip \in Addrs
    BY Zenon, <2>2 DEF IpPacket
  <2>4. prepareRequest(OutFrame(w).id, OutPacket(w).d_ip) \in Packet
    <3>1. IPs[OutFrame(w).id] \in Seq(Addrs) /\ IPs[OutFrame(w).id] # <<>>
      BY Zenon, <1>3, <2>2, TablesAssumption DEF TxNoMacRequest
    <3>2. ntohl[IPs[OutFrame(w).id][1]] \in Addrs
      BY <3>1, SeqFacts, TablesAssumption
    <3>. QED  BY Zenon, <2>3, <3>2 DEF prepareRequest, Packet, ArpPacket
  <2>5. ArpOK'
    BY Zenon, <1>3, <2>3 DEF TxNoMacRequest, TypeOK, ArpOK
  <2>. QED  BY Zenon, <1>3, <2>1, <2>4, <2>5, TypeTransmit DEF TxNoMacRequest, TypeOK
<1>4. CASE TxNoMacWait(w)
  BY Zenon, <1>4, TypeReclaim DEF TxNoMacWait, Flagged, TypeOK, ArpOK, arp
<1>5. CASE TxNoMacFatal(w)
  BY Zenon, <1>5 DEF TxNoMacFatal, Die, TypeOK, RingsOK, QueuesOK, PlaceOK, ArpOK, rings, manager, arp
<1>6. CASE TxArpForeign(w)
  BY Zenon, <1>6, TypeReclaim DEF TxArpForeign, ArpFrame, Flagged, TypeOK, ArpOK, arp
<1>7. ASSUME \E op \in {"request", "reply"} : ArpFrame(w, op)
      PROVE  /\ outRing[w] # <<>> /\ OutPacket(w) \in ArpPacket /\ OutPacket(w) \in Packet
             /\ Sender(w) \in Addrs /\ OutFrame(w).id \in Ifaces
  <2>1. outRing[w] # <<>> /\ OutPacket(w) \in ArpPacket /\ OutFrame(w).id \in Ifaces
    BY Zenon, <1>7, OutFacts DEF ArpFrame, Flagged, Frame
  <2>. QED  BY Zenon, <2>1, TablesAssumption DEF Sender, ArpPacket, Packet
<1>8. CASE TxArpRequest(w)
  <2>1. /\ outRing[w] # <<>> /\ OutPacket(w) \in ArpPacket /\ OutPacket(w) \in Packet
        /\ Sender(w) \in Addrs /\ OutFrame(w).id \in Ifaces
    BY Zenon, <1>7, <1>8 DEF TxArpRequest
  <2>2. [type |-> "arp", op |-> "reply", s_ip |-> OutPacket(w).t_ip,
         t_ip |-> OutPacket(w).s_ip] \in Packet
    BY Zenon, <2>1 DEF Packet, ArpPacket
  <2>. QED  BY Zenon, <1>8, <2>1, <2>2, TypeLearn, TypeTransmit DEF TxArpRequest, TypeOK
<1>9. CASE TxArpReply(w)
  BY Zenon, <1>7, <1>9, TypeLearn, TypeTransmit DEF TxArpReply, TypeOK
<1>10. CASE TxArpUnknown(w)
  BY Zenon, <1>10, OutFacts, TypeTransmit DEF TxArpUnknown, ArpFrame, Flagged, TypeOK, ArpOK, arp
<1>. QED
  BY Zenon, <1>1, <1>2, <1>3, <1>4, <1>5, <1>6, <1>8, <1>9, <1>10 DEF Tx

-----------------------------------------------------------------------------
(* The batch fits: taking a frame shortens all three by one.                *)
LEMMA SpaceNext ==
  ASSUME NEW h \in Slots, NEW t \in Slots, nm_ring_space(h, t) > 0
  PROVE  nm_ring_space(nm_ring_next(h), t) = nm_ring_space(h, t) - 1
BY NumSlotsAssumption DEF Slots, nm_ring_space, nm_ring_next

(* Every step keeps the rest of a batch within the ring and the free list:  *)
(* only the manager shrinks either of them, and it counts.                  *)
LEMMA BatchNext ==
  ASSUME TypeOK, BatchFits, Next
  PROVE  BatchFits'
<1>1. CASE PollReturn \/ RxEnqueue \/ RxNextRing \/ TxDone
  BY Zenon, <1>1 DEF PollReturn, RxEnqueue, RxNextRing, TxDone, BatchFits
<1>2. CASE Nic
  BY Zenon, <1>2 DEF Nic, RxSync, TxSync, BatchFits, manager
<1>3. CASE RxBatch
  <2>1. /\ left' = numFrames /\ freeBufs' = freeBufs /\ head' = head /\ tail' = tail
        /\ RxRing' = RxRing
    BY Zenon, <1>3 DEF RxBatch, rings, RxRing
  <2>. QED  BY Zenon, <2>1, PlaceFacts DEF BatchFits
<1>4. CASE RxFrame
  <2>1. /\ left \in Nat /\ left > 0 /\ left' = left - 1 /\ RxRing' = RxRing
        /\ tail' = tail /\ head'[RxRing] = nm_ring_next(head[RxRing])
    BY Zenon, <1>4, PlaceFacts DEF RxFrame, RxRing, TypeOK, PlaceOK, RingsOK
  <2>2. /\ left <= Len(freeBufs) /\ left <= nm_ring_space(head[RxRing], tail[RxRing])
    BY Zenon, <1>4 DEF RxFrame, BatchFits
  <2>3. freeBufs \in Seq(Bufs) /\ Len(freeBufs) \in Nat
    BY DEF TypeOK, QueuesOK
  <2>4. Len(freeBufs') = Len(freeBufs) - 1
    <3>1. freeBufs # <<>>
      BY <2>1, <2>2, <2>3
    <3>. QED  BY Zenon, <1>4, <2>3, <3>1, SeqFacts DEF RxFrame
  <2>5. /\ nm_ring_space(head[RxRing], tail[RxRing]) \in Nat
        /\ head[RxRing] \in Slots /\ tail[RxRing] \in Slots
    BY Zenon, PlaceFacts, SpaceFacts
  <2>6. nm_ring_space(head'[RxRing], tail[RxRing]) = nm_ring_space(head[RxRing], tail[RxRing]) - 1
    BY <2>1, <2>2, <2>5, SpaceNext
  <2>7. left' <= Len(freeBufs') /\ left' <= nm_ring_space(head'[RxRing], tail[RxRing])
    BY <2>1, <2>2, <2>3, <2>4, <2>5, <2>6
  <2>. QED  BY Zenon, <2>1, <2>7 DEF BatchFits
<1>5. ASSUME NEW w \in Workers, Tx(w) PROVE BatchFits'
  BY Zenon, <1>5 DEF Tx, TxForward, TxDiscard, TxNoMacRequest, TxNoMacWait, TxNoMacFatal, Die,
     TxArpForeign, TxArpRequest, TxArpReply, TxArpUnknown, ArpFrame, Flagged, BatchFits, manager
<1>6. ASSUME NEW w \in Workers, Worker(w) PROVE BatchFits'
  <2>1. UNCHANGED <<freeBufs, head, tail, pc, at, left>>
    BY Zenon, <1>6 DEF Worker, WorkerDequeue, WorkerDrop, WorkerFatal, Die, WorkerForward,
       WorkerNoMac, WorkerArp, WorkerUnsupported, rings, manager
  <2>. QED  BY Zenon, <2>1 DEF BatchFits, RxRing
<1>. QED  BY Zenon, <1>1, <1>2, <1>3, <1>4, <1>5, <1>6 DEF Next, Manager

-----------------------------------------------------------------------------
(* Exclusive ownership.  Every action moves buffers between cells: each     *)
(* cell after the step gets its buffer from one cell before it, and no two  *)
(* from the same.  The proofs name that source cell.                        *)
CellDesc ==
  /\ \A c \in Cells :
        \/ \E q \in Rings, s \in Slots : c = <<"slot", q, s>>
        \/ \E n \in 1 .. Len(freeBufs) : c = <<"free", 0, n>>
        \/ \E k \in Queues : \E n \in 1 .. Len(Queue(k)) : c = <<"frame", k, n>>
  /\ \A q, s : <<"slot", q, s>> \in Cells <=> q \in Rings /\ s \in Slots
  /\ \A n : <<"free", 0, n>> \in Cells <=> n \in 1 .. Len(freeBufs)
  /\ \A k, n : <<"frame", k, n>> \in Cells <=> k \in Queues /\ n \in 1 .. Len(Queue(k))
  /\ \A q, s : Holds(<<"slot", q, s>>) = slot[q][s]
  /\ \A n : Holds(<<"free", 0, n>>) = freeBufs[n]
  /\ \A k, n : Holds(<<"frame", k, n>>) = Queue(k)[n].buf

(* The description is right.                                                *)
LEMMA CellFacts == CellDesc
<1>1. ASSUME NEW c PROVE c \in SlotCells <=> \E q \in Rings, s \in Slots : c = <<"slot", q, s>>
  BY DEF SlotCells
<1>2. ASSUME NEW c PROVE c \in FreeCells <=> \E n \in 1 .. Len(freeBufs) : c = <<"free", 0, n>>
  BY DEF FreeCells
<1>3. ASSUME NEW c
      PROVE  c \in FrameCells <=>
               \E k \in Queues : \E n \in 1 .. Len(Queue(k)) : c = <<"frame", k, n>>
  BY DEF FrameCells
<1>4. ASSUME NEW c
      PROVE  c \in Cells <=> c \in SlotCells \/ c \in FreeCells \/ c \in FrameCells
  BY Zenon DEF Cells
<1>5. /\ \A q, s : Holds(<<"slot", q, s>>) = slot[q][s]
      /\ \A n : Holds(<<"free", 0, n>>) = freeBufs[n]
      /\ \A k, n : Holds(<<"frame", k, n>>) = Queue(k)[n].buf
  BY Zenon DEF Holds
<1>6. ASSUME NEW x, NEW y
      PROVE  /\ <<"slot", x, y>> \in Cells <=> x \in Rings /\ y \in Slots
             /\ <<"free", 0, y>> \in Cells <=> y \in 1 .. Len(freeBufs)
             /\ <<"frame", x, y>> \in Cells <=> x \in Queues /\ y \in 1 .. Len(Queue(x))
  <2>1. <<"slot", x, y>> \in Cells <=> x \in Rings /\ y \in Slots
    BY <1>1, <1>2, <1>3, <1>4
  <2>2. <<"free", 0, y>> \in Cells <=> y \in 1 .. Len(freeBufs)
    BY <1>1, <1>2, <1>3, <1>4
  <2>3. <<"frame", x, y>> \in Cells <=> x \in Queues /\ y \in 1 .. Len(Queue(x))
    BY <1>1, <1>2, <1>3, <1>4
  <2>. QED  BY Zenon, <2>1, <2>2, <2>3
<1>7. ASSUME NEW c \in Cells
      PROVE  \/ \E q \in Rings, s \in Slots : c = <<"slot", q, s>>
             \/ \E n \in 1 .. Len(freeBufs) : c = <<"free", 0, n>>
             \/ \E k \in Queues : \E n \in 1 .. Len(Queue(k)) : c = <<"frame", k, n>>
  BY Zenon, <1>1, <1>2, <1>3, <1>4
<1>. QED  BY <1>5, <1>6, <1>7, Zenon DEF CellDesc

(* And it is right in the next state.                                       *)
LEMMA CellFactsNext == CellDesc'
BY CellFacts, PTL

(* What the cells hold.                                                     *)
HoldDesc ==
  /\ \A q, s : Holds(<<"slot", q, s>>) = slot[q][s]
  /\ \A n : Holds(<<"free", 0, n>>) = freeBufs[n]
  /\ \A k, n : Holds(<<"frame", k, n>>) = Queue(k)[n].buf

(* The part of the description that is about the contents.                  *)
LEMMA HoldFacts == HoldDesc
BY Zenon, CellFacts DEF CellDesc, HoldDesc

(* The same in the next state.                                              *)
LEMMA HoldFactsNext == HoldDesc'
BY HoldFacts, PTL

(* The queues by name.                                                      *)
QueueDesc ==
  /\ \A k : k \in Queues <=>
        \/ k = <<"in", 0>> \/ k = <<"batch", 0>>
        \/ \E w \in Workers : k = <<"work", w>> \/ k = <<"out", w>>
  /\ Queue(<<"in", 0>>) = inRing /\ Queue(<<"batch", 0>>) = batch
  /\ \A w : Queue(<<"work", w>>) = work[w] /\ Queue(<<"out", w>>) = outRing[w]

(* Which queue each name stands for.                                        *)
LEMMA QueueFacts == QueueDesc
BY DEF QueueDesc, Queues, Queue

(* The same in the next state.                                              *)
LEMMA QueueFactsNext == QueueDesc'
BY QueueFacts, PTL

(* The sets of BufferPool, by what is in the rings, freeBufs and queues.    *)
PoolDesc ==
  /\ \A b : b \in SlotBufs <=> \E q \in Rings, s \in Slots : b = slot[q][s]
  /\ \A b : b \in FreeSet <=> \E n \in 1 .. Len(freeBufs) : b = freeBufs[n]
  /\ \A b : b \in FrameBufs <=>
        \E k \in Queues : \E n \in 1 .. Len(Queue(k)) : b = Queue(k)[n].buf

(* The description is right.                                                *)
LEMMA PoolFacts == PoolDesc
<1>1. ASSUME NEW b PROVE b \in SlotBufs <=> \E q \in Rings, s \in Slots : b = slot[q][s]
  <2>1. \A c : c \in SlotCells <=> \E q \in Rings, s \in Slots : c = <<"slot", q, s>>
    BY DEF SlotCells
  <2>2. b \in SlotBufs <=> \E c \in SlotCells : b = Holds(c)
    BY Zenon DEF SlotBufs
  <2>3. \A q, s : Holds(<<"slot", q, s>>) = slot[q][s]
    BY Zenon, CellFacts DEF CellDesc
  <2>4. ASSUME b \in SlotBufs PROVE \E q \in Rings, s \in Slots : b = slot[q][s]
    <3>1. PICK c \in SlotCells : b = Holds(c)
      BY Zenon, <2>2, <2>4
    <3>2. PICK q \in Rings, s \in Slots : c = <<"slot", q, s>>
      BY Zenon, <2>1, <3>1
    <3>3. b = slot[q][s]
      BY Zenon, <2>3, <3>1, <3>2
    <3>. QED  BY Zenon, <3>3
  <2>5. ASSUME NEW q \in Rings, NEW s \in Slots, b = slot[q][s] PROVE b \in SlotBufs
    <3>1. <<"slot", q, s>> \in SlotCells
      BY Zenon, <2>1
    <3>. QED  BY Zenon, <2>2, <2>3, <2>5, <3>1
  <2>. QED  BY Zenon, <2>4, <2>5
<1>2. ASSUME NEW b PROVE b \in FreeSet <=> \E n \in 1 .. Len(freeBufs) : b = freeBufs[n]
  <2>1. \A c : c \in FreeCells <=> \E n \in 1 .. Len(freeBufs) : c = <<"free", 0, n>>
    BY DEF FreeCells
  <2>2. b \in FreeSet <=> \E c \in FreeCells : b = Holds(c)
    BY Zenon DEF FreeSet
  <2>3. \A n : Holds(<<"free", 0, n>>) = freeBufs[n]
    BY Zenon, CellFacts DEF CellDesc
  <2>4. ASSUME b \in FreeSet PROVE \E n \in 1 .. Len(freeBufs) : b = freeBufs[n]
    <3>1. PICK c \in FreeCells : b = Holds(c)
      BY Zenon, <2>2, <2>4
    <3>. QED  BY Zenon, <2>1, <2>3, <3>1
  <2>5. ASSUME NEW n \in 1 .. Len(freeBufs), b = freeBufs[n] PROVE b \in FreeSet
    <3>1. <<"free", 0, n>> \in FreeCells
      BY Zenon, <2>1
    <3>. QED  BY Zenon, <2>2, <2>3, <2>5, <3>1
  <2>. QED  BY Zenon, <2>4, <2>5
<1>3. ASSUME NEW b
      PROVE  b \in FrameBufs <=>
               \E k \in Queues : \E n \in 1 .. Len(Queue(k)) : b = Queue(k)[n].buf
  <2>1. \A c : c \in FrameCells <=>
               \E k \in Queues : \E n \in 1 .. Len(Queue(k)) : c = <<"frame", k, n>>
    BY DEF FrameCells
  <2>2. b \in FrameBufs <=> \E c \in FrameCells : b = Holds(c)
    BY Zenon DEF FrameBufs
  <2>3. \A k, n : Holds(<<"frame", k, n>>) = Queue(k)[n].buf
    BY Zenon, CellFacts DEF CellDesc
  <2>4. ASSUME b \in FrameBufs PROVE \E k \in Queues : \E n \in 1 .. Len(Queue(k)) : b = Queue(k)[n].buf
    <3>1. PICK c \in FrameCells : b = Holds(c)
      BY Zenon, <2>2, <2>4
    <3>2. PICK k \in Queues : \E n \in 1 .. Len(Queue(k)) : c = <<"frame", k, n>>
      BY Zenon, <2>1, <3>1
    <3>3. PICK n \in 1 .. Len(Queue(k)) : c = <<"frame", k, n>>
      BY Zenon, <3>2
    <3>. QED  BY Zenon, <2>3, <3>1, <3>3
  <2>5. ASSUME NEW k \in Queues, NEW n \in 1 .. Len(Queue(k)), b = Queue(k)[n].buf PROVE b \in FrameBufs
    <3>1. <<"frame", k, n>> \in FrameCells
      BY Zenon, <2>1
    <3>. QED  BY Zenon, <2>2, <2>3, <2>5, <3>1
  <2>. QED  BY Zenon, <2>4, <2>5
<1>. QED  BY Zenon, <1>1, <1>2, <1>3 DEF PoolDesc

(* And it is right in the next state.                                       *)
LEMMA PoolFactsNext == PoolDesc'
BY PoolFacts, PTL

(* Exclusive buffers, by what is in the rings, freeBufs and queues.         *)
Apart ==
  /\ \A q, r \in Rings, s, t \in Slots : slot[q][s] = slot[r][t] => q = r /\ s = t
  /\ \A m, n \in 1 .. Len(freeBufs) : freeBufs[m] = freeBufs[n] => m = n
  /\ \A j, k \in Queues : \A m \in 1 .. Len(Queue(j)), n \in 1 .. Len(Queue(k)) :
        Queue(j)[m].buf = Queue(k)[n].buf => j = k /\ m = n

(* Cells that differ hold different buffers.                                *)
LEMMA ApartFacts == BufferExclusive => Apart
<1>. SUFFICES ASSUME BufferExclusive PROVE Apart
  OBVIOUS
<1>1. ASSUME NEW q \in Rings, NEW r \in Rings, NEW s \in Slots, NEW t \in Slots,
             slot[q][s] = slot[r][t]
      PROVE  q = r /\ s = t
  <2>1. <<"slot", q, s>> \in Cells /\ <<"slot", r, t>> \in Cells
    BY Zenon, CellFacts DEF CellDesc
  <2>2. Holds(<<"slot", q, s>>) = Holds(<<"slot", r, t>>)
    BY <1>1, CellFacts DEF CellDesc
  <2>3. <<"slot", q, s>> = <<"slot", r, t>>
    BY Zenon, <2>1, <2>2 DEF BufferExclusive
  <2>. QED  BY Zenon, <2>3
<1>2. ASSUME NEW m \in 1 .. Len(freeBufs), NEW n \in 1 .. Len(freeBufs),
             freeBufs[m] = freeBufs[n]
      PROVE  m = n
  <2>1. <<"free", 0, m>> \in Cells /\ <<"free", 0, n>> \in Cells
    BY Zenon, CellFacts DEF CellDesc
  <2>2. Holds(<<"free", 0, m>>) = Holds(<<"free", 0, n>>)
    BY Zenon, <1>2, CellFacts DEF CellDesc
  <2>3. <<"free", 0, m>> = <<"free", 0, n>>
    BY Zenon, <2>1, <2>2 DEF BufferExclusive
  <2>. QED  BY Zenon, <2>3
<1>3. ASSUME NEW j \in Queues, NEW k \in Queues, NEW m \in 1 .. Len(Queue(j)),
             NEW n \in 1 .. Len(Queue(k)), Queue(j)[m].buf = Queue(k)[n].buf
      PROVE  j = k /\ m = n
  <2>1. <<"frame", j, m>> \in Cells /\ <<"frame", k, n>> \in Cells
    BY Zenon, CellFacts DEF CellDesc
  <2>2. Holds(<<"frame", j, m>>) = Holds(<<"frame", k, n>>)
    BY <1>3, CellFacts DEF CellDesc
  <2>3. <<"frame", j, m>> = <<"frame", k, n>>
    BY Zenon, <2>1, <2>2 DEF BufferExclusive
  <2>. QED  BY Zenon, <2>3
<1>. QED  BY Zenon, <1>1, <1>2, <1>3 DEF Apart

(* A step that only moves frames between queues, or drops some, is a Lose   *)
(* of BufferPool.                                                           *)
LEMMA PoolLose ==
  ASSUME slot' = slot, freeBufs' = freeBufs,
         \A k \in Queues : \A n \in 1 .. Len(Queue(k)') :
            \E j \in Queues : \E m \in 1 .. Len(Queue(j)) :
               Queue(k)'[n].buf = Queue(j)[m].buf
  PROVE  Pool!PoolNext
<1>1. SlotBufs' = SlotBufs
  <2>1. \A b : b \in SlotBufs <=> \E q \in Rings, s \in Slots : b = slot[q][s]
    BY Zenon, PoolFacts DEF PoolDesc
  <2>2. \A b : b \in SlotBufs' <=> \E q \in Rings, s \in Slots : b = slot[q][s]
    BY PoolFactsNext DEF PoolDesc
  <2>. QED  BY Zenon, <2>1, <2>2
<1>2. FreeSet' = FreeSet
  <2>1. \A b : b \in FreeSet <=> \E n \in 1 .. Len(freeBufs) : b = freeBufs[n]
    BY Zenon, PoolFacts DEF PoolDesc
  <2>2. \A b : b \in FreeSet' <=> \E n \in 1 .. Len(freeBufs) : b = freeBufs[n]
    BY Zenon, PoolFactsNext DEF PoolDesc
  <2>. QED  BY Zenon, <2>1, <2>2
<1>3. ASSUME NEW b \in FrameBufs' PROVE b \in FrameBufs
  <2>1. PICK k \in Queues : \E n \in 1 .. Len(Queue(k)') : b = Queue(k)'[n].buf
    BY PoolFactsNext DEF PoolDesc
  <2>2. PICK j \in Queues : \E m \in 1 .. Len(Queue(j)) : b = Queue(j)[m].buf
    BY <2>1
  <2>. QED  BY Zenon, <2>2, PoolFacts DEF PoolDesc
<1>4. FrameBufs' = FrameBufs \ (FrameBufs \ FrameBufs')
  BY Zenon, <1>3
<1>. QED  BY Zenon, <1>1, <1>2, <1>4 DEF Pool!PoolNext, Pool!Lose

(* What every step does with the buffers.                                   *)
HandedOver == BufferExclusive' /\ Pool!PoolNext

(* What most steps do besides: whatever had a holder still has one.         *)
NoneLost ==
  SlotBufs \cup FreeSet \cup FrameBufs \subseteq SlotBufs' \cup FreeSet' \cup FrameBufs'

PassedOn == HandedOver /\ NoneLost

(* A step that moves frames between queues and drops none.                  *)
LEMMA PoolKeeps ==
  ASSUME slot' = slot, freeBufs' = freeBufs,
         \A k \in Queues : \A n \in 1 .. Len(Queue(k)) :
            \E j \in Queues : \E m \in 1 .. Len(Queue(j)') :
               Queue(k)[n].buf = Queue(j)'[m].buf
  PROVE  NoneLost
<1>1. ASSUME NEW b \in SlotBufs PROVE b \in SlotBufs'
  BY PoolFacts, PoolFactsNext DEF PoolDesc
<1>2. ASSUME NEW b \in FreeSet PROVE b \in FreeSet'
  BY PoolFacts, PoolFactsNext DEF PoolDesc
<1>3. ASSUME NEW b \in FrameBufs PROVE b \in FrameBufs'
  <2>1. PICK k \in Queues : \E n \in 1 .. Len(Queue(k)) : b = Queue(k)[n].buf
    BY PoolFacts DEF PoolDesc
  <2>2. PICK j \in Queues : \E m \in 1 .. Len(Queue(j)') : b = Queue(j)'[m].buf
    BY <2>1
  <2>. QED  BY Zenon, <2>2, PoolFactsNext DEF PoolDesc
<1>. QED  BY Zenon, <1>1, <1>2, <1>3 DEF NoneLost

(* The last free buffer takes the place of the one in slot h of ring g,     *)
(* which goes to the end of queue B.                                        *)
Take(B, M, N, g, h) ==
  /\ N = Len(freeBufs) /\ Len(freeBufs') = N - 1
  /\ \A n \in 1 .. N - 1 : freeBufs'[n] = freeBufs[n]
  /\ \A q \in Rings, s \in Slots :
        slot'[q][s] = IF q = g /\ s = h THEN freeBufs[N] ELSE slot[q][s]
  /\ M = Len(Queue(B)) /\ Len(Queue(B)') = M + 1
  /\ \A n \in 1 .. M : Queue(B)'[n] = Queue(B)[n]
  /\ Queue(B)'[M + 1].buf = slot[g][h]
  /\ \A k \in Queues : k # B => Queue(k)' = Queue(k)

(* Such a step is a Receive of BufferPool.                                  *)
LEMMA PoolReceive ==
  ASSUME BufferExclusive, NEW B \in Queues, NEW M \in Nat, NEW N \in Nat \ {0},
         NEW g \in Rings, NEW h \in Slots, Take(B, M, N, g, h)
  PROVE  Pool!PoolNext /\ NoneLost
<1>. USE DEF Take
<1>. DEFINE b == slot[g][h]
            c == freeBufs[N]
<1>1. b \in SlotBufs /\ c \in FreeSet
  BY PoolFacts DEF PoolDesc
<1>2. SlotBufs' = (SlotBufs \ {b}) \cup {c}
  <2>1. \A x \in SlotBufs' : x = c \/ (x \in SlotBufs /\ x # b)
    BY PoolFacts, PoolFactsNext, ApartFacts DEF PoolDesc, Apart
  <2>2. \A x \in SlotBufs : x # b => x \in SlotBufs'
    BY PoolFacts, PoolFactsNext DEF PoolDesc
  <2>3. c \in SlotBufs'
    BY Zenon, PoolFactsNext DEF PoolDesc
  <2>. HIDE DEF b, c
  <2>. QED  BY Zenon, <2>1, <2>2, <2>3
<1>3. FreeSet' = FreeSet \ {c}
  <2>1. \A x \in FreeSet' : x \in FreeSet /\ x # c
    BY PoolFacts, PoolFactsNext, ApartFacts DEF PoolDesc, Apart
  <2>2. ASSUME NEW x \in FreeSet, x # c PROVE x \in FreeSet'
    <3>1. PICK n \in 1 .. N : x = freeBufs[n]
      BY Zenon, PoolFacts DEF PoolDesc
    <3>2. n \in 1 .. N - 1
      BY <2>2, <3>1
    <3>. QED  BY Zenon, <3>1, <3>2, PoolFactsNext DEF PoolDesc
  <2>. HIDE DEF b, c
  <2>. QED  BY Zenon, <2>1, <2>2
<1>4. FrameBufs' = FrameBufs \cup {b}
  <2>1. ASSUME NEW x \in FrameBufs' PROVE x = b \/ x \in FrameBufs
    <3>1. PICK k \in Queues : \E n \in 1 .. Len(Queue(k)') : x = Queue(k)'[n].buf
      BY PoolFactsNext DEF PoolDesc
    <3>2. PICK n \in 1 .. Len(Queue(k)') : x = Queue(k)'[n].buf
      BY Zenon, <3>1
    <3>3. CASE k # B
      BY Zenon, <3>2, <3>3, PoolFacts DEF PoolDesc
    <3>4. CASE k = B /\ n = M + 1
      BY Zenon, <3>2, <3>4
    <3>5. CASE k = B /\ n # M + 1
      <4>1. n \in 1 .. M + 1
        BY Zenon, <3>2, <3>5
      <4>2. n \in 1 .. M
        <5>. HIDE DEF Take
        <5>. QED  BY <3>5, <4>1
      <4>3. x = Queue(B)[n].buf /\ n \in 1 .. Len(Queue(B))
        BY Zenon, <3>2, <3>5, <4>2
      <4>. QED  BY Zenon, <4>3, PoolFacts DEF PoolDesc
    <3>. QED  BY Zenon, <3>3, <3>4, <3>5
  <2>2. ASSUME NEW x \in FrameBufs PROVE x \in FrameBufs'
    <3>1. PICK k \in Queues : \E n \in 1 .. Len(Queue(k)) : x = Queue(k)[n].buf
      BY PoolFacts DEF PoolDesc
    <3>2. PICK n \in 1 .. Len(Queue(k)) : x = Queue(k)[n].buf
      BY Zenon, <3>1
    <3>3. CASE k # B
      BY Zenon, <3>2, <3>3, PoolFactsNext DEF PoolDesc
    <3>4. CASE k = B
      <4>1. n \in 1 .. M /\ x = Queue(B)'[n].buf
        BY Zenon, <3>2, <3>4
      <4>2. n \in 1 .. M + 1
        <5>. HIDE DEF Take
        <5>. QED  BY <4>1
      <4>3. n \in 1 .. Len(Queue(B)')
        BY Zenon, <4>2
      <4>. QED  BY Zenon, <4>1, <4>3, PoolFactsNext DEF PoolDesc
    <3>. QED  BY Zenon, <3>3, <3>4
  <2>3. b \in FrameBufs'
    <3>1. M + 1 \in 1 .. Len(Queue(B)')
      OBVIOUS
    <3>. QED  BY Zenon, <3>1, PoolFactsNext DEF PoolDesc
  <2>. HIDE DEF b, c
  <2>. QED  BY Zenon, <2>1, <2>2, <2>3
<1>. HIDE DEF b, c
<1>5. Pool!Receive(b, c)
  BY Zenon, <1>2, <1>3, <1>4 DEF Pool!Receive
<1>6. NoneLost
  BY Zenon, <1>2, <1>3, <1>4 DEF NoneLost
<1>. QED  BY Zenon, <1>1, <1>5, <1>6 DEF Pool!PoolNext

(* The first frame of queue A leaves.  Its buffer and the buffer of slot h  *)
(* of ring g fill that slot and the new last element of freeBufs, one each. *)
Release(A, a, N, g, h, x, y) ==
  /\ a = Len(Queue(A)) /\ a > 0
  /\ Len(Queue(A)') = a - 1
  /\ \A n \in 1 .. a - 1 : Queue(A)'[n].buf = Queue(A)[n + 1].buf
  /\ \A k \in Queues : k # A => Queue(k)' = Queue(k)
  /\ N = Len(freeBufs) /\ Len(freeBufs') = N + 1
  /\ \A n \in 1 .. N : freeBufs'[n] = freeBufs[n]
  /\ freeBufs'[N + 1] = Holds(x)
  /\ \A q \in Rings, s \in Slots :
        slot'[q][s] = IF q = g /\ s = h THEN Holds(y) ELSE slot[q][s]

(* The first frame of queue A leaves and its buffer goes to freeBufs, or to *)
(* slot h of ring g against the one it held: a Discard or a Send.           *)
LEMMA PoolRelease ==
  ASSUME BufferExclusive,
         NEW A \in Queues, NEW a \in Nat, NEW N \in Nat, NEW g \in Rings, NEW h \in Slots,
         NEW x \in Cells, NEW y \in Cells,
         \/ x = <<"frame", A, 1>> /\ y = <<"slot", g, h>>
         \/ x = <<"slot", g, h>> /\ y = <<"frame", A, 1>>,
         Release(A, a, N, g, h, x, y)
  PROVE  Pool!PoolNext /\ NoneLost
<1>. USE DEF Release
<1>. DEFINE b == Queue(A)[1].buf
            c == slot[g][h]
<1>1. Holds(<<"frame", A, 1>>) = b /\ Holds(<<"slot", g, h>>) = c
  BY CellFacts DEF CellDesc
<1>2. b \in FrameBufs /\ c \in SlotBufs
  BY PoolFacts DEF PoolDesc
<1>3. FrameBufs' = FrameBufs \ {b}
  <2>1. ASSUME NEW z \in FrameBufs' PROVE z \in FrameBufs /\ z # b
    <3>1. PICK k \in Queues : \E n \in 1 .. Len(Queue(k)') : z = Queue(k)'[n].buf
      BY PoolFactsNext DEF PoolDesc
    <3>2. PICK n \in 1 .. Len(Queue(k)') : z = Queue(k)'[n].buf
      BY Zenon, <3>1
    <3>3. PICK m \in 1 .. Len(Queue(k)) : z = Queue(k)[m].buf /\ ~(k = A /\ m = 1)
      <4>1. CASE k = A
        <5>1. n \in 1 .. a - 1 /\ n + 1 \in 1 .. a /\ n + 1 # 1
          BY <3>2, <4>1
        <5>. QED  BY Zenon, <3>2, <4>1, <5>1
      <4>2. CASE k # A
        BY Zenon, <3>2, <4>2
      <4>. QED  BY Zenon, <4>1, <4>2
    <3>4. z \in FrameBufs
      BY Zenon, <3>3, PoolFacts DEF PoolDesc
    <3>5. 1 \in 1 .. Len(Queue(A))
      OBVIOUS
    <3>6. z # b
      BY <3>3, <3>5, ApartFacts DEF Apart
    <3>. QED  BY Zenon, <3>4, <3>6
  <2>2. ASSUME NEW z \in FrameBufs, z # b PROVE z \in FrameBufs'
    <3>1. PICK k \in Queues : \E n \in 1 .. Len(Queue(k)) : z = Queue(k)[n].buf
      BY PoolFacts DEF PoolDesc
    <3>2. PICK n \in 1 .. Len(Queue(k)) : z = Queue(k)[n].buf
      BY Zenon, <3>1
    <3>3. PICK m \in 1 .. Len(Queue(k)') : z = Queue(k)'[m].buf
      <4>1. CASE k = A
        <5>1. n \in 1 .. a /\ n # 1
          BY Zenon, <2>2, <3>2, <4>1
        <5>2. n - 1 \in 1 .. a - 1 /\ (n - 1) + 1 = n
          BY <5>1
        <5>3. Queue(A)'[n - 1].buf = Queue(A)[n].buf
          BY Zenon, <5>2
        <5>. QED  BY Zenon, <3>2, <4>1, <5>2, <5>3
      <4>2. CASE k # A
        BY Zenon, <3>2, <4>2
      <4>. QED  BY Zenon, <4>1, <4>2
    <3>. QED  BY Zenon, <3>3, PoolFactsNext DEF PoolDesc
  <2>. HIDE DEF b
  <2>. QED  BY Zenon, <2>1, <2>2
<1>4. FreeSet' = FreeSet \cup {Holds(x)}
  <2>1. ASSUME NEW z \in FreeSet' PROVE z = Holds(x) \/ z \in FreeSet
    <3>1. PICK n \in 1 .. N + 1 : z = freeBufs'[n]
      BY PoolFactsNext DEF PoolDesc
    <3>2. n = N + 1 \/ n \in 1 .. N
      BY <3>1
    <3>. QED  BY Zenon, <3>1, <3>2, PoolFacts DEF PoolDesc
  <2>2. ASSUME NEW z \in FreeSet PROVE z \in FreeSet'
    BY PoolFacts, PoolFactsNext DEF PoolDesc
  <2>3. Holds(x) \in FreeSet'
    <3>1. N + 1 \in 1 .. Len(freeBufs')
      OBVIOUS
    <3>. QED  BY Zenon, <3>1, PoolFactsNext DEF PoolDesc
  <2>. QED  BY Zenon, <2>1, <2>2, <2>3
<1>5. SlotBufs' = (SlotBufs \ {c}) \cup {Holds(y)}
  <2>1. \A z \in SlotBufs' : z = Holds(y) \/ (z \in SlotBufs /\ z # c)
    BY PoolFacts, PoolFactsNext, ApartFacts DEF PoolDesc, Apart
  <2>2. \A z \in SlotBufs : z # c => z \in SlotBufs'
    BY PoolFacts, PoolFactsNext DEF PoolDesc
  <2>3. Holds(y) \in SlotBufs'
    BY Zenon, PoolFactsNext DEF PoolDesc
  <2>. HIDE DEF b, c
  <2>. QED  BY Zenon, <2>1, <2>2, <2>3
<1>. HIDE DEF b, c
<1>6. CASE x = <<"frame", A, 1>> /\ y = <<"slot", g, h>>
  <2>1. SlotBufs' = SlotBufs /\ FreeSet' = FreeSet \cup {b}
    BY Zenon, <1>1, <1>2, <1>4, <1>5, <1>6
  <2>2. Pool!Discard(b)
    BY Zenon, <1>3, <2>1 DEF Pool!Discard
  <2>3. NoneLost
    BY Zenon, <1>3, <2>1 DEF NoneLost
  <2>. QED  BY Zenon, <1>2, <2>2, <2>3 DEF Pool!PoolNext
<1>7. CASE x = <<"slot", g, h>> /\ y = <<"frame", A, 1>>
  <2>1. SlotBufs' = (SlotBufs \ {c}) \cup {b} /\ FreeSet' = FreeSet \cup {c}
    BY Zenon, <1>1, <1>4, <1>5, <1>7
  <2>2. Pool!Send(b, c)
    BY Zenon, <1>3, <2>1 DEF Pool!Send
  <2>3. NoneLost
    BY Zenon, <1>3, <2>1 DEF NoneLost
  <2>. QED  BY Zenon, <1>2, <2>2, <2>3 DEF Pool!PoolNext
<1>. QED  BY Zenon, <1>6, <1>7

-----------------------------------------------------------------------------
(* Filling the slot at head adds that slot to the filled ones.              *)
LEMMA PendingHead ==
  ASSUME NEW h \in Slots, NEW t \in Slots, NEW s \in Slots, nm_ring_space(h, t) > 0
  PROVE  /\ UserSlot(h, t, h)
         /\ ~UserSlot(nm_ring_next(h), t, s) /\ s # t =>
              s = h \/ (~UserSlot(h, t, s) /\ s # t)
BY NumSlotsAssumption DEF Slots, UserSlot, nm_ring_space, nm_ring_next

(* Moving tail takes the slot behind it from the filled ones.               *)
LEMMA PendingTail ==
  ASSUME NEW h \in Slots, NEW t \in Slots, NEW s \in Slots, nm_ring_next(t) # h
  PROVE  ~UserSlot(h, nm_ring_next(t), s) /\ s # nm_ring_next(t) =>
           ~UserSlot(h, t, s) /\ s # t
BY NumSlotsAssumption DEF Slots, UserSlot, nm_ring_space, nm_ring_next

(* Which slots of a ring the program owns after tail or head has moved.     *)
LEMMA UserNext ==
  ASSUME NEW h \in Slots, NEW t \in Slots, NEW s \in Slots
  PROVE  /\ nm_ring_next(t) # h /\ UserSlot(h, nm_ring_next(t), s) => s = t \/ UserSlot(h, t, s)
         /\ nm_ring_space(h, t) > 0 /\ UserSlot(nm_ring_next(h), t, s) =>
              s # h /\ UserSlot(h, t, s)
BY NumSlotsAssumption DEF Slots, UserSlot, nm_ring_space, nm_ring_next

(* The types of the rings, apart.                                           *)
LEMMA RingTypes ==
  ASSUME TypeOK
  PROVE  /\ head \in [Rings -> Slots] /\ tail \in [Rings -> Slots]
         /\ slot \in [Rings -> [Slots -> Bufs]] /\ pkt \in [Bufs -> Packet]
BY Zenon DEF TypeOK, RingsOK

(* The frame in the manager's hands is the first of its producer.           *)
LEMMA OutFirst ==
  ASSUME TypeOK, NEW w \in Workers, outRing[w] # <<>>
  PROVE  OutFrame(w) = outRing[w][1] /\ OutFrame(w) \in Frame /\ 1 \in 1 .. Len(outRing[w])
<1>1. Len(outRing[w]) \in Nat \ {0}
  BY Zenon, SeqFacts DEF TypeOK, QueuesOK
<1>. QED  BY <1>1, OutFacts

(* The buffer of a frame is in no slot.                                     *)
LEMMA SlotNotFrame ==
  ASSUME BufferExclusive, NEW q \in Rings, NEW s \in Slots,
         NEW k \in Queues, NEW n \in 1 .. Len(Queue(k))
  PROVE  slot[q][s] # Queue(k)[n].buf
<1>. DEFINE c == <<"slot", q, s>>
            d == <<"frame", k, n>>
<1>1. /\ c \in Cells /\ Holds(c) = slot[q][s]
      /\ d \in Cells /\ Holds(d) = Queue(k)[n].buf
  BY CellFacts DEF CellDesc
<1>2. c # d
  BY Zenon
<1>. HIDE DEF c, d
<1>. QED  BY Zenon, <1>1, <1>2 DEF BufferExclusive

(* A frame in any queue is a frame.                                         *)
LEMMA QueueElem ==
  ASSUME TypeOK, NEW k \in Queues
  PROVE  Queue(k) \in Seq(Frame) /\ Len(Queue(k)) \in Nat /\ \A n \in 1 .. Len(Queue(k)) : Queue(k)[n] \in Frame
<1>1. /\ inRing \in Seq(Frame) /\ batch \in Seq(Frame)
      /\ \A w \in Workers : work[w] \in Seq(Frame) /\ outRing[w] \in Seq(Frame)
  BY Zenon DEF TypeOK, QueuesOK
<1>2. ASSUME k = <<"in", 0>> \/ k = <<"batch", 0>> PROVE Queue(k) \in Seq(Frame)
  BY Zenon, <1>1, <1>2, QueueFacts DEF QueueDesc
<1>3. ASSUME NEW w \in Workers, k = <<"work", w>> \/ k = <<"out", w>>
      PROVE  Queue(k) \in Seq(Frame)
  BY Zenon, <1>1, <1>3, QueueFacts DEF QueueDesc
<1>4. Queue(k) \in Seq(Frame)
  BY Zenon, <1>1, <1>2, <1>3, QueueFacts DEF QueueDesc
<1>. QED  BY <1>4

(* Whatever has a holder is one of the buffers.                             *)
LEMMA HeldInBufs ==
  ASSUME TypeOK
  PROVE  SlotBufs \cup FreeSet \cup FrameBufs \subseteq Bufs
<1>1. ASSUME NEW b \in SlotBufs PROVE b \in Bufs
  BY PoolFacts, RingTypes DEF PoolDesc
<1>2. ASSUME NEW b \in FreeSet PROVE b \in Bufs
  <2>1. PICK n \in 1 .. Len(freeBufs) : b = freeBufs[n]
    BY Zenon, PoolFacts DEF PoolDesc
  <2>. QED  BY <2>1 DEF TypeOK, QueuesOK
<1>3. ASSUME NEW b \in FrameBufs PROVE b \in Bufs
  <2>1. PICK k \in Queues : \E n \in 1 .. Len(Queue(k)) : b = Queue(k)[n].buf
    BY Zenon, PoolFacts DEF PoolDesc
  <2>. QED  BY Zenon, <2>1, QueueElem DEF Frame
<1>. QED  BY Zenon, <1>1, <1>2, <1>3

(* Frames that differ have different buffers, and these are FrameBufs.      *)
LEMMA FrameApart ==
  ASSUME BufferExclusive
  PROVE  /\ \A k \in Queues : \A n \in 1 .. Len(Queue(k)) : Queue(k)[n].buf \in FrameBufs
         /\ \A j, k \in Queues : \A m \in 1 .. Len(Queue(j)), n \in 1 .. Len(Queue(k)) :
               Queue(j)[m].buf = Queue(k)[n].buf => j = k /\ m = n
<1>1. \A k \in Queues : \A n \in 1 .. Len(Queue(k)) : Queue(k)[n].buf \in FrameBufs
  BY Zenon, PoolFacts DEF PoolDesc
<1>. QED  BY Zenon, <1>1, ApartFacts DEF Apart

(* No buffer of a ring slot carries a frame.                                *)
LEMMA SlotsNotFrames ==
  ASSUME TypeOK, BufferExclusive
  PROVE  SlotBufs \cap FrameBufs = {}
<1>1. ASSUME NEW b, b \in SlotBufs, b \in FrameBufs PROVE FALSE
  <2>1. PICK q \in Rings, s \in Slots : b = slot[q][s]
    BY <1>1, PoolFacts DEF PoolDesc
  <2>2. PICK k \in Queues : \E n \in 1 .. Len(Queue(k)) : b = Queue(k)[n].buf
    BY <1>1, PoolFacts DEF PoolDesc
  <2>. QED  BY Zenon, <2>1, <2>2, SlotNotFrame
<1>. QED  BY Zenon, <1>1

-----------------------------------------------------------------------------
(***************************************************************************)
(* The three ways a step moves buffers, each of which keeps them exclusive  *)
(* and is a step of BufferPool: take a frame, move or drop the first frames *)
(* of a queue, release the first frame of a queue.  Every action of         *)
(* DataPath moves buffers in one of these ways.                             *)
(***************************************************************************)

(* Taking a frame: its buffer goes to the batch, a free one takes its slot. *)
(* The last free buffer's cell vanishes, the slot takes over its contents.  *)
LEMMA ExclusiveRxFrame ==
  ASSUME TypeOK, BatchFits, BufferExclusive, RxFrame
  PROVE  PassedOn
<1>. DEFINE h == head[RxRing]
            N == Len(freeBufs)
            B == <<"batch", 0>>
            M == Len(batch)
            src(c) == IF c = <<"slot", RxRing, h>> THEN <<"free", 0, N>>
                      ELSE IF c = <<"frame", B, M + 1>> THEN <<"slot", RxRing, h>>
                      ELSE c
<1>1. /\ N \in Nat \ {0} /\ M \in Nat /\ RxRing \in Rings /\ h \in Slots
      /\ slot \in [Rings -> [Slots -> Bufs]] /\ batch \in Seq(Frame) /\ freeBufs \in Seq(Bufs)
  <2>1. freeBufs \in Seq(Bufs) /\ left \in Nat /\ left > 0 /\ left <= Len(freeBufs)
    BY Zenon DEF RxFrame, BatchFits, TypeOK, QueuesOK, PlaceOK
  <2>2. N \in Nat \ {0}
    BY <2>1
  <2>3. batch \in Seq(Frame) /\ M \in Nat
    BY DEF TypeOK, QueuesOK
  <2>. QED  BY Zenon, <2>1, <2>2, <2>3, PlaceFacts DEF TypeOK, RingsOK
<1>2. ASSUME NEW q \in Rings, NEW s \in Slots
      PROVE  slot'[q][s] = IF q = RxRing /\ s = h THEN freeBufs[N] ELSE slot[q][s]
  <2>1. back(freeBufs) = freeBufs[N]
    BY <1>1, SeqFacts
  <2>2. slot' = [slot EXCEPT ![RxRing] = [@ EXCEPT ![h] = back(freeBufs)]]
    BY Zenon DEF RxFrame
  <2>. HIDE DEF h, N
  <2>. QED  BY Zenon, <1>1, <2>1, <2>2
<1>3. Len(freeBufs') = N - 1 /\ \A n \in 1 .. N - 1 : freeBufs'[n] = freeBufs[n]
  BY <1>1, SeqFacts DEF RxFrame
<1>4. /\ Len(batch') = M + 1 /\ batch'[M + 1].buf = slot[RxRing][h]
      /\ \A n \in 1 .. M : batch'[n] = batch[n]
  BY <1>1 DEF RxFrame
<1>5. B \in Queues /\ Queue(B) = batch /\ Queue(B)' = batch'
  BY Zenon, QueueFacts, QueueFactsNext DEF QueueDesc
<1>6. \A k \in Queues : k # B => Queue(k)' = Queue(k)
  <2>1. inRing' = inRing /\ work' = work /\ outRing' = outRing
    BY Zenon DEF RxFrame
  <2>. QED  BY <2>1, QueueFacts, QueueFactsNext DEF QueueDesc
<1>9. Pool!PoolNext /\ NoneLost
  <2>1. N = Len(freeBufs) /\ M = Len(Queue(B))
    BY Zenon, <1>5
  <2>. HIDE DEF h, N, M, B
  <2>2. /\ Len(Queue(B)') = M + 1 /\ Queue(B)'[M + 1].buf = slot[RxRing][h]
        /\ \A n \in 1 .. M : Queue(B)'[n] = Queue(B)[n]
    BY Zenon, <1>4, <1>5
  <2>3. Take(B, M, N, RxRing, h)
    BY Zenon, <1>2, <1>3, <1>6, <2>1, <2>2 DEF Take
  <2>. QED  BY Zenon, <1>1, <1>5, <2>3, PoolReceive
<1>. HIDE DEF h, N, M, B
<1>7. ASSUME NEW c \in Cells' PROVE src(c) \in Cells /\ Holds(c)' = Holds(src(c))
  <2>1. ASSUME NEW q \in Rings, NEW s \in Slots, c = <<"slot", q, s>>
        PROVE  src(c) \in Cells /\ Holds(c)' = Holds(src(c))
    <3>1. Holds(c)' = IF q = RxRing /\ s = h THEN freeBufs[N] ELSE slot[q][s]
      BY <1>2, <2>1, HoldFactsNext DEF HoldDesc
    <3>2. <<"slot", q, s>> \in Cells /\ <<"free", 0, N>> \in Cells
      BY <1>1, CellFacts DEF CellDesc, N
    <3>3. Holds(<<"slot", q, s>>) = slot[q][s] /\ Holds(<<"free", 0, N>>) = freeBufs[N]
      BY Zenon, CellFacts DEF CellDesc
    <3>. QED  BY Zenon, <2>1, <3>1, <3>2, <3>3
  <2>2. ASSUME NEW n \in 1 .. Len(freeBufs'), c = <<"free", 0, n>>
        PROVE  src(c) \in Cells /\ Holds(c)' = Holds(src(c))
    BY <1>1, <1>3, <2>2, CellFacts, CellFactsNext DEF CellDesc, N
  <2>3. ASSUME NEW k \in Queues, NEW n \in 1 .. Len(Queue(k)'), c = <<"frame", k, n>>
        PROVE  src(c) \in Cells /\ Holds(c)' = Holds(src(c))
    <3>1. CASE k = B /\ n = M + 1
      <4>1. Holds(c)' = slot[RxRing][h]
        BY Zenon, <1>4, <1>5, <2>3, <3>1, HoldFactsNext DEF HoldDesc
      <4>. QED  BY Zenon, <1>1, <2>3, <3>1, <4>1, CellFacts DEF CellDesc
    <3>2. CASE k = B /\ n # M + 1
      <4>1. n \in 1 .. M /\ Len(Queue(k)) = M
        BY <1>1, <1>4, <1>5, <2>3, <3>2 DEF M
      <4>2. Holds(c)' = Queue(k)[n].buf
        BY <1>4, <1>5, <2>3, <3>2, <4>1, HoldFactsNext DEF HoldDesc
      <4>. QED  BY Zenon, <1>5, <2>3, <3>2, <4>1, <4>2, CellFacts DEF CellDesc
    <3>3. CASE k # B
      BY <1>6, <2>3, <3>3, CellFacts, CellFactsNext DEF CellDesc
    <3>. QED  BY Zenon, <3>1, <3>2, <3>3
  <2>. QED  BY Zenon, <2>1, <2>2, <2>3, CellFactsNext DEF CellDesc
<1>8. ASSUME NEW c \in Cells', NEW d \in Cells', src(c) = src(d) PROVE c = d
  <2>1. c # <<"free", 0, N>> /\ d # <<"free", 0, N>>
    BY <1>1, <1>3, CellFactsNext DEF CellDesc
  <2>. QED  BY Zenon, <1>8, <2>1
<1>. QED  BY Zenon, <1>7, <1>8, <1>9 DEF BufferExclusive, HandedOver, PassedOn

(* The first x frames of queue A go to the end of queue B, or are dropped.  *)
Prefix(A, B, a, b, x) ==
  /\ slot' = slot /\ freeBufs' = freeBufs
  /\ a = Len(Queue(A)) /\ b = Len(Queue(B)) /\ Len(Queue(A)') = a - x
  /\ \A n \in 1 .. a - x : Queue(A)'[n].buf = Queue(A)[n + x].buf
  /\ \/ Queue(B)' = Queue(B)
     \/ /\ Len(Queue(B)') = b + x
        /\ \A n \in 1 .. b : Queue(B)'[n].buf = Queue(B)[n].buf
        /\ \A n \in 1 .. x : Queue(B)'[b + n].buf = Queue(A)[n].buf
  /\ \A k \in Queues : k # A /\ k # B => Queue(k)' = Queue(k)

(* Such a step keeps buffers exclusive.                                     *)
LEMMA ExclusivePrefix ==
  ASSUME BufferExclusive, NEW A \in Queues, NEW B \in Queues, A # B,
         NEW a \in Nat, NEW b \in Nat, NEW x \in 0 .. a, Prefix(A, B, a, b, x)
  PROVE  HandedOver
<1>. USE DEF Prefix
<1>. DEFINE src(c) == IF c[1] = "frame" /\ c[2] = A THEN <<"frame", A, c[3] + x>>
                      ELSE IF c[1] = "frame" /\ c[2] = B /\ c[3] > b
                      THEN <<"frame", A, c[3] - b>> ELSE c
<1>1. ASSUME NEW c \in Cells' PROVE src(c) \in Cells /\ Holds(c)' = Holds(src(c))
  <2>1. ASSUME NEW q \in Rings, NEW s \in Slots, c = <<"slot", q, s>>
        PROVE  src(c) \in Cells /\ Holds(c)' = Holds(src(c))
    BY SMTT(20), <2>1, CellFacts, CellFactsNext DEF CellDesc
  <2>2. ASSUME NEW n \in 1 .. Len(freeBufs'), c = <<"free", 0, n>>
        PROVE  src(c) \in Cells /\ Holds(c)' = Holds(src(c))
    BY SMTT(20), <2>2, CellFacts, CellFactsNext DEF CellDesc
  <2>3. ASSUME NEW k \in Queues, NEW n \in 1 .. Len(Queue(k)'), c = <<"frame", k, n>>
        PROVE  src(c) \in Cells /\ Holds(c)' = Holds(src(c))
    <3>1. Holds(c)' = Queue(k)'[n].buf
      BY <2>3, HoldFactsNext DEF HoldDesc
    <3>2. CASE k = A
      <4>1. n \in 1 .. a - x /\ n + x \in 1 .. a
        BY <2>3, <3>2
      <4>2. src(c) = <<"frame", A, n + x>> /\ Queue(A)'[n].buf = Queue(A)[n + x].buf
        BY Zenon, <2>3, <3>2, <4>1
      <4>3. PICK m \in 1 .. Len(Queue(A)) : m = n + x
        BY Zenon, <4>1
      <4>4. <<"frame", A, m>> \in Cells /\ Holds(<<"frame", A, m>>) = Queue(A)[m].buf
        <5>. HIDE DEF Prefix, src
        <5>. QED  BY <4>3, CellFacts DEF CellDesc
      <4>. HIDE DEF src
      <4>. QED  BY Zenon, <3>1, <3>2, <4>2, <4>3, <4>4
    <3>3. CASE k = B /\ n > b
      <4>1. PICK m \in 1 .. x : n = b + m
        <5>1. n - b \in 1 .. x /\ n = b + (n - b)
          BY <2>3, <3>3
        <5>. QED  BY Zenon, <5>1
      <4>2. src(c) = <<"frame", A, m>> /\ m \in 1 .. a
        BY <2>3, <3>3, <4>1
      <4>3. Queue(B)'[n].buf = Queue(A)[m].buf
        BY <2>3, <3>3, <4>1
      <4>4. <<"frame", A, m>> \in Cells /\ Holds(<<"frame", A, m>>) = Queue(A)[m].buf
        <5>1. m \in 1 .. Len(Queue(A))
          BY Zenon, <4>2
        <5>. QED  BY <5>1, CellFacts DEF CellDesc
      <4>. HIDE DEF src
      <4>. QED  BY Zenon, <3>1, <3>3, <4>2, <4>3, <4>4
    <3>4. CASE k # A /\ ~(k = B /\ n > b)
      <4>1. src(c) = c
        BY Zenon, <2>3, <3>4
      <4>2. n \in 1 .. Len(Queue(k)) /\ Queue(k)'[n].buf = Queue(k)[n].buf
        BY <2>3, <3>4
      <4>3. <<"frame", k, n>> \in Cells /\ Holds(<<"frame", k, n>>) = Queue(k)[n].buf
        BY <4>2, CellFacts DEF CellDesc
      <4>. HIDE DEF src
      <4>. QED  BY Zenon, <2>3, <3>1, <4>1, <4>2, <4>3
    <3>. QED  BY Zenon, <3>2, <3>3, <3>4
  <2>. QED  BY Zenon, <2>1, <2>2, <2>3, CellFactsNext DEF CellDesc
<1>2. ASSUME NEW c \in Cells'
      PROVE  \/ \E n \in Nat : c = <<"frame", A, n>> /\ src(c) = <<"frame", A, n + x>> /\ n > 0
             \/ \E n \in 1 .. x : c = <<"frame", B, b + n>> /\ src(c) = <<"frame", A, n>>
             \/ src(c) = c /\ \A n : c # <<"frame", A, n>>
  <2>1. ASSUME NEW q \in Rings, NEW s \in Slots, c = <<"slot", q, s>>
        PROVE  src(c) = c /\ \A n : c # <<"frame", A, n>>
    BY Zenon, <2>1
  <2>2. ASSUME NEW n \in 1 .. Len(freeBufs'), c = <<"free", 0, n>>
        PROVE  src(c) = c /\ \A m : c # <<"frame", A, m>>
    BY Zenon, <2>2
  <2>3. ASSUME NEW k \in Queues, NEW n \in 1 .. Len(Queue(k)'), c = <<"frame", k, n>>, k # A,
               ~(k = B /\ n > b)
        PROVE  src(c) = c /\ \A m : c # <<"frame", A, m>>
    BY Zenon, <2>3
  <2>4. ASSUME NEW n \in 1 .. Len(Queue(A)'), c = <<"frame", A, n>>
        PROVE  n \in Nat /\ n > 0 /\ src(c) = <<"frame", A, n + x>>
    BY <2>4
  <2>5. ASSUME NEW n \in 1 .. Len(Queue(B)'), c = <<"frame", B, n>>, n > b
        PROVE  n - b \in 1 .. x /\ n = b + (n - b) /\ src(c) = <<"frame", A, n - b>>
    BY <2>5
  <2>. HIDE DEF src
  <2>. QED  BY <2>1, <2>2, <2>3, <2>4, <2>5, CellFactsNext DEF CellDesc
<1>. HIDE DEF src
<1>3. ASSUME NEW c \in Cells', NEW d \in Cells', src(c) = src(d) PROVE c = d
  <2>1. CASE \E n \in Nat : c = <<"frame", A, n>> /\ src(c) = <<"frame", A, n + x>> /\ n > 0
    BY <1>2, <1>3, <2>1
  <2>2. CASE \E n \in 1 .. x : c = <<"frame", B, b + n>> /\ src(c) = <<"frame", A, n>>
    <3>1. PICK n \in 1 .. x : c = <<"frame", B, b + n>> /\ src(c) = <<"frame", A, n>>
      BY Zenon, <2>2
    <3>2. ~ \E m \in Nat : d = <<"frame", A, m>> /\ src(d) = <<"frame", A, m + x>> /\ m > 0
      BY <1>3, <3>1
    <3>3. ~ (src(d) = d /\ \A m : d # <<"frame", A, m>>)
      BY Zenon, <1>3, <3>1
    <3>4. PICK m \in 1 .. x : d = <<"frame", B, b + m>> /\ src(d) = <<"frame", A, m>>
      BY Zenon, <1>2, <3>2, <3>3
    <3>5. n = m
      BY <1>3, <3>1, <3>4
    <3>. QED  BY Zenon, <3>1, <3>4, <3>5
  <2>3. CASE src(c) = c /\ \A n : c # <<"frame", A, n>>
    BY Zenon, <1>2, <1>3, <2>3
  <2>. QED  BY Zenon, <1>2, <2>1, <2>2, <2>3
<1>4. ASSUME NEW k \in Queues, NEW n \in 1 .. Len(Queue(k)')
      PROVE  \E j \in Queues : \E m \in 1 .. Len(Queue(j)) : Queue(k)'[n].buf = Queue(j)[m].buf
  <2>1. CASE k = A
    <3>1. n \in 1 .. a - x /\ n + x \in 1 .. Len(Queue(A))
      BY <2>1
    <3>. QED  BY Zenon, <2>1, <3>1
  <2>2. CASE k = B /\ n > b
    <3>1. n - b \in 1 .. x /\ n - b \in 1 .. Len(Queue(A)) /\ b + (n - b) = n
      BY <2>2
    <3>2. PICK m \in 1 .. x : m \in 1 .. Len(Queue(A)) /\ b + m = n
      BY Zenon, <3>1
    <3>3. Queue(B)'[n].buf = Queue(A)[m].buf
      BY <2>2, <3>2
    <3>. QED  BY Zenon, <2>2, <3>2, <3>3
  <2>3. CASE k # A /\ ~(k = B /\ n > b)
    <3>1. n \in 1 .. Len(Queue(k)) /\ Queue(k)'[n].buf = Queue(k)[n].buf
      BY <2>3
    <3>. QED  BY Zenon, <3>1
  <2>. QED  BY Zenon, <2>1, <2>2, <2>3
<1>5. Pool!PoolNext
  BY Zenon, <1>4, PoolLose
<1>. QED  BY Zenon, <1>1, <1>3, <1>5 DEF BufferExclusive, HandedOver

(* Where the frames do go to the end of queue B, no buffer is lost.         *)
LEMMA PrefixKeeps ==
  ASSUME NEW A \in Queues, NEW B \in Queues, A # B,
         NEW a \in Nat, NEW b \in Nat, NEW x \in 0 .. a, Prefix(A, B, a, b, x),
         Len(Queue(B)') = b + x
  PROVE  NoneLost
<1>. USE DEF Prefix
<1>1. ASSUME NEW k \in Queues, NEW n \in 1 .. Len(Queue(k))
      PROVE  \E j \in Queues : \E m \in 1 .. Len(Queue(j)') : Queue(k)[n].buf = Queue(j)'[m].buf
  <2>1. CASE k = A /\ n > x
    <3>1. n - x \in 1 .. a - x /\ n - x \in 1 .. Len(Queue(A)') /\ (n - x) + x = n
      BY <2>1
    <3>2. PICK m \in 1 .. a - x : m \in 1 .. Len(Queue(A)') /\ m + x = n
      BY Zenon, <3>1
    <3>3. Queue(A)[n].buf = Queue(A)'[m].buf
      BY Zenon, <3>2
    <3>. QED  BY Zenon, <2>1, <3>2, <3>3
  <2>2. CASE k = A /\ ~(n > x)
    <3>1. n \in 1 .. x /\ b + n \in 1 .. Len(Queue(B)')
      BY <2>2
    <3>2. Queue(A)[n].buf = Queue(B)'[b + n].buf
      <4>1. CASE Queue(B)' = Queue(B)
        BY <3>1, <4>1
      <4>. QED  BY Zenon, <3>1, <4>1
    <3>. QED  BY Zenon, <2>2, <3>1, <3>2
  <2>3. CASE k = B
    <3>1. n \in 1 .. b /\ n \in 1 .. Len(Queue(B)')
      BY <2>3
    <3>. QED  BY Zenon, <2>3, <3>1
  <2>4. CASE k # A /\ k # B
    BY Zenon, <2>4
  <2>. QED  BY Zenon, <2>1, <2>2, <2>3, <2>4
<1>. QED  BY Zenon, <1>1, PoolKeeps

(* Steps that satisfy Release keep buffers exclusive: x and y trade places  *)
(* between the frame, the slot and the end of the free list.                *)
LEMMA ExclusiveRelease ==
  ASSUME BufferExclusive,
         NEW A \in Queues, NEW a \in Nat, NEW N \in Nat, NEW g \in Rings, NEW h \in Slots,
         NEW x \in Cells, NEW y \in Cells,
         \/ x = <<"frame", A, 1>> /\ y = <<"slot", g, h>>
         \/ x = <<"slot", g, h>> /\ y = <<"frame", A, 1>>,
         Release(A, a, N, g, h, x, y)
  PROVE  PassedOn
<1>1. Pool!PoolNext /\ NoneLost
  BY Zenon, PoolRelease
<1>5. \A q \in Rings, s \in Slots :
         slot'[q][s] = IF q = g /\ s = h THEN Holds(y) ELSE slot[q][s]
  BY Zenon DEF Release
<1>6. /\ N = Len(freeBufs) /\ Len(freeBufs') = N + 1 /\ freeBufs'[N + 1] = Holds(x)
      /\ \A n \in 1 .. N : freeBufs'[n] = freeBufs[n]
  BY Zenon DEF Release
<1>7. /\ a = Len(Queue(A)) /\ a > 0 /\ Len(Queue(A)') = a - 1
      /\ \A n \in 1 .. a - 1 : Queue(A)'[n].buf = Queue(A)[n + 1].buf
      /\ \A k \in Queues : k # A => Queue(k)' = Queue(k)
  BY Zenon DEF Release
<1>8. x \in {<<"frame", A, 1>>, <<"slot", g, h>>} /\ y \in {<<"frame", A, 1>>, <<"slot", g, h>>}
  OBVIOUS
<1>. DEFINE src(c) == IF c[1] = "frame" /\ c[2] = A THEN <<"frame", A, c[3] + 1>>
                      ELSE IF c = <<"free", 0, N + 1>> THEN x
                      ELSE IF c = <<"slot", g, h>> THEN y ELSE c
<1>2. ASSUME NEW c \in Cells'
      PROVE  /\ src(c) \in Cells /\ Holds(c)' = Holds(src(c))
             /\ \/ \E n \in Nat : c = <<"frame", A, n>> /\ src(c) = <<"frame", A, n + 1>> /\ n > 0
                \/ c = <<"free", 0, N + 1>> /\ src(c) = x
                \/ c = <<"slot", g, h>> /\ src(c) = y
                \/ /\ src(c) = c /\ c # <<"slot", g, h>>
                   /\ \A n : c # <<"frame", A, n>>
  <2>1. ASSUME NEW q \in Rings, NEW s \in Slots, c = <<"slot", q, s>>
        PROVE  /\ Holds(c)' = Holds(src(c)) /\ src(c) \in Cells
               /\ \/ c = <<"slot", g, h>> /\ src(c) = y
                  \/ /\ src(c) = c /\ c # <<"slot", g, h>>
                     /\ \A n : c # <<"frame", A, n>>
    <3>1. CASE q = g /\ s = h
      <4>1. c = <<"slot", g, h>> /\ src(c) = y
        BY Zenon, <2>1, <3>1
      <4>2. Holds(c)' = Holds(y)
        BY Zenon, <1>5, <2>1, <3>1, HoldFactsNext DEF HoldDesc
      <4>. HIDE DEF src
      <4>. QED  BY Zenon, <4>1, <4>2
    <3>2. CASE ~(q = g /\ s = h)
      <4>1. src(c) = c /\ c # <<"slot", g, h>> /\ \A n : c # <<"frame", A, n>>
        BY Zenon, <2>1, <3>2
      <4>2. Holds(c)' = slot[q][s]
        BY <1>5, <2>1, <3>2, HoldFactsNext DEF HoldDesc
      <4>3. Holds(c) = slot[q][s] /\ c \in Cells
        <5>1. Holds(c) = slot[q][s]
          BY Zenon, <2>1, HoldFacts DEF HoldDesc
        <5>2. c \in Cells
          BY Zenon, <2>1, CellFacts DEF CellDesc
        <5>. QED  BY Zenon, <5>1, <5>2
      <4>. HIDE DEF src
      <4>. QED  BY Zenon, <4>1, <4>2, <4>3
    <3>. QED  BY Zenon, <3>1, <3>2
  <2>2. ASSUME NEW n \in 1 .. N + 1, c = <<"free", 0, n>>
        PROVE  /\ Holds(c)' = Holds(src(c)) /\ src(c) \in Cells
               /\ \/ c = <<"free", 0, N + 1>> /\ src(c) = x
                  \/ /\ src(c) = c /\ c # <<"slot", g, h>>
                     /\ \A m : c # <<"frame", A, m>>
    <3>1. CASE n = N + 1
      <4>1. c = <<"free", 0, N + 1>> /\ src(c) = x
        BY Zenon, <2>2, <3>1
      <4>2. Holds(c)' = Holds(x)
        BY Zenon, <1>6, <2>2, <3>1, HoldFactsNext DEF HoldDesc
      <4>. HIDE DEF src
      <4>. QED  BY Zenon, <4>1, <4>2
    <3>2. CASE n # N + 1
      <4>1. src(c) = c /\ c # <<"slot", g, h>> /\ \A m : c # <<"frame", A, m>>
        BY Zenon, <2>2, <3>2
      <4>2. n \in 1 .. N
        BY <3>2
      <4>3. Holds(c)' = freeBufs[n]
        BY Zenon, <1>6, <2>2, <4>2, HoldFactsNext DEF HoldDesc
      <4>4. Holds(c) = freeBufs[n] /\ c \in Cells
        <5>1. Holds(c) = freeBufs[n]
          BY Zenon, <1>6, <2>2, <4>2, HoldFacts DEF HoldDesc
        <5>2. c \in Cells
          BY Zenon, <1>6, <2>2, <4>2, CellFacts DEF CellDesc
        <5>. QED  BY Zenon, <5>1, <5>2
      <4>. HIDE DEF src
      <4>. QED  BY Zenon, <4>1, <4>3, <4>4
    <3>. QED  BY Zenon, <3>1, <3>2
  <2>3. ASSUME NEW k \in Queues, NEW n \in 1 .. Len(Queue(k)'), c = <<"frame", k, n>>
        PROVE  /\ Holds(c)' = Holds(src(c)) /\ src(c) \in Cells
               /\ \/ n \in Nat /\ c = <<"frame", A, n>> /\ src(c) = <<"frame", A, n + 1>> /\ n > 0
                  \/ /\ src(c) = c /\ c # <<"slot", g, h>>
                     /\ \A m : c # <<"frame", A, m>>
    <3>1. Holds(c)' = Queue(k)'[n].buf
      BY Zenon, <2>3, HoldFactsNext DEF HoldDesc
    <3>2. CASE k = A
      <4>1. n \in 1 .. a - 1 /\ n \in Nat /\ n > 0
        BY <1>7, <2>3, <3>2
      <4>2. PICK m \in 1 .. a : m = n + 1
        BY <4>1
      <4>3. c = <<"frame", A, n>> /\ src(c) = <<"frame", A, m>>
        BY Zenon, <2>3, <3>2, <4>2
      <4>4. Holds(<<"frame", A, m>>) = Queue(A)[m].buf /\ <<"frame", A, m>> \in Cells
        <5>1. Holds(<<"frame", A, m>>) = Queue(A)[m].buf
          BY <1>7, <4>2, HoldFacts DEF HoldDesc
        <5>2. <<"frame", A, m>> \in Cells
          BY Zenon, <1>7, <4>2, CellFacts DEF CellDesc
        <5>. QED  BY Zenon, <5>1, <5>2
      <4>. HIDE DEF src
      <4>5. Queue(A)'[n].buf = Queue(A)[m].buf
        BY Zenon, <1>7, <4>1, <4>2
      <4>. QED  BY Zenon, <3>1, <3>2, <4>5, <4>1, <4>2, <4>3, <4>4
    <3>3. CASE k # A
      <4>1. src(c) = c /\ c # <<"slot", g, h>> /\ \A m : c # <<"frame", A, m>>
        BY Zenon, <2>3, <3>3
      <4>2. Queue(k)' = Queue(k)
        BY Zenon, <1>7, <3>3
      <4>3. Holds(c) = Queue(k)[n].buf /\ c \in Cells
        <5>1. Holds(c) = Queue(k)[n].buf
          BY Zenon, <2>3, <4>2, HoldFacts DEF HoldDesc
        <5>2. c \in Cells
          BY Zenon, <2>3, <4>2, CellFacts DEF CellDesc
        <5>. QED  BY Zenon, <5>1, <5>2
      <4>. HIDE DEF src
      <4>. QED  BY Zenon, <3>1, <4>1, <4>2, <4>3
    <3>. QED  BY Zenon, <3>2, <3>3
  <2>. HIDE DEF src
  <2>4. \/ \E q \in Rings, s \in Slots : c = <<"slot", q, s>>
        \/ \E n \in 1 .. N + 1 : c = <<"free", 0, n>>
        \/ \E k \in Queues : \E n \in 1 .. Len(Queue(k)') : c = <<"frame", k, n>>
    BY Zenon, <1>6, CellFactsNext DEF CellDesc
  <2>. QED  BY Zenon, <2>1, <2>2, <2>3, <2>4
<1>. HIDE DEF src
<1>3. ASSUME NEW c \in Cells', NEW d \in Cells', src(c) = src(d) PROVE c = d
  <2>. DEFINE Moved(e) == \E n \in Nat : e = <<"frame", A, n>> /\ src(e) = <<"frame", A, n + 1>> /\ n > 0
              New(e) == e = <<"free", 0, N + 1>> /\ src(e) = x
              Swapped(e) == e = <<"slot", g, h>> /\ src(e) = y
              Same(e) == src(e) = e /\ e # <<"slot", g, h>> /\ \A n : e # <<"frame", A, n>>
  <2>1. /\ Moved(c) \/ New(c) \/ Swapped(c) \/ Same(c)
        /\ Moved(d) \/ New(d) \/ Swapped(d) \/ Same(d)
    BY Zenon, <1>2
  <2>2. ASSUME NEW e, Moved(e) PROVE ~(src(e) = x \/ src(e) = y)
    BY <1>8, <2>2
  <2>3. ASSUME NEW e, Same(e) PROVE ~(src(e) = x \/ src(e) = y)
    BY Zenon, <1>8, <2>3
  <2>4. ASSUME NEW e, NEW f, Moved(e), Moved(f), src(e) = src(f) PROVE e = f
    BY <2>4
  <2>5. ASSUME NEW e, NEW f, Moved(e), Same(f) PROVE src(e) # src(f)
    BY Zenon, <2>5
  <2>6. x # y
    OBVIOUS
  <2>7. ASSUME NEW e, NEW f, Same(e), Same(f), src(e) = src(f) PROVE e = f
    BY Zenon, <2>7
  <2>8. /\ \A e : New(e) => e = <<"free", 0, N + 1>> /\ src(e) = x
        /\ \A e : Swapped(e) => e = <<"slot", g, h>> /\ src(e) = y
    OBVIOUS
  <2>. HIDE DEF Moved, New, Swapped, Same
  <2>9. CASE Moved(c)
    BY Zenon, <1>3, <2>1, <2>2, <2>4, <2>5, <2>8, <2>9
  <2>10. CASE Same(c)
    BY Zenon, <1>3, <2>1, <2>3, <2>5, <2>7, <2>8, <2>10
  <2>11. CASE New(c)
    BY <1>3, <2>1, <2>2, <2>3, <2>6, <2>8, <2>11
  <2>12. CASE Swapped(c)
    <3>1. ~(Moved(d) \/ Same(d) \/ New(d))
      BY Zenon, <1>3, <2>2, <2>3, <2>6, <2>8, <2>12
    <3>. QED  BY <2>1, <2>8, <2>12, <3>1
  <2>. QED  BY Zenon, <2>1, <2>9, <2>10, <2>11, <2>12
<1>4. BufferExclusive'
  BY <1>2, <1>3 DEF BufferExclusive
<1>. QED  BY Zenon, <1>1, <1>4 DEF HandedOver, PassedOn

-----------------------------------------------------------------------------
(* netmap hands out each buffer once.                                       *)
LEMMA ExclusiveInit == Init => BufferExclusive
<1>. SUFFICES ASSUME Init PROVE BufferExclusive
  OBVIOUS
<1>1. slot = InitSlots /\ freeBufs = InitFree /\ inRing = <<>> /\ batch = <<>>
      /\ \A w \in Workers : work[w] = <<>> /\ outRing[w] = <<>>
  BY Zenon DEF Init
<1>2. ASSUME NEW k \in Queues PROVE Queue(k) = <<>>
  <2>1. \/ k = <<"in", 0>> \/ k = <<"batch", 0>>
        \/ \E w \in Workers : k = <<"work", w>> \/ k = <<"out", w>>
    BY Zenon, QueueFacts DEF QueueDesc
  <2>. QED  BY Zenon, <1>1, <2>1, QueueFacts DEF QueueDesc
<1>3. ASSUME NEW c \in Cells
      PROVE  \/ \E q \in Rings, s \in Slots : c = <<"slot", q, s>> /\ Holds(c) = InitSlots[q][s]
             \/ \E n \in 1 .. Len(InitFree) : c = <<"free", 0, n>> /\ Holds(c) = InitFree[n]
  <2>1. \A k \in Queues : 1 .. Len(Queue(k)) = {}
    BY <1>2
  <2>. QED  BY <1>1, <2>1, CellFacts DEF CellDesc
<1>4. /\ \A m, n \in 1 .. Len(InitFree) : InitFree[m] = InitFree[n] => m = n
      /\ \A q, r \in Rings, s, t \in Slots : InitSlots[q][s] = InitSlots[r][t] => q = r /\ s = t
      /\ \A q \in Rings, s \in Slots, n \in 1 .. Len(InitFree) : InitSlots[q][s] # InitFree[n]
  BY BuffersAssumption DEF IsInjective
<1>5. ASSUME NEW c \in Cells, NEW d \in Cells, Holds(c) = Holds(d) PROVE c = d
  <2>1. CASE \E q \in Rings, s \in Slots : c = <<"slot", q, s>> /\ Holds(c) = InitSlots[q][s]
    BY <1>3, <1>4, <1>5, <2>1
  <2>2. CASE \E n \in 1 .. Len(InitFree) : c = <<"free", 0, n>> /\ Holds(c) = InitFree[n]
    BY <1>3, <1>4, <1>5, <2>2
  <2>. QED  BY Zenon, <1>3, <2>1, <2>2
<1>. QED  BY Zenon, <1>5 DEF BufferExclusive

(* Steps that move no buffer.                                               *)
LEMMA ExclusiveSame ==
  ASSUME BufferExclusive, UNCHANGED <<slot, freeBufs, inRing, batch, work, outRing>>
  PROVE  PassedOn
<1>1. \A k \in Queues : Queue(k)' = Queue(k)
  BY QueueFacts, QueueFactsNext DEF QueueDesc
<1>2. ASSUME NEW c \in Cells' PROVE c \in Cells /\ Holds(c)' = Holds(c)
  BY <1>1, CellFacts, CellFactsNext DEF CellDesc
<1>3. Pool!PoolNext
  BY Zenon, <1>1, PoolLose
<1>4. NoneLost
  BY Zenon, <1>1, PoolKeeps
<1>. QED  BY Zenon, <1>2, <1>3, <1>4 DEF BufferExclusive, HandedOver, PassedOn

(* A new batch starts empty.                                                *)
LEMMA ExclusiveRxBatch ==
  ASSUME BufferExclusive, RxBatch
  PROVE  HandedOver
<1>1. /\ slot' = slot /\ freeBufs' = freeBufs /\ inRing' = inRing /\ work' = work
      /\ outRing' = outRing /\ batch' = <<>>
  BY Zenon DEF RxBatch, rings
<1>2. \A k \in Queues : Queue(k)' = <<>> \/ Queue(k)' = Queue(k)
  BY <1>1, QueueFacts, QueueFactsNext DEF QueueDesc
<1>3. \A k \in Queues : \A n \in 1 .. Len(Queue(k)') : Queue(k)' = Queue(k)
  BY <1>2
<1>4. ASSUME NEW c \in Cells' PROVE c \in Cells /\ Holds(c)' = Holds(c)
  BY <1>1, <1>3, CellFacts, CellFactsNext DEF CellDesc
<1>5. Pool!PoolNext
  BY Zenon, <1>1, <1>3, PoolLose
<1>. QED  BY Zenon, <1>4, <1>5 DEF BufferExclusive, HandedOver

(* try_enqueue_bulk moves the whole batch behind inRing, or leaves inRing   *)
(* alone.                                                                   *)
LEMMA ExclusiveRxEnqueue ==
  ASSUME TypeOK, BufferExclusive, RxEnqueue
  PROVE  HandedOver /\ (Len(inRing) + Len(batch) <= RING_SIZE => NoneLost)
<1>. DEFINE A == <<"batch", 0>>
            B == <<"in", 0>>
            a == Len(batch)
            x == Len(batch)
            b == Len(inRing)
<1>1. batch \in Seq(Frame) /\ inRing \in Seq(Frame) /\ a \in Nat /\ x \in Nat /\ b \in Nat
  BY DEF TypeOK, QueuesOK
<1>2. /\ slot' = slot /\ freeBufs' = freeBufs /\ work' = work /\ outRing' = outRing
      /\ batch' = <<>> /\ (inRing' = inRing \o batch \/ inRing' = inRing)
  BY Zenon DEF RxEnqueue, rings
<1>3. /\ A \in Queues /\ B \in Queues /\ Queue(A) = batch /\ Queue(A)' = batch'
      /\ Queue(B) = inRing /\ Queue(B)' = inRing' /\ A # B
  BY Zenon, QueueFacts, QueueFactsNext DEF QueueDesc
<1>4. \A k \in Queues : k # A /\ k # B => Queue(k)' = Queue(k)
  BY <1>2, QueueFacts, QueueFactsNext DEF QueueDesc
<1>5. \/ Queue(B)' = Queue(B)
      \/ /\ Len(Queue(B)') = b + x
         /\ \A n \in 1 .. b : Queue(B)'[n].buf = Queue(B)[n].buf
         /\ \A n \in 1 .. x : Queue(B)'[b + n].buf = Queue(A)[n].buf
  BY <1>1, <1>2, <1>3
<1>6. Len(Queue(A)') = a - x /\ x \in 0 .. a /\ 1 .. a - x = {}
  BY <1>1, <1>2, <1>3
<1>7. a = Len(Queue(A)) /\ b = Len(Queue(B))
  BY Zenon, <1>3
<1>8. ASSUME Len(inRing) + Len(batch) <= RING_SIZE PROVE Len(Queue(B)') = b + x
  <2>1. inRing' = inRing \o batch
    BY Zenon, <1>8 DEF RxEnqueue
  <2>. QED  BY <1>1, <1>3, <2>1
<1>. HIDE DEF A, B, a, x, b
<1>9. \A n \in 1 .. a - x : Queue(A)'[n].buf = Queue(A)[n + x].buf
  BY Zenon, <1>6
<1>10. Prefix(A, B, a, b, x)
  BY Zenon, <1>2, <1>4, <1>5, <1>6, <1>7, <1>9 DEF Prefix
<1>. QED  BY Zenon, <1>1, <1>3, <1>6, <1>10, <1>8, ExclusivePrefix, PrefixKeeps

(* try_dequeue_bulk moves a prefix of inRing to a worker.                   *)
LEMMA ExclusiveDequeue ==
  ASSUME TypeOK, BufferExclusive, NEW w \in Workers, WorkerDequeue(w)
  PROVE  PassedOn
<1>. DEFINE A == <<"in", 0>>
            B == <<"work", w>>
            a == Len(inRing)
            b == Len(work[w])
<1>1. inRing \in Seq(Frame) /\ Len(inRing) \in Nat /\ work \in [Workers -> Seq(Frame)]
  BY DEF TypeOK, QueuesOK
<1>2. PICK x \in 1 .. Min({WORKER_BULK_SIZE, Len(inRing)}) :
           /\ work' = [work EXCEPT ![w] = SubSeq(inRing, 1, x)]
           /\ inRing' = SubSeq(inRing, x + 1, Len(inRing))
  BY Zenon DEF WorkerDequeue
<1>3. x \in 0 .. a
  <2>1. /\ Min({WORKER_BULK_SIZE, Len(inRing)}) \in Nat
        /\ Min({WORKER_BULK_SIZE, Len(inRing)}) <= Len(inRing)
    BY Zenon, <1>1, MinPairFacts, SizesAssumption
  <2>. QED  BY <1>1, <2>1
<1>4. /\ slot' = slot /\ freeBufs' = freeBufs /\ batch' = batch /\ outRing' = outRing
      /\ work[w] = <<>>
  BY Zenon DEF WorkerDequeue, rings, manager
<1>5. /\ A \in Queues /\ B \in Queues /\ Queue(A) = inRing /\ Queue(A)' = inRing'
      /\ Queue(B) = work[w] /\ Queue(B)' = work'[w] /\ A # B
  BY Zenon, QueueFacts, QueueFactsNext DEF QueueDesc
<1>6. \A k \in Queues : k # A /\ k # B => Queue(k)' = Queue(k)
  <2>1. \A v \in Workers : v # w => work'[v] = work[v]
    BY Zenon, <1>1, <1>2
  <2>. QED  BY <1>4, <2>1, QueueFacts, QueueFactsNext DEF QueueDesc
<1>7. /\ Len(Queue(A)') = a - x
      /\ \A n \in 1 .. a - x : Queue(A)'[n].buf = Queue(A)[n + x].buf
  BY <1>1, <1>2, <1>3, <1>5, SubSeqFacts
<1>8. /\ b = 0 /\ Len(Queue(B)') = b + x
      /\ \A n \in 1 .. b : Queue(B)'[n].buf = Queue(B)[n].buf
      /\ \A n \in 1 .. x : Queue(B)'[b + n].buf = Queue(A)[n].buf
  <2>1. work'[w] = SubSeq(inRing, 1, x) /\ b = 0
    BY Zenon, <1>1, <1>2, <1>4
  <2>2. /\ Len(SubSeq(inRing, 1, x)) = x
        /\ \A n \in 1 .. x : SubSeq(inRing, 1, x)[n] = inRing[n]
    BY Zenon, <1>1, <1>3, SubSeqFacts
  <2>3. \A n \in 1 .. x : b + n = n
    BY <2>1
  <2>4. b + x = x /\ 1 .. b = {}
    BY <2>1
  <2>. HIDE DEF A, B, b
  <2>. QED  BY Zenon, <1>5, <2>1, <2>2, <2>3, <2>4
<1>9. a = Len(Queue(A)) /\ b = Len(Queue(B)) /\ a \in Nat /\ b \in Nat
  BY <1>1, <1>5, <1>8
<1>. HIDE DEF A, B, a, b
<1>10. Prefix(A, B, a, b, x)
  BY Zenon, <1>4, <1>6, <1>7, <1>8, <1>9 DEF Prefix
<1>. QED  BY Zenon, <1>3, <1>5, <1>8, <1>9, <1>10, ExclusivePrefix, PrefixKeeps DEF PassedOn

(* A worker lets go of its frame: it drops it, or enqueues g in its place.  *)
LEMMA ExclusiveHandle ==
  ASSUME TypeOK, BufferExclusive, NEW w \in Workers, work[w] # <<>>,
         UNCHANGED <<slot, freeBufs, inRing, batch>>,
         work' = [work EXCEPT ![w] = Tail(work[w])],
         \/ outRing' = outRing
         \/ \E g : /\ g.buf = CurFrame(w).buf
                  /\ outRing' = [outRing EXCEPT ![w] = Append(outRing[w], g)]
  PROVE  HandedOver /\ (outRing' # outRing => NoneLost)
<1>. DEFINE A == <<"work", w>>
            B == <<"out", w>>
            a == Len(work[w])
            b == Len(outRing[w])
<1>1. /\ work[w] \in Seq(Frame) /\ outRing[w] \in Seq(Frame) /\ a \in Nat \ {0} /\ b \in Nat
      /\ work \in [Workers -> Seq(Frame)] /\ outRing \in [Workers -> Seq(Frame)]
  BY SeqFacts DEF TypeOK, QueuesOK
<1>2. /\ A \in Queues /\ B \in Queues /\ Queue(A) = work[w] /\ Queue(A)' = work'[w]
      /\ Queue(B) = outRing[w] /\ Queue(B)' = outRing'[w] /\ A # B
  BY Zenon, QueueFacts, QueueFactsNext DEF QueueDesc
<1>3. \A k \in Queues : k # A /\ k # B => Queue(k)' = Queue(k)
  <2>1. \A v \in Workers : v # w => work'[v] = work[v] /\ outRing'[v] = outRing[v]
    BY Zenon, <1>1
  <2>2. inRing' = inRing /\ batch' = batch
    OBVIOUS
  <2>3. ASSUME NEW v \in Workers, v # w
        PROVE  /\ Queue(<<"work", v>>)' = Queue(<<"work", v>>)
               /\ Queue(<<"out", v>>)' = Queue(<<"out", v>>)
    BY <2>1, <2>3, QueueFacts, QueueFactsNext DEF QueueDesc
  <2>4. /\ Queue(<<"in", 0>>)' = Queue(<<"in", 0>>)
        /\ Queue(<<"batch", 0>>)' = Queue(<<"batch", 0>>)
    BY Zenon, <2>2, QueueFacts, QueueFactsNext DEF QueueDesc
  <2>5. ASSUME NEW k \in Queues, k # A, k # B
        PROVE  \/ k = <<"in", 0>> \/ k = <<"batch", 0>>
               \/ \E v \in Workers : v # w /\ (k = <<"work", v>> \/ k = <<"out", v>>)
    BY Zenon, <2>5, QueueFacts DEF QueueDesc
  <2>. QED  BY Zenon, <2>3, <2>4, <2>5
<1>4. /\ Len(Queue(A)') = a - 1
      /\ \A n \in 1 .. a - 1 : Queue(A)'[n].buf = Queue(A)[n + 1].buf
  <2>1. work'[w] = Tail(work[w])
    BY Zenon, <1>1
  <2>2. Len(Tail(work[w])) = a - 1 /\ \A n \in 1 .. a - 1 : Tail(work[w])[n] = work[w][n + 1]
    BY <1>1, SeqFacts
  <2>. QED  BY Zenon, <1>2, <2>1, <2>2
<1>5. \/ Queue(B)' = Queue(B)
      \/ /\ Len(Queue(B)') = b + 1
         /\ \A n \in 1 .. b : Queue(B)'[n].buf = Queue(B)[n].buf
         /\ \A n \in 1 .. 1 : Queue(B)'[b + n].buf = Queue(A)[n].buf
  <2>1. ASSUME NEW g, g.buf = CurFrame(w).buf, outRing' = [outRing EXCEPT ![w] = Append(outRing[w], g)]
        PROVE  /\ Len(Queue(B)') = b + 1
               /\ \A n \in 1 .. b : Queue(B)'[n].buf = Queue(B)[n].buf
               /\ \A n \in 1 .. 1 : Queue(B)'[b + n].buf = Queue(A)[n].buf
    <3>1. outRing'[w] = Append(outRing[w], g)
      BY Zenon, <1>1, <2>1
    <3>2. /\ Len(outRing'[w]) = b + 1 /\ outRing'[w][b + 1] = g
          /\ \A n \in 1 .. b : outRing'[w][n] = outRing[w][n]
      BY <1>1, <3>1
    <3>3. \A n \in 1 .. 1 : n = 1 /\ g.buf = work[w][n].buf
      BY <2>1, CurFacts
    <3>. HIDE DEF b
    <3>. QED  BY Zenon, <1>2, <3>2, <3>3
  <2>. QED  BY Zenon, <1>2, <2>1
<1>6. a = Len(Queue(A)) /\ b = Len(Queue(B)) /\ 1 \in 0 .. a
  BY <1>1, <1>2
<1>7. ASSUME outRing' # outRing PROVE Len(Queue(B)') = b + 1
  <2>1. PICK g : outRing' = [outRing EXCEPT ![w] = Append(outRing[w], g)]
    BY Zenon, <1>7
  <2>2. outRing'[w] = Append(outRing[w], g)
    BY Zenon, <1>1, <2>1
  <2>. QED  BY <1>1, <1>2, <2>2
<1>. HIDE DEF A, B, a, b
<1>8. Prefix(A, B, a, b, 1)
  BY Zenon, <1>3, <1>4, <1>5, <1>6 DEF Prefix
<1>. QED  BY Zenon, <1>1, <1>2, <1>6, <1>7, <1>8, ExclusivePrefix, PrefixKeeps

(* Worker::process keeps buffers exclusive.                                 *)
LEMMA ExclusiveWorker ==
  ASSUME TypeOK, BufferExclusive, NEW w \in Workers, Worker(w)
  PROVE  HandedOver
<1>1. CASE WorkerDequeue(w)
  BY Zenon, <1>1, ExclusiveDequeue DEF PassedOn
<1>2. CASE WorkerDrop(w)
  BY Zenon, <1>2, ExclusiveHandle DEF WorkerDrop, rings, manager
<1>3. CASE WorkerFatal(w)
  BY Zenon, <1>3, ExclusiveSame DEF PassedOn, WorkerFatal, Die, rings, manager
<1>4. ASSUME NEW g, work[w] # <<>>, g.buf = CurFrame(w).buf, Enqueue(w, g),
             UNCHANGED <<slot, freeBufs, inRing, batch>>
      PROVE  HandedOver
  BY Zenon, <1>4, ExclusiveHandle DEF Enqueue
<1>5. CASE WorkerForward(w)
  BY Zenon, <1>4, <1>5, CurFacts DEF WorkerForward, Routable, Frame, rings, manager
<1>6. CASE WorkerNoMac(w)
  BY Zenon, <1>4, <1>6, CurFacts DEF WorkerNoMac, Routable, Frame, rings, manager
<1>7. CASE WorkerArp(w)
  BY Zenon, <1>4, <1>7, CurFacts DEF WorkerArp, Frame, rings, manager
<1>8. CASE WorkerUnsupported(w)
  BY Zenon, <1>4, <1>8, CurFacts DEF WorkerUnsupported, Frame, rings, manager
<1>. QED  BY Zenon, <1>1, <1>2, <1>3, <1>5, <1>6, <1>7, <1>8 DEF Worker

(* What happens to the queues when the manager takes a frame of worker w.   *)
LEMMA OutShift ==
  ASSUME TypeOK, NEW w \in Workers, outRing[w] # <<>>, UNCHANGED <<inRing, work, batch>>,
         outRing' = [outRing EXCEPT ![w] = Tail(outRing[w])]
  PROVE  /\ <<"out", w>> \in Queues /\ Queue(<<"out", w>>) = outRing[w]
         /\ Len(outRing[w]) \in Nat /\ Len(outRing[w]) > 0
         /\ Len(Queue(<<"out", w>>)') = Len(outRing[w]) - 1
         /\ \A n \in 1 .. Len(outRing[w]) - 1 :
               Queue(<<"out", w>>)'[n].buf = Queue(<<"out", w>>)[n + 1].buf
         /\ \A k \in Queues : k # <<"out", w>> => Queue(k)' = Queue(k)
<1>1. /\ outRing[w] \in Seq(Frame) /\ outRing \in [Workers -> Seq(Frame)]
      /\ Len(outRing[w]) \in Nat /\ Len(outRing[w]) > 0
  BY SeqFacts DEF TypeOK, QueuesOK
<1>2. /\ <<"out", w>> \in Queues /\ Queue(<<"out", w>>) = outRing[w]
      /\ Queue(<<"out", w>>)' = outRing'[w]
  BY Zenon, QueueFacts, QueueFactsNext DEF QueueDesc
<1>3. outRing'[w] = Tail(outRing[w])
  BY Zenon, <1>1
<1>4. /\ Len(Tail(outRing[w])) = Len(outRing[w]) - 1
      /\ \A n \in 1 .. Len(outRing[w]) - 1 : Tail(outRing[w])[n] = outRing[w][n + 1]
  BY Zenon, <1>1, SeqFacts
<1>5. ASSUME NEW k \in Queues, k # <<"out", w>> PROVE Queue(k)' = Queue(k)
  <2>1. \A v \in Workers : v # w => outRing'[v] = outRing[v]
    BY Zenon, <1>1
  <2>2. ASSUME NEW v \in Workers, v # w
        PROVE  Queue(<<"out", v>>)' = Queue(<<"out", v>>)
    BY <2>1, <2>2, QueueFacts, QueueFactsNext DEF QueueDesc
  <2>3. inRing' = inRing /\ batch' = batch /\ work' = work
    OBVIOUS
  <2>4. /\ Queue(<<"in", 0>>)' = Queue(<<"in", 0>>)
        /\ Queue(<<"batch", 0>>)' = Queue(<<"batch", 0>>)
        /\ \A v : Queue(<<"work", v>>)' = Queue(<<"work", v>>)
    BY <2>3, QueueFacts, QueueFactsNext DEF QueueDesc
  <2>5. \/ k = <<"in", 0>> \/ k = <<"batch", 0>> \/ \E v \in Workers : k = <<"work", v>>
        \/ \E v \in Workers : v # w /\ k = <<"out", v>>
    BY Zenon, <1>5, QueueFacts DEF QueueDesc
  <2>. QED  BY Zenon, <2>2, <2>4, <2>5
<1>. QED  BY Zenon, <1>1, <1>2, <1>3, <1>4, <1>5

(* push_back on the free list.                                              *)
LEMMA FreeAppend ==
  ASSUME TypeOK, NEW v \in Bufs, freeBufs' = Append(freeBufs, v)
  PROVE  /\ Len(freeBufs) \in Nat /\ Len(freeBufs') = Len(freeBufs) + 1
         /\ freeBufs'[Len(freeBufs) + 1] = v
         /\ \A n \in 1 .. Len(freeBufs) : freeBufs'[n] = freeBufs[n]
<1>1. freeBufs \in Seq(Bufs)
  BY Zenon DEF TypeOK, QueuesOK
<1>. QED  BY <1>1

(* The buffer of the frame goes to freeBufs.                                *)
LEMMA ExclusiveToFree ==
  ASSUME TypeOK, BufferExclusive, NEW w \in Workers, outRing[w] # <<>>,
         UNCHANGED <<slot, inRing, work, batch>>,
         outRing' = [outRing EXCEPT ![w] = Tail(outRing[w])],
         freeBufs' = Append(freeBufs, OutFrame(w).buf)
  PROVE  PassedOn
<1>. DEFINE A == <<"out", w>>
            x == <<"frame", A, 1>>
            y == <<"slot", RxRing, head[RxRing]>>
            h == head[RxRing]
            a == Len(outRing[w])
            N == Len(freeBufs)
<1>1. OutFrame(w).buf \in Bufs /\ OutFrame(w) = outRing[w][1]
  BY Zenon, OutFacts DEF Frame
<1>2. Holds(x) = OutFrame(w).buf /\ Holds(y) = slot[RxRing][head[RxRing]]
  BY <1>1, CellFacts, QueueFacts DEF CellDesc, QueueDesc
<1>3. \A q \in Rings, s \in Slots :
        slot'[q][s] = IF q = RxRing /\ s = h THEN Holds(y) ELSE slot[q][s]
  BY Zenon, <1>2
<1>4. RxRing \in Rings /\ h \in Slots
  BY Zenon, PlaceFacts
<1>5. /\ N \in Nat /\ N = Len(freeBufs) /\ Len(freeBufs') = N + 1
      /\ freeBufs'[N + 1] = Holds(x)
      /\ \A n \in 1 .. N : freeBufs'[n] = freeBufs[n]
  BY Zenon, <1>1, <1>2, FreeAppend
<1>6. /\ A \in Queues /\ a \in Nat /\ a = Len(Queue(A))
      /\ a > 0 /\ Len(Queue(A)') = a - 1
      /\ \A n \in 1 .. a - 1 : Queue(A)'[n].buf = Queue(A)[n + 1].buf
      /\ \A k \in Queues : k # A => Queue(k)' = Queue(k)
  BY Zenon, OutShift
<1>7. x = <<"frame", A, 1>> /\ y = <<"slot", RxRing, h>>
  OBVIOUS
<1>8. x \in Cells /\ y \in Cells
  <2>1. 1 \in 1 .. Len(Queue(A))
    BY <1>6
  <2>. QED  BY Zenon, <1>4, <1>6, <2>1, CellFacts DEF CellDesc
<1>. HIDE DEF A, x, y, h, a, N
<1>9. Release(A, a, N, RxRing, h, x, y)
  BY Zenon, <1>3, <1>5, <1>6 DEF Release
<1>. QED  BY Zenon, <1>3, <1>4, <1>5, <1>6, <1>7, <1>8, <1>9, ExclusiveRelease

(* The buffer of the frame goes to the next slot of a TX ring.              *)
LEMMA ExclusiveToSlot ==
  ASSUME TypeOK, BufferExclusive, NEW w \in Workers, outRing[w] # <<>>,
         UNCHANGED <<inRing, work, batch>>, NEW g \in Rings,
         outRing' = [outRing EXCEPT ![w] = Tail(outRing[w])],
         freeBufs' = Append(freeBufs, slot[g][head[g]]),
         slot' = [slot EXCEPT ![g] = [@ EXCEPT ![head[g]] = OutFrame(w).buf]]
  PROVE  PassedOn
<1>. DEFINE A == <<"out", w>>
            x == <<"slot", g, head[g]>>
            y == <<"frame", A, 1>>
            h == head[g]
            a == Len(outRing[w])
            N == Len(freeBufs)
<1>1. OutFrame(w).buf \in Bufs /\ OutFrame(w) = outRing[w][1]
  BY Zenon, OutFacts DEF Frame
<1>2. Holds(y) = OutFrame(w).buf /\ Holds(x) = slot[g][head[g]]
  BY <1>1, CellFacts, QueueFacts DEF CellDesc, QueueDesc
<1>3. h \in Slots /\ slot \in [Rings -> [Slots -> Bufs]] /\ slot[g][head[g]] \in Bufs
  BY Zenon DEF TypeOK, RingsOK
<1>4. \A q \in Rings, s \in Slots :
        slot'[q][s] = IF q = g /\ s = h THEN Holds(y) ELSE slot[q][s]
  <2>. HIDE DEF y
  <2>. QED  BY Zenon, <1>2, <1>3
<1>5. /\ N \in Nat /\ N = Len(freeBufs) /\ Len(freeBufs') = N + 1
      /\ freeBufs'[N + 1] = Holds(x)
      /\ \A n \in 1 .. N : freeBufs'[n] = freeBufs[n]
  BY Zenon, <1>2, <1>3, FreeAppend
<1>6. /\ A \in Queues /\ a \in Nat /\ a = Len(Queue(A))
      /\ a > 0 /\ Len(Queue(A)') = a - 1
      /\ \A n \in 1 .. a - 1 : Queue(A)'[n].buf = Queue(A)[n + 1].buf
      /\ \A k \in Queues : k # A => Queue(k)' = Queue(k)
  BY Zenon, OutShift
<1>7. y = <<"frame", A, 1>> /\ x = <<"slot", g, h>>
  OBVIOUS
<1>8. x \in Cells /\ y \in Cells
  <2>1. 1 \in 1 .. Len(Queue(A))
    BY <1>6
  <2>. QED  BY Zenon, <1>3, <1>6, <2>1, CellFacts DEF CellDesc
<1>. HIDE DEF A, x, y, h, a, N
<1>9. Release(A, a, N, g, h, x, y)
  BY Zenon, <1>4, <1>5, <1>6 DEF Release
<1>. QED  BY Zenon, <1>3, <1>4, <1>5, <1>6, <1>7, <1>8, <1>9, ExclusiveRelease

(* The TX half of Manager::process keeps buffers exclusive, whichever way   *)
(* it ends.                                                                 *)
LEMMA ExclusiveTx ==
  ASSUME TypeOK, BufferExclusive, NEW w \in Workers, Tx(w)
  PROVE  PassedOn
<1>1. ASSUME outRing[w] # <<>>, Reclaim(w), UNCHANGED <<inRing, work, batch>>
      PROVE  PassedOn
  BY Zenon, <1>1, ExclusiveToFree DEF Reclaim
<1>2. ASSUME NEW p, outRing[w] # <<>>, Transmit(w, p), UNCHANGED <<inRing, work, batch>>
      PROVE  PassedOn
  <2>. DEFINE q == <<"tx", OutFrame(w).id, TxRingId(w)>>
  <2>1. CASE TxRingId(w) \notin Workers
    BY Zenon, <1>2, <2>1, ExclusiveSame DEF Transmit
  <2>2. CASE TxRingId(w) \in Workers /\ nm_ring_space(head[q], tail[q]) > 0
    <3>1. q \in Rings
      BY Zenon, <1>2, <2>2, OutFacts DEF Rings, Frame
    <3>2. /\ outRing' = [outRing EXCEPT ![w] = Tail(outRing[w])]
          /\ freeBufs' = Append(freeBufs, slot[q][head[q]])
          /\ slot' = [slot EXCEPT ![q] = [@ EXCEPT ![head[q]] = OutFrame(w).buf]]
      BY Zenon, <1>2, <2>2 DEF Transmit
    <3>. HIDE DEF q
    <3>. QED  BY Zenon, <1>2, <3>1, <3>2, ExclusiveToSlot
  <2>3. CASE TxRingId(w) \in Workers /\ ~(nm_ring_space(head[q], tail[q]) > 0)
    BY Zenon, <1>2, <2>3, ExclusiveToFree DEF Transmit
  <2>. QED  BY Zenon, <2>1, <2>2, <2>3
<1>3. CASE TxNoMacFatal(w)
  BY Zenon, <1>3, ExclusiveSame DEF TxNoMacFatal, Die, rings, manager
<1>4. CASE TxDiscard(w) \/ TxNoMacWait(w) \/ TxArpForeign(w)
  BY Zenon, <1>1, <1>4 DEF TxDiscard, TxNoMacWait, TxArpForeign, ArpFrame, Flagged
<1>5. CASE TxForward(w)
  BY Zenon, <1>2, <1>5 DEF TxForward
<1>6. CASE TxNoMacRequest(w)
  BY Zenon, <1>2, <1>6 DEF TxNoMacRequest, Flagged
<1>7. CASE TxArpRequest(w)
  BY Zenon, <1>2, <1>7 DEF TxArpRequest, ArpFrame, Flagged
<1>8. CASE TxArpReply(w) \/ TxArpUnknown(w)
  BY Zenon, <1>2, <1>8 DEF TxArpReply, TxArpUnknown, ArpFrame, Flagged
<1>. QED  BY Zenon, <1>3, <1>4, <1>5, <1>6, <1>7, <1>8 DEF Tx

(* Every step keeps buffers exclusive and is a step of BufferPool.          *)
LEMMA ExclusiveNext ==
  ASSUME TypeOK, BatchFits, BufferExclusive, Next
  PROVE  HandedOver
<1>1. CASE PollReturn \/ RxBatch \/ RxNextRing \/ TxDone
  <2>1. CASE RxBatch
    BY Zenon, <2>1, ExclusiveRxBatch
  <2>2. CASE PollReturn \/ RxNextRing \/ TxDone
    BY Zenon, <2>2, ExclusiveSame DEF PassedOn, PollReturn, RxNextRing, TxDone, rings
  <2>. QED  BY Zenon, <1>1, <2>1, <2>2
<1>2. CASE RxFrame
  BY Zenon, <1>2, ExclusiveRxFrame DEF PassedOn
<1>3. CASE RxEnqueue
  BY Zenon, <1>3, ExclusiveRxEnqueue
<1>4. CASE Nic
  BY Zenon, <1>4, ExclusiveSame DEF PassedOn, Nic, RxSync, TxSync, manager
<1>. QED  BY Zenon, <1>1, <1>2, <1>3, <1>4, ExclusiveTx, ExclusiveWorker DEF Next, Manager, PassedOn
=============================================================================
