-------------------------- MODULE DataPathProofs --------------------------
EXTENDS DataPathFrames, FiniteSetTheorems

(***************************************************************************)
(* The inductive invariant, what follows from it about the filled slots of  *)
(* the TX rings, and the theorems.                                          *)
(***************************************************************************)

(* Every step keeps the types.                                              *)
LEMMA TypeNext ==
  ASSUME TypeOK, BatchFits, FramesOK, Next
  PROVE  TypeOK'
<1>1. CASE TxDone
  BY Zenon, <1>1 DEF TxDone, TypeOK, RingsOK, QueuesOK, PlaceOK, ArpOK, rings, arp
<1>2. CASE Nic
  BY Zenon, <1>2, TypeNic DEF Nic
<1>. QED  BY Zenon, <1>1, <1>2, NoMacFromFrames, TypeRx, TypeTx, TypeWorker DEF Next, Manager

(* IInv holds at the start and is kept by every step.                       *)
LEMMA IInvInductive ==
  /\ Init => IInv
  /\ IInv /\ [Next]_vars => IInv'
<1>1. Init => IInv
  <2>1. Init => BatchFits
    BY Zenon DEF Init, BatchFits
  <2>. QED  BY Zenon, <2>1, TypeInit, ExclusiveInit, FramesInit DEF IInv
<1>2. ASSUME IInv, Next PROVE IInv'
  BY Zenon, <1>2, TypeNext, ExclusiveNext, BatchNext, FramesNext DEF IInv, HandedOver
<1>3. ASSUME IInv, UNCHANGED vars PROVE IInv'
  <2>1. TypeOK'
    BY Zenon, <1>3 DEF IInv, TypeOK, RingsOK, QueuesOK, PlaceOK, ArpOK, vars, rings, manager, arp
  <2>2. BufferExclusive'
    BY Zenon, <1>3, ExclusiveSame DEF IInv, HandedOver, PassedOn, vars, rings, manager
  <2>3. BatchFits'
    BY Zenon, <1>3 DEF IInv, BatchFits, RxRing, vars, rings, manager
  <2>4. FramesOK'
    <3>1. Learned /\ OutPktSame
      BY Zenon, <1>3 DEF Learned, OutPktSame, vars, arp
    <3>. QED  BY Zenon, <1>3, <3>1, FramesSame DEF IInv, FramesOK, Fresh, vars, manager
  <2>. QED  BY Zenon, <2>1, <2>2, <2>3, <2>4 DEF IInv
<1>. QED  BY Zenon, <1>1, <1>2, <1>3

-----------------------------------------------------------------------------
(* The data path keeps its types: every ring index stays inside its ring,   *)
(* every queue holds frames of known buffers, for any number of interfaces, *)
(* workers, slots and buffers and any routes.                               *)
THEOREM TypeCorrect == Spec => []TypeOK
<1>1. IInv => TypeOK
  BY Zenon DEF IInv
<1>. QED  BY <1>1, IInvInductive, PTL DEF Spec

(* No buffer is ever in two places: the swaps of Manager::process (191-216, *)
(* 320-330), the queues and the workers hand each buffer from one holder to *)
(* the next.                                                                *)
THEOREM Exclusive == Spec => []BufferExclusive
<1>1. IInv => BufferExclusive
  BY Zenon DEF IInv
<1>. QED  BY <1>1, IInvInductive, PTL DEF Spec

(* The batch of a ring (180-187) can be taken to its last frame.            *)
THEOREM BatchTakeable == Spec => []BatchFits
<1>1. IInv => BatchFits
  BY Zenon DEF IInv
<1>. QED  BY <1>1, IInvInductive, PTL DEF Spec

(* The manager finds an IPv4 header behind every NOMAC frame (250-251).     *)
THEOREM NoMacHasHeader == Spec => []NoMacIsIp
<1>1. IInv => NoMacIsIp
  BY Zenon, NoMacFromFrames DEF IInv
<1>. QED  BY <1>1, IInvInductive, PTL DEF Spec
(* Every step of the data path hands buffers over as BufferPool allows it,  *)
(* for any number of interfaces, workers, slots and buffers: whatever the   *)
(* threads do in between, a buffer goes from a slot to a frame against a    *)
(* free one (206-208), from a frame to a slot against the slot's (320-334), *)
(* from a frame to freeBufs (302), or is lost with its frame.               *)
THEOREM RefinesPool == Spec => ImplementsPool
<1>1. Init => Pool!PoolInit
  <2>. SUFFICES ASSUME Init PROVE Pool!PoolInit
    OBVIOUS
  <2>1. /\ slot = InitSlots /\ freeBufs = InitFree /\ inRing = <<>> /\ batch = <<>>
        /\ \A w \in Workers : work[w] = <<>> /\ outRing[w] = <<>>
    BY Zenon DEF Init
  <2>2. \A k \in Queues : Queue(k) = <<>>
    BY <2>1, QueueFacts DEF QueueDesc
  <2>3. SlotBufs = {InitSlots[q][s] : q \in Rings, s \in Slots}
    BY <2>1, PoolFacts DEF PoolDesc
  <2>4. FreeSet = {InitFree[n] : n \in 1 .. Len(InitFree)}
    BY <2>1, PoolFacts DEF PoolDesc
  <2>5. FrameBufs = {}
    <3>1. \A k \in Queues : 1 .. Len(Queue(k)) = {}
      BY <2>2
    <3>. QED  BY Zenon, <3>1, PoolFacts DEF PoolDesc
  <2>. QED  BY <2>3, <2>4, <2>5 DEF Pool!PoolInit
<1>2. IInv /\ [Next]_vars => [Pool!PoolNext]_<<SlotBufs, FreeSet, FrameBufs>>
  <2>1. ASSUME IInv, Next PROVE Pool!PoolNext
    BY Zenon, <2>1, ExclusiveNext DEF IInv, HandedOver
  <2>2. ASSUME IInv, UNCHANGED vars PROVE Pool!PoolNext
    BY Zenon, <2>2, ExclusiveSame DEF IInv, HandedOver, PassedOn, vars, rings, manager
  <2>. QED  BY Zenon, <2>1, <2>2
<1>. QED  BY <1>1, <1>2, IInvInductive, PTL DEF Spec, ImplementsPool, Pool!PoolSpec

(* Whatever the workers and the manager learn and do meanwhile, a packet    *)
(* in a filled TX slot has the MAC of its next hop and is on the interface  *)
(* of that next hop (worker.cpp 102-150, manager.cpp 245-330).              *)
THEOREM SentRight == Spec => []SentToNextHop
<1>1. SentOK => SentToNextHop
  BY Zenon DEF SentOK, SentToNextHop, Sendable
<1>. QED  BY <1>1, SentInductive, IInvInductive, PTL DEF Spec

(* Neither the workers, nor the manager, nor a packet that arrives changes  *)
(* a frame the NIC is still sending.                                        *)
THEOREM Untouched == Spec => PendingUntouched
<1>. DEFINE Step == \A q \in TxRings, s \in Slots :
                      Pending(q, s) /\ Pending(q, s)' =>
                        /\ slot'[q][s] = slot[q][s]
                        /\ pkt'[slot[q][s]] = pkt[slot[q][s]]
<1>1. IInv /\ [Next]_vars => [Step]_vars
  BY Zenon, PendingStep DEF Kept, Filled
<1>2. (Spec => []IInv) /\ (Spec => [][Next]_vars)
  BY IInvInductive, PTL DEF Spec
<1>3. []IInv /\ [][Next]_vars => [][Step]_vars
  BY <1>1, PTL
<1>. QED  BY <1>2, <1>3, PTL DEF PendingUntouched

(* The round robin stays on the NIC rings: no frame carries IFACE_HOST.     *)
LEMMA RingIdFacts ==
  ASSUME IInv, NEW w \in Workers, outRing[w] # <<>>
  PROVE  TxRingId(w) \in Workers
<1>1. "HOST" \notin OutFrame(w).flags
  BY OutFirst DEF IInv, FramesOK, OutOK
<1>2. ringid \in Workers
  BY Zenon DEF IInv, TypeOK, PlaceOK
<1>. QED  BY <1>1, <1>2, SizesAssumption DEF TxRingId, Workers

(* The process ends only in the two calls of fatal().                       *)
LEMMA StatusNext ==
  ASSUME IInv, Next
  PROVE  \/ status' = status
         \/ status' = "fatal" /\ \E w \in Workers : WorkerFatal(w) \/ TxNoMacFatal(w)
<1>1. ASSUME NEW w \in Workers, Tx(w) PROVE status' = status \/ (status' = "fatal" /\ TxNoMacFatal(w))
  BY Zenon, <1>1, RingIdFacts DEF Tx, TxForward, TxDiscard, TxNoMacRequest, TxNoMacWait,
     TxNoMacFatal, TxArpForeign, TxArpRequest, TxArpReply, TxArpUnknown, Die, Flagged, ArpFrame,
     Transmit, Reclaim
<1>2. ASSUME NEW w \in Workers, Worker(w) PROVE status' = status \/ (status' = "fatal" /\ WorkerFatal(w))
  BY Zenon, <1>2 DEF Worker, WorkerDequeue, WorkerDrop, WorkerFatal, WorkerForward, WorkerNoMac,
     WorkerArp, WorkerUnsupported, Die
<1>3. CASE PollReturn \/ RxBatch \/ RxFrame \/ RxEnqueue \/ RxNextRing \/ TxDone \/ Nic
  BY Zenon, <1>3 DEF PollReturn, RxBatch, RxFrame, RxEnqueue, RxNextRing, TxDone, Nic,
     RxSync, TxSync
<1>. QED  BY Zenon, <1>1, <1>2, <1>3 DEF Next, Manager

(* The round robin over the TX rings of an interface (306-309) never        *)
(* selects the host ring nor runs past it: no frame for the host is sent.   *)
THEOREM RingIndex == Spec => []OnNicRing
<1>1. Init => OnNicRing
  BY Zenon DEF Init, OnNicRing
<1>2. ASSUME IInv, OnNicRing, Next PROVE OnNicRing'
  BY Zenon, <1>2, StatusNext DEF OnNicRing
<1>3. OnNicRing /\ UNCHANGED vars => OnNicRing'
  BY Zenon DEF OnNicRing, vars
<1>. QED  BY <1>1, <1>2, <1>3, IInvInductive, PTL DEF Spec

(* With routes for everything, a lookup ends at an interface.               *)
LEMMA RouteKnown ==
  ASSUME ArpOK, AllRouted, NEW p \in IpPacket
  PROVE  NhIface(p) # None
<1>1. ntohl[p.d_ip] \in Addrs /\ Index(p) \in NhIndex /\ Index(p).kind # "invalid"
  BY Zenon, TablesAssumption DEF IpPacket, Index, AllRouted
<1>2. CASE Index(p).kind = "via"
  <2>1. Index(p).nh \in NextHops
    BY <1>1, <1>2 DEF NhIndex
  <2>. QED  BY Zenon, <1>2, <2>1 DEF NhIface, AllRouted
<1>3. CASE Index(p).kind = "direct"
  <2>1. Index(p).iface \in Ifaces
    BY <1>1, <1>3 DEF NhIndex
  <2>. QED  BY Zenon, <1>3, <2>1, TablesAssumption DEF NhIface
<1>. QED  BY <1>1, <1>2, <1>3 DEF NhIndex

(* The router never ends its own process while LPM::route knows every       *)
(* address, the next hops are on interfaces netmap knows and each interface *)
(* has an address: neither fatal() and abort() of Worker::process           *)
(* (worker.cpp 101-140) nor the fatal() of ARPTable::prepareRequest         *)
(* (arpTable.cpp 71-74) is reached, and no ring index leaves its array.     *)
THEOREM NeverEnds == Spec /\ AllRouted => []StaysUp
<1>. DEFINE Up == AllRouted /\ StaysUp
<1>1. Init /\ AllRouted => Up
  BY Zenon DEF Init, StaysUp
<1>2. ASSUME IInv, Up, Next PROVE Up'
  <2>1. ASSUME NEW w \in Workers, WorkerFatal(w) PROVE FALSE
    <3>1. work[w] # <<>> /\ CurPacket(w).type = "ip" /\ NhIface(CurPacket(w)) = None
      BY Zenon, <2>1 DEF WorkerFatal, Routable
    <3>2. CurPacket(w) \in IpPacket /\ ArpOK
      BY Zenon, <1>2, <3>1, CurFacts DEF IInv, TypeOK
    <3>. QED  BY Zenon, <1>2, <3>1, <3>2, RouteKnown
  <2>2. ASSUME NEW w \in Workers, TxNoMacFatal(w) PROVE FALSE
    <3>1. outRing[w] # <<>> /\ IPs[OutFrame(w).id] = <<>>
      BY Zenon, <2>2 DEF TxNoMacFatal, Flagged
    <3>2. OutFrame(w).id \in Ifaces
      BY Zenon, <1>2, <3>1, OutFacts DEF IInv, Frame
    <3>. QED  BY Zenon, <1>2, <3>1, <3>2 DEF AllRouted
  <2>. QED  BY Zenon, <1>2, <2>1, <2>2, StatusNext DEF StaysUp, AllRouted
<1>3. Up /\ UNCHANGED vars => Up'
  BY Zenon DEF StaysUp, AllRouted, vars
<1>. QED  BY <1>1, <1>2, <1>3, IInvInductive, PTL DEF Spec

-----------------------------------------------------------------------------
(* Holders B and F that share nothing, out of D and P, with as many B as D: *)
(* there are no more F than P.                                              *)
LEMMA Room ==
  ASSUME NEW C, IsFiniteSet(C), NEW B, NEW D, ExistsBijection(C, B), ExistsBijection(C, D),
         NEW P, IsFiniteSet(P), NEW F, B \cup F \subseteq D \cup P, B \cap F = {}
  PROVE  IsFiniteSet(F) /\ Cardinality(F) <= Cardinality(P)
<1>1. /\ IsFiniteSet(B) /\ IsFiniteSet(D)
      /\ Cardinality(B) = Cardinality(C) /\ Cardinality(D) = Cardinality(C)
  BY Zenon, FS_Bijection
<1>2. /\ IsFiniteSet(D \cup P)
      /\ Cardinality(D \cup P) = Cardinality(D) + Cardinality(P) - Cardinality(D \cap P)
  BY Zenon, <1>1, FS_Union
<1>3. IsFiniteSet(B \cup F) /\ Cardinality(B \cup F) <= Cardinality(D \cup P)
  BY Zenon, <1>2, FS_Subset
<1>4. IsFiniteSet(F)
  <2>1. F \subseteq B \cup F
    BY Zenon
  <2>. QED  BY Zenon, <1>3, <2>1, FS_Subset
<1>5. Cardinality(B \cup F) = Cardinality(B) + Cardinality(F) - Cardinality(B \cap F)
  BY Zenon, <1>1, <1>4, FS_Union
<1>6. Cardinality(B \cap F) = 0
  BY Zenon, FS_EmptySet
<1>7. /\ Cardinality(C) \in Nat /\ Cardinality(P) \in Nat /\ Cardinality(F) \in Nat
      /\ Cardinality(D \cap P) \in Nat
  <2>1. IsFiniteSet(D \cap P)
    BY Zenon, <1>1, FS_Intersection
  <2>. QED  BY Zenon, <1>4, <2>1, FS_CardinalityType
<1>. QED  BY SMTT(20), <1>1, <1>2, <1>3, <1>4, <1>5, <1>6, <1>7

(* There are finitely many slots.                                           *)
LEMMA SlotsFinite == IsFiniteSet(Rings \X Slots)
<1>. DEFINE Half == ({"rx", "tx"} \X Ifaces) \X Workers
            f == [x \in Half |-> <<x[1][1], x[1][2], x[2]>>]
<1>1. IsFiniteSet({"rx", "tx"})
  <2>1. IsFiniteSet({"rx"})
    BY Zenon, FS_Singleton
  <2>2. IsFiniteSet({"rx"} \cup {"tx"})
    BY Zenon, <2>1, FS_AddElement
  <2>3. {"rx", "tx"} = {"rx"} \cup {"tx"}
    BY Zenon
  <2>. QED  BY Zenon, <2>2, <2>3
<1>2. IsFiniteSet(Ifaces) /\ IsFiniteSet(Workers) /\ IsFiniteSet(Slots)
  <2>1. NumInterfaces - 1 \in Int /\ NumWorkers - 1 \in Int /\ NumSlots - 1 \in Int /\ 0 \in Int
    BY SizesAssumption, NumSlotsAssumption
  <2>. QED  BY Zenon, <2>1, FS_Interval DEF Ifaces, Workers, Slots
<1>3. IsFiniteSet(Half)
  BY Zenon, <1>1, <1>2, FS_Product
<1>4. f \in Surjection(Half, Rings)
  <2>1. f \in [Half -> Rings]
    BY DEF Rings
  <2>2. ASSUME NEW q \in Rings PROVE \E x \in Half : f[x] = q
    <3>1. PICK d \in {"rx", "tx"}, i \in Ifaces, w \in Workers : q = <<d, i, w>>
      BY DEF Rings
    <3>2. <<<<d, i>>, w>> \in Half /\ f[<<<<d, i>>, w>>] = <<d, i, w>>
      BY <3>1
    <3>. QED  BY Zenon, <3>1, <3>2
  <2>. HIDE DEF f, Half
  <2>. QED  BY Zenon, <2>1, <2>2 DEF Surjection
<1>5. IsFiniteSet(Rings)
  <2>. HIDE DEF f, Half
  <2>. QED  BY Zenon, <1>3, <1>4, FS_Surjection
<1>. QED  BY Zenon, <1>2, <1>5, FS_Product

(* T gives every slot a buffer of its own, and B is the set of them.        *)
OneEach(T, B) ==
  /\ \A q, r \in Rings, s, t \in Slots : T[q][s] = T[r][t] => q = r /\ s = t
  /\ \A b : b \in B <=> \E q \in Rings, s \in Slots : b = T[q][s]

(* Such a table is a bijection.                                             *)
LEMMA TableBijection ==
  ASSUME NEW T, NEW B, OneEach(T, B)
  PROVE  ExistsBijection(Rings \X Slots, B)
<1>. DEFINE C == Rings \X Slots
            f == [c \in C |-> T[c[1]][c[2]]]
<1>1. \A c \in C : \E q \in Rings, s \in Slots : c = <<q, s>>
  OBVIOUS
<1>2. \A q \in Rings, s \in Slots : <<q, s>> \in C /\ f[<<q, s>>] = T[q][s]
  OBVIOUS
<1>3. f = [c \in C |-> f[c]]
  BY Zenon
<1>. HIDE DEF f, C
<1>4. f \in [C -> B]
  <2>1. ASSUME NEW c \in C PROVE f[c] \in B
    <3>1. PICK q \in Rings, s \in Slots : c = <<q, s>>
      BY Zenon, <1>1
    <3>2. f[c] = T[q][s]
      BY <1>2, <3>1
    <3>. QED  BY Zenon, <3>2 DEF OneEach
  <2>. QED  BY Zenon, <1>3, <2>1
<1>5. f \in Surjection(C, B)
  <2>1. ASSUME NEW b \in B PROVE \E c \in C : f[c] = b
    <3>1. PICK q \in Rings, s \in Slots : b = T[q][s]
      BY Zenon DEF OneEach
    <3>. QED  BY Zenon, <1>2, <3>1
  <2>. QED  BY Zenon, <1>4, <2>1 DEF Surjection
<1>6. f \in Injection(C, B)
  <2>1. ASSUME NEW c \in C, NEW d \in C, f[c] = f[d] PROVE c = d
    <3>1. PICK q \in Rings, s \in Slots : c = <<q, s>>
      BY Zenon, <1>1
    <3>2. PICK r \in Rings, t \in Slots : d = <<r, t>>
      BY Zenon, <1>1
    <3>3. T[q][s] = T[r][t]
      BY Zenon, <1>2, <2>1, <3>1, <3>2
    <3>4. q = r /\ s = t
      BY <3>3 DEF OneEach
    <3>. QED  BY Zenon, <3>1, <3>2, <3>4
  <2>. QED  BY Zenon, <1>4, <2>1 DEF Injection, IsInjective
<1>7. f \in Bijection(C, B)
  BY Zenon, <1>5, <1>6 DEF Bijection
<1>. QED  BY Zenon, <1>7 DEF ExistsBijection, C

(* The slots always hold as many buffers as at the start, so the frames     *)
(* hold at most as many as there are extra ones.                            *)
LEMMA FrameRoom ==
  ASSUME TypeOK, BufferExclusive, PoolFits, NEW S, NEW g \in Injection(S, FrameBufs)
  PROVE  IsFiniteSet(S) /\ Cardinality(S) \in Nat /\ Cardinality(S) <= RING_SIZE
<1>1. OneEach(slot, SlotBufs)
  BY Zenon, ApartFacts, PoolFacts DEF OneEach, Apart, PoolDesc
<1>. DEFINE D == {InitSlots[q][s] : q \in Rings, s \in Slots}
            P == Range(InitFree)
<1>2. \A b : b \in D <=> \E q \in Rings, s \in Slots : b = InitSlots[q][s]
  OBVIOUS
<1>3. Bufs = D \cup P /\ P = Range(InitFree)
  BY DEF PoolFits
<1>. HIDE DEF D, P
<1>4. OneEach(InitSlots, D)
  BY <1>2, BuffersAssumption DEF OneEach
<1>5. IsFiniteSet(P) /\ Cardinality(P) \in Nat /\ Cardinality(P) <= RING_SIZE
  <2>1. /\ InitFree \in [1 .. Len(InitFree) -> Bufs] /\ Len(InitFree) \in Nat
        /\ Len(InitFree) \in Int /\ 1 \in Int
    BY BuffersAssumption
  <2>2. InitFree \in Surjection(1 .. Len(InitFree), P)
    BY Zenon, <1>3, <2>1 DEF Surjection, Range
  <2>3. /\ IsFiniteSet(1 .. Len(InitFree))
        /\ Cardinality(1 .. Len(InitFree)) = IF 1 > Len(InitFree) THEN 0 ELSE Len(InitFree) - 1 + 1
    BY Zenon, <2>1, FS_Interval
  <2>4. IsFiniteSet(P) /\ Cardinality(P) <= Cardinality(1 .. Len(InitFree))
    BY Zenon, <2>2, <2>3, FS_Surjection
  <2>5. Cardinality(P) \in Nat
    BY Zenon, <2>4, FS_CardinalityType
  <2>. QED  BY SMTT(20), <2>1, <2>3, <2>4, <2>5, SizesAssumption DEF PoolFits
<1>6. SlotBufs \cup FrameBufs \subseteq D \cup P
  BY Zenon, <1>3, HeldInBufs
<1>7. SlotBufs \cap FrameBufs = {}
  BY SlotsNotFrames
<1>8. IsFiniteSet(FrameBufs) /\ Cardinality(FrameBufs) <= Cardinality(P)
  <2>1. ExistsBijection(Rings \X Slots, SlotBufs) /\ ExistsBijection(Rings \X Slots, D)
    BY Zenon, <1>1, <1>4, TableBijection
  <2>. QED  BY Zenon, <1>5, <1>6, <1>7, <2>1, SlotsFinite, Room
<1>9. IsFiniteSet(S) /\ Cardinality(S) <= Cardinality(FrameBufs)
  BY Zenon, <1>8, FS_Injection
<1>10. Cardinality(S) \in Nat /\ Cardinality(FrameBufs) \in Nat
  BY Zenon, <1>8, <1>9, FS_CardinalityType
<1>. QED  BY <1>5, <1>8, <1>9, <1>10, SizesAssumption

(* While a worker has a frame in its hands, outRing is not full.            *)
LEMMA OutHasRoom ==
  ASSUME TypeOK, BufferExclusive, PoolFits, NEW w \in Workers, work[w] # <<>>
  PROVE  Occupancy < RING_SIZE
<1>. DEFINE O == UNION {{v} \X (1 .. Len(outRing[v])) : v \in Workers}
            x == <<w, 0>>
            S == O \cup {x}
            g == [c \in S |-> IF c = x THEN work[w][1].buf ELSE outRing[c[1]][c[2]].buf]
            Of(c, k, n) == \/ c = x /\ k = <<"work", w>> /\ n = 1
                           \/ \E v \in Workers : c = <<v, n>> /\ k = <<"out", v>>
<1>1. \A c : c \in O <=> \E v \in Workers : \E n \in 1 .. Len(outRing[v]) : c = <<v, n>>
  OBVIOUS
<1>2. ASSUME NEW v \in Workers, NEW n \in 1 .. Len(outRing[v])
      PROVE  /\ <<v, n>> # x /\ <<v, n>> \in S
             /\ g[<<v, n>>] = outRing[v][n].buf
  BY <1>1
<1>3. x \notin O
  BY Zenon, <1>1, <1>2
<1>4. x \in S /\ g[x] = work[w][1].buf /\ g = [c \in S |-> g[c]]
  BY Zenon
<1>5. 1 \in 1 .. Len(work[w])
  BY SeqFacts DEF TypeOK, QueuesOK
<1>. HIDE DEF g
<1>6. ASSUME NEW c \in S
      PROVE  \E k \in Queues : \E n \in 1 .. Len(Queue(k)) : g[c] = Queue(k)[n].buf /\ Of(c, k, n)
  <2>1. CASE c = x
    <3>1. <<"work", w>> \in Queues /\ Queue(<<"work", w>>) = work[w]
      BY Zenon, QueueFacts DEF QueueDesc
    <3>2. Of(c, <<"work", w>>, 1)
      BY Zenon, <2>1
    <3>. HIDE DEF x, S, O, Of
    <3>. QED  BY Zenon, <1>4, <1>5, <2>1, <3>1, <3>2
  <2>2. CASE c \in O
    <3>1. PICK v \in Workers : \E n \in 1 .. Len(outRing[v]) : c = <<v, n>>
      BY Zenon, <1>1, <2>2
    <3>2. PICK n \in 1 .. Len(outRing[v]) : c = <<v, n>>
      BY Zenon, <3>1
    <3>3. <<"out", v>> \in Queues /\ Queue(<<"out", v>>) = outRing[v]
      BY Zenon, QueueFacts DEF QueueDesc
    <3>4. g[c] = outRing[v][n].buf /\ Of(c, <<"out", v>>, n)
      BY Zenon, <1>2, <3>2
    <3>. HIDE DEF x, S, O, Of
    <3>. QED  BY Zenon, <3>3, <3>4
  <2>. QED  BY Zenon, <2>1, <2>2
<1>7. ASSUME NEW c, NEW d, NEW k, NEW n, Of(c, k, n), Of(d, k, n) PROVE c = d
  BY <1>7
<1>. HIDE DEF x, S, O, Of
<1>8. g \in [S -> FrameBufs]
  <2>1. ASSUME NEW c \in S PROVE g[c] \in FrameBufs
    <3>1. PICK k \in Queues : \E n \in 1 .. Len(Queue(k)) : g[c] = Queue(k)[n].buf
      BY Zenon, <1>6
    <3>. QED  BY Zenon, <3>1, PoolFacts DEF PoolDesc
  <2>. QED  BY Zenon, <1>4, <2>1
<1>9. ASSUME NEW c \in S, NEW d \in S, g[c] = g[d] PROVE c = d
  <2>1. PICK j \in Queues : \E m \in 1 .. Len(Queue(j)) : g[c] = Queue(j)[m].buf /\ Of(c, j, m)
    BY Zenon, <1>6
  <2>2. PICK m \in 1 .. Len(Queue(j)) : g[c] = Queue(j)[m].buf /\ Of(c, j, m)
    BY Zenon, <2>1
  <2>3. PICK k \in Queues : \E n \in 1 .. Len(Queue(k)) : g[d] = Queue(k)[n].buf /\ Of(d, k, n)
    BY Zenon, <1>6
  <2>4. PICK n \in 1 .. Len(Queue(k)) : g[d] = Queue(k)[n].buf /\ Of(d, k, n)
    BY Zenon, <2>3
  <2>5. Queue(j)[m].buf = Queue(k)[n].buf
    BY Zenon, <1>9, <2>2, <2>4
  <2>6. j = k /\ m = n
    BY <2>5, FrameApart
  <2>. QED  BY Zenon, <1>7, <2>2, <2>4, <2>6
<1>10. g \in Injection(S, FrameBufs)
  BY Zenon, <1>8, <1>9 DEF Injection, IsInjective
<1>11. IsFiniteSet(S) /\ Cardinality(S) \in Nat /\ Cardinality(S) <= RING_SIZE
  BY Zenon, <1>10, FrameRoom
<1>12. IsFiniteSet(O)
  <2>1. O \subseteq S
    BY Zenon DEF S
  <2>. QED  BY Zenon, <1>11, <2>1, FS_Subset
<1>13. Cardinality(S) = Cardinality(O) + 1 /\ Cardinality(O) \in Nat
  <2>1. Cardinality(O \cup {x}) = IF x \in O THEN Cardinality(O) ELSE Cardinality(O) + 1
    BY Zenon, <1>12, FS_AddElement
  <2>2. Cardinality(O) \in Nat
    BY Zenon, <1>12, FS_CardinalityType
  <2>. QED  BY Zenon, <1>3, <2>1, <2>2 DEF S
<1>14. Occupancy = Cardinality(O)
  BY Zenon DEF Occupancy, O
<1>. QED  BY <1>11, <1>13, <1>14, SizesAssumption

(* The frames of a batch always fit behind inRing.                          *)
LEMMA InHasRoom ==
  ASSUME TypeOK, BufferExclusive, PoolFits
  PROVE  Len(inRing) + Len(batch) <= RING_SIZE
<1>. DEFINE L == Len(inRing)
            M == Len(batch)
            S == 1 .. L + M
            g == [n \in S |-> IF n <= L THEN inRing[n].buf ELSE batch[n - L].buf]
<1>1. L \in Nat /\ M \in Nat /\ L + M \in Int /\ 1 \in Int
  BY DEF TypeOK, QueuesOK
<1>2. /\ <<"in", 0>> \in Queues /\ Queue(<<"in", 0>>) = inRing
      /\ <<"batch", 0>> \in Queues /\ Queue(<<"batch", 0>>) = batch
      /\ <<"in", 0>> # <<"batch", 0>>
  BY Zenon, QueueFacts DEF QueueDesc
<1>3. /\ \A n \in 1 .. L : inRing[n].buf \in FrameBufs
      /\ \A n \in 1 .. M : batch[n].buf \in FrameBufs
      /\ \A m, n \in 1 .. L : inRing[m].buf = inRing[n].buf => m = n
      /\ \A m, n \in 1 .. M : batch[m].buf = batch[n].buf => m = n
      /\ \A m \in 1 .. L, n \in 1 .. M : inRing[m].buf # batch[n].buf
  BY <1>2, FrameApart
<1>4. \A n \in S : g[n] = IF n <= L THEN inRing[n].buf ELSE batch[n - L].buf
  BY Zenon
<1>5. \A n \in S : IF n <= L THEN n \in 1 .. L ELSE n - L \in 1 .. M
  BY <1>1
<1>6. g \in [S -> FrameBufs]
  <2>. HIDE DEF S, L, M
  <2>. QED  BY Zenon, <1>3, <1>5
<1>. HIDE DEF g
<1>7. ASSUME NEW m \in S, NEW n \in S, g[m] = g[n] PROVE m = n
  <2>1. CASE m <= L /\ n <= L
    BY Zenon, <1>3, <1>4, <1>5, <1>7, <2>1
  <2>2. CASE ~(m <= L) /\ ~(n <= L)
    <3>1. batch[m - L].buf = batch[n - L].buf /\ m - L \in 1 .. M /\ n - L \in 1 .. M
      BY Zenon, <1>4, <1>5, <1>7, <2>2
    <3>2. m - L = n - L
      BY Zenon, <1>3, <3>1
    <3>. QED  BY <1>1, <3>2
  <2>3. ASSUME NEW i \in S, NEW j \in S, i <= L, ~(j <= L) PROVE g[i] # g[j]
    <3>1. g[i] = inRing[i].buf /\ i \in 1 .. L /\ g[j] = batch[j - L].buf /\ j - L \in 1 .. M
      BY Zenon, <1>4, <1>5, <2>3
    <3>. QED  BY Zenon, <1>3, <3>1
  <2>. QED  BY Zenon, <1>7, <2>1, <2>2, <2>3
<1>. HIDE DEF L, M
<1>8. Cardinality(S) = L + M
  <2>1. PICK K \in Int : K = L + M /\ S = 1 .. K
    BY Zenon, <1>1
  <2>2. Cardinality(1 .. K) = IF 1 > K THEN 0 ELSE K - 1 + 1
    BY Zenon, <1>1, FS_Interval
  <2>. QED  BY <1>1, <2>1, <2>2
<1>. HIDE DEF S
<1>9. g \in Injection(S, FrameBufs)
  BY Zenon, <1>6, <1>7 DEF Injection, IsInjective
<1>10. Cardinality(S) \in Nat /\ Cardinality(S) <= RING_SIZE
  BY Zenon, <1>9, FrameRoom
<1>11. L + M <= RING_SIZE
  BY <1>1, <1>8, <1>10, SizesAssumption
<1>. QED  BY Zenon, <1>11 DEF L, M

-----------------------------------------------------------------------------
(* The frames of a batch are in inRing before the next one starts.          *)
BatchGone == pc # "fill" => batch = <<>>

(* With the traffic of TransitOnly and the buffers of PoolFits, what is on  *)
(* its way to a worker stays clean, and each step passes all buffers on.    *)
Lossless == TransitOnly /\ PoolFits /\ Clean /\ BatchGone /\ NoBufferLost

(* What the rings, freeBufs and the queues hold are buffers.                *)
Held == SlotBufs \cup FreeSet \cup FrameBufs \subseteq Bufs

(* A worker that enqueues its frame finds room for it.                      *)
LEMMA EnqueueKeeps ==
  ASSUME TypeOK, BufferExclusive, PoolFits, NEW w \in Workers, work[w] # <<>>,
         NEW g, g.buf = CurFrame(w).buf, Enqueue(w, g),
         UNCHANGED <<slot, freeBufs, inRing, batch>>
  PROVE  NoneLost
<1>1. outRing' = [outRing EXCEPT ![w] = Append(outRing[w], g)]
  BY Zenon, OutHasRoom DEF Enqueue
<1>2. outRing' # outRing
  <2>1. outRing \in [Workers -> Seq(Frame)]
    BY Zenon DEF TypeOK, QueuesOK
  <2>2. outRing'[w] = Append(outRing[w], g)
    BY Zenon, <1>1, <2>1
  <2>3. outRing[w] \in Seq(Frame) /\ Len(outRing[w]) \in Nat
    BY <2>1
  <2>4. Len(Append(outRing[w], g)) = Len(outRing[w]) + 1
    BY <2>3
  <2>5. Len(Append(outRing[w], g)) # Len(outRing[w])
    BY <2>3, <2>4
  <2>. QED  BY Zenon, <2>2, <2>5
<1>3. work' = [work EXCEPT ![w] = Tail(work[w])]
  BY Zenon DEF Enqueue
<1>. QED  BY Zenon, <1>1, <1>2, <1>3, ExclusiveHandle

(* No worker meets a frame that it would drop, or finds outRing full.       *)
LEMMA WorkerKeeps ==
  ASSUME TypeOK, BufferExclusive, PoolFits, Clean, NEW w \in Workers, Worker(w)
  PROVE  NoneLost
<1>1. CASE WorkerDequeue(w)
  BY Zenon, <1>1, ExclusiveDequeue DEF PassedOn
<1>2. ~WorkerDrop(w)
  <2>. SUFFICES ASSUME WorkerDrop(w) PROVE FALSE
    OBVIOUS
  <2>1. work[w] # <<>> /\ CurPacket(w).type = "ip" /\ ~Routable(w)
    BY Zenon DEF WorkerDrop
  <2>2. <<"work", w>> \in Early /\ Queue(<<"work", w>>) = work[w]
    BY Zenon, EarlyFacts, QueueFacts DEF QueueDesc
  <2>3. CurFrame(w) = work[w][1] /\ 1 \in 1 .. Len(work[w])
    <3>1. work[w] \in Seq(Frame)
      BY Zenon DEF TypeOK, QueuesOK
    <3>. QED  BY <2>1, <3>1, SeqFacts DEF CurFrame
  <2>4. Transit(pkt[work[w][1].buf], work[w][1].id)
    BY Zenon, <2>2, <2>3 DEF Clean, CleanQueue
  <2>. QED  BY Zenon, <2>1, <2>3, <2>4 DEF Transit, Routable, CurPacket
<1>3. CASE WorkerFatal(w)
  BY Zenon, <1>3, ExclusiveSame DEF PassedOn, WorkerFatal, Die, rings, manager
<1>4. CASE WorkerForward(w)
  BY Zenon, <1>4, EnqueueKeeps, CurFacts DEF WorkerForward, Routable, Frame, rings, manager
<1>5. CASE WorkerNoMac(w)
  BY Zenon, <1>5, EnqueueKeeps, CurFacts DEF WorkerNoMac, Routable, Frame, rings, manager
<1>6. CASE WorkerArp(w)
  BY Zenon, <1>6, EnqueueKeeps, CurFacts DEF WorkerArp, Frame, rings, manager
<1>7. CASE WorkerUnsupported(w)
  BY Zenon, <1>7, EnqueueKeeps, CurFacts DEF WorkerUnsupported, Frame, rings, manager
<1>. QED  BY Zenon, <1>1, <1>2, <1>3, <1>4, <1>5, <1>6, <1>7 DEF Worker

(* So every step passes all buffers on.                                     *)
LEMMA NextKeeps ==
  ASSUME IInv, Lossless, Next
  PROVE  NoneLost
<1>. USE DEF IInv, Lossless
<1>1. CASE RxBatch
  <2>1. UNCHANGED <<slot, freeBufs, inRing, batch, work, outRing>>
    BY Zenon, <1>1 DEF RxBatch, rings, BatchGone
  <2>. QED  BY Zenon, <2>1, ExclusiveSame DEF PassedOn
<1>2. CASE PollReturn \/ RxNextRing \/ TxDone
  BY Zenon, <1>2, ExclusiveSame DEF PassedOn, PollReturn, RxNextRing, TxDone, rings
<1>3. CASE RxFrame
  BY Zenon, <1>3, ExclusiveRxFrame DEF PassedOn
<1>4. CASE RxEnqueue
  BY Zenon, <1>4, ExclusiveRxEnqueue, InHasRoom
<1>5. CASE Nic
  BY Zenon, <1>5, ExclusiveSame DEF PassedOn, Nic, RxSync, TxSync, manager
<1>. QED  BY Zenon, <1>1, <1>2, <1>3, <1>4, <1>5, ExclusiveTx, WorkerKeeps DEF Next, Manager, PassedOn

(* For traffic that passes the checks of the workers, and queues as long as *)
(* the number of extra buffers, no buffer is ever lost: neither queue       *)
(* refuses a frame (whose result worker.cpp 160 and manager.cpp 219 ignore) *)
(* and every frame that is not sent is reclaimed (manager.cpp 296-303).     *)
THEOREM NothingLost == Spec /\ TransitOnly /\ PoolFits => []NoBufferLost
<1>1. Init /\ TransitOnly /\ PoolFits => Lossless
  <2>. SUFFICES ASSUME Init, TransitOnly, PoolFits PROVE Lossless
    OBVIOUS
  <2>. DEFINE D == {InitSlots[q][s] : q \in Rings, s \in Slots}
  <2>1. SlotBufs = D /\ Bufs = D \cup Range(InitFree)
    BY PoolFacts DEF PoolDesc, Init, PoolFits
  <2>. HIDE DEF D
  <2>2. FreeSet = Range(InitFree)
    <3>1. \A b : b \in FreeSet <=> \E n \in 1 .. Len(InitFree) : b = InitFree[n]
      BY Zenon, PoolFacts DEF PoolDesc, Init
    <3>2. DOMAIN InitFree = 1 .. Len(InitFree)
      BY BuffersAssumption
    <3>. QED  BY Zenon, <3>1, <3>2 DEF Range
  <2>3. Bufs \subseteq SlotBufs \cup FreeSet \cup FrameBufs
    BY Zenon, <2>1, <2>2
  <2>4. NoBufferLost
    BY Zenon, <2>3, TypeInit, HeldInBufs DEF NoBufferLost
  <2>5. BatchGone
    BY Zenon DEF Init, BatchGone
  <2>. QED  BY Zenon, <2>4, <2>5, CleanInit DEF Lossless
<1>2. IInv => Held
  BY Zenon, HeldInBufs DEF Held, IInv
<1>3. (IInv => Held)'
  BY <1>2, PTL
<1>4. ASSUME IInv, [Next]_vars, NoBufferLost, NoneLost PROVE NoBufferLost'
  <2>1. Held'
    BY Zenon, <1>3, <1>4, IInvInductive
  <2>. QED  BY Zenon, <1>4, <2>1 DEF Held, NoBufferLost, NoneLost
<1>5. ASSUME IInv, Lossless, Next PROVE Lossless'
  <2>. USE DEF IInv, Lossless
  <2>1. Clean'
    BY Zenon, <1>5, CleanNic, CleanRxFrame, CleanRx, CleanWorker, CleanTx DEF Next, Manager
  <2>2. BatchGone'
    <3>1. CASE \E w \in Workers : Tx(w)
      BY Zenon, <1>5, <3>1 DEF BatchGone, Tx, TxForward, TxDiscard, TxNoMacRequest, TxNoMacWait,
         TxNoMacFatal, TxArpForeign, TxArpRequest, TxArpReply, TxArpUnknown, Die, manager
    <3>2. CASE Nic \/ \E w \in Workers : Worker(w)
      BY Zenon, <1>5, <3>2 DEF BatchGone, Nic, TxSync, RxSync, Worker, WorkerDequeue, WorkerDrop,
         WorkerFatal, WorkerForward, WorkerNoMac, WorkerArp, WorkerUnsupported, Die, manager
    <3>3. CASE PollReturn \/ RxBatch \/ RxFrame \/ RxEnqueue \/ RxNextRing \/ TxDone
      BY <1>5, <3>3 DEF BatchGone, PollReturn, RxBatch, RxFrame, RxEnqueue, RxNextRing, TxDone
    <3>. QED  BY Zenon, <1>5, <3>1, <3>2, <3>3 DEF Next, Manager
  <2>3. NoBufferLost'
    BY Zenon, <1>4, <1>5, NextKeeps
  <2>4. TransitOnly' /\ PoolFits'
    BY SMTT(20), <1>5 DEF TransitOnly, PoolFits
  <2>. QED  BY Zenon, <2>1, <2>2, <2>3, <2>4
<1>6. ASSUME IInv, Lossless, UNCHANGED vars PROVE Lossless'
  <2>. USE DEF IInv, Lossless
  <2>1. /\ UNCHANGED <<slot, freeBufs, inRing, batch, work, outRing>>
        /\ RxSame /\ pkt' = pkt /\ pc' = pc
    BY Zenon, <1>6 DEF vars, rings, manager, RxSame
  <2>2. Clean'
    BY Zenon, <1>6, <2>1, EarlySame, CleanMove
  <2>3. BatchGone'
    BY Zenon, <1>6, <2>1 DEF BatchGone
  <2>4. NoBufferLost'
    BY Zenon, <1>4, <1>6, <2>1, ExclusiveSame DEF PassedOn
  <2>5. TransitOnly' /\ PoolFits'
    BY <1>6 DEF TransitOnly, PoolFits
  <2>. QED  BY Zenon, <2>2, <2>3, <2>4, <2>5
<1>7. Lossless => NoBufferLost
  BY Zenon DEF Lossless
<1>. QED  BY <1>1, <1>5, <1>6, <1>7, IInvInductive, PTL DEF Spec
=============================================================================
