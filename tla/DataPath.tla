----------------------------- MODULE DataPath -----------------------------
(***************************************************************************)
(* The zero-copy data path of the router: Manager::process (the thread     *)
(* that owns the netmap rings), Worker::process (one thread per worker),   *)
(* the two lock-free queues between them, and the part of the ARP table    *)
(* that decides where a frame goes.                                        *)
(*                                                                         *)
(* A frame never moves: a netmap buffer does.  Receiving swaps the buffer  *)
(* of an RX slot against one of freeBufs, transmitting swaps the buffer of *)
(* a TX slot against the frame's and puts the slot's old one in freeBufs.  *)
(*                                                                         *)
(* Addresses are 32-bit words.  Packets hold them in network byte order,   *)
(* the tables of the router in host byte order; ntohl converts.            *)
(***************************************************************************)
EXTENDS NetmapRing, Sequences, FiniteSets, FiniteSetsExt, Functions

CONSTANTS
  NumInterfaces,      \* interfaces bound to netmap
  NumWorkers,         \* worker threads = NIC rings per interface
  RING_SIZE,          \* frames a queue is sure to accept
  MANAGER_BULK_SIZE, WORKER_BULK_SIZE,
  Bufs,               \* netmap buffers
  Addrs, ntohl,       \* 32-bit words and the byte swap on them
  IPs,                \* IPs[i]: the addresses of interface i, host order
  lpm,                \* lpm[a]: what LPM::route returns for a
  nextHopIface,       \* interface of each registered next hop (gateway)
  Arrivals,           \* Arrivals[<<i, r>>]: what RX ring r of interface i may get
  InitSlots, InitFree,\* buffers of the slots and the extra buffers
  None                \* no interface, no address

Ifaces  == 0 .. NumInterfaces - 1
Workers == 0 .. NumWorkers - 1
Rings   == {"rx", "tx"} \X Ifaces \X Workers
TxRings == {q \in Rings : q[1] = "tx"}
NextHops == DOMAIN nextHopIface

(* What LPM::route returns: the index of a registered next hop, an          *)
(* interface with the NH_DIRECTLY_CONNECTED flag, or NH_INVALID.            *)
NhIndex == [kind : {"via"}, nh : NextHops]
             \cup [kind : {"direct"}, iface : Ifaces]
             \cup {[kind |-> "invalid"]}

(* Packets as the router tells them apart.  valid: IPv4HdrVerification      *)
(* returns true; nh: the address whose MAC the router wrote into d_mac.     *)
IpPacket  == [type : {"ip"}, valid : BOOLEAN, d_ip : Addrs,
              nh : Addrs \cup {None}]
ArpPacket == [type : {"arp"}, op : {"request", "reply", "unknown"},
              s_ip : Addrs, t_ip : Addrs]
Other     == [type |-> "other"]

(* What a buffer holds that no frame uses: left over bytes, which nobody    *)
(* reads before the NIC writes the next packet there.                       *)
Blank     == [type |-> "blank"]
Packet    == IpPacket \cup ArpPacket \cup {Other, Blank}

(* struct frame: the buffer and the iface word.  The code packs the         *)
(* interface ID and the flags into 16 bits; they stay apart for up to 4096  *)
(* interfaces (IFACE_ID = 0x0fff), and nothing checks that there are fewer. *)
Frame == [buf : Bufs, id : Ifaces,
          flags : SUBSET {"NOMAC", "ARP", "HOST", "DISCARD"}]

ASSUME SizesAssumption ==
  /\ NumInterfaces \in Nat \ {0} /\ NumWorkers \in Nat \ {0}
  /\ RING_SIZE \in Nat
  /\ MANAGER_BULK_SIZE \in Nat \ {0} /\ WORKER_BULK_SIZE \in Nat \ {0}

ASSUME TablesAssumption ==
  /\ ntohl \in [Addrs -> Addrs] /\ \A a \in Addrs : ntohl[ntohl[a]] = a
  /\ IPs \in [Ifaces -> Seq(Addrs)]
  /\ NextHops \subseteq Addrs
  /\ nextHopIface \in [NextHops -> Ifaces \cup {None}]
  /\ lpm \in [Addrs -> NhIndex]
  /\ None \notin Addrs /\ None \notin Ifaces

ASSUME ArrivalsAssumption ==
  /\ Arrivals \in [Ifaces \X Workers -> SUBSET (Packet \ {Blank})]
  /\ \A a \in Ifaces \X Workers, p \in IpPacket :
        p \in Arrivals[a] => p.nh = None

(* netmap hands out every buffer once: to a slot or as an extra buffer.     *)
ASSUME BuffersAssumption ==
  /\ InitSlots \in [Rings -> [Slots -> Bufs]]
  /\ InitFree \in Seq(Bufs)
  /\ IsInjective(InitFree)
  /\ \A q, r \in Rings, s, t \in Slots :
        InitSlots[q][s] = InitSlots[r][t] => q = r /\ s = t
  /\ \A q \in Rings, s \in Slots, k \in 1 .. Len(InitFree) :
        InitSlots[q][s] # InitFree[k]

VARIABLES
  head, tail, slot,   \* the netmap rings
  pkt,                \* the content of each buffer
  freeBufs,           \* Manager::freeBufs
  inRing,             \* inRings[0], filled by the manager, drained by workers
  outRing,            \* outRings[0]: one FIFO per producing worker
  work,               \* the frames each worker has dequeued and not handled
  pc, at, left, batch,\* Manager::process: place, RX ring, frames to go, f[]
  ringid,             \* Manager::process: the TX ring last used
  nextHops,           \* registered next hops whose MAC is known
  directlyConnected,  \* interface each directly connected address is known on
  missingMACs,        \* keys of Manager::missingMACs, network order
  status              \* "up", or how the process died

rings   == <<head, tail, slot>>
manager == <<pc, at, left, batch, ringid>>
arp     == <<nextHops, directlyConnected, missingMACs>>
vars    == <<rings, pkt, freeBufs, inRing, outRing, work, manager, arp, status>>

RingsOK ==
  /\ head \in [Rings -> Slots] /\ tail \in [Rings -> Slots]
  /\ slot \in [Rings -> [Slots -> Bufs]]
  /\ pkt \in [Bufs -> Packet]

QueuesOK ==
  /\ freeBufs \in Seq(Bufs)
  /\ inRing \in Seq(Frame) /\ batch \in Seq(Frame)
  /\ work \in [Workers -> Seq(Frame)] /\ outRing \in [Workers -> Seq(Frame)]

PlaceOK ==
  /\ pc \in {"poll", "rx", "fill", "tx"}
  /\ at \in Ifaces \X Workers /\ left \in Nat /\ ringid \in Workers
  /\ status \in {"up", "fatal", "bad ring"}

ArpOK ==
  /\ nextHops \subseteq NextHops
  /\ directlyConnected \in [Addrs -> Ifaces \cup {None}]
  /\ missingMACs \subseteq Addrs

(* Every variable has its type; above all, the frames in the queues name    *)
(* interfaces of the router, and `at' and ringid stay inside the arrays     *)
(* that Manager::process indexes with them (lines 175-176 and 306-313).     *)
TypeOK == RingsOK /\ QueuesOK /\ PlaceOK /\ ArpOK

(* The state initNetmap and startWorkerThreads leave behind: an RX ring is  *)
(* empty, a TX ring has all its slots but one free, no MAC is known.        *)
Init ==
  /\ head = [q \in Rings |-> 0]
  /\ tail = [q \in Rings |-> IF q[1] = "rx" THEN 0 ELSE NumSlots - 1]
  /\ slot = InitSlots
  /\ pkt = [b \in Bufs |-> Blank]
  /\ freeBufs = InitFree
  /\ inRing = <<>>
  /\ outRing = [w \in Workers |-> <<>>]
  /\ work = [w \in Workers |-> <<>>]
  /\ pc = "poll" /\ at = <<0, 0>> /\ left = 0 /\ batch = <<>> /\ ringid = 0
  /\ nextHops = {}
  /\ directlyConnected = [a \in Addrs |-> None]
  /\ missingMACs = {}
  /\ status = "up"

(* fatal(), abort() and an access outside an array end the whole process.   *)
Die(why) ==
  /\ status' = why
  /\ UNCHANGED <<rings, pkt, freeBufs, inRing, outRing, work, manager, arp>>

-----------------------------------------------------------------------------
(* poll(): the kernel synchronises the rings with the NICs, which is the    *)
(* only moment a tail moves.  On an RX ring it publishes a received packet, *)
(* on a TX ring it gives back the slot of a transmitted one.  One slot of   *)
(* every ring always stays with the kernel.                                 *)
RxSync(q, p) ==
  /\ pc = "poll" /\ q[1] = "rx"
  /\ nm_ring_next(tail[q]) # head[q]
  /\ pkt' = [pkt EXCEPT ![slot[q][tail[q]]] = p]
  /\ tail' = [tail EXCEPT ![q] = nm_ring_next(tail[q])]
  /\ UNCHANGED <<head, slot, freeBufs, inRing, outRing, work, manager, arp,
                 status>>

TxSync(q) ==
  /\ pc = "poll" /\ q[1] = "tx"
  /\ nm_ring_next(tail[q]) # head[q]
  /\ pkt' = [pkt EXCEPT ![slot[q][nm_ring_next(tail[q])]] = Blank]
  /\ tail' = [tail EXCEPT ![q] = nm_ring_next(tail[q])]
  /\ UNCHANGED <<head, slot, freeBufs, inRing, outRing, work, manager,
                 arp, status>>

(* Faulty: poll() is told to wait for POLLIN only.                          *)
PollReturnNoOut ==
  /\ pc = "poll"
  /\ \E q \in Rings \ TxRings : nm_ring_space(head[q], tail[q]) > 0
  /\ pc' = "rx" /\ at' = <<0, 0>>
  /\ UNCHANGED <<rings, pkt, freeBufs, inRing, outRing, work, left, batch,
                 ringid, arp, status>>

(* poll() waits for POLLIN | POLLOUT without a timeout and returns once a   *)
(* ring has a slot for the program.                                         *)
PollReturn ==
  /\ pc = "poll"
  /\ \E q \in Rings : nm_ring_space(head[q], tail[q]) > 0
  /\ pc' = "rx" /\ at' = <<0, 0>>
  /\ UNCHANGED <<rings, pkt, freeBufs, inRing, outRing, work, left, batch,
                 ringid, arp, status>>

-----------------------------------------------------------------------------
(* Manager::process, first half: the RX ring `at' is emptied in batches.    *)
RxRing == <<"rx", at[1], at[2]>>

(* std::vector::back() and what pop_back() leaves.                          *)
back(s)     == s[Len(s)]
pop_back(s) == SubSeq(s, 1, Len(s) - 1)

(* Faulty: freeBufs.size() is not looked at.                                *)
numFramesUnchecked ==
  Min({nm_ring_space(head[RxRing], tail[RxRing]), MANAGER_BULK_SIZE})

numFrames ==
  Min({nm_ring_space(head[RxRing], tail[RxRing]), Len(freeBufs),
       MANAGER_BULK_SIZE})

RxBatch ==
  /\ pc = "rx" /\ numFrames > 0
  /\ pc' = "fill" /\ left' = numFrames /\ batch' = <<>>
  /\ UNCHANGED <<rings, pkt, freeBufs, inRing, outRing, work, at, ringid, arp,
                 status>>

(* The slot's buffer becomes a frame, the last of freeBufs replaces it.     *)
RxFrame ==
  /\ pc = "fill" /\ left > 0
  /\ LET s == head[RxRing] IN
     /\ batch' = Append(batch, [buf |-> slot[RxRing][s], id |-> at[1],
                                flags |-> {}])
     /\ slot' = [slot EXCEPT ![RxRing][s] = back(freeBufs)]
     /\ freeBufs' = pop_back(freeBufs)
     /\ head' = [head EXCEPT ![RxRing] = nm_ring_next(s)]
  /\ left' = left - 1
  /\ UNCHANGED <<tail, pkt, inRing, outRing, work, pc, at, ringid, arp, status>>

(* try_enqueue_bulk takes all frames or none; its result is ignored.        *)
RxEnqueue ==
  /\ pc = "fill" /\ left = 0
  /\ inRing' = IF Len(inRing) + Len(batch) <= RING_SIZE
               THEN inRing \o batch ELSE inRing
  /\ batch' = <<>> /\ pc' = "rx"
  /\ UNCHANGED <<rings, pkt, freeBufs, outRing, work, at, left, ringid, arp,
                 status>>

(* Faulty: the loop over the rings of an interface goes one too far.        *)
RxNextRingPastEnd ==
  /\ pc = "rx" /\ numFrames = 0
  /\ IF at[2] + 1 <= NumWorkers
     THEN at' = <<at[1], at[2] + 1>> /\ UNCHANGED <<pc, ringid>>
     ELSE pc' = "tx" /\ ringid' = 0 /\ UNCHANGED at
  /\ UNCHANGED <<rings, pkt, freeBufs, inRing, outRing, work, left, batch, arp,
                 status>>

(* Nothing (more) to take from this ring: the next one, or the second half. *)
RxNextRing ==
  /\ pc = "rx" /\ numFrames = 0
  /\ \/ /\ at[2] + 1 < NumWorkers
        /\ at' = <<at[1], at[2] + 1>> /\ UNCHANGED <<pc, ringid>>
     \/ /\ at[2] + 1 = NumWorkers /\ at[1] + 1 < NumInterfaces
        /\ at' = <<at[1] + 1, 0>> /\ UNCHANGED <<pc, ringid>>
     \/ /\ at[2] + 1 = NumWorkers /\ at[1] + 1 = NumInterfaces
        /\ pc' = "tx" /\ ringid' = 0 /\ UNCHANGED at
  /\ UNCHANGED <<rings, pkt, freeBufs, inRing, outRing, work, left, batch, arp,
                 status>>

-----------------------------------------------------------------------------
(* Worker::process.  try_dequeue_bulk returns any non-empty prefix of the   *)
(* queue up to the bulk size; then the frames are handled one by one.       *)
WorkerDequeue(w) ==
  /\ work[w] = <<>>
  /\ \E n \in 1 .. Min({WORKER_BULK_SIZE, Len(inRing)}) :
       /\ work' = [work EXCEPT ![w] = SubSeq(inRing, 1, n)]
       /\ inRing' = SubSeq(inRing, n + 1, Len(inRing))
  /\ UNCHANGED <<rings, pkt, freeBufs, outRing, manager, arp, status>>

(* outRing is one FIFO per producer with a common limit.  The library makes *)
(* blocks for RING_SIZE elements and gives each to one producer: with       *)
(* blocks that are partly used it may refuse a frame a little earlier.      *)
Occupancy == Cardinality(UNION {{w} \X (1 .. Len(outRing[w])) : w \in Workers})

(* egressQ->try_enqueue(g); its result is ignored.                          *)
Enqueue(w, g) ==
  /\ work' = [work EXCEPT ![w] = Tail(work[w])]
  /\ outRing' = IF Occupancy < RING_SIZE
                THEN [outRing EXCEPT ![w] = Append(outRing[w], g)]
                ELSE outRing

(* The frame of worker w and the packet in its buffer; whether the address  *)
(* check of line 89 finds the (network order) destination among the (host   *)
(* order) addresses of the interface; the next hop of the packet.           *)
CurFrame(w)   == Head(work[w])
CurPacket(w)  == pkt[CurFrame(w).buf]
Routable(w)   == /\ work[w] # <<>>
                 /\ CurPacket(w).type = "ip" /\ CurPacket(w).valid
                 /\ CurPacket(w).d_ip \notin Range(IPs[CurFrame(w).id])

Index(p) == lpm[ntohl[p.d_ip]]

NhAddr(p) == IF Index(p).kind = "via" THEN Index(p).nh ELSE ntohl[p.d_ip]

NhIface(p) ==
  CASE Index(p).kind = "via"     -> nextHopIface[Index(p).nh]
    [] Index(p).kind = "direct"  -> IF directlyConnected[ntohl[p.d_ip]] # None
                                    THEN directlyConnected[ntohl[p.d_ip]]
                                    ELSE Index(p).iface
    [] Index(p).kind = "invalid" -> None

NhKnown(p) == IF Index(p).kind = "via" THEN Index(p).nh \in nextHops
              ELSE directlyConnected[ntohl[p.d_ip]] # None

(* Faulty: the frame is enqueued for the host ring.                         *)
WorkerDropToHost(w) ==
  /\ work[w] # <<>> /\ CurPacket(w).type = "ip" /\ ~Routable(w)
  /\ Enqueue(w, [CurFrame(w) EXCEPT !.flags = {"HOST"}])
  /\ UNCHANGED <<rings, pkt, freeBufs, inRing, manager, arp, status>>

(* A header that fails verification, or a packet for the router itself: the *)
(* frame is flagged but not enqueued, nobody holds its buffer any more.     *)
WorkerDrop(w) ==
  /\ work[w] # <<>> /\ CurPacket(w).type = "ip" /\ ~Routable(w)
  /\ work' = [work EXCEPT ![w] = Tail(work[w])]
  /\ UNCHANGED <<rings, pkt, freeBufs, inRing, outRing, manager, arp, status>>

(* No route, or a next hop on an interface netmap does not know.            *)
WorkerFatal(w) ==
  /\ Routable(w) /\ NhIface(CurPacket(w)) = None
  /\ Die("fatal")

WorkerForward(w) ==
  /\ Routable(w) /\ NhIface(CurPacket(w)) # None /\ NhKnown(CurPacket(w))
  /\ pkt' = [pkt EXCEPT ![CurFrame(w).buf].nh = NhAddr(CurPacket(w))]
  /\ Enqueue(w, [CurFrame(w) EXCEPT !.id = NhIface(CurPacket(w)), !.flags = {}])
  /\ UNCHANGED <<rings, freeBufs, inRing, manager, arp, status>>

(* Faulty: NOMAC is not set, the frame goes out like any other.             *)
WorkerNoMacUnflagged(w) ==
  /\ Routable(w) /\ NhIface(CurPacket(w)) # None /\ ~NhKnown(CurPacket(w))
  /\ Enqueue(w, [CurFrame(w) EXCEPT !.id = NhIface(CurPacket(w)),
                                    !.flags = {}])
  /\ UNCHANGED <<rings, pkt, freeBufs, inRing, manager, arp, status>>

WorkerNoMac(w) ==
  /\ Routable(w) /\ NhIface(CurPacket(w)) # None /\ ~NhKnown(CurPacket(w))
  /\ Enqueue(w, [CurFrame(w) EXCEPT !.id = NhIface(CurPacket(w)),
                                    !.flags = {"NOMAC"}])
  /\ UNCHANGED <<rings, pkt, freeBufs, inRing, manager, arp, status>>

WorkerArp(w) ==
  /\ work[w] # <<>> /\ CurPacket(w).type = "arp"
  /\ Enqueue(w, [CurFrame(w) EXCEPT !.flags = CurFrame(w).flags \cup {"ARP"}])
  /\ UNCHANGED <<rings, pkt, freeBufs, inRing, manager, arp, status>>

WorkerUnsupported(w) ==
  /\ work[w] # <<>> /\ CurPacket(w).type \notin {"ip", "arp"}
  /\ Enqueue(w, [CurFrame(w) EXCEPT !.id = 0, !.flags = {"DISCARD"}])
  /\ UNCHANGED <<rings, pkt, freeBufs, inRing, manager, arp, status>>

Worker(w) ==
  \/ WorkerDequeue(w) \/ WorkerDrop(w) \/ WorkerFatal(w) \/ WorkerForward(w)
  \/ WorkerNoMac(w) \/ WorkerArp(w) \/ WorkerUnsupported(w)

-----------------------------------------------------------------------------
(* Manager::process, second half: frames leave outRing in any order of the  *)
(* producers.  OutFrame(w) is the next frame of producer w.                 *)
OutFrame(w)  == Head(outRing[w])
OutPacket(w) == pkt[OutFrame(w).buf]

Flagged(w, flag) ==
  /\ pc = "tx" /\ outRing[w] # <<>>
  /\ flag \in OutFrame(w).flags

(* The end of the loop body when DISCARD is set: reclaim the buffer.        *)
Reclaim(w) ==
  /\ outRing' = [outRing EXCEPT ![w] = Tail(outRing[w])]
  /\ freeBufs' = Append(freeBufs, OutFrame(w).buf)
  /\ pkt' = [pkt EXCEPT ![OutFrame(w).buf] = Blank]
  /\ UNCHANGED <<head, slot, ringid, status>>

(* Faulty: the round robin wraps one ring too late.                         *)
TxRingIdLateWrap(w) == IF ringid = NumWorkers THEN 0 ELSE ringid + 1

(* The end of the loop body otherwise, p being what the frame now holds:    *)
(* pick a TX ring round robin and swap buffers with its next slot, or       *)
(* reclaim the buffer when the ring has no slot.                            *)
TxRingId(w) ==
  LET id == IF "HOST" \in OutFrame(w).flags THEN NumWorkers ELSE ringid
  IN  IF id + 1 = NumWorkers THEN 0 ELSE id + 1

(* Faulty: freeBufs gets the frame's buffer, not the one of the slot.       *)
TransmitNoSwap(w, p) ==
  LET q == <<"tx", OutFrame(w).id, TxRingId(w)>> IN
  /\ outRing' = [outRing EXCEPT ![w] = Tail(outRing[w])]
  /\ ringid' = TxRingId(w)
  /\ freeBufs' = Append(freeBufs, OutFrame(w).buf)
  /\ IF nm_ring_space(head[q], tail[q]) > 0
     THEN /\ slot' = [slot EXCEPT ![q][head[q]] = OutFrame(w).buf]
          /\ head' = [head EXCEPT ![q] = nm_ring_next(head[q])]
          /\ pkt' = [pkt EXCEPT ![OutFrame(w).buf] = p]
     ELSE UNCHANGED <<slot, head, pkt>>
  /\ UNCHANGED status

(* Faulty: without space in the ring the frame is just dropped.             *)
TransmitNoReclaim(w, p) ==
  LET q == <<"tx", OutFrame(w).id, TxRingId(w)>> IN
  /\ outRing' = [outRing EXCEPT ![w] = Tail(outRing[w])]
  /\ ringid' = TxRingId(w)
  /\ IF nm_ring_space(head[q], tail[q]) > 0
     THEN /\ freeBufs' = Append(freeBufs, slot[q][head[q]])
          /\ slot' = [slot EXCEPT ![q][head[q]] = OutFrame(w).buf]
          /\ head' = [head EXCEPT ![q] = nm_ring_next(head[q])]
          /\ pkt' = [pkt EXCEPT ![OutFrame(w).buf] = p]
     ELSE UNCHANGED <<freeBufs, slot, head, pkt>>
  /\ UNCHANGED status

Transmit(w, p) ==
  LET q == <<"tx", OutFrame(w).id, TxRingId(w)>> IN
  IF TxRingId(w) \notin Workers
  THEN /\ status' = "bad ring"
       /\ UNCHANGED <<outRing, freeBufs, head, slot, pkt, ringid>>
  ELSE /\ outRing' = [outRing EXCEPT ![w] = Tail(outRing[w])]
       /\ ringid' = TxRingId(w)
       /\ IF nm_ring_space(head[q], tail[q]) > 0
          THEN /\ freeBufs' = Append(freeBufs, slot[q][head[q]])
               /\ slot' = [slot EXCEPT ![q][head[q]] = OutFrame(w).buf]
               /\ head' = [head EXCEPT ![q] = nm_ring_next(head[q])]
               /\ pkt' = [pkt EXCEPT ![OutFrame(w).buf] = p]
          ELSE /\ freeBufs' = Append(freeBufs, OutFrame(w).buf)
               /\ pkt' = [pkt EXCEPT ![OutFrame(w).buf] = Blank]
               /\ UNCHANGED <<slot, head>>
       /\ UNCHANGED status

TxForward(w) ==
  /\ pc = "tx" /\ outRing[w] # <<>>
  /\ OutFrame(w).flags \subseteq {"HOST"}
  /\ Transmit(w, OutPacket(w))
  /\ UNCHANGED <<tail, inRing, work, pc, at, left, batch, arp>>

TxDiscard(w) ==
  /\ Flagged(w, "DISCARD")
  /\ Reclaim(w)
  /\ UNCHANGED <<tail, inRing, work, pc, at, left, batch, arp>>

(* NOMAC: Manager asks for the destination of the packet, at most once in   *)
(* half a second; the clock is not modelled, an old entry may have expired. *)
prepareRequest(i, ip) ==
  [type |-> "arp", op |-> "request", s_ip |-> ntohl[IPs[i][1]], t_ip |-> ip]

(* Faulty: the request is written, but the frame stays first in outRing.    *)
TxNoMacRequestAgain(w) ==
  /\ Flagged(w, "NOMAC") /\ IPs[OutFrame(w).id] # <<>>
  /\ missingMACs' = missingMACs \cup {OutPacket(w).d_ip}
  /\ pkt' = [pkt EXCEPT ![OutFrame(w).buf] =
                prepareRequest(OutFrame(w).id, OutPacket(w).d_ip)]
  /\ UNCHANGED <<rings, freeBufs, inRing, outRing, work, manager, nextHops,
                 directlyConnected, status>>

TxNoMacRequest(w) ==
  /\ Flagged(w, "NOMAC") /\ IPs[OutFrame(w).id] # <<>>
  /\ missingMACs' = missingMACs \cup {OutPacket(w).d_ip}
  /\ Transmit(w, prepareRequest(OutFrame(w).id, OutPacket(w).d_ip))
  /\ UNCHANGED <<tail, inRing, work, pc, at, left, batch, nextHops,
                 directlyConnected>>

(* Faulty: the frame goes back to outRing to wait for the answer.           *)
TxNoMacWaitRequeue(w) ==
  /\ Flagged(w, "NOMAC") /\ OutPacket(w).d_ip \in missingMACs
  /\ outRing' = [outRing EXCEPT ![w] = Append(Tail(@), OutFrame(w))]
  /\ UNCHANGED <<rings, pkt, freeBufs, inRing, work, manager, arp, status>>

(* Faulty: the frame is dropped without DISCARD being set.                  *)
TxNoMacWaitDrop(w) ==
  /\ Flagged(w, "NOMAC") /\ OutPacket(w).d_ip \in missingMACs
  /\ outRing' = [outRing EXCEPT ![w] = Tail(@)]
  /\ UNCHANGED <<rings, pkt, freeBufs, inRing, work, manager, arp, status>>

TxNoMacWait(w) ==
  /\ Flagged(w, "NOMAC") /\ OutPacket(w).d_ip \in missingMACs
  /\ Reclaim(w)
  /\ UNCHANGED <<tail, inRing, work, pc, at, left, batch, arp>>

TxNoMacFatal(w) ==
  /\ Flagged(w, "NOMAC") /\ IPs[OutFrame(w).id] = <<>>
  /\ Die("fatal")

(* ARPTable::handleFrame.  A sender that is a registered next hop on this   *)
(* interface gets its MAC into the next hop table, any other one into       *)
(* directlyConnected, where insert() never replaces an entry.               *)
Registered(a, i) == a \in NextHops /\ nextHopIface[a] = i

Learn(a, i) ==
  IF Registered(a, i)
  THEN nextHops' = nextHops \cup {a} /\ UNCHANGED directlyConnected
  ELSE /\ UNCHANGED nextHops
       /\ directlyConnected' = IF directlyConnected[a] = None
                               THEN [directlyConnected EXCEPT ![a] = i]
                               ELSE directlyConnected

ArpFrame(w, op) ==
  Flagged(w, "ARP") /\ OutPacket(w).type = "arp" /\ OutPacket(w).op = op

ForUs(w) == ntohl[OutPacket(w).t_ip] \in Range(IPs[OutFrame(w).id])
Sender(w) == ntohl[OutPacket(w).s_ip]

(* handleRequest, addressed to another node: discarded.                     *)
TxArpForeign(w) ==
  /\ ArpFrame(w, "request") /\ ~ForUs(w)
  /\ Reclaim(w)
  /\ UNCHANGED <<tail, inRing, work, pc, at, left, batch, arp>>

(* handleRequest, addressed to the router: learn; the request becomes a     *)
(* reply, unless the sender is a registered next hop (early return).        *)
TxArpRequest(w) ==
  /\ ArpFrame(w, "request") /\ ForUs(w)
  /\ Learn(Sender(w), OutFrame(w).id)
  /\ Transmit(w, IF Registered(Sender(w), OutFrame(w).id) THEN OutPacket(w)
                 ELSE [type |-> "arp", op |-> "reply",
                       s_ip |-> OutPacket(w).t_ip, t_ip |-> OutPacket(w).s_ip])
  /\ UNCHANGED <<tail, inRing, work, pc, at, left, batch, missingMACs>>

(* handleReply: learn; the frame itself is sent on like any other.          *)
TxArpReply(w) ==
  /\ ArpFrame(w, "reply")
  /\ Learn(Sender(w), OutFrame(w).id)
  /\ Transmit(w, OutPacket(w))
  /\ UNCHANGED <<tail, inRing, work, pc, at, left, batch, missingMACs>>

TxArpUnknown(w) ==
  /\ ArpFrame(w, "unknown")
  /\ Transmit(w, OutPacket(w))
  /\ UNCHANGED <<tail, inRing, work, pc, at, left, batch, arp>>

Tx(w) ==
  \/ TxForward(w) \/ TxDiscard(w)
  \/ TxNoMacRequest(w) \/ TxNoMacWait(w) \/ TxNoMacFatal(w)
  \/ TxArpForeign(w) \/ TxArpRequest(w) \/ TxArpReply(w) \/ TxArpUnknown(w)

(* try_dequeue finds nothing: process() returns and is called again.        *)
TxDone ==
  /\ pc = "tx" /\ \A w \in Workers : outRing[w] = <<>>
  /\ pc' = "poll"
  /\ UNCHANGED <<rings, pkt, freeBufs, inRing, outRing, work, at, left, batch,
                 ringid, arp, status>>

-----------------------------------------------------------------------------
Manager ==
  \/ PollReturn \/ RxBatch \/ RxFrame \/ RxEnqueue \/ RxNextRing
  \/ (\E w \in Workers : Tx(w)) \/ TxDone

Nic == \E q \in Rings : TxSync(q) \/ \E p \in Arrivals[<<q[2], q[3]>>] : RxSync(q, p)

Next == status = "up" /\ (Manager \/ Nic \/ \E w \in Workers : Worker(w))

Spec == Init /\ [][Next]_vars

(* The OS runs every thread, and a NIC transmits what it was given.         *)
FairSpec ==
  /\ Spec
  /\ WF_vars(status = "up" /\ Manager)
  /\ \A w \in Workers : WF_vars(status = "up" /\ Worker(w))
  /\ \A q \in TxRings : WF_vars(status = "up" /\ TxSync(q))
-----------------------------------------------------------------------------
(* The cells that can hold a buffer, <<where, which, index>>: a slot of a   *)
(* netmap ring, an element of freeBufs, or a frame in one of the queues.    *)
Queues == {<<"in", 0>>, <<"batch", 0>>} \cup ({"work", "out"} \X Workers)

Queue(k) ==
  CASE k[1] = "in"    -> inRing
    [] k[1] = "batch" -> batch
    [] k[1] = "work"  -> work[k[2]]
    [] k[1] = "out"   -> outRing[k[2]]

SlotCells  == {"slot"} \X Rings \X Slots
FreeCells  == {"free"} \X {0} \X (1 .. Len(freeBufs))
FrameCells == UNION {{"frame"} \X {k} \X (1 .. Len(Queue(k))) : k \in Queues}
Cells      == SlotCells \cup FreeCells \cup FrameCells

Holds(c) ==
  CASE c[1] = "slot"  -> slot[c[2]][c[3]]
    [] c[1] = "free"  -> freeBufs[c[3]]
    [] c[1] = "frame" -> Queue(c[2])[c[3]].buf

(* No netmap buffer ever has two holders, across the swaps of               *)
(* Manager::process (lines 206-208, 302, 320-334) and both queues: two      *)
(* frames never share memory and no buffer is handed to the NIC twice.      *)
BufferExclusive == \A c, d \in Cells : Holds(c) = Holds(d) => c = d

(* The batch computed from nm_ring_space and freeBufs.size() (lines         *)
(* 180-187) stays takeable until its last frame: freeBufs.back() (206) is   *)
(* never called on an empty vector, no slot of the kernel is taken.         *)
BatchFits ==
  pc = "fill" =>
    /\ left <= Len(freeBufs)
    /\ left <= nm_ring_space(head[RxRing], tail[RxRing])

(* Lines 250-251 read the destination of a NOMAC frame without looking at   *)
(* its type: whatever happened to other buffers since the worker set the    *)
(* flag, its buffer still holds the IPv4 packet.                            *)
NoMacIsIp ==
  \A w \in Workers : \A n \in 1 .. Len(outRing[w]) :
     "NOMAC" \in outRing[w][n].flags => pkt[outRing[w][n].buf].type = "ip"

(* A slot of a TX ring whose frame the NIC has not sent yet.                *)
Pending(q, s) == ~UserSlot(head[q], tail[q], s) /\ s # tail[q]

(* An IPv4 packet handed to the NIC carries the MAC of the next hop the LPM *)
(* selects for its destination and leaves on the interface of that next     *)
(* hop: a frame without a MAC never gets past the NOMAC handling of the     *)
(* manager (245-287), whatever is learned meanwhile.                        *)
SentToNextHop ==
  \A q \in TxRings, s \in Slots :
     LET p == pkt[slot[q][s]] IN
     Pending(q, s) => /\ p # Blank
                      /\ p.type = "ip" => /\ p.nh = NhAddr(p)
                                          /\ q[2] = NhIface(p)

(* Nobody writes into a frame the NIC is still sending: from the moment     *)
(* its slot is filled (321-329) until poll() gives the slot back, both the  *)
(* slot's buffer and the packet in it stay the same.                        *)
PendingUntouched ==
  [][\A q \in TxRings, s \in Slots :
       Pending(q, s) /\ Pending(q, s)' =>
         /\ slot'[q][s] = slot[q][s]
         /\ pkt'[slot[q][s]] = pkt[slot[q][s]]]_vars

(* Frames leave through a NIC ring: the round robin (306-309) never selects *)
(* the host ring, which is the last one of netmapTxRings[iface], nor runs   *)
(* past it, as it would for a frame with IFACE_HOST.                        *)
OnNicRing == status # "bad ring"

(* Where every destination has a route and every interface an address, the  *)
(* process does not end: no fatal(), no abort(), no index out of bounds.    *)
StaysUp == status = "up"

(* Tables for which the router stays up: LPM::route knows every address,    *)
(* the next hops are on interfaces netmap knows, and every interface has an *)
(* address to put into a request.                                           *)
AllRouted ==
  /\ \A a \in Addrs : lpm[a].kind # "invalid"
  /\ \A h \in NextHops : nextHopIface[h] # None
  /\ \A i \in Ifaces : IPs[i] # <<>>

SlotBufs  == {Holds(c) : c \in SlotCells}
FreeSet   == {Holds(c) : c \in FreeCells}
FrameBufs == {Holds(c) : c \in FrameCells}

(* Every buffer still has a holder: a frame that is not sent is reclaimed   *)
(* ("Just reclaim buffer", manager.cpp:297).                                *)
NoBufferLost == Bufs = SlotBufs \cup FreeSet \cup FrameBufs

(* Traffic for which no buffer is lost: an IPv4 packet passes the checks of *)
(* the worker (82-95), it is well formed and not for the interface itself.  *)
Transit(p, i) == p.type = "ip" => p.valid /\ p.d_ip \notin Range(IPs[i])

TransitOnly == \A i \in Ifaces, j \in Workers : \A p \in Arrivals[<<i, j>>] : Transit(p, i)

(* ... and queues that are long enough for all extra buffers.               *)
PoolFits ==
  /\ Bufs = {InitSlots[q][s] : q \in Rings, s \in Slots} \cup Range(InitFree)
  /\ Len(InitFree) <= RING_SIZE

(* The data path implements BufferPool: each step hands over buffers the    *)
(* way one of its actions says, or not at all.                              *)
Pool == INSTANCE BufferPool WITH
          nic <- SlotBufs, free <- FreeSet, frames <- FrameBufs,
          InitNic <- {InitSlots[q][s] : q \in Rings, s \in Slots},
          InitPool <- {InitFree[n] : n \in 1 .. Len(InitFree)}
ImplementsPool == Pool!PoolSpec

(* A packet for one of the router's own addresses is never routed ("Check   *)
(* if the packet is targeted at the router", worker.cpp:88).                *)
LocalNotRouted ==
  \A w \in Workers : \A n \in 1 .. Len(outRing[w]) :
     LET p == pkt[outRing[w][n].buf] IN
     p.type = "ip" => \A i \in Ifaces : ntohl[p.d_ip] \notin Range(IPs[i])

(* The only ARP requests the router sends are its own: an incoming one      *)
(* becomes a reply ("This function prepares a reply to respond to the       *)
(* incoming request", arpTable.hpp:121-122).                                *)
RequestsAnswered ==
  \A q \in TxRings, s \in Slots :
     LET p == pkt[slot[q][s]] IN
     Pending(q, s) /\ p.type = "arp" /\ p.op = "request" =>
       ntohl[p.s_ip] \in Range(IPs[q[2]])

(* process() comes back to poll() again and again: neither half of it can   *)
(* loop for ever, although the workers keep filling outRing meanwhile.      *)
ManagerReturns == []<>(pc = "poll")

(* No frame waits for ever in inRing, in a worker or in outRing: each of    *)
(* these FIFOs is empty again and again, or gives up a frame again and      *)
(* again.  poll() in particular returns while a worker has finished frames, *)
(* although no packet arrives (162-172).                                    *)
QueuesMove ==
  \A k \in Queues :
     \/ []<>(Queue(k) = <<>>)
     \/ []<><<Len(Queue(k))' < Len(Queue(k))>>_vars

(* No received frame waits for ever in an RX ring: as long as the workers   *)
(* enqueue every frame (see TransitOnly), freeBufs (181-184) does not stay  *)
(* empty, be a MAC missing for ever.                                        *)
RxMoves ==
  \A q \in Rings \ TxRings :
     \/ []<>(nm_ring_space(head[q], tail[q]) = 0)
     \/ []<><<head'[q] # head[q]>>_vars
=============================================================================
