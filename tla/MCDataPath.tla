---------------------------- MODULE MCDataPath ----------------------------
(* Small instances of DataPath.  An address has two "bytes", its decimal   *)
(* digits: ntohl exchanges them.  Interface 0 has address 12 and the hosts *)
(* 1x on its link, interface 1 has address 34 and the hosts 3x; everything *)
(* else is behind the gateway 16.                                          *)
EXTENDS DataPath, SequencesExt

CONSTANT Extra          \* extra buffers (nr_arg3)

MCAddrs == {11, 12, 21, 15, 51, 16, 61, 34, 43, 35, 53, 36, 63, 89, 98}
Swap == [a \in MCAddrs |-> (a % 10) * 10 + (a \div 10)]

MCIPs == [i \in Ifaces |-> IF i = 0 THEN <<12>> ELSE <<34>>]
(* 11 is the same in both byte orders; the last interface has no address.   *)
FaultIPs == [i \in Ifaces |-> IF i = 0 THEN <<11>> ELSE <<>>]

Gateway   == 16 :> 0
NoGateway == 16 :> None

LinkOf(a) ==
  CASE a \div 10 = 1 -> 0
    [] a \div 10 = 3 /\ NumInterfaces > 1 -> 1
    [] OTHER -> None
DefaultRoute == [a \in MCAddrs |->
  IF LinkOf(a) # None THEN [kind |-> "direct", iface |-> LinkOf(a)]
  ELSE [kind |-> "via", nh |-> 16]]
RingNo(q) == (IF q[1] = "rx" THEN 0 ELSE NumInterfaces * NumWorkers)
               + q[2] * NumWorkers + q[3]
NumCells  == 2 * NumInterfaces * NumWorkers * NumSlots
MCBufs    == 1 .. NumCells + Extra
MCSlots   == [q \in Rings |-> [s \in Slots |-> RingNo(q) * NumSlots + s + 1]]
MCFree    == [k \in 1 .. Extra |-> NumCells + k]

(* The names of the buffers do not matter, only who shares one with whom,   *)
(* nor where in a ring its head is, only how far the tail is ahead of it:   *)
(* Init alone names single buffers and slots.  The view lists all holders   *)
(* in a fixed order, the slots of a ring from its head on, and replaces a   *)
(* buffer by its first holder.  (The comparisons at its end make TLC       *)
(* store these functions by their values.)                                  *)
RingSeq   == [n \in 1 .. NumCells \div NumSlots |->
                CHOOSE q \in Rings : RingNo(q) = n - 1]
FromHead(q) == [n \in 1 .. NumSlots |-> slot[q][(head[q] + n - 1) % NumSlots]]
WorkerSeq == [w \in 1 .. NumWorkers |-> w - 1]
Concat(f, keys) == FoldLeft(LAMBDA s, k : s \o f[k], <<>>, keys)
BufView ==
  LET frames == inRing \o batch \o Concat(work, WorkerSeq)
                  \o Concat(outRing, WorkerSeq)
      held   == Concat([q \in Rings |-> FromHead(q)], RingSeq)
                  \o freeBufs \o [n \in 1 .. Len(frames) |-> frames[n].buf]
  IN  <<[q \in Rings |-> nm_ring_space(head[q], tail[q])],
        [n \in 1 .. Len(held) |->
           <<SelectInSeq(held, LAMBDA b : b = held[n]), pkt[held[n]]>>],
        [n \in 1 .. Len(frames) |-> <<frames[n].id, frames[n].flags>>],
        Len(freeBufs), Len(inRing), Len(batch),
        [w \in Workers |-> <<Len(work[w]), Len(outRing[w])>>],
        pc, at, left, ringid, arp, status,
        head = head, tail = tail, slot = slot, pkt = pkt>>

Ip(a)         == [type |-> "ip", valid |-> TRUE, d_ip |-> Swap[a], nh |-> None]
BadIp         == [type |-> "ip", valid |-> FALSE, d_ip |-> Swap[15], nh |-> None]
Arp(op, s, t) == [type |-> "arp", op |-> op, s_ip |-> Swap[s], t_ip |-> Swap[t]]

(* From link 0 to a host on link 1, which asks and answers there.           *)
TwoLinks == <<0, 0>> :> {Ip(35)} @@
            <<1, 0>> :> {Arp("reply", 35, 34), Arp("request", 35, 34),
                         Arp("request", 35, 36)}

(* One unresolved destination: its packets become requests or are discarded. *)
OneHost == [r \in Ifaces \X Workers |-> IF r = <<0, 0>> THEN {Ip(15)} ELSE {}]

(* Everything that goes wrong, with two workers competing for the frames:   *)
(* a bad header, no route, a next hop or an interface that cannot be used,  *)
(* a packet for the router itself.                                          *)
FaultRoutes == [a \in MCAddrs |->
  IF LinkOf(a) # None THEN [kind |-> "direct", iface |-> LinkOf(a)]
  ELSE IF a = 98 THEN [kind |-> "via", nh |-> 16] ELSE [kind |-> "invalid"]]
Faults == [r \in Ifaces \X Workers |->
  IF r # <<0, 0>> THEN {}
  ELSE {BadIp, Ip(89), Ip(98), Ip(35), Ip(11), Other, Arp("unknown", 15, 12)}]

(* One kind of packet each. *)
BadHeaders == <<0, 0>> :> {BadIp}
ToRouter   == <<0, 0>> :> {Ip(12)}
GatewayAsks == <<0, 0>> :> {Arp("request", 16, 12)}
=============================================================================
