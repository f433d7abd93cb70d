----------------------------- MODULE ArpProofs ------------------------------
EXTENDS Arp, TLAPS

(***************************************************************************)
(* The inductive invariant of Arp and the theorems about it.               *)
(***************************************************************************)

(* Why a frame is under way.  A neighbour that asks the router counts as    *)
(* having spoken, and so does one that replies, unless it was asked: that   *)
(* only happens to destinations of packets.                                 *)
Provoked ==
  \A m \in wire :
    /\ m.from = "host" => m.s_ip \in Hosts
    /\ m.from = "host" /\ m.op = "request" /\ m.t_ip \in OurIPs =>
         \A n \in NextHops : n[1] = m.s_ip => n \in spoke
    /\ m.from = "host" /\ m.op = "reply" =>
         m.s_ip \in Dests \/ \A n \in NextHops : n[1] = m.s_ip => n \in spoke
    /\ m.from = "router" /\ m.op = "request" => m.t_ip \in Dests \cup OurIPs

(* Neighbour n[1] has or had this MAC on interface n[2].                    *)
Owned(n, m) == [iface |-> n[2], mac |-> m] \in had[n[1]]

(* What the table holds, the old half of a torn read included, was true.    *)
LearntTrue ==
  /\ \A h \in Hosts : at[h] \in had[h]
  /\ \A n \in NextHops : nextHops[n] = Zero \/ Owned(n, nextHops[n])
  /\ \A h \in Hosts : directlyConnected[h] = None \/ directlyConnected[h] \in had[h]
  /\ busy # None /\ busy.entry \in NextHops => busy.old = Zero \/ Owned(busy.entry, busy.old)

(* A neighbour is in directlyConnected from the first frame on that is no   *)
(* next hop's.                                                              *)
HeardFirst ==
  /\ \A n \in (Hosts \X Ifaces) \ NextHops :
        heard[n] # <<>> => directlyConnected[n[1]] # None
  /\ \A h \in Hosts : directlyConnected[h] # None =>
        heard[<<h, directlyConnected[h].iface>>] # <<>>

Learning == LearntTrue /\ HeardFirst /\ LastOrFirst /\ SilentNextHopUnknown

IInv == TypeOK /\ BindingsTrue /\ Provoked /\ Learning

-----------------------------------------------------------------------------
(* The links and the frames on them.                                        *)

(* What the assumption says of the router's own addresses.                  *)
LEMMA OwnFacts ==
  ASSUME NEW i \in Ifaces
  PROVE  /\ Range(IPs[i]) \subseteq OurIPs /\ Range(IPs[i]) \cap Hosts = {}
         /\ IPs[i][1] \in Range(IPs[i]) /\ mac[i] \in Range(mac)
<1>1. 1 \in DOMAIN IPs[i] /\ i \in DOMAIN mac /\ Range(IPs[i]) \cap Hosts = {}
  BY Zenon, ArpAssumption
<1>2. Range(IPs[i]) \subseteq OurIPs
  BY Zenon DEF OurIPs
<1>. QED  BY Zenon, <1>1, <1>2 DEF Range

(* No neighbour has an address of the router.                               *)
LEMMA OurIPsFacts == ASSUME NEW h \in Hosts PROVE h \notin OurIPs
BY Zenon, OwnFacts DEF OurIPs

(* What is true of one frame under way.                                     *)
FrameOK(m) ==
  /\ m \in Frame
  /\ IF m.s_ip \in Hosts THEN [iface |-> m.iface, mac |-> m.s_mac] \in had[m.s_ip]
     ELSE m.s_ip \in Range(IPs[m.iface]) /\ m.s_mac = mac[m.iface]
  /\ m.from = "host" => m.s_ip \in Hosts
  /\ m.from = "host" /\ m.op = "request" /\ m.t_ip \in OurIPs =>
       \A n \in NextHops : n[1] = m.s_ip => n \in spoke
  /\ m.from = "host" /\ m.op = "reply" =>
       m.s_ip \in Dests \/ \A n \in NextHops : n[1] = m.s_ip => n \in spoke
  /\ m.from = "router" /\ m.op = "request" => m.t_ip \in Dests \cup OurIPs

WireOK == \A m \in wire : FrameOK(m)

(* The invariant's conjuncts about frames, frame by frame.                  *)
LEMMA WireFacts == WireOK <=> wire \subseteq Frame /\ BindingsTrue /\ Provoked
BY Zenon DEF WireOK, FrameOK, BindingsTrue, Provoked

(* The histories of the hosts only grow.                                    *)
Grows == spoke \subseteq spoke' /\ \A h \in Hosts : had[h] \subseteq had'[h]

(* No step forgets where a host was or who spoke.                           *)
LEMMA GrowsNext ==
  ASSUME TypeOK, Next
  PROVE  Grows
<1>1. ASSUME UNCHANGED <<spoke, had>> PROVE Grows
  BY Zenon, <1>1 DEF Grows
<1>2. ASSUME NEW h \in Hosts, Move(h) PROVE Grows
  <2>1. had \in [Hosts -> SUBSET Neighbour]
    BY Zenon DEF TypeOK
  <2>2. spoke' = spoke /\ \E n : had' = [had EXCEPT ![h] = @ \cup {n}]
    BY Zenon, <1>2 DEF Move
  <2>. QED  BY Zenon, <2>1, <2>2 DEF Grows
<1>3. ASSUME NEW h \in Hosts, Ask(h) \/ Announce(h) PROVE Grows
  BY Zenon, <1>3 DEF Ask, Announce, hosts, Grows
<1>4. ASSUME NEW h \in Hosts, AskOther(h) \/ HearsRequest(h) \/ handleReply(h) \/ handleRequest(h)
      PROVE  Grows
  BY Zenon, <1>1, <1>4 DEF AskOther, HearsRequest, handleReply, handleRequest, hosts
<1>5. CASE Lose \/ DiscardRequest \/ Written
  BY Zenon, <1>1, <1>5 DEF Lose, DiscardRequest, Written, hosts
<1>6. ASSUME NEW d \in Dests, Lookup(d) \/ MissingMac(d) \/ Age(d) PROVE Grows
  BY Zenon, <1>1, <1>6 DEF Lookup, MissingMac, Age, hosts
<1>. QED  BY Zenon, <1>2, <1>3, <1>4, <1>5, <1>6 DEF Next

(* What is true of a frame stays true.                                      *)
LEMMA FrameStays == ASSUME Grows, NEW m, FrameOK(m) PROVE FrameOK(m)'
BY Zenon DEF FrameOK, Grows

(* A frame a neighbour sends.                                               *)
LEMMA ByHostOK ==
  ASSUME TypeOK, LearntTrue, Grows, NEW h \in Hosts, NEW op \in {"request", "reply"},
         NEW ip \in Hosts \cup Dests \cup OurIPs,
         op = "reply" => h \in Dests \/ \A n \in NextHops : n[1] = h => n \in spoke',
         op = "request" /\ ip \in OurIPs => \A n \in NextHops : n[1] = h => n \in spoke',
         NEW m, m = ByHost(h, op, ip)
  PROVE  FrameOK(m)'
<1>1. at[h] \in Neighbour /\ at[h] \in had'[h]
  BY Zenon DEF TypeOK, LearntTrue, Grows
<1>2. at[h].iface \in Ifaces /\ at[h].mac \in Macs
      /\ [iface |-> at[h].iface, mac |-> at[h].mac] = at[h]
  BY <1>1 DEF Neighbour
<1>3. /\ m.from = "host" /\ m.iface = at[h].iface /\ m.op = op /\ m.s_ip = h
      /\ m.s_mac = at[h].mac /\ m.t_ip = ip
  BY DEF ByHost
<1>4. m \in Frame
  BY <1>2 DEF ByHost, Frame
<1>. QED  BY Zenon, <1>1, <1>2, <1>3, <1>4 DEF FrameOK

(* A frame the router sends with its own MAC.                               *)
LEMMA ByRouterOK ==
  ASSUME NEW i \in Ifaces, NEW op \in {"request", "reply"}, NEW s \in Range(IPs[i]),
         NEW ip \in Hosts \cup Dests \cup OurIPs, op = "request" => ip \in Dests \cup OurIPs,
         NEW m, m = [from |-> "router", iface |-> i, op |-> op, s_ip |-> s,
                     s_mac |-> mac[i], t_ip |-> ip]
  PROVE  FrameOK(m)'
<1>1. /\ m.from = "router" /\ m.iface = i /\ m.op = op /\ m.s_ip = s
      /\ m.s_mac = mac[i] /\ m.t_ip = ip
  OBVIOUS
<1>2. s \in OurIPs /\ s \notin Hosts /\ mac[i] \in Range(mac)
  BY Zenon, OwnFacts
<1>3. m \in Frame
  BY <1>2 DEF Frame
<1>. QED  BY Zenon, <1>1, <1>2, <1>3 DEF FrameOK

(* A frame that goes out where it came from, as it came.                    *)
LEMMA EchoOK ==
  ASSUME Grows, NEW m, FrameOK(m), m.op = "request" => m.t_ip \in OurIPs,
         NEW e, e = Echo(m)
  PROVE  FrameOK(e)'
<1>1. m \in Frame
  BY Zenon DEF FrameOK
<1>2. /\ e \in Frame /\ e.from = "router" /\ e.iface = m.iface /\ e.op = m.op
      /\ e.s_ip = m.s_ip /\ e.s_mac = m.s_mac /\ e.t_ip = m.t_ip
  BY <1>1 DEF Echo, Frame
<1>. QED  BY Zenon, <1>2 DEF FrameOK, Grows

(* Every frame sent is as it should be.                                     *)
LEMMA WireNext ==
  ASSUME TypeOK, WireOK, LearntTrue, Next
  PROVE  WireOK'
<1>1. Grows
  BY Zenon, GrowsNext
<1>2. ASSUME UNCHANGED wire PROVE WireOK'
  BY Zenon, <1>1, <1>2, FrameStays DEF WireOK
<1>3. ASSUME NEW h \in Hosts, Move(h) PROVE WireOK'
  BY Zenon, <1>2, <1>3 DEF Move
<1>4. ASSUME NEW h \in Hosts, Ask(h) \/ Announce(h) PROVE WireOK'
  <2>1. PICK op \in {"request", "reply"}, ip \in Range(IPs[at[h].iface]) :
             wire' \in Links({ByHost(h, op, ip)})
    BY Zenon, <1>4 DEF Ask, Announce
  <2>2. at[h].iface \in Ifaces
    BY DEF TypeOK, Neighbour
  <2>3. ip \in OurIPs
    BY Zenon, <2>2, OwnFacts
  <2>4. \A n \in NextHops : n[1] = h => n \in spoke'
    BY Zenon, <1>4 DEF Ask, Announce
  <2>5. \A m \in {ByHost(h, op, ip)} : FrameOK(m)'
    BY <1>1, <2>3, <2>4, ByHostOK
  <2>. QED  BY Zenon, <1>1, <2>1, <2>5, FrameStays DEF WireOK, Links
<1>5. ASSUME NEW h \in Hosts, AskOther(h) PROVE WireOK'
  <2>1. PICK o \in Hosts : wire' \in Links({ByHost(h, "request", o)})
    BY Zenon, <1>5 DEF AskOther
  <2>2. o \notin OurIPs
    BY Zenon, OurIPsFacts
  <2>3. \A m \in {ByHost(h, "request", o)} : FrameOK(m)'
    BY <1>1, <2>2, ByHostOK
  <2>. QED  BY Zenon, <1>1, <2>1, <2>3, FrameStays DEF WireOK, Links
<1>6. ASSUME NEW h \in Hosts, HearsRequest(h) PROVE WireOK'
  <2>1. PICK f \in wire : /\ f.from = "router" /\ f.op = "request" /\ f.t_ip = h
                          /\ wire' \in Links({ByHost(h, "reply", f.s_ip)})
    BY Zenon, <1>6 DEF HearsRequest
  <2>2. h \in Dests
    BY Zenon, <2>1, OurIPsFacts DEF WireOK, FrameOK
  <2>3. f.s_ip \in Hosts \cup OurIPs
    <3>1. f \in Frame
      BY Zenon DEF WireOK, FrameOK
    <3>. QED  BY <3>1 DEF Frame
  <2>4. \A m \in {ByHost(h, "reply", f.s_ip)} : FrameOK(m)'
    BY <1>1, <2>2, <2>3, ByHostOK
  <2>. QED  BY Zenon, <1>1, <2>1, <2>4, FrameStays DEF WireOK, Links
<1>7. ASSUME NEW h \in Hosts, handleReply(h) PROVE WireOK'
  <2>1. PICK f \in wire : f.op = "reply" /\ wire' \in Links({Echo(f)})
    BY Zenon, <1>7 DEF handleReply
  <2>2. \A m \in {Echo(f)} : FrameOK(m)'
    BY <1>1, <2>1, EchoOK DEF WireOK
  <2>. QED  BY Zenon, <1>1, <2>1, <2>2, FrameStays DEF WireOK, Links
<1>8. ASSUME NEW h \in Hosts, handleRequest(h) PROVE WireOK'
  <2>1. PICK f \in wire : /\ f.s_ip = h /\ f.t_ip \in Range(IPs[f.iface])
                          /\ wire' \in Links({IF <<h, f.iface>> \in NextHops THEN Echo(f)
                                              ELSE Reply(f)})
    BY Zenon, <1>8 DEF handleRequest
  <2>2. FrameOK(f) /\ f.iface \in Ifaces
    BY DEF WireOK, FrameOK, Frame
  <2>3. f.t_ip \in OurIPs
    BY Zenon, <2>1, <2>2, OwnFacts
  <2>4. \A m : m = Echo(f) => FrameOK(m)'
    BY <1>1, <2>2, <2>3, EchoOK
  <2>5. \A m : m = Reply(f) => FrameOK(m)'
    BY <2>1, <2>2, ByRouterOK DEF Reply
  <2>6. \A m \in {IF <<h, f.iface>> \in NextHops THEN Echo(f) ELSE Reply(f)} : FrameOK(m)'
    BY Zenon, <2>4, <2>5
  <2>. QED  BY Zenon, <1>1, <2>1, <2>6, FrameStays DEF WireOK, Links
<1>9. CASE Lose \/ DiscardRequest
  <2>1. wire' \subseteq wire
    BY Zenon, <1>9 DEF Lose, DiscardRequest
  <2>. QED  BY Zenon, <1>1, <2>1, FrameStays DEF WireOK
<1>10. CASE Written
  BY Zenon, <1>2, <1>10 DEF Written
<1>11. ASSUME NEW d \in Dests, Lookup(d) \/ Age(d) PROVE WireOK'
  BY Zenon, <1>2, <1>11 DEF Lookup, Age
<1>12. ASSUME NEW d \in Dests, MissingMac(d) PROVE WireOK'
  <2>1. PICK f \in noMac : wire' = wire \/ wire' \in Links({Request(d, f[2])})
    BY Zenon, <1>12 DEF MissingMac
  <2>2. f[2] \in Ifaces
    BY DEF TypeOK
  <2>3. \A m \in {Request(d, f[2])} : FrameOK(m)'
    BY <2>2, OwnFacts, ByRouterOK DEF Request
  <2>. QED  BY Zenon, <1>1, <1>2, <2>1, <2>3, FrameStays DEF WireOK, Links
<1>. QED  BY Zenon, <1>3, <1>4, <1>5, <1>6, <1>7, <1>8, <1>9, <1>10, <1>11, <1>12 DEF Next
-----------------------------------------------------------------------------
(* The table.                                                               *)

(* The table after neighbour h was heard on interface i with MAC x.         *)
Learnt(h, i, x) ==
  /\ heard' = [heard EXCEPT ![<<h, i>>] = IF @ = <<>> THEN <<x, x>> ELSE <<@[1], x>>]
  /\ \/ /\ <<h, i>> \in NextHops
        /\ busy' = [entry |-> <<h, i>>, old |-> nextHops[<<h, i>>]]
        /\ nextHops' = [nextHops EXCEPT ![<<h, i>>] = x]
        /\ UNCHANGED directlyConnected
     \/ /\ <<h, i>> \notin NextHops
        /\ busy' = [entry |-> None, old |-> Zero]
        /\ directlyConnected' = [directlyConnected EXCEPT
                                   ![h] = IF @ = None THEN [iface |-> i, mac |-> x] ELSE @]
        /\ UNCHANGED nextHops

(* Why h was heard: a packet for it, or it spoke.                           *)
Reason(h) == h \in Dests \/ \A n \in NextHops : n[1] = h => n \in spoke

(* The frames that are handled come from neighbours.                        *)
LEMMA LearnFacts ==
  ASSUME WireOK, TypeOK, NEW h \in Hosts, NEW m \in wire, m.from = "host", m.s_ip = h, Learn(m)
  PROVE  /\ Learnt(h, m.iface, m.s_mac) /\ m.iface \in Ifaces /\ m.s_mac \in Macs
         /\ [iface |-> m.iface, mac |-> m.s_mac] \in had[h]
<1>1. m \in Frame /\ [iface |-> m.iface, mac |-> m.s_mac] \in had[h]
  BY Zenon DEF WireOK, FrameOK
<1>2. [iface |-> m.iface, mac |-> m.s_mac] \in Neighbour
  BY Zenon, <1>1 DEF TypeOK
<1>3. m.iface \in Ifaces /\ m.s_mac \in Macs
  BY <1>2 DEF Neighbour
<1>4. Learnt(h, m.iface, m.s_mac)
  BY Zenon DEF Learn, Learnt
<1>. QED  BY Zenon, <1>1, <1>3, <1>4

(* What a step does to the table.                                           *)
TableKept == UNCHANGED <<nextHops, directlyConnected, heard>> /\ busy' \in {busy, None}
TableLearns ==
  /\ UNCHANGED <<at, moves, had, spoke, noMac, missingMACs>>
  /\ \E h \in Hosts, i \in Ifaces, x \in Macs :
       Learnt(h, i, x) /\ [iface |-> i, mac |-> x] \in had[h] /\ Reason(h)

(* handleReply and handleRequest are the only steps that change the table.  *)
LEMMA TableNext ==
  ASSUME WireOK, TypeOK, Next
  PROVE  TableKept \/ TableLearns
<1>1. ASSUME NEW h \in Hosts, \/ Move(h) \/ Ask(h) \/ AskOther(h) \/ Announce(h)
                              \/ HearsRequest(h)
      PROVE  TableKept
  BY Zenon, <1>1 DEF Move, Ask, AskOther, Announce, HearsRequest, table, TableKept
<1>2. ASSUME NEW h \in Hosts, handleReply(h) PROVE TableLearns
  <2>1. PICK m \in wire : m.from = "host" /\ m.s_ip = h /\ m.op = "reply" /\ Learn(m)
    BY Zenon, <1>2 DEF handleReply
  <2>2. Reason(h)
    BY Zenon, <2>1 DEF WireOK, FrameOK, Reason
  <2>3. UNCHANGED <<at, moves, had, spoke, noMac, missingMACs>>
    BY Zenon, <1>2 DEF handleReply, hosts
  <2>. QED  BY Zenon, <2>1, <2>2, <2>3, LearnFacts DEF TableLearns
<1>3. ASSUME NEW h \in Hosts, handleRequest(h) PROVE TableLearns
  <2>1. PICK m \in wire : /\ m.from = "host" /\ m.s_ip = h /\ m.op = "request" /\ Learn(m)
                          /\ m.t_ip \in Range(IPs[m.iface])
    BY Zenon, <1>3 DEF handleRequest
  <2>2. m.t_ip \in OurIPs
    BY Zenon, <2>1, LearnFacts, OwnFacts
  <2>3. Reason(h)
    BY Zenon, <2>1, <2>2 DEF WireOK, FrameOK, Reason
  <2>4. UNCHANGED <<at, moves, had, spoke, noMac, missingMACs>>
    BY Zenon, <1>3 DEF handleRequest, hosts
  <2>. QED  BY Zenon, <2>1, <2>3, <2>4, LearnFacts DEF TableLearns
<1>4. CASE Lose \/ DiscardRequest \/ Written
  BY Zenon, <1>4 DEF Lose, DiscardRequest, Written, table, TableKept
<1>5. ASSUME NEW d \in Dests, Lookup(d) \/ MissingMac(d) \/ Age(d) PROVE TableKept
  BY Zenon, <1>5 DEF Lookup, MissingMac, Age, table, TableKept
<1>. QED  BY Zenon, <1>1, <1>2, <1>3, <1>4, <1>5 DEF Next
-----------------------------------------------------------------------------
(* Types.                                                                   *)

OthersOK ==
  /\ at \in [Hosts -> Neighbour] /\ moves \in 0 .. MaxMoves
  /\ had \in [Hosts -> SUBSET Neighbour] /\ spoke \subseteq NextHops
  /\ noMac \subseteq Dests \X Ifaces
  /\ missingMACs \in [Dests -> {"absent", "young", "old"}]

TableOK ==
  /\ nextHops \in [NextHops -> Macs \cup {Zero}]
  /\ directlyConnected \in [Hosts -> Neighbour \cup {None}]
  /\ heard \in [Hosts \X Ifaces -> {<<>>} \cup (Macs \X Macs)]
  /\ busy \in {None} \cup [entry : NextHops \cup {None}, old : Macs \cup {Zero}]

(* The type invariant, component by component.                              *)
LEMMA TypeParts == TypeOK <=> OthersOK /\ TableOK /\ wire \subseteq Frame
BY Zenon DEF TypeOK, OthersOK, TableOK

(* The variables of the hosts and of the Manager.                           *)
LEMMA OthersNext ==
  ASSUME OthersOK, Next
  PROVE  OthersOK'
<1>. USE DEF OthersOK
<1>1. ASSUME NEW h \in Hosts, Move(h) PROVE OthersOK'
  <2>1. moves' \in 0 .. MaxMoves
    BY <1>1, ArpAssumption DEF Move
  <2>2. PICK n \in Neighbour : at' = [at EXCEPT ![h] = n] /\ had' = [had EXCEPT ![h] = @ \cup {n}]
    BY Zenon, <1>1, ArpAssumption DEF Move
  <2>3. at' \in [Hosts -> Neighbour]
    BY Zenon, <2>2
  <2>4. had' \in [Hosts -> SUBSET Neighbour]
    BY <2>2
  <2>. QED  BY Zenon, <1>1, <2>1, <2>3, <2>4 DEF Move
<1>2. ASSUME NEW h \in Hosts, Ask(h) \/ Announce(h) PROVE OthersOK'
  BY Zenon, <1>2 DEF Ask, Announce, hosts
<1>3. ASSUME NEW h \in Hosts, AskOther(h) \/ HearsRequest(h) \/ handleReply(h) \/ handleRequest(h)
      PROVE  OthersOK'
  BY Zenon, <1>3 DEF AskOther, HearsRequest, handleReply, handleRequest, hosts
<1>4. CASE Lose \/ DiscardRequest \/ Written
  BY Zenon, <1>4 DEF Lose, DiscardRequest, Written, hosts
<1>5. ASSUME NEW d \in Dests, Lookup(d) PROVE OthersOK'
  <2>1. via[d] \in NextHops \cup Ifaces /\ (d \in Direct <=> via[d] \in Ifaces)
    BY Zenon, ArpAssumption DEF Direct
  <2>2. NextHops \subseteq Hosts \X Ifaces
    BY Zenon, ArpAssumption
  <2>3. NextIface(d, FALSE) \in Ifaces
    BY <2>1, <2>2 DEF NextIface
  <2>4. noMac' \subseteq noMac \cup {<<d, NextIface(d, FALSE)>>}
    BY Zenon, <1>5 DEF Lookup
  <2>5. <<d, NextIface(d, FALSE)>> \in Dests \X Ifaces
    BY Zenon, <2>3
  <2>6. noMac' \subseteq Dests \X Ifaces
    BY Zenon, <2>4, <2>5
  <2>. QED  BY Zenon, <1>5, <2>6 DEF Lookup, hosts
<1>6. ASSUME NEW d \in Dests, MissingMac(d) PROVE OthersOK'
  <2>1. noMac' \subseteq noMac
    BY Zenon, <1>6 DEF MissingMac
  <2>2. \/ missingMACs' = missingMACs
        \/ missingMACs' = [missingMACs EXCEPT ![d] = "young"]
    BY Zenon, <1>6 DEF MissingMac
  <2>3. missingMACs' \in [Dests -> {"absent", "young", "old"}]
    BY <2>2
  <2>. QED  BY Zenon, <1>6, <2>1, <2>3 DEF MissingMac, hosts
<1>7. ASSUME NEW d \in Dests, Age(d) PROVE OthersOK'
  <2>1. missingMACs' \in [Dests -> {"absent", "young", "old"}]
    BY <1>7 DEF Age
  <2>. QED  BY Zenon, <1>7, <2>1 DEF Age, hosts
<1>. QED  BY Zenon, <1>1, <1>2, <1>3, <1>4, <1>5, <1>6, <1>7 DEF Next

(* The table.                                                               *)
LEMMA TableOKNext ==
  ASSUME TableOK, TableKept \/ TableLearns
  PROVE  TableOK'
<1>1. CASE TableKept
  BY Zenon, <1>1 DEF TableOK, TableKept
<1>2. CASE TableLearns
  <2>1. PICK h \in Hosts, i \in Ifaces, x \in Macs : Learnt(h, i, x)
    BY Zenon, <1>2 DEF TableLearns
  <2>2. <<h, i>> \in Hosts \X Ifaces /\ [iface |-> i, mac |-> x] \in Neighbour
    BY DEF Neighbour
  <2>3. heard' \in [Hosts \X Ifaces -> {<<>>} \cup (Macs \X Macs)]
    <3>1. PICK y : heard' = [heard EXCEPT ![<<h, i>>] = y] /\ y \in {<<x, x>>, <<heard[<<h, i>>][1], x>>}
                   /\ (heard[<<h, i>>] = <<>> => y = <<x, x>>)
      BY Zenon, <2>1 DEF Learnt
    <3>2. y \in Macs \X Macs
      <4>1. CASE heard[<<h, i>>] = <<>>
        BY <3>1, <4>1
      <4>2. CASE heard[<<h, i>>] # <<>>
        <5>1. heard[<<h, i>>] \in Macs \X Macs
          BY Zenon, <2>2, <4>2 DEF TableOK
        <5>2. heard[<<h, i>>][1] \in Macs
          BY <5>1
        <5>. QED  BY <3>1, <5>2
      <4>. QED  BY Zenon, <4>1, <4>2
    <3>. QED  BY Zenon, <2>2, <3>1, <3>2 DEF TableOK
  <2>4. CASE <<h, i>> \in NextHops
    <3>1. nextHops' \in [NextHops -> Macs \cup {Zero}]
      BY Zenon, <2>1, <2>4 DEF Learnt, TableOK
    <3>2. nextHops[<<h, i>>] \in Macs \cup {Zero}
      BY Zenon, <2>4 DEF TableOK
    <3>3. busy' = [entry |-> <<h, i>>, old |-> nextHops[<<h, i>>]]
      BY Zenon, <2>1, <2>4 DEF Learnt
    <3>4. busy' \in [entry : NextHops \cup {None}, old : Macs \cup {Zero}]
      BY <2>4, <3>2, <3>3
    <3>. QED  BY Zenon, <2>1, <2>3, <2>4, <3>1, <3>4 DEF Learnt, TableOK
  <2>5. CASE <<h, i>> \notin NextHops
    <3>1. busy' = [entry |-> None, old |-> Zero]
      BY Zenon, <2>1, <2>5 DEF Learnt
    <3>2. busy' \in [entry : NextHops \cup {None}, old : Macs \cup {Zero}]
      BY <3>1
    <3>3. directlyConnected' \in [Hosts -> Neighbour \cup {None}]
      BY Zenon, <2>1, <2>2, <2>5 DEF Learnt, TableOK
    <3>. QED  BY Zenon, <2>1, <2>3, <2>5, <3>2, <3>3 DEF Learnt, TableOK
  <2>. QED  BY Zenon, <2>4, <2>5
<1>. QED  BY Zenon, <1>1, <1>2
-----------------------------------------------------------------------------
(* What the table says.                                                     *)

(* Hosts are at places they have had.                                       *)
LEMMA AtNext ==
  ASSUME TypeOK, LearntTrue, Next
  PROVE  \A h \in Hosts : at'[h] \in had'[h]
<1>1. ASSUME NEW h \in Hosts, Move(h) PROVE \A k \in Hosts : at'[k] \in had'[k]
  <2>1. at \in [Hosts -> Neighbour] /\ had \in [Hosts -> SUBSET Neighbour]
    BY Zenon DEF TypeOK
  <2>2. PICK n : at' = [at EXCEPT ![h] = n] /\ had' = [had EXCEPT ![h] = @ \cup {n}]
    BY Zenon, <1>1 DEF Move
  <2>. QED  BY Zenon, <2>1, <2>2 DEF LearntTrue
<1>2. ASSUME UNCHANGED <<at, had>> PROVE \A k \in Hosts : at'[k] \in had'[k]
  BY Zenon, <1>2 DEF LearntTrue
<1>3. ASSUME NEW h \in Hosts, \/ Ask(h) \/ AskOther(h) \/ Announce(h) \/ HearsRequest(h)
                              \/ handleReply(h) \/ handleRequest(h)
      PROVE  UNCHANGED <<at, had>>
  BY Zenon, <1>3 DEF Ask, AskOther, Announce, HearsRequest, handleReply, handleRequest, hosts
<1>4. CASE Lose \/ DiscardRequest \/ Written
  BY Zenon, <1>2, <1>4 DEF Lose, DiscardRequest, Written, hosts
<1>5. ASSUME NEW d \in Dests, Lookup(d) \/ MissingMac(d) \/ Age(d) PROVE UNCHANGED <<at, had>>
  BY Zenon, <1>5 DEF Lookup, MissingMac, Age, hosts
<1>. QED  BY Zenon, <1>1, <1>2, <1>3, <1>4, <1>5 DEF Next

(* The first and last MAC handled, after a frame was handled.               *)
LEMMA HeardFacts ==
  ASSUME TableOK, NEW h \in Hosts, NEW i \in Ifaces, NEW x, Learnt(h, i, x)
  PROVE  /\ \A n \in Hosts \X Ifaces : n # <<h, i>> => heard'[n] = heard[n]
         /\ heard'[<<h, i>>] # <<>> /\ heard'[<<h, i>>][2] = x
         /\ heard'[<<h, i>>][1] = IF heard[<<h, i>>] = <<>> THEN x ELSE heard[<<h, i>>][1]
<1>1. heard' = [heard EXCEPT ![<<h, i>>] = IF @ = <<>> THEN <<x, x>> ELSE <<@[1], x>>]
  BY Zenon DEF Learnt
<1>2. DOMAIN heard = Hosts \X Ifaces /\ <<h, i>> \in Hosts \X Ifaces
  BY Zenon DEF TableOK
<1>3. heard'[<<h, i>>] = IF heard[<<h, i>>] = <<>> THEN <<x, x>> ELSE <<heard[<<h, i>>][1], x>>
  BY Zenon, <1>1, <1>2
<1>4. \A n \in Hosts \X Ifaces : n # <<h, i>> => heard'[n] = heard[n]
  BY Zenon, <1>1, <1>2
<1>. QED  BY <1>3, <1>4

(* A step that leaves the table alone.                                      *)
LEMMA LearningKept ==
  ASSUME TypeOK, Learning, Next, TableKept
  PROVE  Learning'
<1>1. Grows /\ \A h \in Hosts : at'[h] \in had'[h]
  BY Zenon, GrowsNext, AtNext DEF Learning
<1>2. \A n \in NextHops : n[1] \in Hosts
  BY ArpAssumption
<1>3. /\ \A n \in NextHops : nextHops'[n] = Zero \/ [iface |-> n[2], mac |-> nextHops'[n]] \in had'[n[1]]
      /\ \A h \in Hosts : directlyConnected'[h] = None \/ directlyConnected'[h] \in had'[h]
  BY Zenon, <1>1, <1>2 DEF Learning, LearntTrue, Owned, Grows, TableKept
<1>4. ASSUME busy' # None, busy'.entry \in NextHops
      PROVE  busy'.old = Zero \/ [iface |-> busy'.entry[2], mac |-> busy'.old] \in had'[busy'.entry[1]]
  <2>1. busy' = busy
    BY Zenon, <1>4 DEF TableKept
  <2>. QED  BY Zenon, <1>1, <1>2, <1>4, <2>1 DEF Learning, LearntTrue, Owned, Grows
<1>5. LearntTrue'
  BY Zenon, <1>1, <1>3, <1>4 DEF LearntTrue, Owned
<1>6. HeardFirst' /\ LastOrFirst'
  BY Zenon DEF Learning, HeardFirst, LastOrFirst, TableKept
<1>7. SilentNextHopUnknown'
  BY Zenon, <1>1 DEF Learning, SilentNextHopUnknown, TableKept, Grows
<1>. QED  BY Zenon, <1>5, <1>6, <1>7 DEF Learning

(* A frame of a registered next hop: its MAC is overwritten.                *)
LEMMA LearningNextHop ==
  ASSUME TypeOK, Learning, UNCHANGED <<at, had, spoke>>,
         NEW h \in Hosts, NEW i \in Ifaces, NEW x \in Macs, Learnt(h, i, x),
         [iface |-> i, mac |-> x] \in had[h], Reason(h), <<h, i>> \in NextHops
  PROVE  Learning'
<1>. DEFINE n0 == <<h, i>>
<1>1. /\ nextHops' = [nextHops EXCEPT ![n0] = x] /\ directlyConnected' = directlyConnected
      /\ busy' = [entry |-> n0, old |-> nextHops[n0]]
  BY Zenon DEF Learnt
<1>2. n0[1] = h /\ n0[2] = i /\ n0 \in Hosts \X Ifaces
  OBVIOUS
<1>3. nextHops \in [NextHops -> Macs \cup {Zero}]
  BY Zenon DEF TypeOK
<1>4. /\ \A n \in Hosts \X Ifaces : n # n0 => heard'[n] = heard[n]
      /\ heard'[n0] # <<>> /\ heard'[n0][2] = x
      /\ heard'[n0][1] = IF heard[n0] = <<>> THEN x ELSE heard[n0][1]
  <2>1. TableOK
    BY Zenon, TypeParts
  <2>. QED  BY <2>1, HeardFacts
<1>5. busy'.entry = n0 /\ busy'.old = nextHops[n0]
  BY <1>1
<1>. HIDE DEF n0
<1>6. nextHops'[n0] = x /\ \A n \in NextHops : n # n0 => nextHops'[n] = nextHops[n]
  BY Zenon, <1>1, <1>3 DEF n0
<1>7. LearntTrue'
  <2>1. \A n \in NextHops : nextHops'[n] = Zero \/ [iface |-> n[2], mac |-> nextHops'[n]] \in had[n[1]]
    BY Zenon, <1>2, <1>6 DEF Learning, LearntTrue, Owned
  <2>2. busy'.old = Zero \/ [iface |-> busy'.entry[2], mac |-> busy'.old] \in had[busy'.entry[1]]
    BY Zenon, <1>5 DEF Learning, LearntTrue, Owned, n0
  <2>. QED  BY Zenon, <1>1, <2>1, <2>2 DEF Learning, LearntTrue, Owned
<1>8. HeardFirst'
  <2>1. ASSUME NEW n \in (Hosts \X Ifaces) \ NextHops, heard'[n] # <<>>
        PROVE  directlyConnected'[n[1]] # None
    BY Zenon, <1>1, <1>4, <2>1 DEF Learning, HeardFirst, n0
  <2>2. ASSUME NEW k \in Hosts, directlyConnected'[k] # None
        PROVE  heard'[<<k, directlyConnected'[k].iface>>] # <<>>
    <3>1. directlyConnected[k].iface \in Ifaces
      BY <1>1, <2>2 DEF TypeOK, Neighbour
    <3>. QED  BY Zenon, <1>1, <1>4, <2>2, <3>1 DEF Learning, HeardFirst
  <2>. QED  BY Zenon, <2>1, <2>2 DEF HeardFirst
<1>9. LastOrFirst'
  <2>1. ASSUME NEW n \in NextHops
        PROVE  nextHops'[n] = IF heard'[n] = <<>> THEN Zero ELSE heard'[n][2]
    <3>1. n \in Hosts \X Ifaces
      BY Zenon, ArpAssumption
    <3>. QED  BY Zenon, <1>4, <1>6, <3>1 DEF Learning, LastOrFirst
  <2>2. ASSUME NEW k \in Hosts, directlyConnected'[k] # None
        PROVE  directlyConnected'[k].mac = heard'[<<k, directlyConnected'[k].iface>>][1]
    <3>. DEFINE m == <<k, directlyConnected[k].iface>>
    <3>1. directlyConnected[k].iface \in Ifaces
      BY <1>1, <2>2 DEF TypeOK, Neighbour
    <3>2. m \in Hosts \X Ifaces /\ heard[m] # <<>> /\ directlyConnected[k].mac = heard[m][1]
      BY Zenon, <1>1, <2>2, <3>1 DEF Learning, HeardFirst, LastOrFirst
    <3>. HIDE DEF m
    <3>3. heard'[m][1] = heard[m][1]
      BY Zenon, <1>4, <3>2
    <3>. QED  BY Zenon, <1>1, <3>2, <3>3 DEF m
  <2>. QED  BY Zenon, <2>1, <2>2 DEF LastOrFirst
<1>10. SilentNextHopUnknown'
  BY Zenon, <1>2, <1>6 DEF Learning, SilentNextHopUnknown, Reason
<1>. QED  BY Zenon, <1>7, <1>8, <1>9, <1>10 DEF Learning

(* A frame of any other neighbour: it is inserted, unless it is there.      *)
LEMMA LearningOther ==
  ASSUME TypeOK, Learning, UNCHANGED <<at, had, spoke>>,
         NEW h \in Hosts, NEW i \in Ifaces, NEW x \in Macs, Learnt(h, i, x),
         [iface |-> i, mac |-> x] \in had[h], <<h, i>> \notin NextHops
  PROVE  Learning'
<1>. DEFINE n0 == <<h, i>>
            new == [iface |-> i, mac |-> x]
<1>1. /\ directlyConnected' = [directlyConnected EXCEPT ![h] = IF @ = None THEN new ELSE @]
      /\ nextHops' = nextHops /\ busy' = [entry |-> None, old |-> Zero]
  BY Zenon DEF Learnt
<1>2. n0[1] = h /\ n0 \in Hosts \X Ifaces /\ new \in Neighbour /\ new.iface = i /\ new.mac = x
  BY DEF Neighbour
<1>3. new # None /\ directlyConnected \in [Hosts -> Neighbour \cup {None}]
  BY Zenon, <1>2, ArpAssumption DEF TypeOK
<1>4. /\ \A n \in Hosts \X Ifaces : n # n0 => heard'[n] = heard[n]
      /\ heard'[n0] # <<>>
      /\ heard'[n0][1] = IF heard[n0] = <<>> THEN x ELSE heard[n0][1]
  <2>1. TableOK
    BY Zenon, TypeParts
  <2>. QED  BY <2>1, HeardFacts
<1>5. busy'.old = Zero
  BY <1>1
<1>. HIDE DEF new
<1>6. /\ directlyConnected'[h] = IF directlyConnected[h] = None THEN new ELSE directlyConnected[h]
      /\ \A k \in Hosts : k # h => directlyConnected'[k] = directlyConnected[k]
  BY Zenon, <1>1, <1>3
<1>7. LearntTrue'
  BY Zenon, <1>1, <1>5, <1>6 DEF Learning, LearntTrue, Owned, new
<1>8. ASSUME NEW k \in Hosts, directlyConnected[k] # None
      PROVE  /\ heard'[<<k, directlyConnected[k].iface>>] # <<>>
             /\ directlyConnected[k].mac = heard'[<<k, directlyConnected[k].iface>>][1]
  <2>. DEFINE m == <<k, directlyConnected[k].iface>>
  <2>1. directlyConnected[k].iface \in Ifaces
    BY <1>8 DEF TypeOK, Neighbour
  <2>2. m \in Hosts \X Ifaces /\ heard[m] # <<>> /\ directlyConnected[k].mac = heard[m][1]
    BY Zenon, <1>8, <2>1 DEF Learning, HeardFirst, LastOrFirst
  <2>. HIDE DEF m, n0
  <2>3. heard'[m] # <<>> /\ heard'[m][1] = heard[m][1]
    BY Zenon, <1>4, <2>2
  <2>. QED  BY Zenon, <2>2, <2>3 DEF m
<1>9. ASSUME directlyConnected[h] = None PROVE heard'[n0][1] = x
  <2>1. n0 \in (Hosts \X Ifaces) \ NextHops
    BY Zenon
  <2>2. heard[n0] = <<>>
    BY Zenon, <1>2, <1>9, <2>1 DEF Learning, HeardFirst
  <2>. QED  BY Zenon, <1>4, <2>2
<1>10. ASSUME NEW k \in Hosts, directlyConnected'[k] # None
      PROVE  /\ heard'[<<k, directlyConnected'[k].iface>>] # <<>>
             /\ directlyConnected'[k].mac = heard'[<<k, directlyConnected'[k].iface>>][1]
  <2>1. CASE k = h /\ directlyConnected[h] = None
    <3>1. directlyConnected'[k] = new /\ <<k, new.iface>> = n0
      BY Zenon, <1>2, <1>6, <2>1
    <3>. HIDE DEF n0
    <3>. QED  BY Zenon, <1>2, <1>4, <1>9, <2>1, <3>1
  <2>2. CASE ~(k = h /\ directlyConnected[h] = None)
    <3>1. directlyConnected'[k] = directlyConnected[k]
      BY Zenon, <1>6, <2>2
    <3>. QED  BY Zenon, <1>8, <1>10, <3>1
  <2>. QED  BY Zenon, <2>1, <2>2
<1>. HIDE DEF n0
<1>11. HeardFirst'
  <2>1. ASSUME NEW n \in (Hosts \X Ifaces) \ NextHops, heard'[n] # <<>>
        PROVE  directlyConnected'[n[1]] # None
    <3>1. CASE n = n0
      BY Zenon, <1>2, <1>3, <1>6, <3>1
    <3>2. CASE n # n0
      <4>1. n[1] \in Hosts /\ directlyConnected[n[1]] # None
        <5>1. n[1] \in Hosts
          OBVIOUS
        <5>. QED  BY Zenon, <1>4, <2>1, <3>2, <5>1 DEF Learning, HeardFirst
      <4>. QED  BY Zenon, <1>3, <1>6, <4>1
    <3>. QED  BY Zenon, <3>1, <3>2
  <2>. QED  BY Zenon, <1>10, <2>1 DEF HeardFirst
<1>12. LastOrFirst'
  <2>1. ASSUME NEW n \in NextHops
        PROVE  nextHops'[n] = IF heard'[n] = <<>> THEN Zero ELSE heard'[n][2]
    <3>1. n \in Hosts \X Ifaces /\ n # n0
      BY Zenon, ArpAssumption DEF n0
    <3>. QED  BY Zenon, <1>1, <1>4, <3>1 DEF Learning, LastOrFirst
  <2>. QED  BY Zenon, <1>10, <2>1 DEF LastOrFirst
<1>13. SilentNextHopUnknown'
  BY Zenon, <1>1 DEF Learning, SilentNextHopUnknown
<1>. QED  BY Zenon, <1>7, <1>11, <1>12, <1>13 DEF Learning

(* Every step keeps what the table says true.                               *)
LEMMA LearningNext ==
  ASSUME TypeOK, WireOK, Learning, Next
  PROVE  Learning'
<1>1. CASE TableKept
  BY Zenon, <1>1, LearningKept
<1>2. CASE TableLearns
  <2>1. UNCHANGED <<at, had, spoke>>
    BY Zenon, <1>2 DEF TableLearns
  <2>2. PICK h \in Hosts, i \in Ifaces, x \in Macs :
             Learnt(h, i, x) /\ [iface |-> i, mac |-> x] \in had[h] /\ Reason(h)
    BY Zenon, <1>2 DEF TableLearns
  <2>3. CASE <<h, i>> \in NextHops
    BY Zenon, <2>1, <2>2, <2>3, LearningNextHop
  <2>4. CASE <<h, i>> \notin NextHops
    BY Zenon, <2>1, <2>2, <2>4, LearningOther
  <2>. QED  BY Zenon, <2>3, <2>4
<1>. QED  BY Zenon, <1>1, <1>2, TableNext

-----------------------------------------------------------------------------
(* The invariant is inductive.                                              *)
LEMMA InvInit == Init => IInv
<1>. SUFFICES ASSUME Init PROVE IInv
  OBVIOUS
<1>1. OthersOK
  <2>1. at \in [Hosts -> Neighbour] /\ had \in [Hosts -> SUBSET Neighbour]
    BY ArpAssumption DEF Init
  <2>2. moves \in 0 .. MaxMoves
    BY ArpAssumption DEF Init
  <2>. QED  BY Zenon, <2>1, <2>2 DEF Init, OthersOK
<1>2. TableOK
  BY Zenon DEF Init, TableOK
<1>3. wire = {}
  BY Zenon DEF Init
<1>4. TypeOK
  BY Zenon, <1>1, <1>2, <1>3, TypeParts
<1>5. BindingsTrue /\ Provoked
  BY Zenon, <1>3 DEF BindingsTrue, Provoked
<1>6. /\ \A h \in Hosts : at[h] \in had[h] /\ directlyConnected[h] = None
      /\ \A n \in NextHops : nextHops[n] = Zero
      /\ busy = None
  BY Zenon DEF Init
<1>7. \A n \in Hosts \X Ifaces : heard[n] = <<>>
  BY Zenon DEF Init
<1>8. LearntTrue
  BY Zenon, <1>6 DEF LearntTrue
<1>9. HeardFirst
  BY Zenon, <1>6, <1>7 DEF HeardFirst
<1>10. LastOrFirst
  BY Zenon, <1>6, <1>7, ArpAssumption DEF LastOrFirst
<1>11. SilentNextHopUnknown
  BY Zenon, <1>6 DEF SilentNextHopUnknown
<1>. QED  BY Zenon, <1>4, <1>5, <1>8, <1>9, <1>10, <1>11 DEF IInv, Learning

(* One step: the links, the variables' types, then what the table says.     *)
LEMMA InvNext == IInv /\ [Next]_vars => IInv'
<1>1. ASSUME IInv, Next PROVE IInv'
  <2>1. TypeOK /\ WireOK /\ Learning /\ LearntTrue
    BY Zenon, <1>1, WireFacts DEF IInv, TypeOK, Learning
  <2>2. WireOK' /\ Learning'
    BY Zenon, <1>1, <2>1, WireNext, LearningNext
  <2>3. (wire \subseteq Frame)' /\ BindingsTrue' /\ Provoked'
    BY <2>2, WireFacts, PTL
  <2>4. OthersOK' /\ TableOK'
    BY Zenon, <1>1, <2>1, TypeParts, OthersNext, TableNext, TableOKNext
  <2>5. TypeOK'
    BY <2>3, <2>4, TypeParts, PTL
  <2>. QED  BY Zenon, <2>2, <2>3, <2>5 DEF IInv
<1>2. ASSUME IInv, UNCHANGED vars PROVE IInv'
  <2>1. /\ UNCHANGED <<at, moves, had, spoke, wire, noMac, missingMACs>>
        /\ UNCHANGED <<nextHops, directlyConnected, heard, busy>>
    BY Zenon, <1>2 DEF vars, hosts, table
  <2>2. TypeOK' /\ BindingsTrue' /\ Provoked'
    BY Zenon, <1>2, <2>1 DEF IInv, TypeOK, BindingsTrue, Provoked
  <2>3. LearntTrue' /\ HeardFirst'
    BY Zenon, <1>2, <2>1 DEF IInv, Learning, LearntTrue, Owned, HeardFirst
  <2>4. LastOrFirst' /\ SilentNextHopUnknown'
    BY Zenon, <1>2, <2>1 DEF IInv, Learning, LastOrFirst, SilentNextHopUnknown
  <2>. QED  BY Zenon, <2>2, <2>3, <2>4 DEF IInv, Learning
<1>. QED  BY Zenon, <1>1, <1>2

(* So it holds in every reachable state.                                    *)
LEMMA Inv == Spec => []IInv
BY InvInit, InvNext, PTL DEF Spec

(* What a lookup finds.                                                     *)
LEMMA SentFromTable ==
  ASSUME TypeOK, LearntTrue
  PROVE  SentToOwner
<1>. SUFFICES ASSUME NEW d \in Dests, NEW m \in Halves(d), m # <<Zero, Zero>>
              PROVE  LET h == IF d \in Direct THEN d ELSE via[d][1]
                         Owns(x) == [iface |-> NextIface(d, TRUE), mac |-> x] \in had[h]
                     IN  IF BeingWritten(d) THEN \A k \in 1 .. 2 : Owns(m[k]) \/ m[k] = Zero
                         ELSE m[1] = m[2] /\ Owns(m[1])
  BY Zenon DEF SentToOwner
<1>1. CASE d \in Direct
  <2>1. /\ d \in Hosts /\ directlyConnected[d] # None
        /\ m = <<directlyConnected[d].mac, directlyConnected[d].mac>>
    BY Zenon, <1>1 DEF Halves
  <2>2. directlyConnected[d] \in Neighbour /\ directlyConnected[d] \in had[d]
    BY Zenon, <2>1 DEF TypeOK, LearntTrue
  <2>3. [iface |-> directlyConnected[d].iface, mac |-> directlyConnected[d].mac] = directlyConnected[d]
    BY <2>2 DEF Neighbour
  <2>4. ~BeingWritten(d) /\ NextIface(d, TRUE) = directlyConnected[d].iface
    BY Zenon, <1>1 DEF BeingWritten, NextIface
  <2>5. m[1] = directlyConnected[d].mac /\ m[2] = directlyConnected[d].mac
    BY <2>1
  <2>. QED  BY Zenon, <1>1, <2>2, <2>3, <2>4, <2>5
<1>2. CASE d \notin Direct
  <2>. DEFINE may == IF busy # None /\ busy.entry = via[d] THEN {nextHops[via[d]], busy.old}
                     ELSE {nextHops[via[d]]}
  <2>1. via[d] \in NextHops /\ NextIface(d, TRUE) = via[d][2]
    BY Zenon, <1>2, ArpAssumption DEF Direct, NextIface
  <2>2. m \in may \X may
    BY Zenon, <1>2 DEF Halves
  <2>3. \A z \in may : z = Zero \/ [iface |-> via[d][2], mac |-> z] \in had[via[d][1]]
    BY Zenon, <2>1 DEF LearntTrue, Owned
  <2>4. ~BeingWritten(d) => may = {nextHops[via[d]]}
    BY Zenon, <1>2 DEF BeingWritten
  <2>. HIDE DEF may
  <2>5. m = <<m[1], m[2]>> /\ m[1] \in may /\ m[2] \in may
    BY <2>2
  <2>6. CASE BeingWritten(d)
    <3>1. \A k \in 1 .. 2 : m[k] \in may
      BY <2>5
    <3>. QED  BY Zenon, <1>2, <2>1, <2>3, <2>6, <3>1
  <2>7. CASE ~BeingWritten(d)
    <3>1. m[1] = m[2] /\ m[1] # Zero
      BY Zenon, <2>4, <2>5, <2>7
    <3>. QED  BY Zenon, <1>2, <2>1, <2>3, <2>5, <2>7, <3>1
  <2>. QED  BY Zenon, <2>6, <2>7
<1>. QED  BY Zenon, <1>1, <1>2

-----------------------------------------------------------------------------
(* For any neighbours, interfaces and routes, any number of moves and any   *)
(* capacity of the links: the state keeps its types.                        *)
THEOREM TypeCorrect == Spec => []TypeOK
<1>1. IInv => TypeOK
  BY Zenon DEF IInv
<1>. QED  BY <1>1, Inv, PTL

(* The frames handleRequest and prepareRequest (arpTable.cpp:39-210) write  *)
(* in place bind addresses to the MACs of their owners.                     *)
THEOREM FramesTrue == Spec => []BindingsTrue
<1>1. IInv => BindingsTrue
  BY Zenon DEF IInv
<1>. QED  BY <1>1, Inv, PTL

(* With frames late, lost, twice or out of order, a worker sends to a MAC   *)
(* the next hop has or had on that interface.  Without a lock that is all:  *)
(* while the Manager overwrites the entry (arpTable.cpp:120) each half of   *)
(* the address is such a MAC's, or zero, and the two need not agree.        *)
THEOREM SentToNeighbour == Spec => []SentToOwner
<1>1. IInv => SentToOwner
  BY Zenon, SentFromTable DEF IInv, Learning
<1>. QED  BY <1>1, Inv, PTL

(* The table keeps the MAC handled last of a next hop, but the first one of *)
(* any other neighbour, which insert (arpTable.cpp:127) never replaces.     *)
THEOREM InsertNeverReplaces == Spec => []LastOrFirst
<1>1. IInv => LastOrFirst
  BY Zenon DEF IInv, Learning
<1>. QED  BY <1>1, Inv, PTL

(* The Manager asks for the destinations of packets (manager.cpp:251-266),  *)
(* so a next hop that is none is known only once it sent the router a frame *)
(* of its own accord.                                                       *)
THEOREM GatewayMustSpeak == Spec => []SilentNextHopUnknown
<1>1. IInv => SilentNextHopUnknown
  BY Zenon DEF IInv, Learning
<1>. QED  BY <1>1, Inv, PTL
=============================================================================
