-------------------------------- MODULE Arp --------------------------------
(***************************************************************************)
(* Address resolution between the router and its neighbours, MAC by MAC:   *)
(* ARPTable, the Manager's missingMACs with its half a second of patience, *)
(* and the workers' lookups, which take no lock.                           *)
(*                                                                         *)
(* DataPath follows the same frames through rings, queues and buffers; it  *)
(* only knows whether a MAC is known.  Here the links lose, duplicate,     *)
(* delay and reorder ARP frames, and hosts change their card or their      *)
(* place.                                                                  *)
(***************************************************************************)
EXTENDS Integers, Sequences, FiniteSets, Functions

CONSTANTS
  Hosts,        \* addresses of the neighbours
  Macs, Zero,   \* their MACs; invalidMac
  Ifaces,       \* netmap indices
  IPs, mac,     \* Interface::IPs and Interface::mac of the router
  NextHops,     \* RoutingTable::nextHopMapping: <<nh_ip, interface>>
  Dests, via,   \* destinations, and their next hop or (connected) interface
  InitAt,       \* where each host is at first: [iface, mac]
  Places,       \* where hosts may go, with which card
  MaxMoves,     \* changes of card or place (bound)
  MaxWire,      \* ARP frames under way at once (bound)
  None

Neighbour == [iface : Ifaces, mac : Macs]

ASSUME ArpAssumption ==
  /\ NextHops \subseteq Hosts \X Ifaces /\ MaxMoves \in Nat /\ MaxWire \in Nat
  /\ via \in [Dests -> NextHops \cup Ifaces]
  /\ InitAt \in [Hosts -> Neighbour] /\ Places \subseteq Neighbour
  /\ \A i \in Ifaces : 1 \in DOMAIN IPs[i] /\ Range(IPs[i]) \cap Hosts = {}
  /\ \A i \in Ifaces : i \in DOMAIN mac /\ mac[i] \notin Macs \cup {Zero}
  /\ Zero \notin Macs /\ None \notin Neighbour

Direct == {d \in Dests : via[d] \in Ifaces}
OurIPs == UNION {Range(IPs[i]) : i \in Ifaces}

Frame == [from : {"host", "router"}, iface : Ifaces, op : {"request", "reply"},
          s_ip : Hosts \cup OurIPs, s_mac : Macs \cup Range(mac),
          t_ip : Hosts \cup Dests \cup OurIPs]

VARIABLES
  at, moves,         \* the hosts
  had,               \* history: every place and MAC a host had
  spoke,             \* history: next hops that sent the router a frame unasked
  wire,              \* ARP frames under way
  nextHops,          \* ARPTable::table::nextHops
  directlyConnected, \* MAC and interface of directly connected neighbours
  heard,             \* history: the first and last MAC handled, by address and interface
  busy,              \* the next hop (None: the map) handleFrame is writing to, old value
  noMac,             \* frames with IFACE_NOMAC in the output queue
  missingMACs        \* Manager::missingMACs, with the age of the entry

hosts == <<at, moves, had>>
table == <<nextHops, directlyConnected, heard, busy>>
vars  == <<hosts, spoke, wire, table, noMac, missingMACs>>

TypeOK ==
  /\ at \in [Hosts -> Neighbour] /\ moves \in 0 .. MaxMoves
  /\ had \in [Hosts -> SUBSET Neighbour] /\ spoke \subseteq NextHops
  /\ wire \subseteq Frame
  /\ nextHops \in [NextHops -> Macs \cup {Zero}]
  /\ directlyConnected \in [Hosts -> Neighbour \cup {None}]
  /\ heard \in [Hosts \X Ifaces -> {<<>>} \cup (Macs \X Macs)]
  /\ busy \in {None} \cup [entry : NextHops \cup {None}, old : Macs \cup {Zero}]
  /\ noMac \subseteq Dests \X Ifaces
  /\ missingMACs \in [Dests -> {"absent", "young", "old"}]

Init ==
  /\ at = InitAt /\ moves = 0 /\ had = [h \in Hosts |-> {InitAt[h]}]
  /\ spoke = {} /\ wire = {}
  /\ nextHops = [n \in NextHops |-> Zero]
  /\ directlyConnected = [h \in Hosts |-> None]
  /\ heard = [n \in Hosts \X Ifaces |-> <<>>] /\ busy = None
  /\ noMac = {} /\ missingMACs = [d \in Dests |-> "absent"]

-----------------------------------------------------------------------------
(* The neighbours and the links.                                            *)

Move(h) ==
  /\ moves < MaxMoves /\ moves' = moves + 1
  /\ \E n \in Places \ {at[h]} :
       /\ at' = [at EXCEPT ![h] = n]
       /\ had' = [had EXCEPT ![h] = @ \cup {n}]
  /\ UNCHANGED <<spoke, wire, table, noMac, missingMACs>>

(* A frame gets lost; one that was handled stays, and may come again, until *)
(* that happens.                                                            *)
Lose ==
  /\ \E m \in wire : wire' = wire \ {m}
  /\ UNCHANGED <<hosts, spoke, table, noMac, missingMACs>>

(* The links after the given frames are sent, unless they get lost, or take *)
(* the room of others that do.                                              *)
Links(sent) ==
  {w \in SUBSET (wire \cup sent) :
     Cardinality(w) <= MaxWire /\ (wire \subseteq w \/ Cardinality(w) = MaxWire)}

ByHost(h, op, ip) ==
  [from |-> "host", iface |-> at[h].iface, op |-> op, s_ip |-> h,
   s_mac |-> at[h].mac, t_ip |-> ip]

(* A host asks for the router's address on its link.                        *)
Ask(h) ==
  /\ spoke' = spoke \cup {n \in NextHops : n[1] = h}
  /\ \E ip \in Range(IPs[at[h].iface]) : wire' \in Links({ByHost(h, "request", ip)})
  /\ UNCHANGED <<hosts, table, noMac, missingMACs>>

(* Or for that of another host, which concerns nobody here.                 *)
AskOther(h) ==
  /\ \E o \in Hosts \ {h} : wire' \in Links({ByHost(h, "request", o)})
  /\ UNCHANGED <<hosts, spoke, table, noMac, missingMACs>>

(* Or it sends a reply nobody asked for, as a host may whose MAC is new     *)
(* ("ARP is stateless", arpTable.cpp:89).                                   *)
Announce(h) ==
  /\ spoke' = spoke \cup {n \in NextHops : n[1] = h}
  /\ \E ip \in Range(IPs[at[h].iface]) : wire' \in Links({ByHost(h, "reply", ip)})
  /\ UNCHANGED <<hosts, table, noMac, missingMACs>>

HearsRequest(h) ==
  /\ \E m \in wire :
       /\ m.from = "router" /\ m.iface = at[h].iface
       /\ m.op = "request" /\ m.t_ip = h
       /\ wire' \in Links({ByHost(h, "reply", m.s_ip)})
  /\ UNCHANGED <<hosts, spoke, table, noMac, missingMACs>>

-----------------------------------------------------------------------------
(* ARPTable::handleFrame.  A registered next hop on this interface has its  *)
(* MAC overwritten; any other sender is inserted, unless it is there.  No   *)
(* lock keeps a worker from looking while this happens: `busy'.             *)

(* Faulty: the interface of a registered next hop is not compared.          *)
LearnAnyIface(m) ==
  LET n == <<m.s_ip, m.iface>>
      same == {k \in NextHops : k[1] = m.s_ip}
  IN  /\ busy = None
      /\ heard' = [heard EXCEPT ![n] = IF @ = <<>> THEN <<m.s_mac, m.s_mac>>
                                       ELSE <<@[1], m.s_mac>>]
      /\ IF same # {}
         THEN /\ busy' = None
              /\ nextHops' = [k \in NextHops |-> IF k \in same THEN m.s_mac ELSE nextHops[k]]
              /\ UNCHANGED directlyConnected
         ELSE /\ busy' = [entry |-> None, old |-> Zero]
              /\ directlyConnected' =
                   [directlyConnected EXCEPT
                      ![m.s_ip] = IF @ = None THEN [iface |-> m.iface, mac |-> m.s_mac]
                                  ELSE @]
              /\ UNCHANGED nextHops

(* Faulty: a next hop's MAC is only inserted, too.                          *)
LearnOnce(m) ==
  LET n == <<m.s_ip, m.iface>>
  IN  /\ busy = None
      /\ heard' = [heard EXCEPT ![n] = IF @ = <<>> THEN <<m.s_mac, m.s_mac>>
                                       ELSE <<@[1], m.s_mac>>]
      /\ IF n \in NextHops
         THEN /\ busy' = [entry |-> n, old |-> nextHops[n]]
              /\ nextHops' = [nextHops EXCEPT ![n] = IF @ = Zero THEN m.s_mac ELSE @]
              /\ UNCHANGED directlyConnected
         ELSE /\ busy' = [entry |-> None, old |-> Zero]
              /\ directlyConnected' =
                   [directlyConnected EXCEPT
                      ![m.s_ip] = IF @ = None THEN [iface |-> m.iface, mac |-> m.s_mac]
                                  ELSE @]
              /\ UNCHANGED nextHops

Learn(m) ==
  LET n == <<m.s_ip, m.iface>>
  IN  /\ busy = None
      /\ heard' = [heard EXCEPT ![n] = IF @ = <<>> THEN <<m.s_mac, m.s_mac>>
                                       ELSE <<@[1], m.s_mac>>]
      /\ IF n \in NextHops
         THEN /\ busy' = [entry |-> n, old |-> nextHops[n]]
              /\ nextHops' = [nextHops EXCEPT ![n] = m.s_mac]
              /\ UNCHANGED directlyConnected
         ELSE /\ busy' = [entry |-> None, old |-> Zero]
              /\ directlyConnected' =
                   [directlyConnected EXCEPT
                      ![m.s_ip] = IF @ = None THEN [iface |-> m.iface, mac |-> m.s_mac]
                                  ELSE @]
              /\ UNCHANGED nextHops

(* The frame is still going out where it came from, changed or not.         *)
Echo(m) == [m EXCEPT !.from = "router"]

(* Faulty: the target becomes the sender before it is saved.                *)
ReplyUnsaved(m) ==
  [from |-> "router", iface |-> m.iface, op |-> "reply", s_ip |-> m.s_ip,
   s_mac |-> mac[m.iface], t_ip |-> m.s_ip]

Reply(m) ==
  [from |-> "router", iface |-> m.iface, op |-> "reply", s_ip |-> m.t_ip,
   s_mac |-> mac[m.iface], t_ip |-> m.s_ip]

handleReply(h) ==
  /\ \E m \in wire :
       /\ m.from = "host" /\ m.s_ip = h /\ m.op = "reply"
       /\ Learn(m) /\ wire' \in Links({Echo(m)})
  /\ UNCHANGED <<hosts, spoke, noMac, missingMACs>>

(* Only a sender that is no registered next hop gets a reply.               *)
handleRequest(h) ==
  /\ \E m \in wire :
       /\ m.from = "host" /\ m.s_ip = h /\ m.op = "request"
       /\ m.t_ip \in Range(IPs[m.iface])
       /\ Learn(m)
       /\ wire' \in Links({IF <<h, m.iface>> \in NextHops THEN Echo(m)
                              ELSE Reply(m)})
  /\ UNCHANGED <<hosts, spoke, noMac, missingMACs>>

(* Faulty: it teaches the router the sender's MAC first.                    *)
LearnAndDiscardRequest ==
  /\ \E m \in wire :
       /\ m.from = "host" /\ m.op = "request" /\ m.t_ip \notin Range(IPs[m.iface])
       /\ Learn(m) /\ wire' = wire \ {m}
  /\ UNCHANGED <<hosts, spoke, noMac, missingMACs>>

(* A request for somebody else is discarded.                                *)
DiscardRequest ==
  /\ \E m \in wire :
       /\ m.from = "host" /\ m.op = "request" /\ m.t_ip \notin Range(IPs[m.iface])
       /\ wire' = wire \ {m}
  /\ UNCHANGED <<hosts, spoke, table, noMac, missingMACs>>

Written ==
  /\ busy # None /\ busy' = None
  /\ UNCHANGED <<hosts, spoke, wire, nextHops, directlyConnected, heard, noMac,
                 missingMACs>>

-----------------------------------------------------------------------------
(* Worker::process: the MAC for destination d, as the two halves that a     *)
(* lookup finds.  While the Manager writes, a half is old or new.  In the   *)
(* map a neighbour may be missed; what find returns is whole, as insert     *)
(* fills in a node before it links it.                                      *)
Halves(d) ==
  IF d \in Direct
  THEN IF d \notin Hosts \/ directlyConnected[d] = None THEN {<<Zero, Zero>>}
       ELSE {<<directlyConnected[d].mac, directlyConnected[d].mac>>}
              \cup (IF busy # None /\ busy.entry = None THEN {<<Zero, Zero>>} ELSE {})
  ELSE LET now == nextHops[via[d]]
           may == IF busy # None /\ busy.entry = via[d] THEN {now, busy.old} ELSE {now}
       IN  may \X may

(* Faulty: the default of ARPTable::nextHop is left.                        *)
NextIfaceDefault(d, found) ==
  IF d \notin Direct THEN via[d][2]
  ELSE IF found THEN directlyConnected[d].iface ELSE None

NextIface(d, found) ==
  IF d \notin Direct THEN via[d][2]
  ELSE IF found THEN directlyConnected[d].iface ELSE via[d]

(* A frame whose next hop has a MAC goes out (see SentToOwner), any other   *)
(* to the Manager.                                                          *)
Lookup(d) ==
  /\ \E m \in Halves(d) :
       noMac' = IF m = <<Zero, Zero>> THEN noMac \cup {<<d, NextIface(d, FALSE)>>}
                ELSE noMac
  /\ UNCHANGED <<hosts, spoke, wire, table, missingMACs>>

(* prepareRequest, for the destination of the packet.                       *)
Request(d, i) ==
  [from |-> "router", iface |-> i, op |-> "request", s_ip |-> IPs[i][1],
   s_mac |-> mac[i], t_ip |-> d]

(* Faulty: one request per address, ever.                                   *)
MissingMacOnce(d) ==
  /\ busy = None
  /\ \E f \in noMac :
       /\ f[1] = d /\ noMac' = noMac \ {f}
       /\ IF missingMACs[d] # "absent" THEN UNCHANGED <<wire, missingMACs>>
          ELSE /\ wire' \in Links({Request(d, f[2])})
               /\ missingMACs' = [missingMACs EXCEPT ![d] = "young"]
  /\ UNCHANGED <<hosts, spoke, table>>

(* Manager::process, a frame with IFACE_NOMAC: the first request, another   *)
(* one when the last is half a second old, or else nothing.                 *)
MissingMac(d) ==
  /\ busy = None
  /\ \E f \in noMac :
       /\ f[1] = d /\ noMac' = noMac \ {f}
       /\ IF missingMACs[d] = "young" THEN UNCHANGED <<wire, missingMACs>>
          ELSE /\ wire' \in Links({Request(d, f[2])})
               /\ missingMACs' = [missingMACs EXCEPT ![d] = "young"]
  /\ UNCHANGED <<hosts, spoke, table>>

Age(d) ==
  /\ missingMACs[d] = "young" /\ missingMACs' = [missingMACs EXCEPT ![d] = "old"]
  /\ UNCHANGED <<hosts, spoke, wire, table, noMac>>

Next ==
  \/ \E h \in Hosts : \/ Move(h) \/ Ask(h) \/ AskOther(h) \/ Announce(h)
                      \/ HearsRequest(h) \/ handleReply(h) \/ handleRequest(h)
  \/ Lose \/ DiscardRequest \/ Written
  \/ \E d \in Dests : Lookup(d) \/ MissingMac(d) \/ Age(d)

Spec == Init /\ [][Next]_vars

(* Frames the links have after a step and did not have before.              *)
Sent(m) == m \in wire' \ wire

(* The threads and the clock go on; packets keep coming for the directly    *)
(* connected hosts; and of frames that are sent again and again, some get   *)
(* onto the link and some arrive (and not always just while the Manager is  *)
(* at another frame: the RX ring keeps them, which the links here do not).  *)
Fairness ==
  /\ WF_vars(Written)
  /\ \A d \in Direct :
       /\ WF_vars(Lookup(d)) /\ WF_vars(Age(d))
       /\ SF_vars(MissingMac(d) /\ \E i \in Ifaces : Sent(Request(d, i)))
  /\ \A h \in Hosts \cap Direct :
       /\ SF_vars(HearsRequest(h) /\ busy = None /\ \E ip \in OurIPs : Sent(ByHost(h, "reply", ip)))
       /\ SF_vars(handleReply(h))

FairSpec == Spec /\ Fairness

-----------------------------------------------------------------------------
(* Every ARP frame under way binds an address to a MAC its owner has or had *)
(* on that link: handleRequest and prepareRequest (arpTable.cpp:39-210),    *)
(* which rewrite frames in place, put no sender next to another's MAC.      *)
BindingsTrue ==
  \A m \in wire :
    IF m.s_ip \in Hosts THEN [iface |-> m.iface, mac |-> m.s_mac] \in had[m.s_ip]
    ELSE m.s_ip \in Range(IPs[m.iface]) /\ m.s_mac = mac[m.iface]

(* The Manager is just overwriting the MAC of d's registered next hop.      *)
BeingWritten(d) == d \notin Direct /\ busy # None /\ busy.entry = via[d]

(* With frames late, duplicated and out of order, and hosts that move: a    *)
(* worker addresses a frame to a MAC its next hop has or had on the         *)
(* interface it leaves by.  The exception is a frame that is looked up      *)
(* while the Manager overwrites this very next hop's MAC (arpTable.cpp:120, *)
(* without a lock): then this is only true of each half of the address, or  *)
(* a half is still zero.                                                    *)
SentToOwner ==
  \A d \in Dests : \A m \in Halves(d) \ {<<Zero, Zero>>} :
    LET h == IF d \in Direct THEN d ELSE via[d][1]
        Owns(x) == [iface |-> NextIface(d, TRUE), mac |-> x] \in had[h]
    IN  IF BeingWritten(d) THEN \A k \in 1 .. 2 : Owns(m[k]) \/ m[k] = Zero
        ELSE m[1] = m[2] /\ Owns(m[1])

(* The table has the MAC handled last for a registered next hop, but the    *)
(* first one for a directly connected host: insert never replaces           *)
(* (arpTable.cpp:127), so a host that changes its card stays lost.          *)
LastOrFirst ==
  /\ \A n \in NextHops : nextHops[n] = IF heard[n] = <<>> THEN Zero ELSE heard[n][2]
  /\ \A h \in Hosts : directlyConnected[h] # None =>
       directlyConnected[h].mac = heard[<<h, directlyConnected[h].iface>>][1]

(* The router never finds out the MAC of a next hop that is nobody's        *)
(* destination: it asks for the destinations of the packets instead         *)
(* (manager.cpp:251-266), which nobody on that link has.  Such a next hop   *)
(* is only learnt from a frame that it sends the router unasked.            *)
SilentNextHopUnknown ==
  \A n \in NextHops :
    n[1] \notin Dests /\ nextHops[n] # Zero => n \in spoke

(* A directly connected host that stays on its link, and that packets keep  *)
(* coming for, is resolved although requests and replies get lost: the      *)
(* Manager asks again (manager.cpp:279-286).                                *)
Resolved ==
  \A d \in Direct :
    d \in Hosts /\ <<d, via[d]>> \notin NextHops =>
      (<>[](d \in Hosts /\ at[d].iface = via[d]) => <>(directlyConnected[d] # None))

=============================================================================
