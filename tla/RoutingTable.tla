--------------------------- MODULE RoutingTable ---------------------------
(***************************************************************************)
(* From the routes of the kernel to the tables the workers look up:        *)
(* LinuxTable::updateInfo, RoutingTable::aggregate and buildNextHopList,   *)
(* the interface numbers of Manager::initNetmap, BasicTrie (and Naive),    *)
(* ARPTable::createCurrentTable.                                           *)
(*                                                                         *)
(* An address is its sequence of W bits (32 in the code), the base of a    *)
(* route of prefix length n the sequence of its first n bits: the kernel   *)
(* dumps bases whose other bits are zero.                                  *)
(***************************************************************************)
EXTENDS Integers, Sequences, FiniteSetsExt, Functions

CONSTANTS
  W,              \* bits of an address
  Interfaces,     \* interfaces of the system
  ToUse,          \* interfacesToUse: the ones bound to netmap, as named
  KernelRoutes,   \* unicast routes the kernel may have
  StableSort,     \* does sort() keep the order of equal bases?
  MaxRoutes,      \* routes in one dump, at most (bound)
  None            \* no gateway, no netmap index

Bits     == {0, 1}
Addrs    == [1 .. W -> Bits]
Prefix   == UNION {[1 .. n -> Bits] : n \in 0 .. W}
Gateways == {r.next_hop : r \in KernelRoutes} \ {None}

(* All bits but the last one; an address below a prefix.                    *)
Front(p)       == SubSeq(p, 1, Len(p) - 1)
IsPrefix(p, a) == Len(p) <= Len(a) /\ p = SubSeq(a, 1, Len(p))

(* nh_index is 16 bits wide; the highest one says: directly connected.     *)
NH_INVALID            == 65535
NH_DIRECTLY_CONNECTED == 32768
NhIndex               == 0 .. NH_INVALID

KernelRoute == [base : Prefix, next_hop : Gateways \cup {None},
                interface : Interfaces]
Route       == [base : Prefix, next_hop : Gateways \cup {None},
                interface : Interfaces, index : NhIndex]

ASSUME RoutesAssumption ==
  /\ W \in Nat \ {0, 1} /\ MaxRoutes \in Nat /\ StableSort \in BOOLEAN
  /\ KernelRoutes \subseteq KernelRoute
  /\ ToUse \in Seq(Interfaces) /\ None \notin Nat

VARIABLES
  entries,        \* entries[n]: the routes of prefix length n
  rib,            \* history: entries as the kernel dumped them
  clash,          \* history: prefixes aggregate() made that were there already
  nextHopMapping, \* the gateways and their indices
  next_index,     \* local to buildNextHopList: the index of the next gateway
  netmapIndex,    \* netmapIndex[i], None before and without netmap
  nextHops,       \* ARPTable::table: interface of gateway index k - 1
  pc, len, i      \* where Manager::initNetmap is, and in which list of routes

vars == <<entries, rib, clash, nextHopMapping, next_index, netmapIndex, nextHops,
          pc, len, i>>

TypeOK ==
  /\ entries \in [0 .. W -> Seq(Route)] /\ rib \in [0 .. W -> Seq(Route)]
  /\ \A n \in 0 .. W : \A k \in 1 .. Len(entries[n]) : Len(entries[n][k].base) = n
  /\ nextHopMapping \in Seq([nh_ip : Gateways, interface : Interfaces,
                             index : NhIndex])
  /\ next_index \in NhIndex
  /\ netmapIndex \in [Interfaces -> Nat \cup {None}]
  /\ clash \subseteq Prefix
  /\ pc \in {"dump", "sort", "merge", "index", "netmap", "reindex", "table",
            "ready", "overrun"}
  /\ len \in 0 .. W /\ i \in Nat

Init ==
  /\ entries = [n \in 0 .. W |-> <<>>] /\ rib = entries
  /\ clash = {} /\ nextHopMapping = <<>> /\ next_index = 0
  /\ netmapIndex = [f \in Interfaces |-> None]
  /\ nextHops = <<>>
  /\ pc = "dump" /\ len = 0 /\ i = 0

-----------------------------------------------------------------------------
(* LinuxTable::updateInfo: data_cb_new appends each route to the list of    *)
(* its prefix length.                                                       *)
NumRoutes == SumFunction([n \in 0 .. W |-> Len(entries[n])])

data_cb_new ==
  /\ pc = "dump" /\ NumRoutes < MaxRoutes
  /\ \E r \in KernelRoutes :
       entries' = [entries EXCEPT ![Len(r.base)] =
                     Append(@, [base |-> r.base, next_hop |-> r.next_hop,
                                interface |-> r.interface,
                                index |-> NH_INVALID])]
  /\ UNCHANGED <<rib, clash, nextHopMapping, next_index, netmapIndex,
                 nextHops, pc, len, i>>

(* The end of the dump.  The loop that follows compares a netlink index     *)
(* with netmap indices, which no interface has yet: nothing happens.        *)
DumpDone ==
  /\ pc = "dump"
  /\ pc' = "sort" /\ len' = W - 2 /\ rib' = entries
  /\ UNCHANGED <<entries, clash, nextHopMapping, next_index, netmapIndex,
                 nextHops, i>>

(* aggregate(): the lists of the lengths W - 2 .. 1, longest first.  The    *)
(* order sort() gives equal bases is not specified; libstdc++ keeps it in   *)
(* lists of up to 16 routes.                                                *)
Value == [b \in Prefix |->
            SumFunction([k \in 1 .. Len(b) |-> b[k] * 2 ^ (Len(b) - k)])]

SortOrders(s) ==
  {f \in Bijection(1 .. Len(s), 1 .. Len(s)) :
     \A k \in 1 .. Len(s) - 1 :
       \/ Value[s[f[k]].base] < Value[s[f[k + 1]].base]
       \/ s[f[k]].base = s[f[k + 1]].base /\ (StableSort => f[k] < f[k + 1])}

SortLength ==
  /\ pc = "sort" /\ len > 0
  /\ \E f \in SortOrders(entries[len]) :
       entries' = [entries EXCEPT ![len] = [k \in DOMAIN f |-> @[f[k]]]]
  /\ IF Len(entries[len]) < 2
     THEN len' = len - 1 /\ UNCHANGED <<pc, i>>
     ELSE pc' = "merge" /\ i' = 1 /\ UNCHANGED len
  /\ UNCHANGED <<rib, clash, nextHopMapping, next_index, netmapIndex,
                 nextHops>>

SortDone ==
  /\ pc = "sort" /\ len = 0
  /\ pc' = "index" /\ i' = 1 /\ next_index' = 0
  /\ UNCHANGED <<entries, rib, clash, nextHopMapping, netmapIndex, nextHops, len>>

(* Faulty: merges siblings out of different interfaces and to any hop.     *)
SiblingsAnyIface(first, second) ==
  Front(first.base) = Front(second.base) /\ first.base # second.base

(* Faulty: two neighbouring prefixes, whether or not they have a parent.    *)
SiblingsUnaligned(first, second) ==
  /\ Value[second.base] = Value[first.base] + 1
  /\ first.next_hop = second.next_hop
  /\ first.interface = second.interface

Siblings(first, second) ==
  /\ Front(first.base) = Front(second.base) /\ first.base # second.base
  /\ first.next_hop = second.next_hop
  /\ first.interface = second.interface

Parent(r) == [r EXCEPT !.base = Front(r.base)]

(* Faulty: the merged route keeps the prefix length of the two.            *)
MergeWrongLength ==
  LET s == entries[len] IN
  /\ pc = "merge" /\ i < Len(s)
  /\ entries' = IF Siblings(s[i], s[i + 1])
                THEN [entries EXCEPT
                        ![len] = SubSeq(s, 1, i - 1) \o SubSeq(s, i + 2, Len(s)),
                        ![len - 1] = Append(@, s[i])]
                ELSE entries
  /\ clash' = clash \cup {r.base : r \in {q \in Range(entries[len - 1]) :
                           /\ Siblings(s[i], s[i + 1])
                           /\ q.base = Front(s[i].base)}}
  /\ i' = i + 1
  /\ UNCHANGED <<rib, nextHopMapping, next_index, netmapIndex, nextHops, pc,
                 len>>

(* One round of the loop over i: two siblings become their parent.  The     *)
(* unsigned bound size() - 1 wraps around when the list is empty.           *)
Merge ==
  LET s == entries[len] IN
  /\ pc = "merge" /\ i < Len(s)
  /\ entries' = IF Siblings(s[i], s[i + 1])
                THEN [entries EXCEPT
                        ![len] = SubSeq(s, 1, i - 1) \o SubSeq(s, i + 2, Len(s)),
                        ![len - 1] = Append(@, Parent(s[i]))]
                ELSE entries
  /\ clash' = clash \cup {r.base : r \in {q \in Range(entries[len - 1]) :
                           /\ Siblings(s[i], s[i + 1])
                           /\ q.base = Front(s[i].base)}}
  /\ i' = i + 1
  /\ UNCHANGED <<rib, nextHopMapping, next_index, netmapIndex, nextHops, pc,
                 len>>

MergeDone ==
  /\ pc = "merge" /\ i >= Len(entries[len])
  /\ IF entries[len] = <<>>
     THEN pc' = "overrun" /\ UNCHANGED len
     ELSE pc' = "sort" /\ len' = len - 1
  /\ UNCHANGED <<entries, rib, clash, nextHopMapping, next_index, netmapIndex,
                 nextHops, i>>

-----------------------------------------------------------------------------
(* buildNextHopList() visits all routes, shortest prefixes first.  An       *)
(* interface without a number has netmapIndex uint32_t_max: all ones.       *)
Uint16(x) == IF x = None THEN 65535 ELSE x % 65536

DirectIndex(x) == NH_DIRECTLY_CONNECTED + (Uint16(x) % 32768)

Visiting == pc \in {"index", "reindex"} /\ i <= Len(entries[len])

(* Faulty: never finds a gateway again.                                    *)
KnownAsNone(ip) == {}

KnownAs(ip) == {k \in 1 .. Len(nextHopMapping) : nextHopMapping[k].nh_ip = ip}

SetIndex(x) ==
  /\ entries' = [entries EXCEPT ![len][i].index = x]
  /\ i' = i + 1

IndexDirect ==
  LET r == entries[len][i] IN
  /\ Visiting /\ r.next_hop = None
  /\ SetIndex(DirectIndex(netmapIndex[r.interface]))
  /\ UNCHANGED <<rib, clash, nextHopMapping, next_index, netmapIndex, nextHops, pc, len>>

(* The asserts end the program when an index would be NH_INVALID.           *)
IndexKnown ==
  LET r == entries[len][i]
      x == nextHopMapping[Min(KnownAs(r.next_hop))].index
  IN
  /\ Visiting /\ r.next_hop # None /\ KnownAs(r.next_hop) # {}
  /\ x # NH_INVALID
  /\ SetIndex(x)
  /\ UNCHANGED <<rib, clash, nextHopMapping, next_index, netmapIndex, nextHops, pc, len>>

IndexNew ==
  LET r == entries[len][i] IN
  /\ Visiting /\ r.next_hop # None /\ KnownAs(r.next_hop) = {}
  /\ next_index # NH_INVALID
  /\ nextHopMapping' = Append(nextHopMapping, [nh_ip |-> r.next_hop,
                                               interface |-> r.interface,
                                               index |-> next_index])
  /\ next_index' = next_index + 1
  /\ SetIndex(next_index)
  /\ UNCHANGED <<rib, clash, netmapIndex, nextHops, pc, len>>

(* On to the next list that has routes.                                     *)
IndexNextList ==
  /\ pc \in {"index", "reindex"} /\ i > Len(entries[len])
  /\ \E n \in len + 1 .. W :
       /\ entries[n] # <<>> /\ \A m \in len + 1 .. n - 1 : entries[m] = <<>>
       /\ len' = n
  /\ i' = 1
  /\ UNCHANGED <<entries, rib, clash, nextHopMapping, next_index, netmapIndex,
                 nextHops, pc>>

IndexDone ==
  /\ pc \in {"index", "reindex"} /\ i > Len(entries[len])
  /\ \A n \in len + 1 .. W : entries[n] = <<>>
  /\ pc' = IF pc = "index" THEN "netmap" ELSE "table"
  /\ UNCHANGED <<entries, rib, clash, nextHopMapping, next_index, netmapIndex,
                 nextHops, len, i>>

(* initNetmap numbers the interfaces it uses and rebuilds the list.  The    *)
(* last number of an interface that is named twice replaces the first.      *)
NumberOf ==
  [f \in Interfaces |-> IF f \in Range(ToUse)
                        THEN Max({k \in 1 .. Len(ToUse) : ToUse[k] = f}) - 1
                        ELSE None]

InitNetmap ==
  /\ pc = "netmap" /\ pc' = "reindex"
  /\ netmapIndex' = NumberOf
  /\ len' = 0 /\ i' = 1 /\ next_index' = 0
  /\ UNCHANGED <<entries, rib, clash, nextHopMapping, nextHops>>

(* startWorkerThreads has the ARP table make the table the indices refer    *)
(* to.  The test for an interface without number compares 32 bits with      *)
(* uint16_t_max and never fires.                                            *)
createCurrentTable ==
  /\ pc = "table" /\ pc' = "ready"
  /\ nextHops' = [k \in 1 .. Len(nextHopMapping) |->
                    LET nh == CHOOSE h \in Range(nextHopMapping) : h.index = k - 1
                    IN  Uint16(netmapIndex[nh.interface])]
  /\ UNCHANGED <<entries, rib, clash, nextHopMapping, next_index, netmapIndex, len, i>>

Next ==
  \/ data_cb_new \/ DumpDone \/ SortLength \/ SortDone \/ Merge \/ MergeDone
  \/ IndexDirect \/ IndexKnown \/ IndexNew \/ IndexNextList \/ IndexDone
  \/ InitNetmap \/ createCurrentTable

Spec == Init /\ [][Next]_vars

-----------------------------------------------------------------------------
(* BasicTrie: a node for every prefix of a base, the index of the last      *)
(* route with that base as its leaf.                                        *)
AllRoutes(tbl) == UNION {Range(tbl[n]) : n \in 0 .. W}

Nodes == {<<>>} \cup UNION {{SubSeq(r.base, 1, n) : n \in 0 .. Len(r.base)} :
                             r \in AllRoutes(entries)}

Leaf(p) ==
  LET s    == entries[Len(p)]
      hits == {k \in 1 .. Len(s) : s[k].base = p}
  IN  IF hits = {} THEN NH_INVALID ELSE s[Max(hits)].index

(* BasicTrie::route: down the path of the address while there is a node,    *)
(* remembering the last valid leaf.                                         *)
(* Faulty: forgets the shorter match at an inner node without a route.     *)
LastLeafAlways(leaf, old) == leaf

LastLeaf(leaf, old) == IF leaf # NH_INVALID THEN leaf ELSE old

TrieRoute(a) ==
  LET walk[n \in 0 .. W] ==
        IF n = 0 THEN Leaf(<<>>)
        ELSE IF SubSeq(a, 1, n) \in Nodes
        THEN LastLeaf(Leaf(SubSeq(a, 1, n)), walk[n - 1])
        ELSE walk[n - 1]
  IN  walk[W]

(* Naive::route: the lists from the longest prefix on, the first match.     *)
NaiveRoute(a) ==
  LET hits(n) == {k \in 1 .. Len(entries[n]) : IsPrefix(entries[n][k].base, a)}
      lens    == {n \in 0 .. W : hits(n) # {}}
  IN  IF lens = {} THEN NH_INVALID
      ELSE entries[Max(lens)][Min(hits(Max(lens)))].index

-----------------------------------------------------------------------------
(* The longest matches for an address in a set of routes.                   *)
Longest(routes, a) ==
  {r \in routes : /\ IsPrefix(r.base, a)
                  /\ \A q \in routes : IsPrefix(q.base, a) => Len(q.base) <= Len(r.base)}

NoDuplicates(tbl) ==
  \A n \in 0 .. W : \A j, k \in 1 .. Len(tbl[n]) :
     j # k => tbl[n][j].base # tbl[n][k].base

OnNetmap == \A r \in AllRoutes(rib) : r.interface \in Range(ToUse)

(* What a worker makes of an index.                                         *)
Decoded(x) ==
  IF x = NH_INVALID THEN <<"no route">>
  ELSE IF x >= NH_DIRECTLY_CONNECTED THEN <<"direct", x - NH_DIRECTLY_CONNECTED>>
  ELSE LET nh == CHOOSE h \in Range(nextHopMapping) : h.index = x
       IN  <<"via", nh.nh_ip, nextHops[x + 1]>>

(* Where a route of the kernel leads, and the longest matches of an address.*)
LeadsTo(r) ==
  LET number == Uint16(netmapIndex[r.interface])
  IN  IF r.next_hop = None THEN <<"direct", number>> ELSE <<"via", r.next_hop, number>>

Wanted(a) ==
  LET best == Longest(AllRoutes(rib), a)
  IN  IF best = {} THEN {<<"no route">>} ELSE {LeadsTo(r) : r \in best}

(* A direct route out of an interface without a number, and the routes that *)
(* go through the gateway of a route.                                       *)
Unnumbered(r) == r.next_hop = None /\ netmapIndex[r.interface] = None

SameGateway(r) ==
  IF r.next_hop = None THEN {r} ELSE {q \in AllRoutes(rib) : q.next_hop = r.next_hop}

(* In a dump without duplicates, the kernel's answer survives aggregate(),  *)
(* the two buildNextHopList() passes, the trie and createCurrentTable() for *)
(* every address, with three exceptions.  Below a prefix that aggregate()   *)
(* made although it was there (routingTable.cpp:50), sort() may exchange    *)
(* the two, or the new one is merged again, and the old one wins where it   *)
(* was shadowed.  A direct route out of an interface without a number gets  *)
(* NH_INVALID (routingTable.cpp:120) and its packets a shorter route.  A    *)
(* gateway on two interfaces has one index (routingTable.cpp:127), and one  *)
(* of the two interfaces.                                                   *)
RoutedAsKernel ==
  pc = "ready" /\ NoDuplicates(rib) =>
    \A a \in Addrs :
      \/ Decoded(TrieRoute(a)) \in Wanted(a)
      \/ \E p \in clash : IsPrefix(p, a)
      \/ \E r \in Longest(AllRoutes(rib), a) :
           Unnumbered(r) \/ \E q \in SameGateway(r) : q.interface # r.interface

(* Whatever the kernel dumps, those exceptions and duplicates included: a   *)
(* packet only goes where some route leads that covers its address, if need *)
(* be by another interface of that route's gateway.  Merging, renumbering   *)
(* and the search never make up a destination.                              *)
NoRouteInvented ==
  pc = "ready" =>
    \A a \in Addrs :
      LET covering == {r \in AllRoutes(rib) : IsPrefix(r.base, a)}
      IN  Decoded(TrieRoute(a)) \in
            {<<"no route">>} \cup {LeadsTo(q) : q \in UNION {SameGateway(r) : r \in covering}}

(* A gateway's index is its own: buildNextHopList, run twice and restarting *)
(* at 0, gives no index twice and none beyond the table that                *)
(* createCurrentTable sizes by the number of gateways.                      *)
IndicesDense ==
  pc \in {"netmap", "table", "ready"} =>
    /\ \A k \in 1 .. Len(nextHopMapping) : nextHopMapping[k].index = k - 1
    /\ \A r \in AllRoutes(entries) : r.next_hop # None =>
         /\ r.index < Len(nextHopMapping)
         /\ nextHopMapping[r.index + 1].nh_ip = r.next_hop

(* Both lookups agree on every address when no prefix occurs twice and all  *)
(* interfaces are numbered.                                                 *)
LookupsAgree ==
  pc = "ready" /\ NoDuplicates(entries) /\ OnNetmap =>
    \A a \in Addrs : TrieRoute(a) = NaiveRoute(a)

(* update() completes: the loop of aggregate() stays inside its list.       *)
InsideList == pc # "overrun"
=============================================================================
