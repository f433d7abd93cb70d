------------------------------ MODULE StartUp ------------------------------
(***************************************************************************)
(* From the command line to a router that can poll: main and parseOptions, *)
(* Netlink::getAllInterfaces with its two callbacks, Manager::fillNetLink, *)
(* the interfaces LinuxTable gives its routes, Manager::initNetmap.        *)
(*                                                                         *)
(* Meanwhile links come and go in the kernel, and netmap may refuse one.   *)
(* What becomes of the routes is RoutingTable, of the threads Lifecycle.   *)
(***************************************************************************)
EXTENDS Integers, Sequences, FiniteSets, FiniteSetsExt, Functions

CONSTANTS
  Argvs,          \* command lines: argv[1] .. argv[argc - 1]
  Options, atoi,  \* the arguments that begin with '-'; atoi() of the others
  Links,          \* links the kernel may have
  InitLinks,      \* the ones it has at first
  MaxChanges,     \* links that come or go, at most (bound)
  NumExtra,       \* extra buffers netmap gives to an interface (nr_arg3)
  None            \* no link; the MAC or netmapIndex of a new Interface

(* A link as the kernel describes it: its addresses are in order, and each  *)
(* has a label, which need not be the name of the link.                     *)
IsLink(l) ==
  /\ l.index \in Nat /\ l.numRings \in Nat \ {0}
  /\ l.addrs \in Seq([ip : Nat, label : STRING])

ASSUME StartUpAssumption ==
  /\ InitLinks \subseteq Links /\ \A l \in Links : IsLink(l)
  /\ \A l, m \in Links : l.index = m.index \/ l.name = m.name => l = m
  /\ Argvs \subseteq Seq(STRING)
  /\ \A v \in Argvs : \A n \in 2 .. Len(v) : v[n - 1] = "-t" => atoi[v[n]] \in Nat
  /\ MaxChanges \in Nat /\ NumExtra \in Nat /\ None \notin Nat \cup Links

VARIABLES
  pc, end,        \* where main is; how the program ended
  argv, pos,      \* parseOptions
  numWorkers,     \* GlobalConfig.numWorkers
  links, changes, \* the kernel's links, the number of changes so far
  todo,           \* messages of the dump going on: <<link, n>>
  dumped,         \* history: the links in the address and in the link dump
  ifaces,         \* Manager::interfaces
  nifp,           \* the netmap_if nmreq_root points at
  rings,          \* netmapRxRings, netmapTxRings: the link of each element
  refused,        \* history: places in interfacesToUse netmap refused
  freeBufs

kernel  == <<links, changes>>
options == <<argv, pos, numWorkers>>
netmap  == <<nifp, rings, refused, freeBufs>>
vars    == <<pc, end, options, kernel, todo, dumped, ifaces, netmap>>

interfacesToUse == SubSeq(argv, pos, Len(argv))

(* Every registration has a netmap_if of its own: the link, and the place   *)
(* in interfacesToUse it was for.                                           *)
NetmapIf == [link : Links, at : Nat]

Interface == [netlinkIndex : {l.index : l \in Links},
              name : {l.name : l \in Links} \cup {"noname"}
                       \cup UNION {{a.label : a \in Range(l.addrs)} : l \in Links},
              mac : {l.mac : l \in Links} \cup {None},
              IPs : Seq(Nat),
              netmapIndex : Nat \cup {None}]

TypeOK ==
  /\ pc \in {"options", "addr", "link", "sort", "routes", "netmap", "ready", "end"}
  /\ end \in {"", "usage", "unknown option", "crash", "fatal", "abort"}
  /\ argv \in Argvs /\ pos \in 1 .. Len(argv) + 1 /\ numWorkers \in Nat
  /\ links \subseteq Links /\ changes \in 0 .. MaxChanges
  /\ todo \subseteq Links \X Nat
  /\ dumped \in [addr : SUBSET Links, link : SUBSET Links]
  /\ ifaces \in Seq(Interface)
  /\ nifp \in NetmapIf \cup {None} /\ rings \in Seq(Links)
  /\ refused \subseteq 1 .. Len(argv)
  /\ freeBufs \in Seq(Nat \X (1 .. NumExtra))

Init ==
  /\ pc = "options" /\ end = "" /\ argv \in Argvs /\ pos = 1 /\ numWorkers = 1
  /\ links = InitLinks /\ changes = 0
  /\ todo = {} /\ dumped = [addr |-> {}, link |-> {}] /\ ifaces = <<>>
  /\ nifp = None /\ rings = <<>> /\ refused = {} /\ freeBufs = <<>>

(* A link is plugged in or removed.                                         *)
KernelChange ==
  /\ pc \notin {"ready", "end"}
  /\ changes < MaxChanges /\ changes' = changes + 1
  /\ \E l \in Links : links' = IF l \in links THEN links \ {l} ELSE links \cup {l}
  /\ UNCHANGED <<pc, end, options, todo, dumped, ifaces, netmap>>

End(how) ==
  /\ pc' = "end" /\ end' = how
  /\ UNCHANGED <<options, kernel, todo, dumped, ifaces, netmap>>

-----------------------------------------------------------------------------
(* main and parseOptions.  argv[pos] is looked at before pos < argc, so     *)
(* options without an interface behind them read argv[argc], a null         *)
(* pointer; so does -t without a number.                                    *)
NoArguments == pc = "options" /\ argv = <<>> /\ End("usage")

PastTheEnd ==
  /\ pc = "options" /\ argv # <<>>
  /\ pos <= Len(argv) => argv[pos] = "-t" /\ pos = Len(argv)
  /\ End("crash")

(* Faulty: one argument too many is passed over.                            *)
OptionTSkips ==
  /\ pc = "options" /\ pos < Len(argv) /\ argv[pos] = "-t"
  /\ numWorkers' = atoi[argv[pos + 1]] /\ pos' = pos + 3
  /\ UNCHANGED <<pc, end, argv, kernel, todo, dumped, ifaces, netmap>>

OptionT ==
  /\ pc = "options" /\ pos < Len(argv) /\ argv[pos] = "-t"
  /\ numWorkers' = atoi[argv[pos + 1]] /\ pos' = pos + 2
  /\ UNCHANGED <<pc, end, argv, kernel, todo, dumped, ifaces, netmap>>

(* Any option but --help passes for a request for help.                     *)
OtherOption ==
  /\ pc = "options" /\ pos <= Len(argv)
  /\ argv[pos] \in Options \ {"-t"}
  /\ End(IF argv[pos] = "--help" THEN "unknown option" ELSE "usage")

(* Manager's constructor sends the request for the addresses.               *)
RequestAddrs ==
  /\ pc = "options" /\ pos <= Len(argv) /\ argv[pos] \notin Options
  /\ pc' = "addr" /\ todo' = UNION {{l} \X (1 .. Len(l.addrs)) : l \in links}
  /\ dumped' = [dumped EXCEPT !.addr = links]
  /\ UNCHANGED <<end, options, kernel, ifaces, netmap>>

-----------------------------------------------------------------------------
(* Both callbacks look for the (last) Interface with the netlink index, and *)
(* append a new one when there is none.                                     *)
New(index) == [netlinkIndex |-> index, name |-> "noname", mac |-> None,
               IPs |-> <<>>, netmapIndex |-> None]

Known(index) == {k \in 1 .. Len(ifaces) : ifaces[k].netlinkIndex = index}

Found(index) ==
  IF Known(index) = {} THEN New(index) ELSE ifaces[Max(Known(index))]

Updated(i) ==
  IF Known(i.netlinkIndex) = {} THEN Append(ifaces, i)
  ELSE [ifaces EXCEPT ![Max(Known(i.netlinkIndex))] = i]

(* One message per address, those of a link in their order.                 *)
data_cb_ip ==
  /\ pc = "addr"
  /\ \E m \in todo :
       /\ \A o \in todo : o[1] = m[1] => m[2] <= o[2]
       /\ todo' = todo \ {m}
       /\ LET a == m[1].addrs[m[2]]
          IN  ifaces' = Updated([Found(m[1].index) EXCEPT !.IPs = Append(@, a.ip),
                                                          !.name = a.label])
  /\ UNCHANGED <<pc, end, options, kernel, dumped, netmap>>

RequestLinks ==
  /\ pc = "addr" /\ todo = {}
  /\ pc' = "link" /\ todo' = links \X {1}
  /\ dumped' = [dumped EXCEPT !.link = links]
  /\ UNCHANGED <<end, options, kernel, ifaces, netmap>>

(* Faulty: the name is left as the addresses' labels made it.               *)
data_cb_linkKeepsLabel ==
  /\ pc = "link"
  /\ \E m \in todo :
       /\ todo' = todo \ {m}
       /\ ifaces' = Updated([Found(m[1].index) EXCEPT
                               !.mac = m[1].mac,
                               !.name = IF @ = "noname" THEN m[1].name ELSE @])
  /\ UNCHANGED <<pc, end, options, kernel, dumped, netmap>>

(* Faulty: only interfaces with an address are known.                       *)
data_cb_linkNoNew ==
  /\ pc = "link"
  /\ \E m \in todo :
       /\ todo' = todo \ {m}
       /\ ifaces' = IF Known(m[1].index) = {} THEN ifaces
                     ELSE Updated([Found(m[1].index) EXCEPT !.mac = m[1].mac,
                                                            !.name = m[1].name])
  /\ UNCHANGED <<pc, end, options, kernel, dumped, netmap>>

data_cb_link ==
  /\ pc = "link"
  /\ \E m \in todo :
       /\ todo' = todo \ {m}
       /\ ifaces' = Updated([Found(m[1].index) EXCEPT !.mac = m[1].mac,
                                                      !.name = m[1].name])
  /\ UNCHANGED <<pc, end, options, kernel, dumped, netmap>>

LinksDone ==
  /\ pc = "link" /\ todo = {} /\ pc' = "sort"
  /\ UNCHANGED <<end, options, kernel, todo, dumped, ifaces, netmap>>

(* fillNetLink sorts shared pointers: by address, which can be any order.   *)
fillNetLink ==
  /\ pc = "sort" /\ pc' = "routes"
  /\ ifaces' \in {[k \in 1 .. Len(ifaces) |-> ifaces[p[k]]] :
                    p \in Bijection(1 .. Len(ifaces), 1 .. Len(ifaces))}
  /\ UNCHANGED <<end, options, kernel, todo, dumped, netmap>>

-----------------------------------------------------------------------------
(* A netlink socket fails, or a message is malformed: any dump can end so,   *)
(* as does, before the routes, a user who is not root.                      *)
DumpFails == pc \in {"addr", "link", "routes"} /\ End("fatal")

(* LinuxTable's route dump.  A route out of a link that is not among the    *)
(* interfaces keeps a null pointer, which updateInfo dereferences in its    *)
(* loop over the interfaces.                                                *)
RouteDump ==
  /\ pc = "routes"
  /\ \E oifs \in SUBSET links :
       IF ifaces = <<>> \/ \A l \in oifs : Known(l.index) # {}
       THEN /\ pc' = "netmap"
            /\ UNCHANGED <<end, options, kernel, todo, dumped, ifaces, netmap>>
       ELSE End("crash")

(* initNetmap, one interface of interfacesToUse: NIOCREGIF either fills in  *)
(* nmreq_root or fails and leaves it alone, and nobody looks at its result. *)
(* A link may be registered again (NR_EXCLUSIVE is not set): its rings are  *)
(* the same, the extra buffers are new ones.                                *)
Place == Len(rings) + 1

Registers(l) == l \in links /\ l.name = interfacesToUse[Place]

Named == {k \in 1 .. Len(ifaces) : ifaces[k].name = interfacesToUse[Place]}

Extra(nif) == [n \in 1 .. NumExtra |-> <<nif.at, n>>]

(* Faulty: the index is the place in Manager::interfaces.                   *)
AttachAtPlace(nif, ok) ==
  /\ nifp' = nif
  /\ rings' = Append(rings, nif.link)
  /\ freeBufs' = freeBufs \o Extra(nif)
  /\ ifaces' = [ifaces EXCEPT ![Min(Named)].netmapIndex = Min(Named) - 1]
  /\ refused' = IF ok THEN refused ELSE refused \cup {Place}

(* Faulty: the list of extra buffers is always that of the first interface. *)
AttachFirstList(nif, ok) ==
  /\ nifp' = nif
  /\ rings' = Append(rings, nif.link)
  /\ freeBufs' = freeBufs \o Extra([nif EXCEPT !.at = 1])
  /\ ifaces' = [ifaces EXCEPT ![Min(Named)].netmapIndex = Place - 1]
  /\ refused' = IF ok THEN refused ELSE refused \cup {Place}

(* The rings and extra buffers of the netmap_if nmreq_root points at, and   *)
(* the number for the first Interface with the name.                        *)
Attach(nif, ok) ==
  /\ nifp' = nif
  /\ rings' = Append(rings, nif.link)
  /\ freeBufs' = freeBufs \o Extra(nif)
  /\ ifaces' = [ifaces EXCEPT ![Min(Named)].netmapIndex = Place - 1]
  /\ refused' = IF ok THEN refused ELSE refused \cup {Place}

initNetmap ==
  /\ pc = "netmap" /\ Place <= Len(interfacesToUse)
  /\ \/ /\ rings = <<>> /\ End("abort")                \* mmap() fails
     \/ \E l \in links :
          /\ Registers(l)
          /\ IF l.numRings # numWorkers \/ Named = {} THEN End("fatal")
             ELSE /\ Attach([link |-> l, at |-> Place], TRUE)
                  /\ UNCHANGED <<pc, end, options, kernel, todo, dumped>>
     \/ /\ nifp # None
        /\ IF Named = {} THEN End("fatal")
           ELSE /\ Attach(nifp, FALSE)
                /\ UNCHANGED <<pc, end, options, kernel, todo, dumped>>

Ready ==
  /\ pc = "netmap" /\ Place > Len(interfacesToUse)
  /\ pc' = "ready"
  /\ UNCHANGED <<end, options, kernel, todo, dumped, ifaces, netmap>>

Next ==
  \/ KernelChange
  \/ NoArguments \/ PastTheEnd \/ OptionT \/ OtherOption \/ RequestAddrs
  \/ data_cb_ip \/ RequestLinks \/ data_cb_link \/ LinksDone \/ fillNetLink
  \/ DumpFails \/ RouteDump \/ initNetmap \/ Ready

Spec == Init /\ [][Next]_vars

-----------------------------------------------------------------------------
Labels(l) == {a.label : a \in Range(l.addrs)}
IPsOf(l)  == [n \in 1 .. Len(l.addrs) |-> l.addrs[n].ip]

(* What the two dumps (netlink.cpp:12-134) make of the kernel's links,      *)
(* whatever happens between them: one Interface for each link in either     *)
(* dump; the addresses in order, the first one being the sender of ARP      *)
(* requests, if it was in the first dump; its own name and MAC, and not a   *)
(* label, if it was in the second.                                          *)
DumpFaithful ==
  pc \in {"sort", "routes"} =>
    /\ Len(ifaces) = Cardinality({l \in Links : \/ l \in dumped.link
                                                \/ l \in dumped.addr /\ l.addrs # <<>>})
    /\ \A l \in dumped.addr \cup dumped.link : l.addrs # <<>> \/ l \in dumped.link =>
         \E i \in Range(ifaces) :
           /\ i.netlinkIndex = l.index
           /\ i.IPs = IF l \in dumped.addr THEN IPsOf(l) ELSE <<>>
           /\ IF l \in dumped.link THEN i.name = l.name /\ i.mac = l.mac
              ELSE i.name \in Labels(l) /\ i.mac = None

(* The program dies from a null pointer (linuxTable.cpp:160) only when a    *)
(* link came up after the link dump, or for options without an interface    *)
(* (main.cpp:38-40).                                                        *)
CrashOnlyFor ==
  end = "crash" => \/ links \ dumped.link # {}
                   \/ ifaces = <<>> /\ Len(argv) <= pos

NamedAgain(k) ==
  \E m \in k + 1 .. Len(interfacesToUse) : interfacesToUse[m] = interfacesToUse[k]

(* What a number of the data path stands for once initNetmap is through     *)
(* (manager.cpp:68-100).  The rings with number k - 1 are those of the k-th *)
(* interface of the command line, or, if netmap refused it, silently those  *)
(* of the one before.  The Interface with that number, which the workers    *)
(* and the ARP table go by, has that very name; only a name that comes      *)
(* again later leaves its first number without an Interface, since line 100 *)
(* overwrites it, while netmap hands out the same rings twice.              *)
NumbersMatch ==
  pc = "ready" =>
    \A k \in 1 .. Len(interfacesToUse) :
       /\ IF k \in refused THEN k > 1 /\ rings[k] = rings[k - 1]
          ELSE rings[k].name = interfacesToUse[k]
       /\ {i.name : i \in {j \in Range(ifaces) : j.netmapIndex = k - 1}}
            = IF NamedAgain(k) THEN {} ELSE {interfacesToUse[k]}

(* No extra buffer gets into freeBufs twice (manager.cpp:81-84), which      *)
(* DataPath takes for granted (its BuffersAssumption), not even for an      *)
(* interface that is named twice.  The exception is an interface netmap     *)
(* refused: the list of the one before is walked again.                     *)
BuffersOnce == refused = {} => IsInjective(freeBufs)
=============================================================================
