--------------------------- MODULE StartUpProofs ----------------------------
EXTENDS StartUp, FiniteSetTheorems, TLAPS

(***************************************************************************)
(* The inductive invariant of StartUp and the theorems about it.           *)
(***************************************************************************)

(* The Interface of link l after c of its addresses, and (linked) its       *)
(* message of the link dump.                                                *)
Described(i, l, c, linked) ==
  /\ i.netlinkIndex = l.index /\ i.IPs = [n \in 1 .. c |-> l.addrs[n].ip]
  /\ IF linked THEN i.name = l.name /\ i.mac = l.mac
     ELSE i.name = l.addrs[c].label /\ i.mac = None

Seen(l, c, linked) ==
  IF c = 0 /\ ~ linked THEN Known(l.index) = {}
  ELSE \E j \in DOMAIN ifaces : Described(ifaces[j], l, c, linked)

(* The addresses of l that are not under way any more.                      *)
Counted(l, c) ==
  IF l \in dumped.addr THEN \A n \in 1 .. Len(l.addrs) : <<l, n>> \in todo <=> n > c
  ELSE c = 0

NumAddrs(l) == IF l \in dumped.addr THEN Len(l.addrs) ELSE 0

(* What the dumps have made of every link so far.                           *)
AddrDump ==
  /\ todo \subseteq UNION {{l} \X (1 .. Len(l.addrs)) : l \in dumped.addr}
  /\ dumped.link = {}
  /\ \A l \in Links : \E c \in 0 .. Len(l.addrs) : Seen(l, c, FALSE) /\ Counted(l, c)

LinkDump ==
  /\ todo \subseteq dumped.link \X {1}
  /\ \A l \in Links : Seen(l, NumAddrs(l), l \in dumped.link /\ <<l, 1>> \notin todo)

Dumped == \A l \in Links : Seen(l, NumAddrs(l), l \in dumped.link)

OneEach ==
  \A j, k \in DOMAIN ifaces : ifaces[j].netlinkIndex = ifaces[k].netlinkIndex => j = k

Dumping ==
  /\ pc = "options" => ifaces = <<>> /\ dumped = [addr |-> {}, link |-> {}]
  /\ pc = "addr" => AddrDump
  /\ pc = "link" => LinkDump
  /\ pc \in {"sort", "routes"} => Dumped
  /\ pc \in {"addr", "link", "sort", "routes"} => OneEach

(* No Interface has a number before initNetmap.                             *)
NoNumbers == \A j \in DOMAIN ifaces : ifaces[j].netmapIndex = None

Unnumbered ==
  pc \in {"options", "addr", "link", "sort", "routes"} =>
    nifp = None /\ rings = <<>> /\ refused = {} /\ freeBufs = <<>> /\ NoNumbers

(* The interfaces attached so far: their rings, ...                         *)
RingsNamed ==
  /\ Len(rings) <= Len(interfacesToUse) /\ refused \subseteq DOMAIN rings
  /\ nifp # None => Len(rings) > 0 /\ nifp.link = rings[Len(rings)]
  /\ \A k \in DOMAIN rings :
       IF k \in refused THEN k > 1 /\ rings[k] = rings[k - 1]
       ELSE rings[k].name = interfacesToUse[k]

(* ... their extra buffers, unless netmap refused one, and ...              *)
BuffersOfRings ==
  refused = {} => /\ \A n \in DOMAIN freeBufs : freeBufs[n][1] \in DOMAIN rings
                  /\ IsInjective(freeBufs)

(* ... their numbers: the first Interface with a name has the last place    *)
(* with this name.                                                          *)
HasNumber(j) ==
  LET i == ifaces[j] IN
  /\ i.netmapIndex + 1 \in DOMAIN rings
  /\ i.name = interfacesToUse[i.netmapIndex + 1]
  /\ \A m \in DOMAIN rings : interfacesToUse[m] = i.name => m <= i.netmapIndex + 1
  /\ \A h \in DOMAIN ifaces : ifaces[h].name = i.name => j <= h

Numbered ==
  /\ \A k \in DOMAIN rings : \E j \in DOMAIN ifaces :
       ifaces[j].netmapIndex # None /\ ifaces[j].name = interfacesToUse[k]
  /\ \A j \in DOMAIN ifaces : ifaces[j].netmapIndex = None \/ HasNumber(j)

Attached == RingsNamed /\ BuffersOfRings /\ Numbered

(* main ends once, and polls with every interface attached.                 *)
Ended ==
  /\ pc # "end" => end = ""
  /\ pc = "ready" => Len(rings) >= Len(interfacesToUse)

IInv == TypeOK /\ Dumping /\ Unnumbered /\ Attached /\ Ended /\ CrashOnlyFor
-----------------------------------------------------------------------------
(* The operators of the model.                                              *)

(* A sequence, as a function.                                               *)
LEMMA SeqFacts ==
  ASSUME NEW S, NEW s \in Seq(S)
  PROVE  /\ Len(s) \in Nat /\ DOMAIN s = 1 .. Len(s)
         /\ \A n \in DOMAIN s : s[n] \in S
OBVIOUS

(* Two sequences, one behind the other.                                     *)
Concatenated(s, t, u) ==
  /\ DOMAIN u = 1 .. Len(s) + Len(t) /\ \A n \in 1 .. Len(s) : u[n] = s[n]
  /\ \A n \in Len(s) + 1 .. Len(s) + Len(t) : u[n] = t[n - Len(s)]

LEMMA ConcatFacts ==
  ASSUME NEW S, NEW s \in Seq(S), NEW t \in Seq(S)
  PROVE  s \o t \in Seq(S) /\ Concatenated(s, t, s \o t)
BY DEF Concatenated

(* A sequence with one more element.                                        *)
Appended(s, x, u) ==
  /\ Len(u) = Len(s) + 1 /\ DOMAIN u = DOMAIN s \cup {Len(s) + 1}
  /\ u[Len(s) + 1] = x /\ \A n \in DOMAIN s : u[n] = s[n]

LEMMA AppendFacts ==
  ASSUME NEW S, NEW s \in Seq(S), NEW x \in S
  PROVE  Append(s, x) \in Seq(S) /\ Appended(s, x, Append(s, x))
BY DEF Appended

(* What the assumption says of one link.                                    *)
LEMMA LinkFacts ==
  ASSUME NEW l \in Links
  PROVE  /\ l.index \in Nat /\ l.addrs \in Seq([ip : Nat, label : STRING])
         /\ Len(l.addrs) \in Nat /\ DOMAIN l.addrs = 1 .. Len(l.addrs)
         /\ \A n \in 1 .. Len(l.addrs) : l.addrs[n].ip \in Nat /\ l.addrs[n].label \in Labels(l)
<1>1. l.index \in Nat /\ l.addrs \in Seq([ip : Nat, label : STRING])
  BY Zenon, StartUpAssumption DEF IsLink
<1>. HIDE DEF IsLink
<1>2. Len(l.addrs) \in Nat /\ DOMAIN l.addrs = 1 .. Len(l.addrs)
  BY Zenon, <1>1, SeqFacts
<1>3. \A n \in 1 .. Len(l.addrs) : l.addrs[n].ip \in Nat
  <2>1. \A n \in 1 .. Len(l.addrs) : l.addrs[n] \in [ip : Nat, label : STRING]
    BY Zenon, <1>1, <1>2, SeqFacts
  <2>. QED  BY <2>1
<1>4. \A n \in DOMAIN l.addrs : l.addrs[n].label \in Labels(l)
  BY Zenon DEF Labels, Range
<1>. QED  BY Zenon, <1>1, <1>2, <1>3, <1>4

(* The positions of Manager::interfaces.                                    *)
LEMMA IfacesFacts ==
  ASSUME ifaces \in Seq(Interface)
  PROVE  /\ Len(ifaces) \in Nat /\ DOMAIN ifaces = 1 .. Len(ifaces)
         /\ \A j \in DOMAIN ifaces : ifaces[j] \in Interface
         /\ \A x : Known(x) = {k \in DOMAIN ifaces : ifaces[k].netlinkIndex = x}
<1>1. /\ Len(ifaces) \in Nat /\ DOMAIN ifaces = 1 .. Len(ifaces)
      /\ \A j \in DOMAIN ifaces : ifaces[j] \in Interface
  OBVIOUS
<1>. QED  BY Zenon, <1>1 DEF Known

(* The Interface the callbacks of netlink.cpp find for a netlink index.     *)
LEMMA FoundFacts ==
  ASSUME ifaces \in Seq(Interface), OneEach, NEW j \in DOMAIN ifaces, NEW x,
         ifaces[j].netlinkIndex = x
  PROVE  Known(x) = {j} /\ Max(Known(x)) = j /\ Found(x) = ifaces[j]
<1>1. Known(x) = {j}
  <2>1. Known(x) = {k \in DOMAIN ifaces : ifaces[k].netlinkIndex = x}
    BY Zenon, IfacesFacts
  <2>2. \A k \in DOMAIN ifaces : ifaces[k].netlinkIndex = x => k = j
    BY Zenon DEF OneEach
  <2>. QED  BY Zenon, <2>1, <2>2
<1>2. Max({j}) = j
  <2>1. j \in Nat
    BY IfacesFacts
  <2>2. j >= j
    BY <2>1
  <2>. QED  BY Zenon, <2>2 DEF Max
<1>. QED  BY Zenon, <1>1, <1>2 DEF Found

(* Interface i is new at place j, or takes the place of the one with its    *)
(* netlink index.                                                           *)
Puts(j, i) ==
  /\ DOMAIN ifaces' = DOMAIN ifaces \cup {j} /\ ifaces'[j] = i
  /\ \A k \in DOMAIN ifaces \ {j} :
       ifaces'[k] = ifaces[k] /\ ifaces[k].netlinkIndex # i.netlinkIndex
  /\ j \in DOMAIN ifaces => ifaces[j].netlinkIndex = i.netlinkIndex

LEMMA UpdatedFacts ==
  ASSUME ifaces \in Seq(Interface), OneEach, NEW i \in Interface, ifaces' = Updated(i)
  PROVE  ifaces' \in Seq(Interface) /\ OneEach' /\ \E j : Puts(j, i)
<1>. DEFINE x == i.netlinkIndex
<1>1. CASE Known(x) = {}
  <2>1. ifaces' = Append(ifaces, i)
    BY Zenon, <1>1 DEF Updated
  <2>2. /\ ifaces' \in Seq(Interface) /\ DOMAIN ifaces' = DOMAIN ifaces \cup {Len(ifaces) + 1}
        /\ ifaces'[Len(ifaces) + 1] = i /\ \A k \in DOMAIN ifaces : ifaces'[k] = ifaces[k]
        /\ Len(ifaces) + 1 \notin DOMAIN ifaces
    BY <2>1
  <2>3. \A k \in DOMAIN ifaces : ifaces[k].netlinkIndex # x
    BY Zenon, <1>1, IfacesFacts
  <2>4. Puts(Len(ifaces) + 1, i)
    BY Zenon, <2>2, <2>3 DEF Puts
  <2>5. ASSUME NEW j \in DOMAIN ifaces', NEW k \in DOMAIN ifaces',
               ifaces'[j].netlinkIndex = ifaces'[k].netlinkIndex
        PROVE  j = k
    <3>1. CASE j \in DOMAIN ifaces /\ k \in DOMAIN ifaces
      BY Zenon, <2>2, <2>5, <3>1 DEF OneEach
    <3>2. CASE j = Len(ifaces) + 1 \/ k = Len(ifaces) + 1
      BY Zenon, <2>2, <2>3, <2>5, <3>2
    <3>. QED  BY Zenon, <2>2, <3>1, <3>2
  <2>. QED  BY Zenon, <2>2, <2>4, <2>5 DEF OneEach
<1>2. CASE Known(x) # {}
  <2>1. PICK j \in DOMAIN ifaces : ifaces[j].netlinkIndex = x
    BY Zenon, <1>2, IfacesFacts
  <2>2. ifaces' = [ifaces EXCEPT ![j] = i]
    BY Zenon, <1>2, <2>1, FoundFacts DEF Updated
  <2>3. ifaces' \in Seq(Interface)
    BY <2>2
  <2>4. /\ DOMAIN ifaces' = DOMAIN ifaces /\ ifaces'[j] = i
        /\ \A k \in DOMAIN ifaces \ {j} : ifaces'[k] = ifaces[k]
    BY Zenon, <2>1, <2>2
  <2>5. \A k \in DOMAIN ifaces \ {j} : ifaces[k].netlinkIndex # x
    BY Zenon, <2>1 DEF OneEach
  <2>6. Puts(j, i)
    BY Zenon, <2>1, <2>4, <2>5 DEF Puts
  <2>7. \A k \in DOMAIN ifaces : ifaces'[k].netlinkIndex = ifaces[k].netlinkIndex
    BY Zenon, <2>1, <2>4
  <2>8. OneEach'
    BY Zenon, <2>4, <2>7 DEF OneEach
  <2>. QED  BY Zenon, <2>3, <2>6, <2>8
<1>. QED  BY Zenon, <1>1, <1>2
(* A callback does not touch what is seen of the other links.               *)
LEMMA SeenOther ==
  ASSUME ifaces \in Seq(Interface), ifaces' \in Seq(Interface), NEW j, NEW i, Puts(j, i),
         NEW l \in Links, i.netlinkIndex = l.index, NEW m \in Links, m # l,
         NEW c, NEW linked, Seen(m, c, linked)
  PROVE  Seen(m, c, linked)'
<1>1. m.index # l.index
  BY Zenon, StartUpAssumption
<1>2. /\ Known(m.index) = {k \in DOMAIN ifaces : ifaces[k].netlinkIndex = m.index}
      /\ Known(m.index)' = {k \in DOMAIN ifaces' : ifaces'[k].netlinkIndex = m.index}
  BY Zenon, SeqFacts DEF Known
<1>3. CASE c = 0 /\ ~ linked
  <2>1. \A k \in DOMAIN ifaces : ifaces[k].netlinkIndex # m.index
    BY Zenon, <1>2, <1>3 DEF Seen
  <2>2. \A k \in DOMAIN ifaces' : ifaces'[k].netlinkIndex # m.index
    BY Zenon, <1>1, <2>1 DEF Puts
  <2>. QED  BY Zenon, <1>2, <1>3, <2>2 DEF Seen
<1>4. CASE ~ (c = 0 /\ ~ linked)
  <2>1. PICK k \in DOMAIN ifaces : Described(ifaces[k], m, c, linked)
    BY Zenon, <1>4 DEF Seen
  <2>2. k # j /\ k \in DOMAIN ifaces' /\ ifaces'[k] = ifaces[k]
    BY Zenon, <1>1, <2>1 DEF Puts, Described
  <2>. QED  BY Zenon, <1>4, <2>1, <2>2 DEF Seen, Described
<1>. QED  BY Zenon, <1>3, <1>4

(* And its own link is then seen as it should be.                           *)
LEMMA SeenThis ==
  ASSUME NEW j \in DOMAIN ifaces', NEW i, ifaces'[j] = i, NEW l, NEW c, NEW linked,
         Described(i, l, c, linked), ~ (c = 0 /\ ~ linked)
  PROVE  Seen(l, c, linked)'
BY Zenon DEF Seen, Described

(* Names an Interface may have.                                             *)
Names == {l.name : l \in Links} \cup {"noname"}
           \cup UNION {{a.label : a \in Range(l.addrs)} : l \in Links}

(* An Interface, field by field.                                            *)
LEMMA InterfaceFields ==
  ASSUME NEW f \in Interface
  PROVE  /\ f.name \in Names /\ f.IPs \in Seq(Nat)
         /\ \A nm \in Names, s \in Seq(Nat) : [f EXCEPT !.IPs = s, !.name = nm] \in Interface
         /\ \A nm \in Names, l \in Links : [f EXCEPT !.mac = l.mac, !.name = nm] \in Interface
         /\ \A n \in Nat : [f EXCEPT !.netmapIndex = n] \in Interface
<1>. DEFINE ixs == {k.index : k \in Links}
            macs == {k.mac : k \in Links} \cup {None}
<1>1. Interface = [netlinkIndex : ixs, name : Names, mac : macs, IPs : Seq(Nat),
                   netmapIndex : Nat \cup {None}]
  BY Zenon DEF Interface, Names
<1>2. \A l \in Links : l.mac \in macs
  BY Zenon
<1>. HIDE DEF ixs, macs, Names
<1>3. f.name \in Names /\ f.IPs \in Seq(Nat)
  BY <1>1
<1>4. \A nm \in Names, s \in Seq(Nat) : [f EXCEPT !.IPs = s, !.name = nm] \in Interface
  BY Zenon, <1>1
<1>5. \A nm \in Names, l \in Links : [f EXCEPT !.mac = l.mac, !.name = nm] \in Interface
  BY Zenon, <1>1, <1>2
<1>6. \A n \in Nat : [f EXCEPT !.netmapIndex = n] \in Interface
  BY <1>1
<1>. QED  BY Zenon, <1>3, <1>4, <1>5, <1>6

(* The Interface before the link's own message, new or not; what data_cb_ip *)
(* makes of it with one more address, and its label for a name; what        *)
(* data_cb_link makes of it.                                                *)
Unlinked(f, l, c) == IF c = 0 THEN f = New(l.index) ELSE Described(f, l, c, FALSE)

WithAddr(f, a) == [f EXCEPT !.IPs = Append(@, a.ip), !.name = a.label]

WithLink(f, l) == [f EXCEPT !.mac = l.mac, !.name = l.name]

GetsAddr(f, l, c, n, i) ==
  /\ l \in Links /\ c \in Nat /\ n \in 1 .. Len(l.addrs) /\ n = c + 1
  /\ f \in Interface /\ Unlinked(f, l, c) /\ f.netmapIndex = None
  /\ i = WithAddr(f, l.addrs[n])

GetsLink(f, l, c, i) ==
  /\ l \in Links /\ i = WithLink(f, l)
  /\ f \in Interface /\ Unlinked(f, l, c) /\ f.netmapIndex = None

(* The Interface a callback starts from.                                    *)
LEMMA FoundSeen ==
  ASSUME ifaces \in Seq(Interface), OneEach, NoNumbers, NEW l \in Links, NEW c,
         Seen(l, c, FALSE)
  PROVE  /\ Found(l.index) \in Interface
         /\ Found(l.index).netmapIndex = None /\ Unlinked(Found(l.index), l, c)
<1>1. CASE c = 0
  <2>1. Found(l.index) = New(l.index)
    BY Zenon, <1>1 DEF Seen, Found
  <2>2. New(l.index) \in Interface /\ New(l.index).netmapIndex = None
    BY DEF New, Interface
  <2>. QED  BY Zenon, <1>1, <2>1, <2>2 DEF Unlinked
<1>2. CASE c # 0
  <2>1. PICK j \in DOMAIN ifaces : Described(ifaces[j], l, c, FALSE)
    BY Zenon, <1>2 DEF Seen
  <2>2. ifaces[j].netlinkIndex = l.index
    BY Zenon, <2>1 DEF Described
  <2>3. Found(l.index) = ifaces[j]
    BY Zenon, <2>2, FoundFacts
  <2>4. ifaces[j] \in Interface
    BY Zenon, IfacesFacts
  <2>. QED  BY Zenon, <1>2, <2>1, <2>3, <2>4 DEF Unlinked, NoNumbers
<1>. QED  BY Zenon, <1>1, <1>2

(* An address message.                                                      *)
LEMMA AddrSeen ==
  ASSUME NEW f, NEW l, NEW c, NEW n, NEW i, GetsAddr(f, l, c, n, i)
  PROVE  /\ i \in Interface /\ i.netmapIndex = None
         /\ Described(i, l, n, FALSE) /\ i.netlinkIndex = l.index
<1>. USE DEF GetsAddr
<1>. DEFINE ip == l.addrs[n].ip
            label == l.addrs[n].label
<1>2. ip \in Nat /\ label \in Names
  BY Zenon, LinkFacts DEF Names, Labels
<1>3. f.netlinkIndex = l.index /\ f.mac = None /\ f.IPs = [k \in 1 .. c |-> l.addrs[k].ip]
  <2>1. CASE c = 0
    <3>1. f = New(l.index)
      BY Zenon, <2>1 DEF Unlinked
    <3>2. f.netlinkIndex = l.index /\ f.mac = None /\ f.IPs = <<>>
      BY <3>1 DEF New
    <3>3. [k \in 1 .. c |-> l.addrs[k].ip] = <<>>
      BY <2>1
    <3>. QED  BY Zenon, <3>2, <3>3
  <2>2. CASE c # 0
    BY Zenon, <2>2 DEF Unlinked, Described
  <2>. QED  BY Zenon, <2>1, <2>2
<1>4. Append(f.IPs, ip) = [k \in 1 .. n |-> l.addrs[k].ip]
  <2>1. f.IPs \in Seq(Nat)
    BY Zenon, InterfaceFields
  <2>2. Len(f.IPs) = c
    BY <1>3, <2>1
  <2>. QED  BY <1>3, <2>1, <2>2
<1>. HIDE DEF ip, label
<1>5. /\ i.netlinkIndex = f.netlinkIndex /\ i.mac = f.mac /\ i.netmapIndex = f.netmapIndex
      /\ i.IPs = Append(f.IPs, ip) /\ i.name = label
  BY DEF Interface, WithAddr, ip, label
<1>6. i \in Interface
  <2>. DEFINE s == Append(f.IPs, ip)
  <2>1. i = [f EXCEPT !.IPs = s, !.name = label]
    BY DEF Interface, WithAddr, ip, label
  <2>2. f.IPs \in Seq(Nat)
    BY Zenon, InterfaceFields
  <2>3. s \in Seq(Nat)
    BY <1>2, <2>2
  <2>4. \A nm \in Names, q \in Seq(Nat) : [f EXCEPT !.IPs = q, !.name = nm] \in Interface
    BY Zenon, InterfaceFields
  <2>. HIDE DEF s
  <2>5. [f EXCEPT !.IPs = s, !.name = label] \in Interface
    BY Zenon, <1>2, <2>3, <2>4
  <2>. QED  BY Zenon, <2>1, <2>5
<1>. QED  BY Zenon, <1>3, <1>4, <1>5, <1>6 DEF Described, label
(* A link message.                                                          *)
LEMMA LinkSeen ==
  ASSUME NEW f, NEW l, NEW c, NEW i, GetsLink(f, l, c, i)
  PROVE  /\ i \in Interface /\ i.netmapIndex = None
         /\ Described(i, l, c, TRUE) /\ i.netlinkIndex = l.index
<1>. USE DEF GetsLink
<1>1. f.netlinkIndex = l.index /\ f.IPs = [n \in 1 .. c |-> l.addrs[n].ip]
  <2>1. CASE c = 0
    <3>1. f = New(l.index)
      BY Zenon, <2>1 DEF Unlinked
    <3>2. f.netlinkIndex = l.index /\ f.IPs = <<>>
      BY <3>1 DEF New
    <3>3. [n \in 1 .. c |-> l.addrs[n].ip] = <<>>
      BY <2>1
    <3>. QED  BY Zenon, <3>2, <3>3
  <2>2. CASE c # 0
    BY Zenon, <2>2 DEF Unlinked, Described
  <2>. QED  BY Zenon, <2>1, <2>2
<1>2. /\ i.netlinkIndex = f.netlinkIndex /\ i.IPs = f.IPs /\ i.netmapIndex = f.netmapIndex
      /\ i.mac = l.mac /\ i.name = l.name
  BY DEF Interface, WithLink
<1>3. l.name \in Names
  BY Zenon DEF Names
<1>4. i \in Interface
  BY Zenon, <1>3, InterfaceFields DEF WithLink
<1>. QED  BY Zenon, <1>1, <1>2, <1>4 DEF Described

-----------------------------------------------------------------------------
(* The two dumps.                                                           *)

(* An address message.                                                      *)
LEMMA AddrStep ==
  ASSUME ifaces \in Seq(Interface), dumped.addr \subseteq Links, AddrDump, OneEach, NoNumbers,
         data_cb_ip
  PROVE  ifaces' \in Seq(Interface) /\ AddrDump' /\ OneEach' /\ NoNumbers'
<1>1. PICK m \in todo :
        /\ \A o \in todo : o[1] = m[1] => m[2] <= o[2]
        /\ todo' = todo \ {m}
        /\ ifaces' = Updated([Found(m[1].index) EXCEPT !.IPs = Append(@, m[1].addrs[m[2]].ip),
                                                       !.name = m[1].addrs[m[2]].label])
  BY Zenon DEF data_cb_ip
<1>2. PICK l \in dumped.addr : m \in {l} \X (1 .. Len(l.addrs))
  BY Zenon DEF AddrDump
<1>3a. PICK n \in 1 .. Len(l.addrs) : m = <<l, n>> /\ m[1] = l /\ m[2] = n
  BY <1>2
<1>3. l \in Links /\ Len(l.addrs) \in Nat
  BY Zenon, <1>2, LinkFacts
<1>4. PICK c \in 0 .. Len(l.addrs) : Seen(l, c, FALSE) /\ Counted(l, c)
  BY Zenon, <1>3 DEF AddrDump
<1>5. \A x \in 1 .. Len(l.addrs) : <<l, x>> \in todo <=> x > c
  BY Zenon, <1>2, <1>4 DEF Counted
<1>6. n = c + 1
  <2>1. n > c
    BY Zenon, <1>3a, <1>5
  <2>2. c + 1 \in 1 .. Len(l.addrs) /\ c + 1 > c
    BY <1>3a, <1>3, <2>1
  <2>3. <<l, c + 1>> \in todo
    BY Zenon, <1>5, <2>2
  <2>4. n <= c + 1
    BY <1>1, <1>3a, <2>3
  <2>. QED  BY <1>3a, <1>3, <2>1, <2>4
<1>7. ifaces' = Updated(WithAddr(Found(l.index), l.addrs[n]))
  BY Zenon, <1>1, <1>3a DEF WithAddr
<1>8. PICK f : /\ f = Found(l.index)
               /\ f \in Interface /\ f.netmapIndex = None /\ Unlinked(f, l, c)
  BY Zenon, <1>3, <1>4, FoundSeen
<1>9. c \in Nat
  BY <1>3, <1>4
<1>9a. PICK i : i = WithAddr(f, l.addrs[n])
  BY Zenon
<1>9b. GetsAddr(f, l, c, n, i)
  BY Zenon, <1>3, <1>6, <1>8, <1>9, <1>9a DEF GetsAddr
<1>10. /\ i \in Interface /\ i.netmapIndex = None
       /\ Described(i, l, n, FALSE) /\ i.netlinkIndex = l.index
  BY Zenon, <1>9b, AddrSeen
<1>11. ifaces' \in Seq(Interface) /\ OneEach' /\ \E j : Puts(j, i)
  BY Zenon, <1>7, <1>8, <1>9a, <1>10, UpdatedFacts
<1>12. PICK j : Puts(j, i)
  BY Zenon, <1>11
<1>13. NoNumbers'
  BY Zenon, <1>10, <1>12 DEF NoNumbers, Puts
<1>14. ASSUME NEW k \in Links
       PROVE  \E x \in 0 .. Len(k.addrs) : Seen(k, x, FALSE)' /\ Counted(k, x)'
  <2>1. CASE k = l
    <3>1. n \in 0 .. Len(l.addrs) /\ n # 0
      BY <1>3a, <1>3
    <3>2. Seen(l, n, FALSE)'
      BY Zenon, <1>10, <1>12, <3>1, SeenThis DEF Puts
    <3>3. ASSUME NEW x \in 1 .. Len(l.addrs) PROVE <<l, x>> \in todo' <=> x > n
      <4>1. <<l, x>> \in todo' <=> x > c /\ <<l, x>> # <<l, n>>
        BY Zenon, <1>1, <1>3a, <1>5
      <4>2. <<l, x>> # <<l, n>> <=> x # n
        OBVIOUS
      <4>3. x > c /\ x # n <=> x > n
        BY <1>3, <1>6, <1>9
      <4>. QED  BY Zenon, <4>1, <4>2, <4>3
    <3>4. Counted(l, n)'
      BY Zenon, <1>2, <3>3 DEF Counted, data_cb_ip
    <3>. QED  BY Zenon, <2>1, <3>1, <3>2, <3>4
  <2>2. CASE k # l
    <3>1. PICK x \in 0 .. Len(k.addrs) : Seen(k, x, FALSE) /\ Counted(k, x)
      BY Zenon DEF AddrDump
    <3>2. Seen(k, x, FALSE)'
      BY Zenon, <1>3, <1>10, <1>11, <1>12, <2>2, <3>1, SeenOther
    <3>3. \A y : <<k, y>> \in todo' <=> <<k, y>> \in todo
      <4>1. \A y : <<k, y>> # <<l, n>>
        BY <2>2
      <4>. QED  BY Zenon, <1>1, <1>3a, <4>1
    <3>4. Counted(k, x)'
      BY Zenon, <3>1, <3>3 DEF Counted, data_cb_ip
    <3>. QED  BY Zenon, <3>1, <3>2, <3>4
  <2>. QED  BY Zenon, <2>1, <2>2
<1>15. AddrDump'
  <2>1. dumped' = dumped
    BY Zenon DEF data_cb_ip
  <2>. QED  BY Zenon, <1>1, <1>14, <2>1 DEF AddrDump
<1>. QED  BY Zenon, <1>11, <1>13, <1>15
(* A link message.                                                          *)
LEMMA LinkStep ==
  ASSUME ifaces \in Seq(Interface), dumped.link \subseteq Links, LinkDump, OneEach, NoNumbers,
         data_cb_link
  PROVE  ifaces' \in Seq(Interface) /\ LinkDump' /\ OneEach' /\ NoNumbers'
<1>1. PICK m \in todo :
        /\ todo' = todo \ {m}
        /\ ifaces' = Updated([Found(m[1].index) EXCEPT !.mac = m[1].mac, !.name = m[1].name])
  BY Zenon DEF data_cb_link
<1>2. PICK l \in dumped.link : m = <<l, 1>> /\ m[1] = l
  BY DEF LinkDump
<1>. PICK c : c = NumAddrs(l)
  BY Zenon
<1>3. l \in Links
  BY Zenon, <1>2
<1>4. ifaces' = Updated(WithLink(Found(l.index), l))
  BY Zenon, <1>1, <1>2 DEF WithLink
<1>5. Seen(l, c, FALSE)
  <2>1. <<l, 1>> \in todo
    BY Zenon, <1>2
  <2>. QED  BY Zenon, <1>3, <2>1 DEF LinkDump, Seen, Described
<1>6. PICK f : /\ f = Found(l.index)
               /\ f \in Interface /\ f.netmapIndex = None /\ Unlinked(f, l, c)
  BY Zenon, <1>3, <1>5, FoundSeen
<1>7. PICK i : i = WithLink(f, l)
  BY Zenon
<1>8. /\ i \in Interface /\ i.netmapIndex = None
      /\ Described(i, l, c, TRUE) /\ i.netlinkIndex = l.index
  <2>1. GetsLink(f, l, c, i)
    BY Zenon, <1>3, <1>6, <1>7 DEF GetsLink
  <2>. QED  BY Zenon, <2>1, LinkSeen
<1>9. ifaces' \in Seq(Interface) /\ OneEach' /\ \E j : Puts(j, i)
  BY Zenon, <1>4, <1>6, <1>7, <1>8, UpdatedFacts
<1>10. PICK j : Puts(j, i)
  BY Zenon, <1>9
<1>11. NoNumbers'
  BY Zenon, <1>8, <1>10 DEF NoNumbers, Puts
<1>12. dumped' = dumped
  BY Zenon DEF data_cb_link
<1>13. ASSUME NEW k \in Links
       PROVE  Seen(k, NumAddrs(k), k \in dumped.link /\ <<k, 1>> \notin todo)'
  <2>1. CASE k = l
    <3>1. Seen(l, c, TRUE)'
      BY Zenon, <1>8, <1>10, SeenThis DEF Puts
    <3>2. l \in dumped'.link /\ <<l, 1>> \notin todo'
      BY Zenon, <1>1, <1>2, <1>12
    <3>3. c = NumAddrs(l)'
      BY Zenon, <1>12 DEF NumAddrs
    <3>. QED  BY Zenon, <2>1, <3>1, <3>2, <3>3 DEF Seen, Described
  <2>2. CASE k # l
    <3>. DEFINE x == NumAddrs(k)
                b == k \in dumped.link /\ <<k, 1>> \notin todo
    <3>1. Seen(k, x, b)
      BY Zenon DEF LinkDump
    <3>2. x = NumAddrs(k)'
      BY Zenon, <1>12 DEF NumAddrs
    <3>3. b <=> k \in dumped'.link /\ <<k, 1>> \notin todo'
      <4>1. <<k, 1>> # <<l, 1>>
        BY <2>2
      <4>. QED  BY Zenon, <1>1, <1>2, <1>12, <4>1
    <3>. QED  BY Zenon, <1>3, <1>8, <1>9, <1>10, <2>2, <3>1, <3>2, <3>3, SeenOther
  <2>. QED  BY Zenon, <2>1, <2>2
<1>14. LinkDump'
  BY Zenon, <1>1, <1>12, <1>13 DEF LinkDump
<1>. QED  BY Zenon, <1>9, <1>11, <1>14

(* All addresses are in: the link dump starts from what they made.          *)
LEMMA LinksRequested ==
  ASSUME dumped \in [addr : SUBSET Links, link : SUBSET Links], links \subseteq Links,
         AddrDump, RequestLinks
  PROVE  LinkDump'
<1>1. /\ ifaces' = ifaces /\ dumped' = [dumped EXCEPT !.link = links]
      /\ todo = {} /\ todo' = links \X {1}
  BY Zenon DEF RequestLinks
<1>2. dumped'.addr = dumped.addr /\ dumped'.link = links
  BY <1>1
<1>3. ASSUME NEW l \in Links
      PROVE  Seen(l, NumAddrs(l), l \in dumped.link /\ <<l, 1>> \notin todo)'
  <2>1. PICK c \in 0 .. Len(l.addrs) : Seen(l, c, FALSE) /\ Counted(l, c)
    BY Zenon DEF AddrDump
  <2>2. c = NumAddrs(l)
    <3>1. CASE l \in dumped.addr
      <4>1. \A n \in 1 .. Len(l.addrs) : ~ (n > c)
        BY Zenon, <1>1, <2>1, <3>1 DEF Counted
      <4>2. c = Len(l.addrs)
        BY <4>1, LinkFacts
      <4>. QED  BY Zenon, <3>1, <4>2 DEF NumAddrs
    <3>2. CASE l \notin dumped.addr
      BY Zenon, <2>1, <3>2 DEF Counted, NumAddrs
    <3>. QED  BY Zenon, <3>1, <3>2
  <2>3. NumAddrs(l)' = NumAddrs(l)
    BY Zenon, <1>2 DEF NumAddrs
  <2>4. ~ (l \in dumped'.link /\ <<l, 1>> \notin todo')
    BY <1>1, <1>2
  <2>5. Seen(l, c, FALSE)'
    BY Zenon, <1>1, <2>1 DEF Seen, Described, Known
  <2>. QED  BY Zenon, <2>2, <2>3, <2>4, <2>5 DEF Seen, Described
<1>. QED  BY Zenon, <1>1, <1>2, <1>3 DEF LinkDump
(* fillNetLink: the same Interfaces in another order.                       *)
LEMMA SortStep ==
  ASSUME ifaces \in Seq(Interface), Dumped, OneEach, NoNumbers, fillNetLink
  PROVE  ifaces' \in Seq(Interface) /\ Dumped' /\ OneEach' /\ NoNumbers'
<1>. DEFINE D == 1 .. Len(ifaces)
<1>1. PICK p \in Bijection(D, D) : ifaces' = [k \in D |-> ifaces[p[k]]]
  BY Zenon DEF fillNetLink
<1>2. DOMAIN ifaces = D /\ Len(ifaces) \in Nat /\ \A j \in D : ifaces[j] \in Interface
  BY Zenon, IfacesFacts
<1>3. /\ p \in [D -> D] /\ \A j, k \in D : p[j] = p[k] => j = k
      /\ \A j \in D : \E k \in D : p[k] = j
  BY Zenon, <1>1 DEF Bijection, Injection, Surjection, IsInjective
<1>4. DOMAIN ifaces' = D /\ \A k \in D : ifaces'[k] = ifaces[p[k]] /\ p[k] \in D
  BY Zenon, <1>1, <1>3
<1>5. ifaces' \in Seq(Interface)
  <2>1. ifaces' \in [D -> Interface]
    BY Zenon, <1>1, <1>2, <1>3
  <2>. QED  BY <1>2, <2>1
<1>. HIDE DEF D
<1>6. ASSUME NEW j \in D, NEW k \in D, ifaces'[j].netlinkIndex = ifaces'[k].netlinkIndex
      PROVE  j = k
  <2>1. ifaces[p[j]].netlinkIndex = ifaces[p[k]].netlinkIndex /\ p[j] \in D /\ p[k] \in D
    BY Zenon, <1>4, <1>6
  <2>2. p[j] = p[k]
    BY Zenon, <1>2, <2>1 DEF OneEach
  <2>. QED  BY Zenon, <1>3, <2>2
<1>7. ASSUME NEW j \in D PROVE ifaces'[j].netmapIndex = None
  <2>1. ifaces[p[j]].netmapIndex = None
    BY Zenon, <1>2, <1>4 DEF NoNumbers
  <2>. QED  BY Zenon, <1>4, <2>1
<1>8. ASSUME NEW l \in Links, NEW c, NEW linked, Seen(l, c, linked)
      PROVE  Seen(l, c, linked)'
  <2>1. /\ Known(l.index) = {k \in D : ifaces[k].netlinkIndex = l.index}
        /\ Known(l.index)' = {k \in D : ifaces'[k].netlinkIndex = l.index}
    BY Zenon, <1>2, <1>4, <1>5, SeqFacts DEF Known
  <2>2. CASE c = 0 /\ ~ linked
    <3>1. \A k \in D : ifaces[k].netlinkIndex # l.index
      BY Zenon, <1>8, <2>1, <2>2 DEF Seen
    <3>2. \A k \in D : ifaces'[k].netlinkIndex # l.index
      BY Zenon, <1>4, <3>1
    <3>. QED  BY Zenon, <2>1, <2>2, <3>2 DEF Seen
  <2>3. CASE ~ (c = 0 /\ ~ linked)
    <3>1. PICK j \in D : Described(ifaces[j], l, c, linked)
      BY Zenon, <1>2, <1>8, <2>3 DEF Seen
    <3>2. PICK k \in D : p[k] = j
      BY Zenon, <1>3
    <3>3. PICK i : i = ifaces[j]
      BY Zenon
    <3>4. k \in DOMAIN ifaces' /\ ifaces'[k] = i
      BY Zenon, <1>4, <3>2, <3>3
    <3>5. Described(i, l, c, linked)
      BY Zenon, <3>1, <3>3
    <3>. QED  BY Zenon, <2>3, <3>4, <3>5, SeenThis
  <2>. QED  BY Zenon, <2>2, <2>3
<1>9. dumped' = dumped
  BY Zenon DEF fillNetLink
<1>10. ASSUME NEW l \in Links PROVE Seen(l, NumAddrs(l), l \in dumped.link)'
  <2>1. PICK c : c = NumAddrs(l) /\ c = NumAddrs(l)'
    BY Zenon, <1>9 DEF NumAddrs
  <2>2. Seen(l, c, l \in dumped.link)
    BY Zenon, <2>1 DEF Dumped
  <2>3. CASE l \in dumped.link
    <3>1. Seen(l, c, TRUE)
      BY Zenon, <2>2, <2>3 DEF Seen, Described
    <3>2. Seen(l, c, TRUE)'
      BY Zenon, <1>8, <3>1
    <3>. QED  BY Zenon, <1>9, <2>1, <2>3, <3>2 DEF Seen, Described
  <2>4. CASE l \notin dumped.link
    <3>1. Seen(l, c, FALSE)
      BY Zenon, <2>2, <2>4 DEF Seen, Described
    <3>2. Seen(l, c, FALSE)'
      BY Zenon, <1>8, <3>1
    <3>. QED  BY Zenon, <1>9, <2>1, <2>4, <3>2 DEF Seen, Described
  <2>. QED  BY Zenon, <2>3, <2>4
<1>11. OneEach' /\ NoNumbers'
  BY Zenon, <1>4, <1>6, <1>7 DEF OneEach, NoNumbers
<1>. QED  BY Zenon, <1>5, <1>10, <1>11 DEF Dumped

(* Every link of the link dump has an Interface.                            *)
LEMMA DumpedKnown ==
  ASSUME ifaces \in Seq(Interface), Dumped, NEW l \in Links
  PROVE  Known(l.index) # {} <=> l \in dumped.link \/ (l \in dumped.addr /\ l.addrs # <<>>)
<1>1. Known(l.index) = {k \in DOMAIN ifaces : ifaces[k].netlinkIndex = l.index}
  BY Zenon, IfacesFacts
<1>2. Seen(l, NumAddrs(l), l \in dumped.link)
  BY Zenon DEF Dumped
<1>3. CASE NumAddrs(l) = 0 /\ l \notin dumped.link
  <2>1. Known(l.index) = {}
    BY Zenon, <1>2, <1>3 DEF Seen
  <2>2. l \in dumped.addr => Len(l.addrs) = 0
    BY Zenon, <1>3 DEF NumAddrs
  <2>3. Len(l.addrs) = 0 => l.addrs = <<>>
    BY LinkFacts
  <2>. QED  BY Zenon, <1>3, <2>1, <2>2, <2>3
<1>4. CASE ~ (NumAddrs(l) = 0 /\ l \notin dumped.link)
  <2>1. PICK j \in DOMAIN ifaces : Described(ifaces[j], l, NumAddrs(l), l \in dumped.link)
    BY Zenon, <1>2, <1>4 DEF Seen
  <2>2. Known(l.index) # {}
    BY Zenon, <1>1, <2>1 DEF Described
  <2>3. l \notin dumped.link => l \in dumped.addr /\ Len(l.addrs) # 0
    BY Zenon, <1>4 DEF NumAddrs
  <2>4. Len(l.addrs) # 0 => l.addrs # <<>>
    BY LinkFacts
  <2>. QED  BY Zenon, <2>2, <2>3, <2>4
<1>. QED  BY Zenon, <1>3, <1>4
-----------------------------------------------------------------------------
(* The steps before initNetmap.                                             *)

(* The interfaces of the command line.                                      *)
LEMMA ToUseFacts ==
  ASSUME TypeOK
  PROVE  Len(interfacesToUse) \in Nat /\ Len(interfacesToUse) <= Len(argv)
<1>1. argv \in Seq(STRING) /\ pos \in 1 .. Len(argv) + 1
  BY Zenon, StartUpAssumption DEF TypeOK
<1>. QED  BY <1>1 DEF interfacesToUse

(* Nothing is attached at first.                                            *)
LEMMA NothingAttached ==
  TypeOK /\ nifp = None /\ rings = <<>> /\ refused = {} /\ freeBufs = <<>> /\ NoNumbers
    => Attached
<1>. SUFFICES ASSUME TypeOK, nifp = None, rings = <<>>, refused = {}, freeBufs = <<>>, NoNumbers
              PROVE  Attached
  OBVIOUS
<1>1. Len(rings) <= Len(interfacesToUse)
  BY ToUseFacts
<1>2. DOMAIN rings = {} /\ DOMAIN freeBufs = {}
  OBVIOUS
<1>. QED  BY Zenon, <1>1, <1>2 DEF Attached, RingsNamed, BuffersOfRings, Numbered, NoNumbers,
                                   IsInjective

(* A step that leaves the interfaces and netmap alone.                      *)
LEMMA AttachedKept ==
  ASSUME Attached, UNCHANGED <<argv, pos, nifp, rings, refused, freeBufs, ifaces>>
  PROVE  Attached'
<1>1. /\ argv' = argv /\ pos' = pos /\ nifp' = nifp /\ rings' = rings /\ refused' = refused
      /\ freeBufs' = freeBufs /\ ifaces' = ifaces
  BY Zenon
<1>2. interfacesToUse' = interfacesToUse
  BY Zenon, <1>1 DEF interfacesToUse
<1>3. RingsNamed'
  BY Zenon, <1>1, <1>2 DEF RingsNamed, Attached
<1>4. BuffersOfRings'
  BY Zenon, <1>1 DEF BuffersOfRings, IsInjective, Attached
<1>5. \A j \in DOMAIN ifaces : HasNumber(j) => HasNumber(j)'
  BY Zenon, <1>1, <1>2 DEF HasNumber
<1>6. Numbered'
  BY Zenon, <1>1, <1>2, <1>5 DEF Numbered, Attached
<1>. QED  BY Zenon, <1>3, <1>4, <1>6 DEF Attached

(* The dumps are as they were.                                              *)
LEMMA DumpKept ==
  ASSUME Dumping, UNCHANGED <<todo, dumped, ifaces>>, pc' \in {pc, "netmap", "ready", "end"}
  PROVE  Dumping'
<1>1. todo' = todo /\ dumped' = dumped /\ ifaces' = ifaces
  BY Zenon
<1>2. OneEach => OneEach'
  BY Zenon, <1>1 DEF OneEach
<1>3. AddrDump => AddrDump'
  <2>1. ASSUME NEW l \in Links, NEW c, Seen(l, c, FALSE) PROVE Seen(l, c, FALSE)'
    BY <1>1, <2>1 DEF Seen, Described, Known
  <2>2. ASSUME NEW l \in Links, NEW c, Counted(l, c) PROVE Counted(l, c)'
    BY Zenon, <1>1, <2>2 DEF Counted
  <2>. QED  BY Zenon, <1>1, <2>1, <2>2 DEF AddrDump
<1>4. LinkDump => LinkDump'
  BY <1>1 DEF LinkDump, Seen, NumAddrs, Described, Known
<1>5. Dumped => Dumped'
  BY <1>1 DEF Dumped, Seen, NumAddrs, Described, Known
<1>6. CASE pc' = pc
  BY Zenon, <1>1, <1>2, <1>3, <1>4, <1>5, <1>6 DEF Dumping
<1>7. CASE pc' \in {"netmap", "ready", "end"}
  BY Zenon, <1>7 DEF Dumping
<1>. QED  BY Zenon, <1>6, <1>7

(* A link comes or goes.                                                    *)
LEMMA KernelStep ==
  ASSUME IInv, KernelChange
  PROVE  IInv'
<1>1. /\ pc' = pc /\ end' = end /\ UNCHANGED <<argv, pos, numWorkers>> /\ pc # "end"
      /\ UNCHANGED <<todo, dumped, ifaces>> /\ UNCHANGED <<nifp, rings, refused, freeBufs>>
  BY Zenon DEF KernelChange, options, netmap
<1>2. links' \subseteq Links /\ changes' \in 0 .. MaxChanges
  <2>1. links' \subseteq Links
    BY Zenon DEF KernelChange, IInv, TypeOK
  <2>2. changes \in 0 .. MaxChanges /\ changes < MaxChanges /\ changes' = changes + 1
    BY Zenon DEF KernelChange, IInv, TypeOK
  <2>3. changes' \in 0 .. MaxChanges
    BY <2>2, StartUpAssumption
  <2>. QED  BY Zenon, <2>1, <2>3
<1>3. TypeOK'
  BY Zenon, <1>1, <1>2 DEF IInv, TypeOK
<1>4. Dumping' /\ Attached'
  BY Zenon, <1>1, DumpKept, AttachedKept DEF IInv
<1>5. Unnumbered' /\ Ended' /\ CrashOnlyFor'
  BY Zenon, <1>1 DEF IInv, Unnumbered, NoNumbers, Ended, CrashOnlyFor, interfacesToUse
<1>. QED  BY Zenon, <1>3, <1>4, <1>5 DEF IInv

(* The program ends; with a null pointer only in the ways of CrashOnlyFor.  *)
LEMMA EndStep ==
  ASSUME IInv, NEW how \in {"usage", "unknown option", "crash", "fatal", "abort"}, End(how),
         how = "crash" => links \ dumped.link # {} \/ (ifaces = <<>> /\ Len(argv) <= pos)
  PROVE  IInv'
<1>1. /\ pc' = "end" /\ end' = how /\ UNCHANGED <<argv, pos, numWorkers>>
      /\ UNCHANGED <<links, changes>>
      /\ UNCHANGED <<todo, dumped, ifaces>> /\ UNCHANGED <<nifp, rings, refused, freeBufs>>
  BY Zenon DEF End, options, kernel, netmap
<1>2. TypeOK'
  BY Zenon, <1>1 DEF IInv, TypeOK
<1>3. Dumping' /\ Attached'
  BY Zenon, <1>1, DumpKept, AttachedKept DEF IInv
<1>4. Unnumbered' /\ Ended'
  BY Zenon, <1>1 DEF Unnumbered, Ended
<1>5. CrashOnlyFor'
  BY Zenon, <1>1 DEF CrashOnlyFor
<1>. QED  BY Zenon, <1>2, <1>3, <1>4, <1>5 DEF IInv
(* A step that stays before initNetmap.                                     *)
LEMMA EarlyStep ==
  ASSUME IInv, pc \in {"options", "addr", "link", "sort", "routes"},
         pc' \in {"options", "addr", "link", "sort", "routes"}, end' = end,
         UNCHANGED <<nifp, rings, refused, freeBufs>>, TypeOK', Dumping', NoNumbers'
  PROVE  IInv'
<1>1. nifp' = None /\ rings' = <<>> /\ refused' = {} /\ freeBufs' = <<>>
  BY Zenon DEF IInv, Unnumbered
<1>2. Unnumbered'
  BY Zenon, <1>1 DEF Unnumbered
<1>3. Attached'
  <2>1. /\ TypeOK' /\ (nifp = None)' /\ (rings = <<>>)' /\ (refused = {})'
        /\ (freeBufs = <<>>)' /\ NoNumbers'
    BY Zenon, <1>1
  <2>. QED  BY <2>1, NothingAttached, PTL
<1>4. end' = ""
  BY Zenon DEF IInv, Ended
<1>5. Ended' /\ CrashOnlyFor'
  BY Zenon, <1>4 DEF Ended, CrashOnlyFor
<1>. QED  BY Zenon, <1>2, <1>3, <1>5 DEF IInv

(* -t and its number.                                                       *)
LEMMA OptionStep ==
  ASSUME IInv, OptionT
  PROVE  IInv'
<1>1. /\ pc = "options" /\ pc' = pc /\ end' = end /\ argv' = argv /\ pos < Len(argv)
      /\ argv[pos] = "-t" /\ numWorkers' = atoi[argv[pos + 1]] /\ pos' = pos + 2
      /\ UNCHANGED <<links, changes>> /\ UNCHANGED <<todo, dumped, ifaces>>
      /\ UNCHANGED <<nifp, rings, refused, freeBufs>>
  BY Zenon DEF OptionT, kernel, netmap
<1>2. argv \in Argvs /\ argv \in Seq(STRING) /\ pos \in 1 .. Len(argv) + 1
  BY Zenon, StartUpAssumption DEF IInv, TypeOK
<1>3. pos' \in 1 .. Len(argv) + 1 /\ pos + 1 \in 2 .. Len(argv) /\ (pos + 1) - 1 = pos
  BY <1>1, <1>2
<1>4. numWorkers' \in Nat
  BY Zenon, <1>1, <1>2, <1>3, StartUpAssumption
<1>5. refused' = {} /\ refused' \subseteq 1 .. Len(argv')
  BY Zenon, <1>1 DEF IInv, Unnumbered
<1>6. TypeOK'
  BY Zenon, <1>1, <1>2, <1>3, <1>4, <1>5 DEF IInv, TypeOK
<1>7. Dumping'
  BY Zenon, <1>1, DumpKept DEF IInv
<1>8. NoNumbers'
  BY Zenon, <1>1 DEF IInv, Unnumbered, NoNumbers
<1>. QED  BY Zenon, <1>1, <1>6, <1>7, <1>8, EarlyStep

(* The request for the addresses: nothing is known of any link.             *)
LEMMA AddrsRequested ==
  ASSUME IInv, RequestAddrs
  PROVE  IInv'
<1>1. /\ pc = "options" /\ pc' = "addr" /\ end' = end /\ ifaces' = ifaces
      /\ UNCHANGED <<argv, pos, numWorkers>> /\ UNCHANGED <<links, changes>>
      /\ UNCHANGED <<nifp, rings, refused, freeBufs>>
      /\ todo' = UNION {{l} \X (1 .. Len(l.addrs)) : l \in links}
      /\ dumped' = [dumped EXCEPT !.addr = links]
  BY Zenon DEF RequestAddrs, options, kernel, netmap
<1>2. links \subseteq Links /\ ifaces = <<>> /\ dumped = [addr |-> {}, link |-> {}]
  BY Zenon, <1>1 DEF IInv, TypeOK, Dumping
<1>3. dumped' = [addr |-> links, link |-> {}]
  BY Zenon, <1>1, <1>2
<1>4. dumped'.addr = links /\ dumped'.link = {}
      /\ dumped' \in [addr : SUBSET Links, link : SUBSET Links]
  BY <1>2, <1>3
<1>5. \A l \in Links : 1 .. Len(l.addrs) \subseteq Nat
  BY LinkFacts
<1>6. todo' \subseteq Links \X Nat
  <2>1. ASSUME NEW m \in todo' PROVE m \in Links \X Nat
    <3>1. PICK l \in Links : m \in {l} \X (1 .. Len(l.addrs))
      BY Zenon, <1>1, <1>2
    <3>2. 1 .. Len(l.addrs) \subseteq Nat
      BY Zenon, <1>5
    <3>. QED  BY <3>1, <3>2
  <2>. QED  BY Zenon, <2>1
<1>7. TypeOK'
  BY Zenon, <1>1, <1>4, <1>6 DEF IInv, TypeOK
<1>8. DOMAIN ifaces' = {} /\ Len(ifaces') = 0
  BY <1>1, <1>2
<1>9. OneEach' /\ NoNumbers'
  BY Zenon, <1>8 DEF OneEach, NoNumbers
<1>10. ASSUME NEW l \in Links
       PROVE  \E c \in 0 .. Len(l.addrs) : Seen(l, c, FALSE)' /\ Counted(l, c)'
  <2>1. 0 \in 0 .. Len(l.addrs)
    BY LinkFacts
  <2>2. 1 .. 0 = {}
    OBVIOUS
  <2>3. Seen(l, 0, FALSE)'
    BY Zenon, <1>8, <2>2 DEF Seen, Known
  <2>4. ASSUME NEW n \in 1 .. Len(l.addrs), l \in links PROVE <<l, n>> \in todo' /\ n > 0
    <3>1. <<l, n>> \in {l} \X (1 .. Len(l.addrs))
      OBVIOUS
    <3>2. <<l, n>> \in todo'
      BY Zenon, <1>1, <2>4, <3>1
    <3>3. n > 0
      BY LinkFacts
    <3>. QED  BY Zenon, <3>2, <3>3
  <2>5. Counted(l, 0)'
    BY Zenon, <1>4, <2>4 DEF Counted
  <2>. QED  BY Zenon, <2>1, <2>3, <2>5
<1>11. AddrDump'
  BY Zenon, <1>1, <1>4, <1>10 DEF AddrDump
<1>12. Dumping'
  BY Zenon, <1>1, <1>9, <1>11 DEF Dumping
<1>. QED  BY Zenon, <1>1, <1>7, <1>9, <1>12, EarlyStep
(* An address message, on the whole state.                                  *)
LEMMA AddrMessage ==
  ASSUME IInv, data_cb_ip
  PROVE  IInv'
<1>1. /\ pc = "addr" /\ pc' = pc /\ end' = end /\ dumped' = dumped
      /\ UNCHANGED <<argv, pos, numWorkers>> /\ UNCHANGED <<links, changes>>
      /\ UNCHANGED <<nifp, rings, refused, freeBufs>> /\ todo' \subseteq todo
  BY Zenon DEF data_cb_ip, options, kernel, netmap
<1>2. ifaces \in Seq(Interface) /\ AddrDump /\ OneEach /\ NoNumbers
  BY Zenon, <1>1 DEF IInv, TypeOK, Dumping, Unnumbered
<1>3. dumped.addr \subseteq Links
  <2>1. dumped \in [addr : SUBSET Links, link : SUBSET Links]
    BY Zenon DEF IInv, TypeOK
  <2>. QED  BY <2>1
<1>4. ifaces' \in Seq(Interface) /\ AddrDump' /\ OneEach' /\ NoNumbers'
  BY Zenon, <1>2, <1>3, AddrStep
<1>5. TypeOK'
  BY Zenon, <1>1, <1>4 DEF IInv, TypeOK
<1>6. Dumping'
  BY Zenon, <1>1, <1>4 DEF Dumping
<1>. QED  BY Zenon, <1>1, <1>4, <1>5, <1>6, EarlyStep

(* The request for the links.                                               *)
LEMMA LinksRequest ==
  ASSUME IInv, RequestLinks
  PROVE  IInv'
<1>1. /\ pc = "addr" /\ pc' = "link" /\ end' = end /\ ifaces' = ifaces
      /\ dumped' = [dumped EXCEPT !.link = links] /\ todo' = links \X {1}
      /\ UNCHANGED <<argv, pos, numWorkers>> /\ UNCHANGED <<links, changes>>
      /\ UNCHANGED <<nifp, rings, refused, freeBufs>>
  BY Zenon DEF RequestLinks, options, kernel, netmap
<1>2. /\ dumped \in [addr : SUBSET Links, link : SUBSET Links] /\ links \subseteq Links
      /\ AddrDump /\ OneEach /\ NoNumbers
  BY Zenon, <1>1 DEF IInv, TypeOK, Dumping, Unnumbered
<1>3. LinkDump'
  BY Zenon, <1>2, LinksRequested
<1>4. OneEach' /\ NoNumbers'
  BY Zenon, <1>1, <1>2 DEF OneEach, NoNumbers
<1>5. dumped' \in [addr : SUBSET Links, link : SUBSET Links] /\ todo' \subseteq Links \X Nat
  BY <1>1, <1>2
<1>6. TypeOK'
  BY Zenon, <1>1, <1>5 DEF IInv, TypeOK
<1>7. Dumping'
  BY Zenon, <1>1, <1>3, <1>4 DEF Dumping
<1>. QED  BY Zenon, <1>1, <1>4, <1>6, <1>7, EarlyStep

(* A link message, on the whole state.                                      *)
LEMMA LinkMessage ==
  ASSUME IInv, data_cb_link
  PROVE  IInv'
<1>1. /\ pc = "link" /\ pc' = pc /\ end' = end /\ dumped' = dumped
      /\ UNCHANGED <<argv, pos, numWorkers>> /\ UNCHANGED <<links, changes>>
      /\ UNCHANGED <<nifp, rings, refused, freeBufs>> /\ todo' \subseteq todo
  BY Zenon DEF data_cb_link, options, kernel, netmap
<1>2. ifaces \in Seq(Interface) /\ LinkDump /\ OneEach /\ NoNumbers
  BY Zenon, <1>1 DEF IInv, TypeOK, Dumping, Unnumbered
<1>3. dumped.link \subseteq Links
  <2>1. dumped \in [addr : SUBSET Links, link : SUBSET Links]
    BY Zenon DEF IInv, TypeOK
  <2>. QED  BY <2>1
<1>4. ifaces' \in Seq(Interface) /\ LinkDump' /\ OneEach' /\ NoNumbers'
  BY Zenon, <1>2, <1>3, LinkStep
<1>5. TypeOK'
  BY Zenon, <1>1, <1>4 DEF IInv, TypeOK
<1>6. Dumping'
  BY Zenon, <1>1, <1>4 DEF Dumping
<1>. QED  BY Zenon, <1>1, <1>4, <1>5, <1>6, EarlyStep

(* The end of the link dump.                                                *)
LEMMA DumpsDone ==
  ASSUME IInv, LinksDone
  PROVE  IInv'
<1>1. /\ pc = "link" /\ pc' = "sort" /\ end' = end /\ todo = {}
      /\ UNCHANGED <<argv, pos, numWorkers>> /\ UNCHANGED <<links, changes>>
      /\ UNCHANGED <<todo, dumped, ifaces>> /\ UNCHANGED <<nifp, rings, refused, freeBufs>>
  BY Zenon DEF LinksDone, options, kernel, netmap
<1>2. LinkDump /\ OneEach /\ NoNumbers
  BY Zenon, <1>1 DEF IInv, Dumping, Unnumbered
<1>3. ASSUME NEW l \in Links PROVE Seen(l, NumAddrs(l), l \in dumped.link)'
  <2>1. Seen(l, NumAddrs(l), l \in dumped.link /\ <<l, 1>> \notin todo)
    BY Zenon, <1>2 DEF LinkDump
  <2>2. l \in dumped.link /\ <<l, 1>> \notin todo <=> l \in dumped.link
    BY Zenon, <1>1
  <2>3. Seen(l, NumAddrs(l), l \in dumped.link)
    BY Zenon, <2>1, <2>2 DEF Seen, Described
  <2>. QED  BY <1>1, <2>3 DEF Seen, NumAddrs, Described, Known
<1>4. OneEach' /\ NoNumbers'
  BY Zenon, <1>1, <1>2 DEF OneEach, NoNumbers
<1>5. TypeOK'
  BY Zenon, <1>1 DEF IInv, TypeOK
<1>6. Dumping'
  BY Zenon, <1>1, <1>3, <1>4 DEF Dumping, Dumped
<1>. QED  BY Zenon, <1>1, <1>4, <1>5, <1>6, EarlyStep

(* The Interfaces are sorted.                                               *)
LEMMA Sorting ==
  ASSUME IInv, fillNetLink
  PROVE  IInv'
<1>1. /\ pc = "sort" /\ pc' = "routes" /\ end' = end /\ UNCHANGED <<todo, dumped>>
      /\ UNCHANGED <<argv, pos, numWorkers>> /\ UNCHANGED <<links, changes>>
      /\ UNCHANGED <<nifp, rings, refused, freeBufs>>
  BY Zenon DEF fillNetLink, options, kernel, netmap
<1>2. ifaces \in Seq(Interface) /\ Dumped /\ OneEach /\ NoNumbers
  BY Zenon, <1>1 DEF IInv, TypeOK, Dumping, Unnumbered
<1>3. ifaces' \in Seq(Interface) /\ Dumped' /\ OneEach' /\ NoNumbers'
  BY Zenon, <1>2, SortStep
<1>4. TypeOK'
  BY Zenon, <1>1, <1>3 DEF IInv, TypeOK
<1>5. Dumping'
  BY Zenon, <1>1, <1>3 DEF Dumping
<1>. QED  BY Zenon, <1>1, <1>3, <1>4, <1>5, EarlyStep
(* Only main's place changes, and not to the end.                           *)
LEMMA PlaceStep ==
  ASSUME IInv, pc \in {"routes", "netmap"}, pc' \in {"netmap", "ready"}, end' = end,
         UNCHANGED <<argv, pos, numWorkers>>, UNCHANGED <<links, changes>>,
         UNCHANGED <<todo, dumped, ifaces>>, UNCHANGED <<nifp, rings, refused, freeBufs>>,
         pc' = "ready" => Len(rings) >= Len(interfacesToUse)
  PROVE  IInv'
<1>1. TypeOK'
  BY Zenon DEF IInv, TypeOK
<1>2. Dumping' /\ Attached'
  BY Zenon, DumpKept, AttachedKept DEF IInv
<1>3. end' = ""
  BY Zenon DEF IInv, Ended
<1>4. interfacesToUse' = interfacesToUse /\ rings' = rings
  BY Zenon DEF interfacesToUse
<1>5. Unnumbered' /\ Ended' /\ CrashOnlyFor'
  BY Zenon, <1>3, <1>4 DEF Unnumbered, Ended, CrashOnlyFor
<1>. QED  BY Zenon, <1>1, <1>2, <1>5 DEF IInv

(* The routes: a route out of an unknown link has a link that is new.       *)
LEMMA RoutesStep ==
  ASSUME IInv, RouteDump
  PROVE  IInv'
<1>1. pc = "routes" /\ ifaces \in Seq(Interface) /\ Dumped /\ links \subseteq Links
  BY Zenon DEF RouteDump, IInv, TypeOK, Dumping
<1>2. PICK oifs \in SUBSET links :
        IF ifaces = <<>> \/ \A l \in oifs : Known(l.index) # {}
        THEN /\ pc' = "netmap"
             /\ UNCHANGED <<end, options, kernel, todo, dumped, ifaces, netmap>>
        ELSE End("crash")
  BY Zenon DEF RouteDump
<1>3. CASE ifaces = <<>> \/ \A l \in oifs : Known(l.index) # {}
  <2>1. /\ pc' = "netmap" /\ end' = end
        /\ UNCHANGED <<argv, pos, numWorkers>> /\ UNCHANGED <<links, changes>>
        /\ UNCHANGED <<todo, dumped, ifaces>> /\ UNCHANGED <<nifp, rings, refused, freeBufs>>
    BY Zenon, <1>2, <1>3 DEF options, kernel, netmap
  <2>. QED  BY Zenon, <1>1, <2>1, PlaceStep
<1>4. CASE ~ (ifaces = <<>> \/ \A l \in oifs : Known(l.index) # {})
  <2>1. End("crash")
    BY Zenon, <1>2, <1>4
  <2>2. PICK l \in oifs : Known(l.index) = {}
    BY Zenon, <1>4
  <2>3. l \in links /\ l \in Links
    BY Zenon, <1>1
  <2>4. l \notin dumped.link
    BY Zenon, <1>1, <2>2, <2>3, DumpedKnown
  <2>5. links \ dumped.link # {}
    BY Zenon, <2>3, <2>4
  <2>. QED  BY Zenon, <2>1, <2>5, EndStep
<1>. QED  BY Zenon, <1>3, <1>4

(* The steps that end the program before initNetmap.                        *)
LEMMA EarlyEnds ==
  ASSUME IInv, NoArguments \/ PastTheEnd \/ OtherOption \/ DumpFails
  PROVE  IInv'
<1>1. ASSUME NEW how \in {"usage", "unknown option", "fatal"}, End(how) PROVE IInv'
  BY Zenon, <1>1, EndStep
<1>2. CASE NoArguments \/ OtherOption \/ DumpFails
  BY Zenon, <1>1, <1>2 DEF NoArguments, OtherOption, DumpFails
<1>3. CASE PastTheEnd
  <2>1. End("crash") /\ pc = "options" /\ (pos <= Len(argv) => pos = Len(argv))
    BY Zenon, <1>3 DEF PastTheEnd
  <2>2. ifaces = <<>> /\ argv \in Seq(STRING) /\ pos \in 1 .. Len(argv) + 1
    BY Zenon, <2>1, StartUpAssumption DEF IInv, Dumping, TypeOK
  <2>3. Len(argv) <= pos
    BY <2>1, <2>2
  <2>. QED  BY Zenon, <2>1, <2>2, <2>3, EndStep
<1>. QED  BY Zenon, <1>2, <1>3

-----------------------------------------------------------------------------
(* initNetmap.                                                              *)

(* The extra buffers of a netmap_if.                                        *)
LEMMA ExtraFacts ==
  ASSUME NEW nif \in NetmapIf
  PROVE  Extra(nif) \in Seq(Nat \X (1 .. NumExtra)) /\ Len(Extra(nif)) = NumExtra
<1>. DEFINE B == Nat \X (1 .. NumExtra)
<1>1. Extra(nif) \in [1 .. NumExtra -> B]
  BY DEF Extra, NetmapIf
<1>2. NumExtra \in Nat
  BY Zenon, StartUpAssumption
<1>. HIDE DEF B
<1>3. Extra(nif) \in Seq(B) /\ Len(Extra(nif)) = NumExtra
  BY <1>1, <1>2
<1>. QED  BY Zenon, <1>3 DEF B

(* They are no other registration's.                                        *)
LEMMA BuffersAdded ==
  ASSUME NEW bufs \in Seq(Nat \X (1 .. NumExtra)), NEW R,
         \A n \in DOMAIN bufs : bufs[n][1] \in R, IsInjective(bufs),
         NEW nif \in NetmapIf, nif.at \notin R, NEW all, all = bufs \o Extra(nif)
  PROVE  IsInjective(all) /\ \A n \in DOMAIN all : all[n][1] \in R \cup {nif.at}
<1>1. NumExtra \in Nat
  BY Zenon, StartUpAssumption
<1>. DEFINE L == Len(bufs)
<1>2. /\ L \in Nat /\ DOMAIN bufs = 1 .. L /\ DOMAIN all = 1 .. L + NumExtra
      /\ \A n \in 1 .. L : all[n] = bufs[n]
      /\ \A n \in L + 1 .. L + NumExtra : all[n] = <<nif.at, n - L>>
  <2>1. \A n \in 1 .. NumExtra : Extra(nif)[n] = <<nif.at, n>>
    BY DEF Extra
  <2>2. Extra(nif) \in Seq(Nat \X (1 .. NumExtra)) /\ Len(Extra(nif)) = NumExtra
    BY Zenon, ExtraFacts
  <2>3. L \in Nat /\ DOMAIN bufs = 1 .. L
    BY Zenon, SeqFacts
  <2>4. /\ DOMAIN all = 1 .. L + NumExtra
        /\ \A n \in 1 .. L : all[n] = bufs[n]
        /\ \A n \in L + 1 .. L + NumExtra : all[n] = Extra(nif)[n - L]
    <3>. DEFINE B == Nat \X (1 .. NumExtra)
    <3>1. Extra(nif) \in Seq(B) /\ bufs \in Seq(B)
      BY Zenon, <2>2
    <3>. HIDE DEF B
    <3>2. Concatenated(bufs, Extra(nif), all)
      BY Zenon, <3>1, ConcatFacts
    <3>. QED  BY Zenon, <2>2, <3>2 DEF Concatenated
  <2>5. \A n \in L + 1 .. L + NumExtra : n - L \in 1 .. NumExtra
    BY <1>1, <2>3
  <2>. QED  BY Zenon, <2>1, <2>3, <2>4, <2>5
<1>. HIDE DEF L
<1>3. \A n \in 1 .. L : all[n][1] \in R
  BY Zenon, <1>2
<1>4. \A n \in L + 1 .. L + NumExtra : all[n][1] = nif.at /\ all[n][2] = n - L
  <2>1. ASSUME NEW n \in L + 1 .. L + NumExtra PROVE all[n][1] = nif.at /\ all[n][2] = n - L
    <3>1. all[n] = <<nif.at, n - L>>
      BY Zenon, <1>2
    <3>. QED  BY <3>1
  <2>. QED  BY Zenon, <2>1
<1>5. \A n \in DOMAIN all : n \in 1 .. L \/ n \in L + 1 .. L + NumExtra
  BY <1>1, <1>2
<1>6. ASSUME NEW a \in DOMAIN all, NEW b \in DOMAIN all, all[a] = all[b] PROVE a = b
  <2>1. CASE a \in 1 .. L /\ b \in 1 .. L
    BY Zenon, <1>2, <1>6, <2>1 DEF IsInjective
  <2>2. CASE a \in L + 1 .. L + NumExtra /\ b \in L + 1 .. L + NumExtra
    <3>1. a - L = b - L
      BY Zenon, <1>4, <1>6, <2>2
    <3>. QED  BY <1>1, <1>2, <2>2, <3>1
  <2>3. CASE \/ a \in 1 .. L /\ b \in L + 1 .. L + NumExtra
             \/ b \in 1 .. L /\ a \in L + 1 .. L + NumExtra
    BY Zenon, <1>3, <1>4, <1>6, <2>3
  <2>. QED  BY Zenon, <1>5, <2>1, <2>2, <2>3
<1>7. \A n \in DOMAIN all : all[n][1] \in R \cup {nif.at}
  BY Zenon, <1>3, <1>4, <1>5
<1>. QED  BY Zenon, <1>6, <1>7 DEF IsInjective

(* The first Interface with the name gets the number.                       *)
LEMMA NumberGiven ==
  ASSUME ifaces \in Seq(Interface), NEW j \in DOMAIN ifaces, NEW n \in Nat,
         ifaces' = [ifaces EXCEPT ![j].netmapIndex = n]
  PROVE  /\ ifaces' \in Seq(Interface) /\ DOMAIN ifaces' = DOMAIN ifaces
         /\ ifaces'[j].netmapIndex = n /\ ifaces'[j].name = ifaces[j].name
         /\ \A k \in DOMAIN ifaces \ {j} : ifaces'[k] = ifaces[k]
<1>. DEFINE i == [ifaces[j] EXCEPT !.netmapIndex = n]
<1>1. ifaces[j] \in Interface
  BY Zenon, IfacesFacts
<1>2. i.netmapIndex = n /\ i.name = ifaces[j].name
  BY <1>1 DEF Interface
<1>3. i \in Interface
  BY Zenon, <1>1, InterfaceFields
<1>4. ifaces' = [ifaces EXCEPT ![j] = i]
  BY Zenon
<1>. HIDE DEF i
<1>5. ifaces' \in Seq(Interface)
  BY <1>3, <1>4
<1>6. /\ DOMAIN ifaces' = DOMAIN ifaces /\ ifaces'[j] = i
      /\ \A k \in DOMAIN ifaces \ {j} : ifaces'[k] = ifaces[k]
  BY Zenon, <1>4
<1>. QED  BY Zenon, <1>2, <1>5, <1>6

(* The fields of a netmap_if.                                               *)
LEMMA InNetmapIf ==
  ASSUME NEW nif \in NetmapIf
  PROVE  nif.link \in Links /\ nif.at \in Nat
BY DEF NetmapIf

(* One more place with rings.                                               *)
LEMMA RingsAdded ==
  ASSUME TypeOK, RingsNamed, Place <= Len(interfacesToUse), UNCHANGED <<argv, pos>>,
         NEW nif \in NetmapIf, nifp' = nif, rings' = Append(rings, nif.link),
         NEW ok \in BOOLEAN, ok => Registers(nif.link), ~ ok => nifp # None /\ nif = nifp,
         refused' = IF ok THEN refused ELSE refused \cup {Place}
  PROVE  RingsNamed'
<1>1. interfacesToUse' = interfacesToUse
  BY Zenon DEF interfacesToUse
<1>2. PICK p \in Nat : p = Len(rings)
  BY Zenon, SeqFacts DEF TypeOK
<1>3. /\ Len(rings') = p + 1 /\ DOMAIN rings = 1 .. p /\ DOMAIN rings' = DOMAIN rings \cup {p + 1}
      /\ rings'[p + 1] = nif.link /\ \A k \in DOMAIN rings : rings'[k] = rings[k]
  <2>1. rings \in Seq(Links) /\ nif.link \in Links
    BY Zenon, InNetmapIf DEF TypeOK
  <2>2. Appended(rings, nif.link, rings')
    BY Zenon, <2>1, AppendFacts
  <2>3. DOMAIN rings = 1 .. Len(rings)
    BY Zenon, <2>1, SeqFacts
  <2>. QED  BY Zenon, <1>2, <2>2, <2>3 DEF Appended
<1>4. /\ Place = p + 1 /\ p + 1 <= Len(interfacesToUse) /\ (p + 1) - 1 = p /\ p + 1 \notin 1 .. p
      /\ p + 1 > 0 /\ (p > 0 => p + 1 > 1 /\ p \in 1 .. p)
  BY <1>2 DEF Place
<1>5. refused' \subseteq DOMAIN rings'
  BY Zenon, <1>3, <1>4 DEF RingsNamed
<1>6. ASSUME NEW k \in DOMAIN rings'
      PROVE  IF k \in refused' THEN k > 1 /\ rings'[k] = rings'[k - 1]
             ELSE rings'[k].name = interfacesToUse'[k]
  <2>1. CASE k \in DOMAIN rings
    <3>1. k # p + 1 /\ (k > 1 => k - 1 \in DOMAIN rings)
      BY <1>2, <1>3, <2>1
    <3>2. k \in refused' <=> k \in refused
      BY Zenon, <1>4, <3>1
    <3>. QED  BY Zenon, <1>1, <1>3, <2>1, <3>1, <3>2 DEF RingsNamed
  <2>2. CASE k = p + 1 /\ ok
    <3>1. p + 1 \notin refused'
      BY Zenon, <1>3, <1>4, <2>2 DEF RingsNamed
    <3>2. nif.link.name = interfacesToUse[p + 1]
      BY Zenon, <1>4, <2>2 DEF Registers
    <3>. QED  BY Zenon, <1>1, <1>3, <2>2, <3>1, <3>2
  <2>3. CASE k = p + 1 /\ ~ ok
    <3>1. p + 1 \in refused' /\ nif = nifp /\ nifp # None
      BY Zenon, <1>4, <2>3
    <3>2. p > 0 /\ nif.link = rings[p]
      BY Zenon, <1>2, <3>1 DEF RingsNamed
    <3>3. p \in DOMAIN rings /\ rings'[(p + 1) - 1] = rings'[p + 1]
      BY Zenon, <1>3, <1>4, <3>2
    <3>. QED  BY Zenon, <1>4, <2>3, <3>1, <3>2, <3>3
  <2>. QED  BY Zenon, <1>3, <2>1, <2>2, <2>3
<1>7. Len(rings') > 0 /\ nifp'.link = rings'[Len(rings')]
  BY Zenon, <1>3, <1>4
<1>. QED  BY Zenon, <1>1, <1>3, <1>4, <1>5, <1>6, <1>7 DEF RingsNamed

(* One more number: the first Interface with the name gets it, the others   *)
(* with this name have none.                                                *)
LEMMA NumbersAdded ==
  ASSUME TypeOK, Numbered, Place <= Len(interfacesToUse), UNCHANGED <<argv, pos>>,
         NEW l \in Links, rings' = Append(rings, l),
         NEW j \in DOMAIN ifaces, ifaces[j].name = interfacesToUse[Place],
         \A h \in DOMAIN ifaces : ifaces[h].name = interfacesToUse[Place] => j <= h,
         ifaces' = [ifaces EXCEPT ![j].netmapIndex = Len(rings)]
  PROVE  Numbered'
<1>1. interfacesToUse' = interfacesToUse
  BY Zenon DEF interfacesToUse
<1>2. PICK p \in Nat : p = Len(rings)
  BY Zenon, SeqFacts DEF TypeOK
<1>3. DOMAIN rings = 1 .. p /\ DOMAIN rings' = DOMAIN rings \cup {p + 1}
  <2>1. rings \in Seq(Links)
    BY Zenon DEF TypeOK
  <2>2. Appended(rings, l, rings')
    BY Zenon, <2>1, AppendFacts
  <2>3. DOMAIN rings = 1 .. Len(rings)
    BY Zenon, <2>1, SeqFacts
  <2>. QED  BY Zenon, <1>2, <2>2, <2>3 DEF Appended
<1>4. /\ DOMAIN ifaces' = DOMAIN ifaces
      /\ ifaces'[j].netmapIndex = p /\ ifaces'[j].name = ifaces[j].name
      /\ \A k \in DOMAIN ifaces \ {j} : ifaces'[k] = ifaces[k]
  BY Zenon, <1>2, NumberGiven DEF TypeOK
<1>5. Place = p + 1 /\ p # None
  <2>1. Place = p + 1
    BY <1>2 DEF Place
  <2>. QED  BY Zenon, <2>1, StartUpAssumption
<1>6. ASSUME NEW k \in DOMAIN rings'
      PROVE  \E i \in DOMAIN ifaces' :
               ifaces'[i].netmapIndex # None /\ ifaces'[i].name = interfacesToUse'[k]
  <2>1. CASE k = p + 1
    BY Zenon, <1>1, <1>4, <1>5, <2>1
  <2>2. CASE k \in DOMAIN rings
    <3>1. PICK i \in DOMAIN ifaces :
            ifaces[i].netmapIndex # None /\ ifaces[i].name = interfacesToUse[k]
      BY Zenon, <2>2 DEF Numbered
    <3>. QED  BY Zenon, <1>1, <1>4, <1>5, <3>1
  <2>. QED  BY Zenon, <1>3, <2>1, <2>2
<1>7. \A h \in DOMAIN ifaces : ifaces'[h].name = ifaces[h].name
  BY Zenon, <1>4
<1>8. ASSUME NEW i \in DOMAIN ifaces' PROVE ifaces'[i].netmapIndex = None \/ HasNumber(i)'
  <2>1. CASE i = j
    <3>1. \A m \in DOMAIN rings' : m <= p + 1
      BY <1>2, <1>3
    <3>2. \A h \in DOMAIN ifaces' : ifaces'[h].name = ifaces'[j].name => j <= h
      BY Zenon, <1>4, <1>5, <1>7
    <3>. QED  BY Zenon, <1>1, <1>3, <1>4, <1>5, <2>1, <3>1, <3>2 DEF HasNumber
  <2>2. CASE i # j /\ ifaces[i].netmapIndex # None
    <3>1. HasNumber(i) /\ ifaces'[i] = ifaces[i]
      BY Zenon, <1>4, <2>2 DEF Numbered
    <3>2. ifaces[i].name # interfacesToUse[p + 1]
      <4>1. SUFFICES ASSUME ifaces[i].name = interfacesToUse[p + 1] PROVE FALSE
        BY Zenon
      <4>2. j <= i /\ i <= j
        BY Zenon, <1>4, <1>5, <3>1, <4>1 DEF HasNumber
      <4>3. i \in Nat /\ j \in Nat
        <5>1. ifaces \in Seq(Interface) /\ i \in DOMAIN ifaces
          BY Zenon, <1>4 DEF TypeOK
        <5>2. DOMAIN ifaces = 1 .. Len(ifaces) /\ Len(ifaces) \in Nat
          BY Zenon, <5>1, SeqFacts
        <5>. QED  BY <5>1, <5>2
      <4>. QED  BY <2>2, <4>2, <4>3
    <3>3. \A m \in DOMAIN rings' : interfacesToUse[m] = ifaces[i].name => m <= ifaces[i].netmapIndex + 1
      BY Zenon, <1>3, <3>1, <3>2 DEF HasNumber
    <3>4. \A h \in DOMAIN ifaces' : ifaces'[h].name = ifaces[i].name => i <= h
      BY Zenon, <1>4, <1>7, <3>1 DEF HasNumber
    <3>5. /\ ifaces[i].netmapIndex + 1 \in DOMAIN rings'
          /\ ifaces[i].name = interfacesToUse[ifaces[i].netmapIndex + 1]
      BY Zenon, <1>3, <3>1 DEF HasNumber
    <3>. QED  BY Zenon, <1>1, <3>1, <3>3, <3>4, <3>5 DEF HasNumber
  <2>3. CASE i # j /\ ifaces[i].netmapIndex = None
    BY Zenon, <1>4, <2>3
  <2>. QED  BY Zenon, <2>1, <2>2, <2>3
<1>. QED  BY Zenon, <1>6, <1>8 DEF Numbered

(* An interface is attached, whether netmap accepted it or not.             *)
LEMMA AttachStep ==
  ASSUME IInv, pc = "netmap", Place <= Len(interfacesToUse), NEW nif \in NetmapIf,
         NEW ok \in BOOLEAN,
         ok => nif.at = Place /\ Registers(nif.link), ~ ok => nifp # None /\ nif = nifp,
         Attach(nif, ok), Min(Named) \in Named, \A h \in Named : Min(Named) <= h,
         UNCHANGED <<pc, end, options, kernel, todo, dumped>>
  PROVE  IInv'
<1>1. /\ pc' = "netmap" /\ end' = end /\ UNCHANGED <<argv, pos, numWorkers>>
      /\ UNCHANGED <<links, changes>> /\ UNCHANGED <<todo, dumped>>
      /\ nifp' = nif /\ rings' = Append(rings, nif.link) /\ freeBufs' = freeBufs \o Extra(nif)
      /\ refused' = IF ok THEN refused ELSE refused \cup {Place}
  BY Zenon DEF Attach, options, kernel
<1>2. TypeOK /\ ifaces \in Seq(Interface) /\ rings \in Seq(Links) /\ nif.link \in Links
      /\ freeBufs \in Seq(Nat \X (1 .. NumExtra))
      /\ RingsNamed /\ BuffersOfRings /\ Numbered
  BY Zenon, InNetmapIf DEF IInv, TypeOK, Attached
<1>3. PICK j \in DOMAIN ifaces :
        /\ j = Min(Named) /\ ifaces[j].name = interfacesToUse[Place]
        /\ \A h \in DOMAIN ifaces : ifaces[h].name = interfacesToUse[Place] => j <= h
  BY Zenon, <1>2, IfacesFacts DEF Named
<1>4. Len(rings) \in Nat /\ Place - 1 = Len(rings) /\ Place \in Nat \ {0}
  BY <1>2 DEF Place
<1>5. ifaces' = [ifaces EXCEPT ![j].netmapIndex = Len(rings)]
  BY Zenon, <1>3, <1>4 DEF Attach
<1>6. ifaces' \in Seq(Interface)
  BY Zenon, <1>2, <1>4, <1>5, NumberGiven
<1>7. rings' \in Seq(Links)
  BY Zenon, <1>1, <1>2, AppendFacts
<1>8. freeBufs' \in Seq(Nat \X (1 .. NumExtra))
  <2>. DEFINE B == Nat \X (1 .. NumExtra)
  <2>1. Extra(nif) \in Seq(B) /\ freeBufs \in Seq(B)
    BY Zenon, <1>2, ExtraFacts
  <2>. HIDE DEF B
  <2>2. freeBufs \o Extra(nif) \in Seq(B)
    BY Zenon, <2>1, ConcatFacts
  <2>. QED  BY Zenon, <1>1, <2>2 DEF B
<1>9. refused' \subseteq 1 .. Len(argv')
  <2>1. Place \in 1 .. Len(argv)
    <3>1. argv \in Seq(STRING)
      BY Zenon, <1>2, StartUpAssumption DEF TypeOK
    <3>2. Len(argv) \in Nat
      BY Zenon, <3>1, SeqFacts
    <3>3. Len(interfacesToUse) \in Nat /\ Len(interfacesToUse) <= Len(argv)
      BY Zenon, <1>2, ToUseFacts
    <3>. QED  BY <1>4, <3>2, <3>3
  <2>. QED  BY Zenon, <1>1, <1>2, <2>1 DEF TypeOK
<1>10. TypeOK'
  BY Zenon, <1>1, <1>2, <1>6, <1>7, <1>8, <1>9 DEF TypeOK
<1>11. RingsNamed' /\ Numbered'
  <2>1. RingsNamed'
    BY Zenon, <1>1, <1>2, RingsAdded
  <2>2. Numbered'
    BY Zenon, <1>1, <1>2, <1>3, <1>5, NumbersAdded
  <2>. QED  BY Zenon, <2>1, <2>2
<1>12. BuffersOfRings'
  <2>. SUFFICES ASSUME refused' = {}
                PROVE  /\ \A n \in DOMAIN freeBufs' : freeBufs'[n][1] \in DOMAIN rings'
                       /\ IsInjective(freeBufs')
    BY Zenon DEF BuffersOfRings, IsInjective
  <2>1. ok /\ refused = {} /\ nif.at = Place
    BY Zenon, <1>1
  <2>2. DOMAIN rings = 1 .. Len(rings) /\ DOMAIN rings' = DOMAIN rings \cup {Place}
    <3>1. Appended(rings, nif.link, rings') /\ DOMAIN rings = 1 .. Len(rings)
      BY Zenon, <1>1, <1>2, AppendFacts, SeqFacts
    <3>. QED  BY Zenon, <3>1 DEF Appended, Place
  <2>3. Place \notin DOMAIN rings
    BY <1>4, <2>2
  <2>4. PICK all : all = freeBufs \o Extra(nif)
    BY Zenon
  <2>5. IsInjective(all) /\ \A n \in DOMAIN all : all[n][1] \in DOMAIN rings \cup {nif.at}
    BY Zenon, <1>2, <2>1, <2>3, <2>4, BuffersAdded DEF BuffersOfRings
  <2>6. freeBufs' = all
    BY Zenon, <1>1, <2>4
  <2>. QED  BY Zenon, <2>1, <2>2, <2>5, <2>6
<1>13. end' = ""
  BY Zenon, <1>1 DEF IInv, Ended
<1>14. Dumping' /\ Unnumbered' /\ Ended' /\ CrashOnlyFor'
  BY Zenon, <1>1, <1>13 DEF Dumping, Unnumbered, Ended, CrashOnlyFor
<1>. QED  BY Zenon, <1>10, <1>11, <1>12, <1>14 DEF IInv, Attached
-----------------------------------------------------------------------------
(* What the invariant says of the three properties about interfaces.        *)

(* The number of Interfaces aside, the dumps are as DumpFaithful says.      *)
LEMMA FaithfulIfCounted ==
  ASSUME IInv,
         pc \in {"sort", "routes"} =>
           Len(ifaces) = Cardinality({l \in Links : \/ l \in dumped.link
                                                    \/ l \in dumped.addr /\ l.addrs # <<>>})
  PROVE  DumpFaithful
<1>1. ASSUME Dumped, NEW l \in dumped.addr \cup dumped.link,
             l.addrs # <<>> \/ l \in dumped.link
      PROVE  \E i \in Range(ifaces) :
               /\ i.netlinkIndex = l.index
               /\ i.IPs = IF l \in dumped.addr THEN IPsOf(l) ELSE <<>>
               /\ IF l \in dumped.link THEN i.name = l.name /\ i.mac = l.mac
                  ELSE i.name \in Labels(l) /\ i.mac = None
  <2>1. l \in Links
    <3>1. dumped \in [addr : SUBSET Links, link : SUBSET Links]
      BY Zenon DEF IInv, TypeOK
    <3>. QED  BY <3>1
  <2>2. /\ Len(l.addrs) \in Nat /\ (Len(l.addrs) = 0 => l.addrs = <<>>)
        /\ \A n \in 1 .. Len(l.addrs) : l.addrs[n].label \in Labels(l)
    BY <2>1, LinkFacts
  <2>3. ~ (NumAddrs(l) = 0 /\ l \notin dumped.link)
    BY Zenon, <1>1, <2>2 DEF NumAddrs
  <2>4. PICK j \in DOMAIN ifaces : Described(ifaces[j], l, NumAddrs(l), l \in dumped.link)
    BY Zenon, <1>1, <2>1, <2>3 DEF Dumped, Seen
  <2>5. ifaces[j].IPs = IF l \in dumped.addr THEN IPsOf(l) ELSE <<>>
    <3>1. ifaces[j].IPs = [n \in 1 .. NumAddrs(l) |-> l.addrs[n].ip]
      BY Zenon, <2>4 DEF Described
    <3>2. CASE l \in dumped.addr
      BY Zenon, <3>1, <3>2 DEF NumAddrs, IPsOf
    <3>3. CASE l \notin dumped.addr
      <4>1. NumAddrs(l) = 0
        BY Zenon, <3>3 DEF NumAddrs
      <4>2. ifaces[j].IPs = <<>>
        BY <3>1, <4>1
      <4>. QED  BY Zenon, <3>3, <4>2
    <3>. QED  BY Zenon, <3>2, <3>3
  <2>6. CASE l \in dumped.link
    BY Zenon, <2>4, <2>5, <2>6 DEF Described, Range
  <2>7. CASE l \notin dumped.link
    <3>1. l \in dumped.addr /\ NumAddrs(l) = Len(l.addrs) /\ Len(l.addrs) # 0
      BY Zenon, <2>3, <2>7 DEF NumAddrs
    <3>2. Len(l.addrs) \in 1 .. Len(l.addrs)
      BY <2>2, <3>1
    <3>3. ifaces[j].name \in Labels(l)
      BY Zenon, <2>2, <2>4, <2>7, <3>1, <3>2 DEF Described
    <3>. QED  BY Zenon, <2>4, <2>5, <2>7, <3>3 DEF Described, Range
  <2>. QED  BY Zenon, <2>6, <2>7
<1>. QED  BY Zenon, <1>1 DEF DumpFaithful, IInv, Dumping

(* Numbers.                                                                 *)
LEMMA NumbersFollow == IInv => NumbersMatch
<1>. SUFFICES ASSUME IInv, pc = "ready", NEW k \in 1 .. Len(interfacesToUse)
              PROVE  /\ IF k \in refused THEN k > 1 /\ rings[k] = rings[k - 1]
                        ELSE rings[k].name = interfacesToUse[k]
                     /\ {i.name : i \in {j \in Range(ifaces) : j.netmapIndex = k - 1}}
                          = IF NamedAgain(k) THEN {} ELSE {interfacesToUse[k]}
  BY Zenon DEF NumbersMatch
<1>1. RingsNamed /\ Numbered /\ rings \in Seq(Links) /\ Len(interfacesToUse) \in Nat
      /\ Len(rings) >= Len(interfacesToUse) /\ Len(rings) <= Len(interfacesToUse)
  BY Zenon, ToUseFacts DEF IInv, Attached, Ended, TypeOK, RingsNamed
<1>2. /\ DOMAIN rings = 1 .. Len(interfacesToUse) /\ k \in DOMAIN rings
      /\ k - 1 \in Nat /\ (k - 1) + 1 = k
  BY <1>1
<1>3. IF k \in refused THEN k > 1 /\ rings[k] = rings[k - 1]
      ELSE rings[k].name = interfacesToUse[k]
  BY Zenon, <1>1, <1>2 DEF RingsNamed
<1>4. ASSUME NEW i \in Range(ifaces), i.netmapIndex = k - 1
      PROVE  i.name = interfacesToUse[k] /\ ~ NamedAgain(k)
  <2>1. PICK j \in DOMAIN ifaces : i = ifaces[j]
    BY Zenon DEF Range
  <2>2. ifaces[j].netmapIndex # None
    BY Zenon, <1>2, <1>4, <2>1, StartUpAssumption
  <2>3. HasNumber(j)
    BY Zenon, <1>1, <2>2 DEF Numbered
  <2>4. i.name = interfacesToUse[k] /\ \A m \in DOMAIN rings : interfacesToUse[m] = i.name => m <= k
    BY Zenon, <1>2, <1>4, <2>1, <2>3 DEF HasNumber
  <2>5. \A m \in k + 1 .. Len(interfacesToUse) : m \in DOMAIN rings /\ ~ (m <= k)
    BY <1>1, <1>2
  <2>. QED  BY Zenon, <2>4, <2>5 DEF NamedAgain
<1>5. ASSUME ~ NamedAgain(k) PROVE \E i \in Range(ifaces) : i.netmapIndex = k - 1
  <2>1. PICK j \in DOMAIN ifaces :
          ifaces[j].netmapIndex # None /\ ifaces[j].name = interfacesToUse[k]
    BY Zenon, <1>1, <1>2 DEF Numbered
  <2>2. HasNumber(j)
    BY Zenon, <1>1, <2>1 DEF Numbered
  <2>. DEFINE n == ifaces[j].netmapIndex
  <2>3. n + 1 \in 1 .. Len(interfacesToUse) /\ interfacesToUse[n + 1] = interfacesToUse[k] /\ k <= n + 1
    BY Zenon, <1>2, <2>1, <2>2 DEF HasNumber
  <2>4. n + 1 \notin k + 1 .. Len(interfacesToUse)
    BY Zenon, <1>5, <2>3 DEF NamedAgain
  <2>5. n \in Nat
    <3>1. ifaces[j] \in Interface
      BY Zenon, IfacesFacts DEF IInv, TypeOK
    <3>. QED  BY <2>1, <3>1 DEF Interface
  <2>6. n = k - 1
    <3>. HIDE DEF n
    <3>. QED  BY <1>1, <2>3, <2>4, <2>5
  <2>. QED  BY Zenon, <2>6 DEF Range
<1>. QED  BY Zenon, <1>3, <1>4, <1>5

(* Extra buffers.                                                           *)
LEMMA BuffersFollow == IInv => BuffersOnce
BY Zenon DEF IInv, Attached, BuffersOfRings, BuffersOnce, IsInjective

(* A set of naturals has a least element, which Min is.                     *)
LEMMA MinFacts ==
  ASSUME NEW S \in SUBSET Nat, S # {}
  PROVE  Min(S) \in S /\ \A y \in S : Min(S) <= y
<1>1. PICK x \in S : \A y \in S : <<y, x>> \notin OpToRel(<, Nat)
  BY Zenon, NatLessThanWellFounded, WFMin
<1>2. \A y \in S : ~ (y < x)
  BY Zenon, <1>1 DEF OpToRel
<1>3. \A y \in S : x <= y
  BY <1>2
<1>. QED  BY Zenon, <1>3 DEF Min

(* Each Interface stands for one link, and every link in a dump has one, so *)
(* there are as many of either.                                             *)
LEMMA Counting ==
  ASSUME ifaces \in Seq(Interface), Dumped, OneEach
  PROVE  Len(ifaces) = Cardinality({l \in Links : \/ l \in dumped.link
                                                  \/ l \in dumped.addr /\ l.addrs # <<>>})
<1>. DEFINE K == {l \in Links : l \in dumped.link \/ (l \in dumped.addr /\ l.addrs # <<>>)}
            of(j) == CHOOSE l \in Links : l.index = ifaces[j].netlinkIndex
            N == Len(ifaces)
            f == [j \in 1 .. N |-> of(j)]
<1>1. /\ N \in Nat /\ DOMAIN ifaces = 1 .. N
      /\ \A x : Known(x) = {k \in DOMAIN ifaces : ifaces[k].netlinkIndex = x}
  BY Zenon, IfacesFacts
<1>2. \A j \in 1 .. N : ifaces[j].netlinkIndex \in {l.index : l \in Links}
  <2>1. \A j \in 1 .. N : ifaces[j] \in Interface
    BY Zenon, IfacesFacts
  <2>. QED  BY <2>1 DEF Interface
<1>3. \A j \in 1 .. N : of(j) \in Links /\ of(j).index = ifaces[j].netlinkIndex
  BY Zenon, <1>2
<1>4. \A j \in 1 .. N : f[j] = of(j)
  BY Zenon
<1>5. ASSUME NEW j \in 1 .. N PROVE f[j] \in K
  <2>1. PICK l \in Links : l = f[j] /\ l.index = ifaces[j].netlinkIndex
    BY Zenon, <1>3, <1>4
  <2>2. Known(l.index) # {}
    BY Zenon, <1>1, <2>1
  <2>3. l \in dumped.link \/ (l \in dumped.addr /\ l.addrs # <<>>)
    BY Zenon, <2>2, DumpedKnown
  <2>. QED  BY Zenon, <2>1, <2>3
<1>6. ASSUME NEW i \in 1 .. N, NEW j \in 1 .. N, f[i] = f[j] PROVE i = j
  <2>1. of(i) = of(j)
    BY Zenon, <1>4, <1>6
  <2>. HIDE DEF of
  <2>2. ifaces[i].netlinkIndex = ifaces[j].netlinkIndex
    BY Zenon, <1>3, <2>1
  <2>. QED  BY Zenon, <1>1, <2>2 DEF OneEach
<1>7. ASSUME NEW l \in K PROVE \E j \in 1 .. N : f[j] = l
  <2>1. Known(l.index) # {}
    BY Zenon, DumpedKnown
  <2>2. PICK j \in 1 .. N : ifaces[j].netlinkIndex = l.index
    BY Zenon, <1>1, <2>1
  <2>3. f[j] \in Links /\ f[j].index = l.index
    BY Zenon, <1>3, <1>4, <2>2
  <2>4. f[j] = l
    BY Zenon, <2>3, StartUpAssumption
  <2>. QED  BY Zenon, <2>4
<1>8. f \in [1 .. N -> K]
  <2>. HIDE DEF K
  <2>. QED  BY Zenon, <1>5
<1>. HIDE DEF f, K, N, of
<1>9. f \in Bijection(1 .. N, K)
  BY Zenon, <1>6, <1>7, <1>8 DEF Bijection, Injection, Surjection, IsInjective
<1>10. ExistsBijection(1 .. N, K)
  BY Zenon, <1>9 DEF ExistsBijection
<1>11. Cardinality(K) = N
  BY Zenon, <1>1, <1>10, FS_CountingElements
<1>. QED  BY Zenon, <1>11 DEF K, N

(* All of DumpFaithful.                                                     *)
LEMMA FaithfulFollows == IInv => DumpFaithful
<1>. SUFFICES ASSUME IInv PROVE DumpFaithful
  BY Zenon
<1>1. pc \in {"sort", "routes"} => ifaces \in Seq(Interface) /\ Dumped /\ OneEach
  BY Zenon DEF IInv, TypeOK, Dumping
<1>. QED  BY Zenon, <1>1, Counting, FaithfulIfCounted
-----------------------------------------------------------------------------
(* The invariant.                                                           *)

(* initNetmap: it ends the program or attaches an interface.                *)
LEMMA NetmapStep ==
  ASSUME IInv, initNetmap
  PROVE  IInv'
<1>1. pc = "netmap" /\ Place <= Len(interfacesToUse) /\ links \subseteq Links
      /\ nifp \in NetmapIf \cup {None} /\ ifaces \in Seq(Interface) /\ rings \in Seq(Links)
  BY Zenon DEF initNetmap, IInv, TypeOK
<1>2. ASSUME NEW how \in {"abort", "fatal"}, End(how) PROVE IInv'
  BY Zenon, <1>2, EndStep
<1>3. ASSUME Named # {} PROVE Min(Named) \in Named /\ \A h \in Named : Min(Named) <= h
  <2>1. Named \in SUBSET Nat
    BY <1>1 DEF Named
  <2>. QED  BY Zenon, <1>3, <2>1, MinFacts
<1>4. ASSUME NEW nif \in NetmapIf, NEW ok \in BOOLEAN,
             ok => nif.at = Place /\ Registers(nif.link), ~ ok => nifp # None /\ nif = nifp,
             Attach(nif, ok), Named # {}, UNCHANGED <<pc, end, options, kernel, todo, dumped>>
      PROVE  IInv'
  BY Zenon, <1>1, <1>3, <1>4, AttachStep
<1>5. CASE rings = <<>> /\ End("abort")
  BY Zenon, <1>2, <1>5
<1>6. CASE \E l \in links :
             /\ Registers(l)
             /\ IF l.numRings # numWorkers \/ Named = {} THEN End("fatal")
                ELSE /\ Attach([link |-> l, at |-> Place], TRUE)
                     /\ UNCHANGED <<pc, end, options, kernel, todo, dumped>>
  <2>1. PICK l \in links :
             /\ Registers(l)
             /\ IF l.numRings # numWorkers \/ Named = {} THEN End("fatal")
                ELSE /\ Attach([link |-> l, at |-> Place], TRUE)
                     /\ UNCHANGED <<pc, end, options, kernel, todo, dumped>>
    BY Zenon, <1>6
  <2>2. Place \in Nat
    BY <1>1 DEF Place
  <2>3. PICK nif : nif = [link |-> l, at |-> Place]
    BY Zenon
  <2>4. l \in Links
    BY Zenon, <1>1
  <2>5. nif \in NetmapIf /\ nif.link = l /\ nif.at = Place
    <3>1. nif.link = l /\ nif.at = Place
      BY Zenon, <2>3
    <3>2. nif \in NetmapIf
      BY Zenon, <2>2, <2>3, <2>4 DEF NetmapIf
    <3>. QED  BY Zenon, <3>1, <3>2
  <2>. QED  BY Zenon, <1>2, <1>4, <2>1, <2>3, <2>5
<1>7. CASE /\ nifp # None
           /\ IF Named = {} THEN End("fatal")
              ELSE /\ Attach(nifp, FALSE)
                   /\ UNCHANGED <<pc, end, options, kernel, todo, dumped>>
  <2>1. PICK nif \in NetmapIf : nif = nifp
    BY Zenon, <1>1, <1>7
  <2>. QED  BY Zenon, <1>2, <1>4, <1>7, <2>1
<1>. QED  BY Zenon, <1>5, <1>6, <1>7 DEF initNetmap

(* main goes on to its loop.                                                *)
LEMMA ReadyStep ==
  ASSUME IInv, Ready
  PROVE  IInv'
<1>1. /\ pc = "netmap" /\ Place > Len(interfacesToUse) /\ pc' = "ready" /\ end' = end
      /\ UNCHANGED <<argv, pos, numWorkers>> /\ UNCHANGED <<links, changes>>
      /\ UNCHANGED <<todo, dumped, ifaces>> /\ UNCHANGED <<nifp, rings, refused, freeBufs>>
  BY Zenon DEF Ready, options, kernel, netmap
<1>2. Len(rings) \in Nat /\ Len(interfacesToUse) \in Nat
  BY Zenon, ToUseFacts, SeqFacts DEF IInv, TypeOK
<1>3. Len(rings) >= Len(interfacesToUse)
  BY <1>1, <1>2 DEF Place
<1>. QED  BY Zenon, <1>1, <1>3, PlaceStep

LEMMA InvInit == Init => IInv
<1>. SUFFICES ASSUME Init PROVE IInv
  BY Zenon
<1>1. DOMAIN ifaces = {} /\ 1 \in Nat /\ changes \in 0 .. MaxChanges
      /\ dumped \in [addr : SUBSET Links, link : SUBSET Links]
      /\ ifaces \in Seq(Interface) /\ rings \in Seq(Links)
      /\ freeBufs \in Seq(Nat \X (1 .. NumExtra))
  <2>1. /\ ifaces = <<>> /\ rings = <<>> /\ freeBufs = <<>>
        /\ changes = 0 /\ dumped = [addr |-> {}, link |-> {}]
    BY Zenon DEF Init
  <2>2. MaxChanges \in Nat
    BY Zenon, StartUpAssumption
  <2>3. DOMAIN ifaces = {} /\ 1 \in Nat /\ changes \in 0 .. MaxChanges
    BY <2>1, <2>2
  <2>4. dumped \in [addr : SUBSET Links, link : SUBSET Links]
    BY <2>1
  <2>5. \A S : <<>> \in Seq(S)
    OBVIOUS
  <2>. QED  BY Zenon, <2>1, <2>3, <2>4, <2>5
<1>2. pos \in 1 .. Len(argv) + 1
  <2>1. argv \in Seq(STRING)
    BY Zenon, StartUpAssumption DEF Init
  <2>2. Len(argv) \in Nat /\ pos = 1
    BY Zenon, <2>1, SeqFacts DEF Init
  <2>. QED  BY <2>2
<1>3. TypeOK
  BY Zenon, <1>1, <1>2, StartUpAssumption DEF Init, TypeOK
<1>4. NoNumbers
  BY Zenon, <1>1 DEF NoNumbers
<1>5. Attached
  BY Zenon, <1>3, <1>4, NothingAttached DEF Init
<1>6. Dumping /\ Unnumbered /\ Ended /\ CrashOnlyFor
  BY Zenon, <1>4 DEF Init, Dumping, Unnumbered, Ended, CrashOnlyFor
<1>. QED  BY Zenon, <1>3, <1>5, <1>6 DEF IInv

LEMMA InvNext == IInv /\ [Next]_vars => IInv'
<1>1. CASE UNCHANGED vars /\ IInv
  <2>1. /\ pc' = pc /\ end' = end /\ UNCHANGED <<argv, pos, numWorkers>>
        /\ UNCHANGED <<links, changes>> /\ UNCHANGED <<todo, dumped, ifaces>>
        /\ UNCHANGED <<nifp, rings, refused, freeBufs>>
    BY Zenon, <1>1 DEF vars, options, kernel, netmap
  <2>2. TypeOK'
    BY Zenon, <1>1, <2>1 DEF IInv, TypeOK
  <2>3. Dumping' /\ Attached'
    BY Zenon, <1>1, <2>1, DumpKept, AttachedKept DEF IInv
  <2>4. Unnumbered' /\ Ended' /\ CrashOnlyFor'
    BY Zenon, <1>1, <2>1 DEF IInv, Unnumbered, NoNumbers, Ended, CrashOnlyFor, interfacesToUse
  <2>. QED  BY Zenon, <2>2, <2>3, <2>4 DEF IInv
<1>2. CASE Next /\ IInv
  BY Zenon, <1>2, KernelStep, EarlyEnds, OptionStep, AddrsRequested, AddrMessage, LinksRequest,
     LinkMessage, DumpsDone, Sorting, RoutesStep, NetmapStep, ReadyStep DEF Next
<1>. QED  BY Zenon, <1>1, <1>2

LEMMA Inv == Spec => []IInv
BY InvInit, InvNext, PTL DEF Spec
-----------------------------------------------------------------------------
(* For every set of links and command lines, and any number of changes: the *)
(* values main, the netlink callbacks and initNetmap leave in the Manager's *)
(* fields are of their types.                                               *)
THEOREM TypeCorrect == Spec => []TypeOK
<1>1. IInv => TypeOK
  BY Zenon DEF IInv
<1>. QED  BY Inv, <1>1, PTL

(* After the two dumps of Netlink::getAllInterfaces (netlink.cpp:12-134)    *)
(* there is one Interface for each link that was in one of them, with its   *)
(* addresses in order and its own name, whatever came or went in between.   *)
THEOREM InterfacesFaithful == Spec => []DumpFaithful
BY Inv, FaithfulFollows, PTL

(* A null pointer is followed only for a link that came up after the link   *)
(* dump (linuxTable.cpp:160) or without an interface on the command line    *)
(* (main.cpp:38-40).                                                        *)
THEOREM CrashesExplained == Spec => []CrashOnlyFor
<1>1. IInv => CrashOnlyFor
  BY Zenon DEF IInv
<1>. QED  BY Inv, <1>1, PTL

(* For every command line, also one that names an interface twice, and      *)
(* whatever netmap refuses: initNetmap (manager.cpp:68-100) gives number    *)
(* k - 1 to the rings of the k-th interface, or of the one before if it was *)
(* refused, and to the Interface of that name unless a later place with the *)
(* same name takes it away.                                                 *)
THEOREM NumbersAgree == Spec => []NumbersMatch
BY Inv, NumbersFollow, PTL

(* Without a refusal, initNetmap puts no extra buffer into freeBufs twice,  *)
(* even for an interface that is registered twice.                          *)
THEOREM BuffersDistinct == Spec => []BuffersOnce
BY Inv, BuffersFollow, PTL
=============================================================================
