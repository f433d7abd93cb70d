--------------------------- MODULE RoutingProofs ---------------------------
(***************************************************************************)
(* Theorems about RoutingTable.  What the loops of the code compute is     *)
(* shown by an inductive invariant; what the lookups compute, which are    *)
(* functions of the table, by induction over the prefix length, from the   *)
(* fact that every non-empty set of naturals has a least element.          *)
(***************************************************************************)
EXTENDS RoutingTable, FiniteSetTheorems, WellFoundedInduction, TLAPS

-----------------------------------------------------------------------------
(* Numbers, bits and prefixes.                                              *)

(* Every non-empty set of naturals has a least element.                     *)
LEMMA LeastElement ==
  ASSUME NEW T \in SUBSET Nat, T # {}
  PROVE  \E x \in T : \A y \in T : x <= y
<1>1. PICK R : R = OpToRel(<, Nat)
  OBVIOUS
<1>2. IsWellFoundedOn(R, Nat)
  BY NatLessThanWellFounded, <1>1
<1>3. \A x, y \in Nat : <<x, y>> \in R <=> x < y
  BY <1>1 DEF OpToRel
<1>4. PICK x \in T : \A y \in T : ~ (<<y, x>> \in R)
  BY Zenon, <1>2, WFMin
<1>5. ASSUME NEW y \in T PROVE x <= y
  <2>1. x \in Nat /\ y \in Nat
    BY Zenon
  <2>2. ~ (y < x)
    BY Zenon, <1>3, <1>4, <2>1
  <2>. QED  BY <2>1, <2>2
<1>. QED  BY Zenon, <1>5

(* Induction over 0 .. m, as a property of a set.                           *)
LEMMA UpTo ==
  ASSUME NEW m \in Nat, NEW S, 0 \in S,
         \A n \in 0 .. m : n \in S /\ n < m => n + 1 \in S
  PROVE  \A n \in 0 .. m : n \in S
<1>. DEFINE T == {n \in 0 .. m : n \notin S}
<1>1. SUFFICES ASSUME T # {} PROVE FALSE
  OBVIOUS
<1>2. T \in SUBSET Nat
  OBVIOUS
<1>3. PICK x \in T : \A y \in T : x <= y
  BY Zenon, <1>1, <1>2, LeastElement
<1>4. x \in 0 .. m /\ x \notin S /\ x # 0
  BY <1>3
<1>5. x - 1 \in 0 .. m /\ x - 1 < m /\ x - 1 + 1 = x /\ ~ (x <= x - 1)
  BY <1>4
<1>6. x - 1 \in S
  BY Zenon, <1>3, <1>5
<1>. QED  BY Zenon, <1>4, <1>5, <1>6

(* Min and Max of a non-empty set of naturals up to m.                      *)
LEMMA MinFacts ==
  ASSUME NEW m \in Nat, NEW T \in SUBSET (0 .. m), T # {}
  PROVE  Min(T) \in T /\ \A y \in T : Min(T) <= y
<1>1. \E x \in T : \A y \in T : x <= y
  BY LeastElement
<1>. QED  BY Zenon, <1>1 DEF Min

LEMMA MaxFacts ==
  ASSUME NEW m \in Nat, NEW T \in SUBSET (0 .. m), T # {}
  PROVE  Max(T) \in T /\ \A y \in T : y <= Max(T)
<1>. DEFINE U == {n \in 0 .. m : \A y \in T : y <= n}
<1>1. m \in U /\ U \in SUBSET Nat
  OBVIOUS
<1>2. PICK u \in U : \A y \in U : u <= y
  BY Zenon, <1>1, LeastElement
<1>3. u \in T
  <2>1. SUFFICES ASSUME u \notin T PROVE FALSE
    OBVIOUS
  <2>2. u \in 0 .. m /\ \A y \in T : y <= u /\ y # u /\ y \in 0 .. m
    BY <1>2, <2>1
  <2>3. \A y \in T : y <= u - 1
    BY <2>2
  <2>4. u - 1 \in 0 .. m
    <3>1. PICK y \in T : TRUE
      BY Zenon
    <3>2. y \in 0 .. m /\ y <= u - 1 /\ u \in 0 .. m
      BY Zenon, <2>2, <2>3
    <3>. QED  BY <3>2
  <2>5. u - 1 \in U
    BY Zenon, <2>3, <2>4
  <2>. QED  BY <1>2, <2>2, <2>5
<1>4. \E x \in T : \A y \in T : x >= y
  BY <1>2, <1>3
<1>5. Max(T) \in T /\ \A y \in T : Max(T) >= y
  BY Zenon, <1>4 DEF Max
<1>. QED  BY <1>5

(* A base as a sequence of bits.                                            *)
LEMMA BaseFacts ==
  ASSUME NEW n \in Nat, NEW b \in [1 .. n -> Bits]
  PROVE  b \in Seq(Bits) /\ Len(b) = n
OBVIOUS

LEMMA SeqIsFunction ==
  ASSUME NEW S, NEW s \in Seq(S)
  PROVE  s \in [1 .. Len(s) -> S] /\ Len(s) \in Nat
OBVIOUS

LEMMA FunctionIsSeq ==
  ASSUME NEW S, NEW n \in Nat, NEW s \in [1 .. n -> S]
  PROVE  s \in Seq(S) /\ Len(s) = n
OBVIOUS

LEMMA FirstBits ==
  ASSUME NEW m \in Nat, NEW n \in 0 .. m, NEW b \in [1 .. m -> Bits]
  PROVE  SubSeq(b, 1, n) \in [1 .. n -> Bits] /\ \A j \in 1 .. n : SubSeq(b, 1, n)[j] = b[j]
<1>1. b \in Seq(Bits) /\ Len(b) = m
  BY BaseFacts
<1>2. /\ SubSeq(b, 1, n) \in Seq(Bits) /\ Len(SubSeq(b, 1, n)) = n
      /\ \A j \in 1 .. n : SubSeq(b, 1, n)[j] = b[j]
  BY <1>1
<1>. QED  BY Zenon, <1>2, SeqIsFunction

LEMMA SizeFacts == W \in Nat /\ W > 1 /\ 0 \in 0 .. W
  BY RoutesAssumption

LEMMA CutFacts ==
  ASSUME NEW a \in Addrs, NEW n \in 0 .. W
  PROVE  SubSeq(a, 1, n) \in [1 .. n -> Bits] /\ \A j \in 1 .. n : SubSeq(a, 1, n)[j] = a[j]
BY Zenon, SizeFacts, FirstBits DEF Addrs

(* A prefix of length n is the first n bits.                                *)
LEMMA PrefixFacts ==
  ASSUME NEW a \in Addrs, NEW n \in 0 .. W, NEW b \in [1 .. n -> Bits]
  PROVE  /\ IsPrefix(b, a) <=> b = SubSeq(a, 1, n)
         /\ IsPrefix(b, a) <=> \A j \in 1 .. n : b[j] = a[j]
<1>1. a \in Seq(Bits) /\ Len(a) = W /\ b \in Seq(Bits) /\ Len(b) = n /\ n <= W
  BY SizeFacts, BaseFacts DEF Addrs
<1>2. IsPrefix(b, a) <=> b = SubSeq(a, 1, n)
  BY Zenon, <1>1 DEF IsPrefix
<1>3. b = SubSeq(a, 1, n) <=> \A j \in 1 .. n : b[j] = a[j]
  <2>1. SubSeq(a, 1, n) \in [1 .. n -> Bits] /\ \A j \in 1 .. n : SubSeq(a, 1, n)[j] = a[j]
    BY Zenon, CutFacts
  <2>. QED  BY <2>1
<1>. QED  BY Zenon, <1>2, <1>3

(* The parent of a base.                                                    *)
LEMMA FrontFacts ==
  ASSUME NEW n \in 1 .. W, NEW b \in [1 .. n -> Bits]
  PROVE  Front(b) \in [1 .. n - 1 -> Bits] /\ \A j \in 1 .. n - 1 : Front(b)[j] = b[j]
<1>1. Len(b) = n /\ n \in Nat /\ n - 1 \in 0 .. n
  BY SizeFacts, BaseFacts
<1>. QED  BY Zenon, <1>1, FirstBits DEF Front

(* The addresses below two siblings are those below their parent.           *)
LEMMA SiblingBits ==
  ASSUME NEW n \in 1 .. W, NEW b \in [1 .. n -> Bits], NEW c \in [1 .. n -> Bits],
         Front(b) = Front(c), b # c, NEW a \in Addrs
  PROVE  IsPrefix(Front(b), a) <=> IsPrefix(b, a) \/ IsPrefix(c, a)
<1>1. /\ Front(b) \in [1 .. n - 1 -> Bits]
      /\ \A j \in 1 .. n - 1 : Front(b)[j] = b[j] /\ Front(b)[j] = c[j]
  BY Zenon, FrontFacts
<1>2. /\ IsPrefix(b, a) <=> \A j \in 1 .. n : b[j] = a[j]
      /\ IsPrefix(c, a) <=> \A j \in 1 .. n : c[j] = a[j]
  BY SizeFacts, PrefixFacts
<1>3. IsPrefix(Front(b), a) <=> \A j \in 1 .. n - 1 : Front(b)[j] = a[j]
  BY <1>1, SizeFacts, PrefixFacts
<1>4. b[n] # c[n]
  BY <1>1
<1>5. a[n] \in Bits /\ b[n] \in Bits /\ c[n] \in Bits
  BY SizeFacts DEF Addrs
<1>6. a[n] = b[n] \/ a[n] = c[n]
  BY <1>4, <1>5 DEF Bits
<1>. QED  BY <1>1, <1>2, <1>3, <1>6

-----------------------------------------------------------------------------
(* Tables of routes.                                                        *)

LEMMA PrefixLen ==
  ASSUME NEW b \in Prefix
  PROVE  Len(b) \in 0 .. W /\ b \in [1 .. Len(b) -> Bits]
<1>1. PICK n \in 0 .. W : b \in [1 .. n -> Bits]
  BY Zenon DEF Prefix
<1>2. n \in Nat
  BY SizeFacts
<1>. QED  BY Zenon, <1>1, <1>2, BaseFacts

LEMMA PrefixOf ==
  ASSUME NEW n \in 0 .. W, NEW b \in [1 .. n -> Bits]
  PROVE  b \in Prefix /\ Len(b) = n
<1>1. n \in Nat
  BY SizeFacts
<1>. QED  BY Zenon, <1>1, BaseFacts DEF Prefix

LEMMA NhFacts ==
  /\ NH_INVALID \in NhIndex /\ 0 \in NhIndex
  /\ \A x : x \in NhIndex <=> x \in Nat /\ x <= 65535
<1>1. NH_INVALID = 65535 /\ NH_INVALID \in Nat
  BY DEF NH_INVALID
<1>2. NH_INVALID \in Nat
  BY <1>1
<1>3. \A x : x \in NhIndex <=> x \in Nat /\ x <= NH_INVALID
  BY <1>2 DEF NhIndex
<1>. QED  BY <1>1, <1>3

LEMMA RouteFields ==
  ASSUME NEW r \in Route
  PROVE  /\ r.base \in Prefix /\ r.next_hop \in Gateways \cup {None}
         /\ r.interface \in Interfaces /\ r.index \in NhIndex
BY DEF Route

(* Two routes that lead to the same place.                                  *)
SameHop(r, q) == r.next_hop = q.next_hop /\ r.interface = q.interface

LEMMA WithIndex ==
  ASSUME NEW r \in Route, NEW x \in NhIndex
  PROVE  /\ [r EXCEPT !.index = x] \in Route /\ [r EXCEPT !.index = x].index = x
         /\ [r EXCEPT !.index = x].base = r.base
         /\ SameHop([r EXCEPT !.index = x], r)
BY DEF Route, SameHop

LEMMA WithBase ==
  ASSUME NEW r \in Route, NEW b \in Prefix
  PROVE  /\ [r EXCEPT !.base = b] \in Route /\ [r EXCEPT !.base = b].base = b
         /\ SameHop([r EXCEPT !.base = b], r)
BY DEF Route, SameHop

(* The lists of a table hold routes of their own length.                    *)
Table(t) == /\ t \in [0 .. W -> Seq(Route)]
            /\ \A n \in 0 .. W : \A k \in 1 .. Len(t[n]) : Len(t[n][k].base) = n

LEMMA RouteFacts ==
  ASSUME NEW t \in [0 .. W -> Seq(Route)]
  PROVE  \A r : r \in AllRoutes(t) <=> \E n \in 0 .. W : \E k \in 1 .. Len(t[n]) : r = t[n][k]
<1>1. \A r : r \in AllRoutes(t) <=> \E n \in 0 .. W : r \in Range(t[n])
  BY Zenon DEF AllRoutes
<1>2. \A n \in 0 .. W : DOMAIN t[n] = 1 .. Len(t[n])
  BY SeqIsFunction
<1>3. \A n \in 0 .. W : \A r : r \in Range(t[n]) <=> \E k \in 1 .. Len(t[n]) : r = t[n][k]
  BY Zenon, <1>2 DEF Range
<1>. QED  BY <1>1, <1>3

LEMMA TableFacts ==
  ASSUME NEW t, Table(t), NEW n \in 0 .. W, NEW k \in 1 .. Len(t[n])
  PROVE  /\ t[n] \in Seq(Route) /\ Len(t[n]) \in Nat
         /\ t[n][k] \in Route /\ t[n][k] \in AllRoutes(t)
         /\ t[n][k].base \in [1 .. n -> Bits] /\ Len(t[n][k].base) = n
<1>1. t[n] \in Seq(Route) /\ Len(t[n][k].base) = n
  BY Zenon DEF Table
<1>2. Len(t[n]) \in Nat /\ t[n][k] \in Route
  BY <1>1
<1>3. t[n][k].base \in [1 .. n -> Bits]
  BY Zenon, <1>1, <1>2, RouteFields, PrefixLen
<1>4. t[n][k] \in AllRoutes(t)
  BY Zenon, RouteFacts DEF Table
<1>. QED  BY Zenon, <1>1, <1>2, <1>3, <1>4

LEMMA RouteAt ==
  ASSUME NEW t, Table(t), NEW r \in AllRoutes(t)
  PROVE  \E n \in 0 .. W : \E k \in 1 .. Len(t[n]) : r = t[n][k]
<1>1. t \in [0 .. W -> Seq(Route)]
  BY Zenon DEF Table
<1>2. \A q : q \in AllRoutes(t) <=> \E n \in 0 .. W : \E k \in 1 .. Len(t[n]) : q = t[n][k]
  BY Zenon, <1>1, RouteFacts
<1>. QED  BY Zenon, <1>2

LEMMA RouteIn ==
  ASSUME NEW t, Table(t), NEW n \in 0 .. W, NEW k \in 1 .. Len(t[n])
  PROVE  t[n][k] \in AllRoutes(t)
BY Zenon, TableFacts

(* One list of a table replaced.                                            *)
Put(t, n, s) == [t EXCEPT ![n] = s]

LEMMA TableUpdate ==
  ASSUME NEW t, Table(t), NEW n \in 0 .. W, NEW s \in Seq(Route),
         \A k \in 1 .. Len(s) : Len(s[k].base) = n
  PROVE  /\ Table(Put(t, n, s)) /\ Put(t, n, s)[n] = s
         /\ \A m \in 0 .. W : m # n => Put(t, n, s)[m] = t[m]
<1>1. t \in [0 .. W -> Seq(Route)]
  BY Zenon DEF Table
<1>2. /\ Put(t, n, s) \in [0 .. W -> Seq(Route)] /\ Put(t, n, s)[n] = s
      /\ \A m \in 0 .. W : m # n => Put(t, n, s)[m] = t[m]
  BY Zenon, <1>1 DEF Put
<1>. QED  BY Zenon, <1>2 DEF Table

LEMMA TypeTable == TypeOK => Table(entries) /\ rib \in [0 .. W -> Seq(Route)]
BY Zenon DEF TypeOK, Table

-----------------------------------------------------------------------------
(* The inductive invariant.                                                 *)

(* A route can be used when it has a gateway or an interface with a number. *)
CanUse(r)  == r.next_hop # None \/ r.interface \in Range(ToUse)
Fits(r, a) == CanUse(r) /\ IsPrefix(r.base, a)

Best(routes, a) ==
  {r \in routes : Fits(r, a) /\ \A q \in routes : Fits(q, a) => Len(q.base) <= Len(r.base)}

(* The addresses below a prefix that aggregate() made a second time.        *)
Hidden(c, a) == \E p \in c : IsPrefix(p, a)

(* Every best route for a still leads where a best one of the kernel does.  *)
Kept(routes, kernel, a) ==
  /\ \A e \in Best(routes, a) : \E r \in Best(kernel, a) : SameHop(e, r)
  /\ \A r \in kernel : Fits(r, a) => \E e \in routes : Fits(e, a)

(* Every route that covers a leads where a route of the kernel does that    *)
(* covers it, too.                                                          *)
Covered(routes, kernel, a) ==
  \A e \in routes : IsPrefix(e.base, a) => \E r \in kernel : IsPrefix(r.base, a) /\ SameHop(e, r)

(* Two routes of one prefix meet only where aggregate() has made them.      *)
Apart(t, c) ==
  \A n \in 0 .. W : \A j, k \in 1 .. Len(t[n]) :
    j # k /\ t[n][j].base = t[n][k].base => t[n][j].base \in c

(* The table t stands for the table k of the kernel but below c.            *)
StandsFor(t, k, c) ==
  /\ \A e \in AllRoutes(t) : \E r \in AllRoutes(k) : SameHop(e, r)
  /\ NoDuplicates(k) => Apart(t, c)
  /\ \A a \in Addrs : Hidden(c, a) \/ Kept(AllRoutes(t), AllRoutes(k), a)
  /\ \A a \in Addrs : Covered(AllRoutes(t), AllRoutes(k), a)

(* The list m of gateways: each is there once, with its place as its index  *)
(* and the interface of one of the routes K through it.                     *)
Mapped(m, K) ==
  /\ \A k \in 1 .. Len(m) :
       /\ m[k].index = k - 1 /\ k - 1 # NH_INVALID
       /\ \E r \in K : r.next_hop = m[k].nh_ip /\ r.interface = m[k].interface
  /\ \A j, k \in 1 .. Len(m) : m[j].nh_ip = m[k].nh_ip => j = k

(* The gateway of a route is listed; its index is up to date.               *)
Known(r, m) == r.next_hop # None => \E k \in 1 .. Len(m) : m[k].nh_ip = r.next_hop

HasIndex(r, m, number) ==
  IF r.next_hop = None THEN r.index = DirectIndex(number[r.interface])
  ELSE \E k \in 1 .. Len(m) : m[k].nh_ip = r.next_hop /\ r.index = k - 1

(* The routes that a pass has visited on its way to route p of list n.      *)
Visited(t, n, p, m, number) ==
  \A q \in 0 .. W : \A k \in 1 .. Len(t[q]) :
    q < n \/ (q = n /\ k < p) => HasIndex(t[q][k], m, number)

(* What holds where initNetmap is.                                          *)
Progress ==
  /\ pc \in {"dump", "sort", "merge"} => nextHopMapping = <<>>
  /\ pc = "sort" => len \in 0 .. W - 2
  /\ pc = "merge" => len \in 1 .. W - 2 /\ i >= 1
  /\ pc \in {"index", "reindex"} =>
       i >= 1 /\ Visited(entries, len, i, nextHopMapping, netmapIndex)
  /\ pc = "index" => next_index = Len(nextHopMapping)
  /\ pc \in {"netmap", "reindex", "table", "ready"} =>
       \A e \in AllRoutes(entries) : Known(e, nextHopMapping)
  /\ pc \in {"netmap", "table", "ready"} =>
       \A e \in AllRoutes(entries) : HasIndex(e, nextHopMapping, netmapIndex)
  /\ netmapIndex = IF pc \in {"reindex", "table", "ready"} THEN NumberOf
                   ELSE [f \in Interfaces |-> None]
  /\ pc = "ready" => nextHops = [k \in 1 .. Len(nextHopMapping) |->
                                  Uint16(netmapIndex[nextHopMapping[k].interface])]

Aggregated == pc # "dump" => StandsFor(entries, rib, clash)

IInv == TypeOK /\ Mapped(nextHopMapping, AllRoutes(rib)) /\ Progress /\ Aggregated

-----------------------------------------------------------------------------
(* What the actions do to the table.                                        *)

LEMMA AppendFacts ==
  ASSUME NEW S, NEW s \in Seq(S), NEW e \in S
  PROVE  /\ Append(s, e) \in Seq(S) /\ Len(Append(s, e)) = Len(s) + 1
         /\ \A k \in 1 .. Len(s) : Append(s, e)[k] = s[k]
         /\ Append(s, e)[Len(s) + 1] = e
OBVIOUS

LEMMA ConcatFacts ==
  ASSUME NEW S, NEW u \in Seq(S), NEW v \in Seq(S)
  PROVE  /\ u \o v \in Seq(S) /\ Len(u \o v) = Len(u) + Len(v)
         /\ \A n \in 1 .. Len(u) + Len(v) :
              (u \o v)[n] = IF n <= Len(u) THEN u[n] ELSE v[n - Len(u)]
OBVIOUS

(* vector::erase of two neighbours.                                         *)
CutTwo(s, k) == SubSeq(s, 1, k - 1) \o SubSeq(s, k + 2, Len(s))
Moved(k, n)  == IF n < k THEN n ELSE n + 2

LEMMA CutFacts2 ==
  ASSUME NEW S, NEW s \in Seq(S), NEW k \in 1 .. Len(s) - 1
  PROVE  /\ CutTwo(s, k) \in Seq(S) /\ Len(CutTwo(s, k)) = Len(s) - 2
         /\ \A n \in 1 .. Len(s) - 2 : /\ Moved(k, n) \in 1 .. Len(s)
                                       /\ CutTwo(s, k)[n] = s[Moved(k, n)]
<1>. DEFINE u == SubSeq(s, 1, k - 1)
            v == SubSeq(s, k + 2, Len(s))
<1>1. Len(s) \in Nat /\ k \in Nat /\ k < Len(s)
  OBVIOUS
<1>2. u \in Seq(S) /\ Len(u) = k - 1 /\ \A n \in 1 .. k - 1 : u[n] = s[n]
  BY <1>1
<1>3. v \in Seq(S) /\ Len(v) = Len(s) - k - 1 /\ \A n \in 1 .. Len(s) - k - 1 : v[n] = s[k + 1 + n]
  BY <1>1
<1>4. CutTwo(s, k) = u \o v
  BY Zenon DEF CutTwo
<1>. HIDE DEF u, v
<1>5. /\ u \o v \in Seq(S) /\ Len(u \o v) = Len(u) + Len(v)
      /\ \A n \in 1 .. Len(u) + Len(v) : (u \o v)[n] = IF n <= Len(u) THEN u[n] ELSE v[n - Len(u)]
  BY Zenon, <1>2, <1>3, ConcatFacts
<1>6. ASSUME NEW n \in 1 .. Len(s) - 2
      PROVE  Moved(k, n) \in 1 .. Len(s) /\ (u \o v)[n] = s[Moved(k, n)]
  <2>1. n \in 1 .. Len(u) + Len(v) /\ Len(u) = k - 1
    BY <1>1, <1>2, <1>3
  <2>2. CASE n < k
    <3>1. n <= Len(u) /\ n \in 1 .. k - 1 /\ n \in 1 .. Len(s)
      BY <1>1, <2>1, <2>2
    <3>. QED  BY Zenon, <1>2, <1>5, <2>1, <2>2, <3>1 DEF Moved
  <2>3. CASE ~ (n < k)
    <3>1. /\ ~ (n <= Len(u)) /\ n - Len(u) \in 1 .. Len(s) - k - 1 /\ n + 2 \in 1 .. Len(s)
          /\ k + 1 + (n - Len(u)) = n + 2
      BY <1>1, <2>1, <2>3
    <3>2. v[n - Len(u)] = s[n + 2]
      BY Zenon, <1>3, <3>1
    <3>. QED  BY Zenon, <1>5, <2>1, <2>3, <3>1, <3>2 DEF Moved
  <2>. QED  BY Zenon, <2>2, <2>3
<1>7. Len(u \o v) = Len(s) - 2
  BY <1>1, <1>2, <1>3, <1>5
<1>. QED  BY Zenon, <1>4, <1>5, <1>6, <1>7

(* sort() permutes one list.                                                *)
LEMMA PermutedFacts ==
  ASSUME NEW t, Table(t), NEW n \in 0 .. W, NEW f \in SortOrders(t[n]), NEW u,
         u = Put(t, n, [k \in DOMAIN f |-> t[n][f[k]]])
  PROVE  /\ Table(u) /\ AllRoutes(u) = AllRoutes(t)
         /\ \A c : Apart(t, c) => Apart(u, c)
<1>1. PICK s : s = t[n]
  BY Zenon
<1>2. s \in Seq(Route) /\ Len(s) \in Nat /\ \A k \in 1 .. Len(s) : s[k] \in Route /\ Len(s[k].base) = n
  BY <1>1, TableFacts DEF Table
<1>3. f \in Injection(1 .. Len(s), 1 .. Len(s)) /\ f \in Surjection(1 .. Len(s), 1 .. Len(s))
  BY Zenon, <1>1 DEF SortOrders, Bijection
<1>4. f \in [1 .. Len(s) -> 1 .. Len(s)] /\ IsInjective(f)
  BY Zenon, <1>3 DEF Injection
<1>5. \A j, k \in 1 .. Len(s) : f[j] = f[k] => j = k
  BY <1>4 DEF IsInjective
<1>6. \A k \in 1 .. Len(s) : \E j \in 1 .. Len(s) : f[j] = k
  BY Zenon, <1>3 DEF Surjection
<1>7. PICK v : v = [k \in DOMAIN f |-> s[f[k]]]
  BY Zenon
<1>8. v \in Seq(Route) /\ Len(v) = Len(s) /\ \A k \in 1 .. Len(s) : v[k] = s[f[k]]
  <2>1. v \in [1 .. Len(s) -> Route] /\ \A k \in 1 .. Len(s) : v[k] = s[f[k]]
    BY Zenon, <1>2, <1>4, <1>7
  <2>. QED  BY Zenon, <1>2, <2>1, FunctionIsSeq
<1>9. ASSUME NEW k \in 1 .. Len(v) PROVE Len(v[k].base) = n
  <2>1. k \in 1 .. Len(s) /\ f[k] \in 1 .. Len(s) /\ v[k] = s[f[k]]
    BY Zenon, <1>4, <1>8
  <2>. QED  BY Zenon, <1>2, <2>1
<1>10. u = Put(t, n, v)
  BY Zenon, <1>1, <1>7
<1>11. Table(u) /\ u[n] = v /\ \A m \in 0 .. W : m # n => u[m] = t[m]
  <2>1. \A k \in 1 .. Len(v) : Len(v[k].base) = n
    BY Zenon, <1>9
  <2>2. /\ Table(Put(t, n, v)) /\ Put(t, n, v)[n] = v
        /\ \A m \in 0 .. W : m # n => Put(t, n, v)[m] = t[m]
    BY <1>8, <2>1, TableUpdate
  <2>. QED  BY Zenon, <1>10, <2>2
<1>12. ASSUME NEW r \in AllRoutes(u) PROVE r \in AllRoutes(t)
  <2>. Table(u)
    BY Zenon, <1>11
  <2>0. PICK m \in 0 .. W : \E k \in 1 .. Len(u[m]) : r = u[m][k]
    BY Zenon, RouteAt
  <2>1. PICK k \in 1 .. Len(u[m]) : r = u[m][k]
    BY Zenon, <2>0
  <2>2. CASE m # n
    BY Zenon, <1>11, <2>1, <2>2, RouteIn
  <2>3. CASE m = n
    <3>1. k \in 1 .. Len(s) /\ f[k] \in 1 .. Len(s) /\ r = s[f[k]]
      BY Zenon, <1>4, <1>8, <1>11, <2>1, <2>3
    <3>. QED  BY Zenon, <1>1, <3>1, RouteIn
  <2>. QED  BY Zenon, <2>2, <2>3
<1>13. ASSUME NEW r \in AllRoutes(t) PROVE r \in AllRoutes(u)
  <2>0. PICK m \in 0 .. W : \E k \in 1 .. Len(t[m]) : r = t[m][k]
    BY Zenon, RouteAt
  <2>1. PICK k \in 1 .. Len(t[m]) : r = t[m][k]
    BY Zenon, <2>0
  <2>2. CASE m # n
    BY Zenon, <1>11, <2>1, <2>2, RouteIn
  <2>3. CASE m = n
    <3>1. PICK j \in 1 .. Len(s) : f[j] = k
      BY Zenon, <1>1, <1>6, <2>1, <2>3
    <3>2. j \in 1 .. Len(u[n]) /\ r = u[n][j]
      BY Zenon, <1>1, <1>8, <1>11, <2>1, <2>3, <3>1
    <3>. QED  BY Zenon, <1>11, <3>2, RouteIn
  <2>. QED  BY Zenon, <2>2, <2>3
<1>14. ASSUME NEW c, Apart(t, c), NEW m \in 0 .. W, NEW j \in 1 .. Len(u[m]),
              NEW k \in 1 .. Len(u[m]), j # k, u[m][j].base = u[m][k].base
       PROVE  u[m][j].base \in c
  <2>1. CASE m # n
    BY Zenon, <1>11, <1>14, <2>1 DEF Apart
  <2>2. CASE m = n
    <3>1. /\ j \in 1 .. Len(s) /\ k \in 1 .. Len(s)
          /\ f[j] \in 1 .. Len(s) /\ f[k] \in 1 .. Len(s) /\ f[j] # f[k]
          /\ u[m][j] = s[f[j]] /\ u[m][k] = s[f[k]]
      BY Zenon, <1>4, <1>5, <1>8, <1>11, <1>14, <2>2
    <3>. QED  BY Zenon, <1>1, <1>14, <3>1 DEF Apart
  <2>. QED  BY Zenon, <2>1, <2>2
<1>15. AllRoutes(u) = AllRoutes(t)
  BY <1>12, <1>13
<1>. QED  BY Zenon, <1>11, <1>14, <1>15 DEF Apart

(* Only bases, gateways and interfaces of the routes count.                 *)
Like(R, Q) == \A e \in R : \E d \in Q : e.base = d.base /\ SameHop(e, d)

LEMMA LikeFits ==
  ASSUME NEW e, NEW d, e.base = d.base, SameHop(e, d), NEW a
  PROVE  Fits(e, a) <=> Fits(d, a)
BY Zenon DEF Fits, CanUse, SameHop

LEMMA LikeKept ==
  ASSUME NEW R, NEW Q, Like(R, Q), Like(Q, R), NEW K, NEW a, Kept(Q, K, a)
  PROVE  Kept(R, K, a)
<1>1. ASSUME NEW e \in Best(R, a) PROVE \E r \in Best(K, a) : SameHop(e, r)
  <2>1. e \in R /\ Fits(e, a) /\ \A q \in R : Fits(q, a) => Len(q.base) <= Len(e.base)
    BY Zenon DEF Best
  <2>2. PICK d \in Q : e.base = d.base /\ SameHop(e, d)
    BY Zenon, <2>1 DEF Like
  <2>3. ASSUME NEW q \in Q, Fits(q, a) PROVE Len(q.base) <= Len(d.base)
    <3>1. PICK p \in R : q.base = p.base /\ SameHop(q, p)
      BY Zenon DEF Like
    <3>2. Fits(p, a)
      BY Zenon, <2>3, <3>1, LikeFits
    <3>. QED  BY Zenon, <2>1, <2>2, <3>1, <3>2
  <2>4. Fits(d, a)
    BY Zenon, <2>1, <2>2, LikeFits
  <2>5. d \in Best(Q, a)
    BY Zenon, <2>3, <2>4 DEF Best
  <2>6. PICK r \in Best(K, a) : SameHop(d, r)
    BY Zenon, <2>5 DEF Kept
  <2>. QED  BY Zenon, <2>2, <2>6 DEF SameHop
<1>2. ASSUME NEW r \in K, Fits(r, a) PROVE \E e \in R : Fits(e, a)
  <2>1. PICK d \in Q : Fits(d, a)
    BY Zenon, <1>2 DEF Kept
  <2>2. PICK e \in R : d.base = e.base /\ SameHop(d, e)
    BY Zenon DEF Like
  <2>. QED  BY Zenon, <2>1, <2>2, LikeFits
<1>. QED  BY Zenon, <1>1, <1>2 DEF Kept

(* The index of one route set.                                              *)
Indexed(t, n, k, x) == Put(t, n, [t[n] EXCEPT ![k] = [t[n][k] EXCEPT !.index = x]])

(* The table u is t with index x in route k of list n.                      *)
OneChanged(u, t, n, k, x) ==
  /\ Table(u)
  /\ \A m \in 0 .. W : Len(u[m]) = Len(t[m])
  /\ \A m \in 0 .. W : \A j \in 1 .. Len(t[m]) :
       /\ u[m][j].base = t[m][j].base /\ SameHop(u[m][j], t[m][j])
       /\ ~ (m = n /\ j = k) => u[m][j] = t[m][j]
  /\ u[n][k].index = x

LEMMA IndexedFacts ==
  ASSUME NEW t, Table(t), NEW n \in 0 .. W, NEW k \in 1 .. Len(t[n]), NEW x \in NhIndex,
         NEW u, u = Indexed(t, n, k, x)
  PROVE  OneChanged(u, t, n, k, x)
<1>1. PICK r : r = [t[n][k] EXCEPT !.index = x]
  BY Zenon
<1>2. t[n][k] \in Route /\ t[n] \in Seq(Route) /\ Len(t[n]) \in Nat /\ Len(t[n][k].base) = n
  BY Zenon, TableFacts
<1>3. r \in Route /\ r.index = x /\ r.base = t[n][k].base /\ SameHop(r, t[n][k])
  BY Zenon, <1>1, <1>2, WithIndex
<1>4. PICK s : s = [t[n] EXCEPT ![k] = r]
  BY Zenon
<1>5. t[n] \in [1 .. Len(t[n]) -> Route]
  BY Zenon, <1>2, SeqIsFunction
<1>6. /\ s \in [1 .. Len(t[n]) -> Route] /\ s[k] = r
      /\ \A j \in 1 .. Len(t[n]) : j # k => s[j] = t[n][j]
  BY Zenon, <1>3, <1>4, <1>5
<1>7. s \in Seq(Route) /\ Len(s) = Len(t[n])
  BY Zenon, <1>2, <1>6, FunctionIsSeq
<1>8. ASSUME NEW j \in 1 .. Len(s) PROVE Len(s[j].base) = n
  <2>1. j \in 1 .. Len(t[n]) /\ Len(t[n][j].base) = n
    <3>1. j \in 1 .. Len(t[n])
      BY Zenon, <1>7
    <3>. QED  BY Zenon, <3>1 DEF Table
  <2>2. CASE j = k
    BY Zenon, <1>3, <1>6, <2>1, <2>2
  <2>3. CASE j # k
    BY Zenon, <1>6, <2>1, <2>3
  <2>. QED  BY Zenon, <2>2, <2>3
<1>9. u = Put(t, n, s)
  BY Zenon, <1>1, <1>4 DEF Indexed
<1>10. Table(u) /\ u[n] = s /\ \A m \in 0 .. W : m # n => u[m] = t[m]
  <2>1. \A j \in 1 .. Len(s) : Len(s[j].base) = n
    BY Zenon, <1>8
  <2>2. /\ Table(Put(t, n, s)) /\ Put(t, n, s)[n] = s
        /\ \A m \in 0 .. W : m # n => Put(t, n, s)[m] = t[m]
    BY <1>7, <2>1, TableUpdate
  <2>. QED  BY Zenon, <1>9, <2>2
<1>11. ASSUME NEW m \in 0 .. W PROVE Len(u[m]) = Len(t[m])
  BY Zenon, <1>7, <1>10
<1>12. ASSUME NEW m \in 0 .. W, NEW j \in 1 .. Len(t[m])
       PROVE  /\ u[m][j].base = t[m][j].base /\ SameHop(u[m][j], t[m][j])
              /\ ~ (m = n /\ j = k) => u[m][j] = t[m][j]
  <2>1. CASE m = n /\ j = k
    BY Zenon, <1>3, <1>6, <1>10, <2>1
  <2>2. CASE ~ (m = n /\ j = k)
    <3>1. u[m][j] = t[m][j]
      BY Zenon, <1>6, <1>10, <2>2
    <3>. QED  BY Zenon, <3>1 DEF SameHop
  <2>. QED  BY Zenon, <2>1, <2>2
<1>13. u[n][k].index = x
  BY Zenon, <1>3, <1>6, <1>10
<1>. QED  BY Zenon, <1>10, <1>11, <1>12, <1>13 DEF OneChanged

(* Setting an index changes nothing of what the table stands for.           *)
LEMMA IndexedStands ==
  ASSUME NEW t, Table(t), NEW u, Table(u),
         \A m \in 0 .. W : Len(u[m]) = Len(t[m]),
         \A m \in 0 .. W : \A j \in 1 .. Len(t[m]) :
           u[m][j].base = t[m][j].base /\ SameHop(u[m][j], t[m][j]),
         NEW K, NEW c, StandsFor(t, K, c)
  PROVE  StandsFor(u, K, c)
<1>1. ASSUME NEW e \in AllRoutes(u)
      PROVE  \E d \in AllRoutes(t) : e.base = d.base /\ SameHop(e, d)
  <2>1. PICK m \in 0 .. W : \E j \in 1 .. Len(u[m]) : e = u[m][j]
    BY Zenon, RouteAt
  <2>2. PICK j \in 1 .. Len(u[m]) : e = u[m][j]
    BY Zenon, <2>1
  <2>3. j \in 1 .. Len(t[m])
    BY Zenon
  <2>4. t[m][j] \in AllRoutes(t)
    BY Zenon, <2>3, RouteIn
  <2>. QED  BY Zenon, <2>2, <2>3, <2>4
<1>2. ASSUME NEW e \in AllRoutes(t)
      PROVE  \E d \in AllRoutes(u) : e.base = d.base /\ SameHop(e, d)
  <2>1. PICK m \in 0 .. W : \E j \in 1 .. Len(t[m]) : e = t[m][j]
    BY Zenon, RouteAt
  <2>2. PICK j \in 1 .. Len(t[m]) : e = t[m][j]
    BY Zenon, <2>1
  <2>3. j \in 1 .. Len(u[m])
    BY Zenon
  <2>4. u[m][j] \in AllRoutes(u)
    BY Zenon, <2>3, RouteIn
  <2>5. u[m][j].base = t[m][j].base /\ SameHop(t[m][j], u[m][j])
    BY Zenon DEF SameHop
  <2>. QED  BY Zenon, <2>2, <2>4, <2>5
<1>3. Like(AllRoutes(u), AllRoutes(t)) /\ Like(AllRoutes(t), AllRoutes(u))
  BY Zenon, <1>1, <1>2 DEF Like
<1>4. ASSUME NEW e \in AllRoutes(u) PROVE \E r \in AllRoutes(K) : SameHop(e, r)
  <2>1. PICK d \in AllRoutes(t) : SameHop(e, d)
    BY Zenon, <1>1
  <2>2. PICK r \in AllRoutes(K) : SameHop(d, r)
    BY Zenon DEF StandsFor
  <2>. QED  BY Zenon, <2>1, <2>2 DEF SameHop
<1>5. ASSUME Apart(t, c), NEW m \in 0 .. W, NEW j \in 1 .. Len(u[m]),
             NEW k \in 1 .. Len(u[m]), j # k, u[m][j].base = u[m][k].base
      PROVE  u[m][j].base \in c
  <2>1. /\ j \in 1 .. Len(t[m]) /\ k \in 1 .. Len(t[m])
        /\ u[m][j].base = t[m][j].base /\ u[m][k].base = t[m][k].base
    BY Zenon
  <2>. QED  BY Zenon, <1>5, <2>1 DEF Apart
<1>6. Apart(t, c) => Apart(u, c)
  BY Zenon, <1>5 DEF Apart
<1>7. ASSUME NEW a \in Addrs, ~ Hidden(c, a) PROVE Kept(AllRoutes(u), AllRoutes(K), a)
  <2>1. Kept(AllRoutes(t), AllRoutes(K), a)
    BY Zenon, <1>7 DEF StandsFor
  <2>. QED  BY Zenon, <1>3, <2>1, LikeKept
<1>8. ASSUME NEW a \in Addrs PROVE Covered(AllRoutes(u), AllRoutes(K), a)
  <2>1. Covered(AllRoutes(t), AllRoutes(K), a)
    BY Zenon DEF StandsFor
  <2>2. ASSUME NEW e \in AllRoutes(u), IsPrefix(e.base, a)
        PROVE  \E r \in AllRoutes(K) : IsPrefix(r.base, a) /\ SameHop(e, r)
    <3>1. PICK d \in AllRoutes(t) : e.base = d.base /\ SameHop(e, d)
      BY Zenon, <1>1
    <3>2. IsPrefix(d.base, a)
      BY Zenon, <2>2, <3>1
    <3>3. PICK r \in AllRoutes(K) : IsPrefix(r.base, a) /\ SameHop(d, r)
      BY Zenon, <2>1, <3>2 DEF Covered
    <3>4. SameHop(e, r)
      BY Zenon, <3>1, <3>3 DEF SameHop
    <3>. QED  BY Zenon, <3>3, <3>4
  <2>. QED  BY Zenon, <2>2 DEF Covered
<1>. QED  BY Zenon, <1>4, <1>6, <1>7, <1>8 DEF StandsFor

(* Two siblings replaced by their parent.                                   *)
Merged(t, n, k) ==
  Put(Put(t, n, CutTwo(t[n], k)), n - 1, Append(t[n - 1], Parent(t[n][k])))

LEMMA ParentFacts ==
  ASSUME NEW r \in Route, NEW n \in 1 .. W, Len(r.base) = n
  PROVE  /\ Parent(r) \in Route /\ Parent(r).base = Front(r.base)
         /\ Parent(r).base \in [1 .. n - 1 -> Bits]
         /\ Len(Parent(r).base) = n - 1 /\ SameHop(Parent(r), r)
<1>1. r.base \in [1 .. n -> Bits]
  BY Zenon, RouteFields, PrefixLen
<1>2. Front(r.base) \in [1 .. n - 1 -> Bits]
  BY Zenon, <1>1, FrontFacts
<1>3. n - 1 \in 0 .. W
  BY SizeFacts
<1>4. Front(r.base) \in Prefix /\ Len(Front(r.base)) = n - 1
  BY Zenon, <1>2, <1>3, PrefixOf
<1>5. PICK b : b = Front(r.base)
  BY Zenon
<1>6. Parent(r) = [r EXCEPT !.base = b]
  BY Zenon, <1>5 DEF Parent
<1>7. b \in Prefix
  BY Zenon, <1>4, <1>5
<1>8. /\ [r EXCEPT !.base = b] \in Route /\ [r EXCEPT !.base = b].base = b
      /\ SameHop([r EXCEPT !.base = b], r)
  BY <1>7, WithBase
<1>9. Parent(r) \in Route /\ Parent(r).base = b /\ SameHop(Parent(r), r)
  BY Zenon, <1>6, <1>8
<1>. QED  BY Zenon, <1>2, <1>4, <1>5, <1>9

LEMMA MovedFacts ==
  ASSUME NEW m \in Nat, NEW k \in 1 .. m - 1
  PROVE  /\ \A i1, i2 \in 1 .. m - 2 : i1 # i2 => Moved(k, i1) # Moved(k, i2)
         /\ \A j \in 1 .. m : j # k /\ j # k + 1 => \E n \in 1 .. m - 2 : Moved(k, n) = j
<1>1. \A i1, i2 \in 1 .. m - 2 : i1 # i2 => Moved(k, i1) # Moved(k, i2)
  BY DEF Moved
<1>2. ASSUME NEW j \in 1 .. m, j # k, j # k + 1
      PROVE  \E n \in 1 .. m - 2 : Moved(k, n) = j
  <2>1. CASE j < k
    <3>1. j \in 1 .. m - 2 /\ Moved(k, j) = j
      BY <2>1 DEF Moved
    <3>. QED  BY Zenon, <3>1
  <2>2. CASE ~ (j < k)
    <3>1. j - 2 \in 1 .. m - 2 /\ Moved(k, j - 2) = j
      BY <1>2, <2>2 DEF Moved
    <3>. QED  BY Zenon, <3>1
  <2>. QED  BY Zenon, <2>1, <2>2
<1>. QED  BY Zenon, <1>1, <1>2

(* The lists of the table after the merge.                                  *)
LEMMA MergedLists ==
  ASSUME NEW t, Table(t), NEW n \in 1 .. W, NEW k \in 1 .. Len(t[n]) - 1,
         NEW u, u = Merged(t, n, k)
  PROVE  /\ Table(u) /\ n - 1 \in 0 .. W /\ n \in 0 .. W
         /\ u[n] = CutTwo(t[n], k) /\ u[n - 1] = Append(t[n - 1], Parent(t[n][k]))
         /\ \A m \in 0 .. W : m # n /\ m # n - 1 => u[m] = t[m]
<1>1. n - 1 \in 0 .. W /\ n \in 0 .. W /\ n # n - 1
  BY SizeFacts
<1>2. t[n] \in Seq(Route) /\ t[n - 1] \in Seq(Route)
  BY Zenon, <1>1 DEF Table
<1>3. k \in 1 .. Len(t[n]) /\ Len(t[n]) \in Nat
  BY <1>2
<1>4. t[n][k] \in Route /\ Len(t[n][k].base) = n
  BY Zenon, <1>1, <1>3, TableFacts
<1>5. PICK s : s = CutTwo(t[n], k)
  BY Zenon
<1>6. /\ s \in Seq(Route) /\ Len(s) = Len(t[n]) - 2
      /\ \A j \in 1 .. Len(t[n]) - 2 : Moved(k, j) \in 1 .. Len(t[n]) /\ s[j] = t[n][Moved(k, j)]
  BY Zenon, <1>2, <1>5, CutFacts2
<1>7. ASSUME NEW j \in 1 .. Len(s) PROVE Len(s[j].base) = n
  <2>1. Moved(k, j) \in 1 .. Len(t[n]) /\ s[j] = t[n][Moved(k, j)]
    BY Zenon, <1>6
  <2>2. \A m \in 1 .. Len(t[n]) : Len(t[n][m].base) = n
    BY Zenon, <1>1 DEF Table
  <2>. QED  BY Zenon, <2>1, <2>2
<1>8. \A j \in 1 .. Len(s) : Len(s[j].base) = n
  BY Zenon, <1>7
<1>9. PICK v : v = Put(t, n, s)
  BY Zenon
<1>10. /\ Table(Put(t, n, s)) /\ Put(t, n, s)[n] = s
       /\ \A m \in 0 .. W : m # n => Put(t, n, s)[m] = t[m]
  <2>1. s \in Seq(Route) /\ n \in 0 .. W
    BY Zenon, <1>1, <1>6
  <2>. QED  BY <1>8, <2>1, TableUpdate
<1>11. Table(v) /\ v[n] = s /\ \A m \in 0 .. W : m # n => v[m] = t[m]
  BY Zenon, <1>9, <1>10
<1>12. PICK p : p = Parent(t[n][k])
  BY Zenon
<1>13. p \in Route /\ Len(p.base) = n - 1
  BY Zenon, <1>4, <1>12, ParentFacts
<1>14. PICK w : w = Append(t[n - 1], p)
  BY Zenon
<1>21. /\ w \in Seq(Route) /\ Len(w) = Len(t[n - 1]) + 1
       /\ \A j \in 1 .. Len(t[n - 1]) : w[j] = t[n - 1][j]
       /\ w[Len(t[n - 1]) + 1] = p
  <2>1. t[n - 1] \in Seq(Route) /\ p \in Route
    BY Zenon, <1>2, <1>13
  <2>. QED  BY <1>14, <2>1
<1>15. \A j \in 1 .. Len(t[n - 1]) : Len(t[n - 1][j].base) = n - 1
  BY Zenon, <1>1 DEF Table
<1>16. ASSUME NEW j \in 1 .. Len(w) PROVE Len(w[j].base) = n - 1
  <2>1. j \in 1 .. Len(t[n - 1]) \/ j = Len(t[n - 1]) + 1
    BY <1>2, <1>21
  <2>. QED  BY Zenon, <1>13, <1>15, <1>21, <2>1
<1>17. \A j \in 1 .. Len(w) : Len(w[j].base) = n - 1
  BY Zenon, <1>16
<1>18. /\ Table(Put(v, n - 1, w)) /\ Put(v, n - 1, w)[n - 1] = w
       /\ \A m \in 0 .. W : m # n - 1 => Put(v, n - 1, w)[m] = v[m]
  <2>1. w \in Seq(Route) /\ Table(v)
    BY Zenon, <1>11, <1>21
  <2>. QED  BY <1>1, <1>17, <2>1, TableUpdate
<1>19. u = Put(v, n - 1, w)
  BY Zenon, <1>5, <1>9, <1>12, <1>14 DEF Merged
<1>20. Table(u) /\ u[n - 1] = w /\ \A m \in 0 .. W : m # n - 1 => u[m] = v[m]
  BY Zenon, <1>18, <1>19
<1>. QED  BY Zenon, <1>1, <1>5, <1>11, <1>12, <1>14, <1>20

(* Its routes: the parent is new, only the two siblings are gone.           *)
LEMMA MergedRoutes ==
  ASSUME NEW t, Table(t), NEW n \in 1 .. W, NEW k \in 1 .. Len(t[n]) - 1,
         NEW u, u = Merged(t, n, k)
  PROVE  /\ Parent(t[n][k]) \in AllRoutes(u)
         /\ \A e \in AllRoutes(u) : e = Parent(t[n][k]) \/ e \in AllRoutes(t)
         /\ \A e \in AllRoutes(t) : e = t[n][k] \/ e = t[n][k + 1] \/ e \in AllRoutes(u)
<1>1. /\ Table(u) /\ n - 1 \in 0 .. W /\ n \in 0 .. W
      /\ u[n] = CutTwo(t[n], k) /\ u[n - 1] = Append(t[n - 1], Parent(t[n][k]))
      /\ \A m \in 0 .. W : m # n /\ m # n - 1 => u[m] = t[m]
  BY MergedLists
<1>. PICK p : p = Parent(t[n][k])
  BY Zenon
<1>2. t[n] \in Seq(Route) /\ t[n - 1] \in Seq(Route)
  BY Zenon, <1>1 DEF Table
<1>3. k \in 1 .. Len(t[n]) /\ k + 1 \in 1 .. Len(t[n]) /\ Len(t[n]) \in Nat /\ Len(t[n - 1]) \in Nat
  BY <1>2
<1>4. p \in Route
  <2>1. t[n][k] \in Route /\ Len(t[n][k].base) = n
    BY Zenon, <1>1, <1>3, TableFacts
  <2>. QED  BY Zenon, <2>1, ParentFacts
<1>5. /\ Len(u[n - 1]) = Len(t[n - 1]) + 1 /\ u[n - 1][Len(t[n - 1]) + 1] = p
      /\ \A j \in 1 .. Len(t[n - 1]) : u[n - 1][j] = t[n - 1][j]
  <2>1. t[n - 1] \in Seq(Route) /\ u[n - 1] = Append(t[n - 1], p)
    BY Zenon, <1>1, <1>2
  <2>. QED  BY <1>4, <2>1
<1>6. /\ Len(u[n]) = Len(t[n]) - 2
      /\ \A j \in 1 .. Len(t[n]) - 2 : Moved(k, j) \in 1 .. Len(t[n]) /\ u[n][j] = t[n][Moved(k, j)]
  <2>1. t[n] \in Seq(Route) /\ u[n] = CutTwo(t[n], k)
    BY Zenon, <1>1, <1>2
  <2>. QED  BY Zenon, <2>1, CutFacts2
<1>7. p \in AllRoutes(u)
  <2>1. Len(t[n - 1]) + 1 \in 1 .. Len(u[n - 1])
    BY <1>3, <1>5
  <2>2. u[n - 1][Len(t[n - 1]) + 1] \in AllRoutes(u)
    BY Zenon, <1>1, <2>1, RouteIn
  <2>. QED  BY Zenon, <1>5, <2>2
<1>8. ASSUME NEW e \in AllRoutes(u) PROVE e = p \/ e \in AllRoutes(t)
  <2>. Table(u)
    BY Zenon, <1>1
  <2>0. PICK m \in 0 .. W : \E j \in 1 .. Len(u[m]) : e = u[m][j]
    BY Zenon, RouteAt
  <2>1. PICK j \in 1 .. Len(u[m]) : e = u[m][j]
    BY Zenon, <2>0
  <2>2. CASE m = n
    <3>1. Moved(k, j) \in 1 .. Len(t[n]) /\ e = t[n][Moved(k, j)]
      BY Zenon, <1>6, <2>1, <2>2
    <3>. QED  BY Zenon, <1>1, <3>1, RouteIn
  <2>3. CASE m = n - 1
    <3>1. j \in 1 .. Len(t[n - 1]) \/ j = Len(t[n - 1]) + 1
      BY <1>3, <1>5, <2>3
    <3>2. CASE j \in 1 .. Len(t[n - 1])
      <4>1. e = t[n - 1][j]
        BY Zenon, <1>5, <2>1, <2>3, <3>2
      <4>. QED  BY Zenon, <1>1, <3>2, <4>1, RouteIn
    <3>3. CASE j = Len(t[n - 1]) + 1
      BY Zenon, <1>5, <2>1, <2>3, <3>3
    <3>. QED  BY Zenon, <3>1, <3>2, <3>3
  <2>4. CASE m # n /\ m # n - 1
    <3>1. j \in 1 .. Len(t[m]) /\ e = t[m][j]
      BY Zenon, <1>1, <2>1, <2>4
    <3>. QED  BY Zenon, <3>1, RouteIn
  <2>. QED  BY Zenon, <2>2, <2>3, <2>4
<1>9. ASSUME NEW e \in AllRoutes(t), e # t[n][k], e # t[n][k + 1] PROVE e \in AllRoutes(u)
  <2>. Table(u)
    BY Zenon, <1>1
  <2>0. PICK m \in 0 .. W : \E j \in 1 .. Len(t[m]) : e = t[m][j]
    BY Zenon, RouteAt
  <2>1. PICK j \in 1 .. Len(t[m]) : e = t[m][j]
    BY Zenon, <2>0
  <2>2. CASE m = n
    <3>1. j \in 1 .. Len(t[n]) /\ j # k /\ j # k + 1
      BY Zenon, <1>9, <2>1, <2>2
    <3>2. \A l \in 1 .. Len(t[n]) :
            l # k /\ l # k + 1 => \E q \in 1 .. Len(t[n]) - 2 : Moved(k, q) = l
      BY Zenon, <1>3, MovedFacts
    <3>3. PICK q \in 1 .. Len(t[n]) - 2 : Moved(k, q) = j
      BY Zenon, <3>1, <3>2
    <3>4. q \in 1 .. Len(u[n]) /\ e = u[n][q]
      BY Zenon, <1>6, <2>1, <2>2, <3>3
    <3>. QED  BY Zenon, <1>1, <3>4, RouteIn
  <2>3. CASE m = n - 1
    <3>1. j \in 1 .. Len(t[n - 1])
      BY Zenon, <2>3
    <3>2. j \in 1 .. Len(u[n - 1])
      BY <1>3, <1>5, <3>1
    <3>3. e = u[n - 1][j]
      BY Zenon, <1>5, <2>1, <2>3, <3>1
    <3>. QED  BY Zenon, <1>1, <3>2, <3>3, RouteIn
  <2>4. CASE m # n /\ m # n - 1
    <3>1. j \in 1 .. Len(u[m]) /\ e = u[m][j]
      BY Zenon, <1>1, <2>1, <2>4
    <3>. QED  BY Zenon, <3>1, RouteIn
  <2>. QED  BY Zenon, <2>2, <2>3, <2>4
<1>. QED  BY Zenon, <1>7, <1>8, <1>9

(* Two routes of one prefix in the new table.                               *)
LEMMA MergedApart ==
  ASSUME NEW t, Table(t), NEW n \in 1 .. W, NEW k \in 1 .. Len(t[n]) - 1,
         NEW u, u = Merged(t, n, k), NEW c, NEW d, c \subseteq d,
         \A j \in 1 .. Len(t[n - 1]) :
           t[n - 1][j].base = Parent(t[n][k]).base => t[n - 1][j].base \in d,
         Apart(t, c)
  PROVE  Apart(u, d)
<1>1. /\ Table(u) /\ n - 1 \in 0 .. W /\ n \in 0 .. W
      /\ u[n] = CutTwo(t[n], k) /\ u[n - 1] = Append(t[n - 1], Parent(t[n][k]))
      /\ \A m \in 0 .. W : m # n /\ m # n - 1 => u[m] = t[m]
  BY MergedLists
<1>. PICK p : p = Parent(t[n][k])
  BY Zenon
<1>2. t[n] \in Seq(Route) /\ t[n - 1] \in Seq(Route)
  BY Zenon, <1>1 DEF Table
<1>3. k \in 1 .. Len(t[n]) /\ Len(t[n]) \in Nat /\ Len(t[n - 1]) \in Nat
  BY <1>2
<1>4. p \in Route
  <2>1. t[n][k] \in Route /\ Len(t[n][k].base) = n
    BY Zenon, <1>1, <1>3, TableFacts
  <2>. QED  BY Zenon, <2>1, ParentFacts
<1>5. /\ Len(u[n - 1]) = Len(t[n - 1]) + 1 /\ u[n - 1][Len(t[n - 1]) + 1] = p
      /\ \A j \in 1 .. Len(t[n - 1]) : u[n - 1][j] = t[n - 1][j]
  <2>1. t[n - 1] \in Seq(Route) /\ u[n - 1] = Append(t[n - 1], p)
    BY Zenon, <1>1, <1>2
  <2>. QED  BY <1>4, <2>1
<1>6. /\ Len(u[n]) = Len(t[n]) - 2
      /\ \A j \in 1 .. Len(t[n]) - 2 : Moved(k, j) \in 1 .. Len(t[n]) /\ u[n][j] = t[n][Moved(k, j)]
  <2>1. t[n] \in Seq(Route) /\ u[n] = CutTwo(t[n], k)
    BY Zenon, <1>1, <1>2
  <2>. QED  BY Zenon, <2>1, CutFacts2
<1>7. ASSUME NEW m \in 0 .. W, NEW j1 \in 1 .. Len(u[m]), NEW j2 \in 1 .. Len(u[m]),
             j1 # j2, u[m][j1].base = u[m][j2].base
      PROVE  u[m][j1].base \in d
  <2>1. CASE m = n
    <3>1. /\ Moved(k, j1) \in 1 .. Len(t[n]) /\ u[m][j1] = t[n][Moved(k, j1)]
          /\ Moved(k, j2) \in 1 .. Len(t[n]) /\ u[m][j2] = t[n][Moved(k, j2)]
      BY Zenon, <1>6, <2>1
    <3>2. Moved(k, j1) # Moved(k, j2)
      <4>1. j1 \in 1 .. Len(t[n]) - 2 /\ j2 \in 1 .. Len(t[n]) - 2
        BY Zenon, <1>6, <2>1
      <4>. QED  BY <1>3, <1>7, <4>1 DEF Moved
    <3>3. t[n][Moved(k, j1)].base = t[n][Moved(k, j2)].base
      BY Zenon, <1>7, <3>1
    <3>4. t[n][Moved(k, j1)].base \in c
      BY Zenon, <1>1, <3>1, <3>2, <3>3 DEF Apart
    <3>. QED  BY Zenon, <3>1, <3>4
  <2>2. CASE m = n - 1
    <3>1. /\ j1 \in 1 .. Len(t[n - 1]) \/ j1 = Len(t[n - 1]) + 1
          /\ j2 \in 1 .. Len(t[n - 1]) \/ j2 = Len(t[n - 1]) + 1
      BY <1>3, <1>5, <2>2
    <3>2. CASE j1 \in 1 .. Len(t[n - 1]) /\ j2 \in 1 .. Len(t[n - 1])
      <4>1. u[m][j1] = t[n - 1][j1] /\ u[m][j2] = t[n - 1][j2]
        BY Zenon, <1>5, <2>2, <3>2
      <4>2. t[n - 1][j1].base = t[n - 1][j2].base
        BY Zenon, <1>7, <4>1
      <4>3. t[n - 1][j1].base \in c
        BY Zenon, <1>1, <1>7, <3>2, <4>2 DEF Apart
      <4>. QED  BY Zenon, <4>1, <4>3
    <3>3. CASE j1 \in 1 .. Len(t[n - 1]) /\ j2 = Len(t[n - 1]) + 1
      <4>1. u[m][j1] = t[n - 1][j1] /\ u[m][j2] = p
        BY Zenon, <1>5, <2>2, <3>3
      <4>. QED  BY Zenon, <1>7, <3>3, <4>1
    <3>4. CASE j2 \in 1 .. Len(t[n - 1]) /\ j1 = Len(t[n - 1]) + 1
      <4>1. u[m][j2] = t[n - 1][j2] /\ u[m][j1] = p
        BY Zenon, <1>5, <2>2, <3>4
      <4>. QED  BY Zenon, <1>7, <3>4, <4>1
    <3>. QED  BY Zenon, <1>7, <3>1, <3>2, <3>3, <3>4
  <2>3. CASE m # n /\ m # n - 1
    <3>1. u[m] = t[m]
      BY Zenon, <1>1, <2>3
    <3>2. t[m][j1].base \in c
      BY Zenon, <1>7, <3>1 DEF Apart
    <3>. QED  BY Zenon, <3>1, <3>2
  <2>. QED  BY Zenon, <2>1, <2>2, <2>3
<1>. QED  BY Zenon, <1>7 DEF Apart

(* The core of aggregate(): the parent answers for its two siblings.        *)
(* The parent covers what the two siblings cover and leads where they do.   *)
LEMMA ParentCovers ==
  ASSUME NEW t, Table(t), NEW n \in 1 .. W, NEW k \in 1 .. Len(t[n]) - 1,
         Siblings(t[n][k], t[n][k + 1]), NEW a \in Addrs
  PROVE  /\ IsPrefix(Parent(t[n][k]).base, a) <=>
              IsPrefix(t[n][k].base, a) \/ IsPrefix(t[n][k + 1].base, a)
         /\ SameHop(Parent(t[n][k]), t[n][k]) /\ SameHop(Parent(t[n][k]), t[n][k + 1])
         /\ t[n][k] \in AllRoutes(t) /\ t[n][k + 1] \in AllRoutes(t)
<1>. PICK p : p = Parent(t[n][k])
  BY Zenon
<1>. PICK x : x = t[n][k]
  BY Zenon
<1>. PICK y : y = t[n][k + 1]
  BY Zenon
<1>1. n \in 0 .. W /\ k \in 1 .. Len(t[n]) /\ k + 1 \in 1 .. Len(t[n])
  <2>1. n \in 0 .. W
    BY SizeFacts
  <2>2. t[n] \in Seq(Route)
    BY Zenon, <2>1 DEF Table
  <2>. QED  BY <2>1, <2>2
<1>2. /\ x \in Route /\ x \in AllRoutes(t) /\ x.base \in [1 .. n -> Bits] /\ Len(x.base) = n
      /\ y \in Route /\ y \in AllRoutes(t) /\ y.base \in [1 .. n -> Bits] /\ Len(y.base) = n
  BY Zenon, <1>1, TableFacts
<1>3. p.base = Front(x.base) /\ SameHop(p, x)
  BY Zenon, <1>2, ParentFacts
<1>4. SameHop(p, y) /\ Front(x.base) = Front(y.base) /\ x.base # y.base
  BY Zenon, <1>3 DEF Siblings, SameHop
<1>5. IsPrefix(Front(x.base), a) <=> IsPrefix(x.base, a) \/ IsPrefix(y.base, a)
  BY Zenon, <1>2, <1>4, SiblingBits
<1>. QED  BY Zenon, <1>2, <1>3, <1>4, <1>5

LEMMA MergedCovered ==
  ASSUME NEW t, Table(t), NEW n \in 1 .. W, NEW k \in 1 .. Len(t[n]) - 1,
         Siblings(t[n][k], t[n][k + 1]), NEW u, u = Merged(t, n, k),
         NEW K, NEW a \in Addrs, Covered(AllRoutes(t), K, a)
  PROVE  Covered(AllRoutes(u), K, a)
<1>. SUFFICES ASSUME NEW e \in AllRoutes(u), IsPrefix(e.base, a)
              PROVE  \E r \in K : IsPrefix(r.base, a) /\ SameHop(e, r)
  BY Zenon DEF Covered
<1>1. e = Parent(t[n][k]) \/ e \in AllRoutes(t)
  BY MergedRoutes
<1>2. CASE e \in AllRoutes(t)
  BY Zenon, <1>2 DEF Covered
<1>3. CASE e = Parent(t[n][k])
  <2>1. PICK z \in AllRoutes(t) : IsPrefix(z.base, a) /\ SameHop(e, z)
    BY Zenon, <1>3, ParentCovers
  <2>2. PICK r \in K : IsPrefix(r.base, a) /\ SameHop(z, r)
    BY Zenon, <2>1 DEF Covered
  <2>. QED  BY Zenon, <2>1, <2>2 DEF SameHop
<1>. QED  BY Zenon, <1>1, <1>2, <1>3

LEMMA MergedKept ==
  ASSUME NEW t, Table(t), NEW n \in 1 .. W, NEW k \in 1 .. Len(t[n]) - 1,
         Siblings(t[n][k], t[n][k + 1]), NEW u, u = Merged(t, n, k), NEW d,
         \A j \in 1 .. Len(t[n - 1]) :
           t[n - 1][j].base = Parent(t[n][k]).base => t[n - 1][j].base \in d,
         NEW K, NEW a \in Addrs, ~ Hidden(d, a), Kept(AllRoutes(t), K, a)
  PROVE  Kept(AllRoutes(u), K, a)
<1>. PICK p : p = Parent(t[n][k])
  BY Zenon
<1>. PICK x : x = t[n][k]
  BY Zenon
<1>. PICK y : y = t[n][k + 1]
  BY Zenon
<1>1. /\ p \in AllRoutes(u)
      /\ \A e \in AllRoutes(u) : e = p \/ e \in AllRoutes(t)
      /\ \A e \in AllRoutes(t) : e = x \/ e = y \/ e \in AllRoutes(u)
  BY MergedRoutes
<1>2. n \in 0 .. W /\ n - 1 \in 0 .. W /\ k \in 1 .. Len(t[n]) /\ k + 1 \in 1 .. Len(t[n])
  <2>1. n \in 0 .. W /\ n - 1 \in 0 .. W
    BY SizeFacts
  <2>2. t[n] \in Seq(Route)
    BY Zenon, <2>1 DEF Table
  <2>. QED  BY <2>1, <2>2
<1>3. /\ x \in Route /\ x \in AllRoutes(t) /\ x.base \in [1 .. n -> Bits] /\ Len(x.base) = n
      /\ y \in Route /\ y \in AllRoutes(t) /\ y.base \in [1 .. n -> Bits] /\ Len(y.base) = n
  BY Zenon, <1>2, TableFacts
<1>4. /\ p.base = Front(x.base) /\ p.base \in [1 .. n - 1 -> Bits] /\ Len(p.base) = n - 1
      /\ SameHop(p, x)
  BY Zenon, <1>3, ParentFacts
<1>5. SameHop(p, y)
  BY Zenon, ParentCovers
<1>6. IsPrefix(p.base, a) <=> IsPrefix(x.base, a) \/ IsPrefix(y.base, a)
  BY Zenon, ParentCovers
<1>7. Fits(p, a) <=> Fits(x, a) \/ Fits(y, a)
  BY Zenon, <1>4, <1>5, <1>6 DEF Fits, CanUse, SameHop
<1>8. ASSUME NEW e \in Best(AllRoutes(u), a)
      PROVE  \E z \in Best(AllRoutes(t), a) : SameHop(e, z)
  <2>1. e \in AllRoutes(u) /\ Fits(e, a) /\ \A q \in AllRoutes(u) : Fits(q, a) => Len(q.base) <= Len(e.base)
    BY Zenon DEF Best
  <2>2. CASE e = p
    <3>1. PICK z : (z = x \/ z = y) /\ Fits(z, a)
      BY Zenon, <1>7, <2>1, <2>2
    <3>2. ASSUME NEW q \in AllRoutes(t), Fits(q, a) PROVE Len(q.base) <= Len(z.base)
      <4>1. Len(z.base) = n /\ n <= n /\ n - 1 <= n
        <5>1. n <= n /\ n - 1 <= n
          OBVIOUS
        <5>. QED  BY Zenon, <1>3, <3>1, <5>1
      <4>2. CASE q \in AllRoutes(u)
        <5>1. Len(q.base) <= n - 1
          BY Zenon, <1>4, <2>1, <2>2, <3>2, <4>2
        <5>2. Len(q.base) \in 0 .. W
          <6>1. PICK m \in 0 .. W : \E j \in 1 .. Len(t[m]) : q = t[m][j]
            BY Zenon, RouteAt
          <6>2. PICK j \in 1 .. Len(t[m]) : q = t[m][j]
            BY Zenon, <6>1
          <6>3. Len(t[m][j].base) = m
            BY Zenon, TableFacts
          <6>. QED  BY Zenon, <6>2, <6>3
        <5>3. Len(q.base) <= n
          BY <5>1, <5>2
        <5>. QED  BY Zenon, <4>1, <5>3
      <4>3. CASE q = x \/ q = y
        BY Zenon, <1>3, <4>1, <4>3
      <4>. QED  BY Zenon, <1>1, <4>2, <4>3
    <3>3. z \in AllRoutes(t) /\ SameHop(e, z)
      BY Zenon, <1>3, <1>4, <1>5, <2>2, <3>1
    <3>4. z \in Best(AllRoutes(t), a)
      BY Zenon, <3>1, <3>2, <3>3 DEF Best
    <3>. QED  BY Zenon, <3>3, <3>4
  <2>3. CASE e \in AllRoutes(t)
    <3>1. PICK m \in 0 .. W : \E j \in 1 .. Len(t[m]) : e = t[m][j]
      BY Zenon, <2>3, RouteAt
    <3>2. PICK j \in 1 .. Len(t[m]) : e = t[m][j]
      BY Zenon, <3>1
    <3>3. e.base \in [1 .. m -> Bits] /\ Len(e.base) = m
      BY Zenon, <3>2, TableFacts
    <3>4. ASSUME NEW q, q = x \/ q = y, Fits(q, a) PROVE n <= m
      <4>1. Fits(p, a)
        BY Zenon, <1>7, <3>4
      <4>2. n - 1 <= m
        BY Zenon, <1>1, <1>4, <2>1, <3>3, <4>1
      <4>3. m # n - 1
        <5>1. SUFFICES ASSUME m = n - 1 PROVE FALSE
          BY Zenon
        <5>2. e.base \in [1 .. n - 1 -> Bits] /\ IsPrefix(e.base, a) /\ IsPrefix(p.base, a)
          BY Zenon, <2>1, <3>3, <4>1, <5>1 DEF Fits
        <5>3. e.base = SubSeq(a, 1, n - 1) /\ p.base = SubSeq(a, 1, n - 1)
          BY Zenon, <1>2, <1>4, <5>2, PrefixFacts
        <5>4. j \in 1 .. Len(t[n - 1]) /\ t[n - 1][j].base = p.base
          BY Zenon, <3>2, <5>1, <5>3
        <5>5. e.base \in d
          BY Zenon, <3>2, <5>1, <5>4
        <5>. QED  BY Zenon, <5>2, <5>5 DEF Hidden
      <4>. QED  BY <1>2, <4>2, <4>3
    <3>5. ASSUME NEW q \in AllRoutes(t), Fits(q, a) PROVE Len(q.base) <= Len(e.base)
      <4>1. CASE q \in AllRoutes(u)
        BY Zenon, <2>1, <3>5, <4>1
      <4>2. CASE q = x \/ q = y
        BY Zenon, <1>3, <3>3, <3>4, <3>5, <4>2
      <4>. QED  BY Zenon, <1>1, <4>1, <4>2
    <3>6. e \in Best(AllRoutes(t), a)
      BY Zenon, <2>1, <2>3, <3>5 DEF Best
    <3>. QED  BY Zenon, <3>6 DEF SameHop
  <2>. QED  BY Zenon, <1>1, <2>1, <2>2, <2>3
<1>9. ASSUME NEW e \in Best(AllRoutes(u), a) PROVE \E r \in Best(K, a) : SameHop(e, r)
  <2>1. PICK z \in Best(AllRoutes(t), a) : SameHop(e, z)
    BY Zenon, <1>8
  <2>2. PICK r \in Best(K, a) : SameHop(z, r)
    BY Zenon DEF Kept
  <2>. QED  BY Zenon, <2>1, <2>2 DEF SameHop
<1>10. ASSUME NEW r \in K, Fits(r, a) PROVE \E e \in AllRoutes(u) : Fits(e, a)
  <2>1. PICK e \in AllRoutes(t) : Fits(e, a)
    BY Zenon, <1>10 DEF Kept
  <2>. QED  BY Zenon, <1>1, <1>7, <2>1
<1>. QED  BY Zenon, <1>9, <1>10 DEF Kept

LEMMA MergedStands ==
  ASSUME NEW t, Table(t), NEW n \in 1 .. W, NEW k \in 1 .. Len(t[n]) - 1,
         Siblings(t[n][k], t[n][k + 1]), NEW u, u = Merged(t, n, k),
         NEW c, NEW d, c \subseteq d,
         \A j \in 1 .. Len(t[n - 1]) :
           t[n - 1][j].base = Parent(t[n][k]).base => t[n - 1][j].base \in d,
         NEW K, StandsFor(t, K, c)
  PROVE  StandsFor(u, K, d)
<1>1. ASSUME NEW e \in AllRoutes(u) PROVE \E r \in AllRoutes(K) : SameHop(e, r)
  <2>1. e = Parent(t[n][k]) \/ e \in AllRoutes(t)
    BY MergedRoutes
  <2>2. CASE e \in AllRoutes(t)
    BY Zenon, <2>2 DEF StandsFor
  <2>3. CASE e = Parent(t[n][k])
    <3>1. n \in 0 .. W
      BY SizeFacts
    <3>2. t[n] \in Seq(Route)
      BY Zenon, <3>1 DEF Table
    <3>3. k \in 1 .. Len(t[n])
      BY <3>2
    <3>4. t[n][k] \in Route /\ t[n][k] \in AllRoutes(t) /\ Len(t[n][k].base) = n
      BY Zenon, <3>1, <3>3, TableFacts
    <3>5. SameHop(Parent(t[n][k]), t[n][k])
      BY Zenon, <3>4, ParentFacts
    <3>6. PICK r \in AllRoutes(K) : SameHop(t[n][k], r)
      BY Zenon, <3>4 DEF StandsFor
    <3>. QED  BY Zenon, <2>3, <3>5, <3>6 DEF SameHop
  <2>. QED  BY Zenon, <2>1, <2>2, <2>3
<1>2. Apart(t, c) => Apart(u, d)
  BY MergedApart
<1>3. ASSUME NEW a \in Addrs, ~ Hidden(d, a) PROVE Kept(AllRoutes(u), AllRoutes(K), a)
  <2>1. ~ Hidden(c, a)
    BY Zenon, <1>3 DEF Hidden
  <2>2. Kept(AllRoutes(t), AllRoutes(K), a)
    BY Zenon, <2>1 DEF StandsFor
  <2>. QED  BY <1>3, <2>2, MergedKept
<1>4. ASSUME NEW a \in Addrs PROVE Covered(AllRoutes(u), AllRoutes(K), a)
  <2>1. Covered(AllRoutes(t), AllRoutes(K), a)
    BY Zenon DEF StandsFor
  <2>. QED  BY <2>1, MergedCovered
<1>. QED  BY Zenon, <1>1, <1>2, <1>3, <1>4 DEF StandsFor

(* Equal routes in other places, and the table of the kernel itself.        *)
LEMMA PermutedStands ==
  ASSUME NEW t, NEW u, AllRoutes(u) = AllRoutes(t), NEW c, Apart(t, c) => Apart(u, c),
         NEW K, StandsFor(t, K, c)
  PROVE  StandsFor(u, K, c)
BY Zenon DEF StandsFor

LEMMA KernelStands ==
  ASSUME NEW t, NEW c
  PROVE  StandsFor(t, t, c)
<1>1. \A a \in Addrs : Kept(AllRoutes(t), AllRoutes(t), a)
  BY Zenon DEF Kept, SameHop
<1>2. NoDuplicates(t) => Apart(t, c)
  BY Zenon DEF NoDuplicates, Apart
<1>3. \A a \in Addrs : Covered(AllRoutes(t), AllRoutes(t), a)
  BY Zenon DEF Covered, SameHop
<1>. QED  BY Zenon, <1>1, <1>2, <1>3 DEF StandsFor, SameHop

-----------------------------------------------------------------------------
(* The actions preserve the invariant.                                      *)

LEMMA InvFacts ==
  ASSUME IInv
  PROVE  /\ TypeOK /\ Table(entries) /\ Progress /\ Aggregated
         /\ Mapped(nextHopMapping, AllRoutes(rib)) /\ rib \in [0 .. W -> Seq(Route)]
BY Zenon, TypeTable DEF IInv

LEMMA TypeFromTable ==
  ASSUME Table(entries)',
         (/\ rib \in [0 .. W -> Seq(Route)]
          /\ nextHopMapping \in Seq([nh_ip : Gateways, interface : Interfaces, index : NhIndex])
          /\ next_index \in NhIndex
          /\ netmapIndex \in [Interfaces -> Nat \cup {None}]
          /\ clash \subseteq Prefix
          /\ pc \in {"dump", "sort", "merge", "index", "netmap", "reindex", "table",
                     "ready", "overrun"}
          /\ len \in 0 .. W /\ i \in Nat)'
  PROVE  TypeOK'
BY Zenon DEF TypeOK, Table

LEMMA EmptyMapped ==
  ASSUME NEW K
  PROVE  Mapped(<<>>, K)
BY DEF Mapped

LEMMA InitInv == Init => IInv
<1>. SUFFICES ASSUME Init PROVE IInv
  BY Zenon
<1>1. W \in Nat /\ 0 \in 0 .. W /\ 0 \in NhIndex
  BY SizeFacts, NhFacts
<1>2. entries \in [0 .. W -> Seq(Route)] /\ \A n \in 0 .. W : Len(entries[n]) = 0
  BY DEF Init
<1>3. \A n \in 0 .. W : \A k \in 1 .. Len(entries[n]) : Len(entries[n][k].base) = n
  BY <1>2
<1>4. nextHopMapping \in Seq([nh_ip : Gateways, interface : Interfaces, index : NhIndex])
  BY DEF Init
<1>5. rib = entries /\ clash = {} /\ next_index = 0 /\ pc = "dump" /\ len = 0 /\ i = 0
      /\ nextHopMapping = <<>> /\ netmapIndex = [f \in Interfaces |-> None]
  BY Zenon DEF Init
<1>6. netmapIndex \in [Interfaces -> Nat \cup {None}]
  BY Zenon, <1>5
<1>7. clash \subseteq Prefix /\ len \in 0 .. W /\ i \in Nat /\ next_index \in NhIndex
  BY <1>1, <1>5
<1>8. TypeOK
  BY Zenon, <1>2, <1>3, <1>4, <1>5, <1>6, <1>7 DEF TypeOK
<1>9. Progress
  BY <1>5 DEF Progress
<1>10. Mapped(nextHopMapping, AllRoutes(rib))
  BY Zenon, <1>5, EmptyMapped
<1>. QED  BY Zenon, <1>5, <1>8, <1>9, <1>10 DEF IInv, Aggregated

LEMMA AppendTable ==
  ASSUME NEW t, Table(t), NEW n \in 0 .. W, NEW r \in Route, Len(r.base) = n
  PROVE  Table(Put(t, n, Append(t[n], r)))
<1>1. t[n] \in Seq(Route) /\ \A k \in 1 .. Len(t[n]) : Len(t[n][k].base) = n
  BY Zenon DEF Table
<1>2. PICK s : s = Append(t[n], r)
  BY Zenon
<1>3. /\ s \in Seq(Route) /\ Len(s) = Len(t[n]) + 1 /\ s[Len(t[n]) + 1] = r
      /\ \A k \in 1 .. Len(t[n]) : s[k] = t[n][k]
  <2>1. t[n] \in Seq(Route)
    BY Zenon, <1>1
  <2>. QED  BY <1>2, <2>1
<1>4. ASSUME NEW k \in 1 .. Len(s) PROVE Len(s[k].base) = n
  <2>1. k \in 1 .. Len(t[n]) \/ k = Len(t[n]) + 1
    BY <1>1, <1>3
  <2>. QED  BY Zenon, <1>1, <1>3, <2>1
<1>5. \A k \in 1 .. Len(s) : Len(s[k].base) = n
  BY Zenon, <1>4
<1>6. s \in Seq(Route)
  BY Zenon, <1>3
<1>7. Table(Put(t, n, s))
  BY <1>5, <1>6, TableUpdate
<1>. QED  BY Zenon, <1>2, <1>7

LEMMA DataInv ==
  ASSUME IInv, data_cb_new
  PROVE  IInv'
<1>1. PICK r \in KernelRoutes :
        entries' = [entries EXCEPT ![Len(r.base)] =
                     Append(@, [base |-> r.base, next_hop |-> r.next_hop,
                                interface |-> r.interface, index |-> NH_INVALID])]
  BY Zenon DEF data_cb_new
<1>2. PICK q : q = [base |-> r.base, next_hop |-> r.next_hop,
                    interface |-> r.interface, index |-> NH_INVALID]
  BY Zenon
<1>3. q \in Route /\ q.base = r.base /\ r.base \in Prefix
  <2>1. r \in KernelRoute /\ NH_INVALID \in NhIndex
    BY RoutesAssumption, NhFacts
  <2>. QED  BY <1>2, <2>1 DEF KernelRoute, Route
<1>4. Len(r.base) \in 0 .. W
  BY Zenon, <1>3, PrefixLen
<1>5. entries' = Put(entries, Len(r.base), Append(entries[Len(r.base)], q))
  BY Zenon, <1>1, <1>2 DEF Put
<1>6. Table(entries)'
  <2>1. Table(entries)
    BY Zenon, InvFacts
  <2>2. Table(Put(entries, Len(r.base), Append(entries[Len(r.base)], q)))
    BY Zenon, <1>3, <1>4, <2>1, AppendTable
  <2>. QED  BY Zenon, <1>5, <2>2
<1>7. pc = "dump" /\ UNCHANGED <<rib, clash, nextHopMapping, next_index, netmapIndex, nextHops, pc, len, i>>
  BY Zenon DEF data_cb_new
<1>8. TypeOK'
  BY Zenon, <1>6, <1>7, InvFacts, TypeFromTable DEF TypeOK
<1>9. Progress'
  <2>1. Progress
    BY Zenon, InvFacts
  <2>. QED  BY <1>7, <2>1 DEF Progress
<1>10. Mapped(nextHopMapping', AllRoutes(rib'))
  BY Zenon, <1>7, InvFacts
<1>. QED  BY Zenon, <1>7, <1>8, <1>9, <1>10 DEF IInv, Aggregated

LEMMA DumpDoneInv ==
  ASSUME IInv, DumpDone
  PROVE  IInv'
<1>1. /\ pc = "dump" /\ pc' = "sort" /\ len' = W - 2 /\ rib' = entries
      /\ UNCHANGED <<entries, clash, nextHopMapping, next_index, netmapIndex, nextHops, i>>
  BY Zenon DEF DumpDone
<1>2. TypeOK /\ Table(entries) /\ Progress
  BY Zenon, InvFacts
<1>3. len' \in 0 .. W /\ len' \in 0 .. W - 2
  BY <1>1, SizeFacts
<1>4. TypeOK'
  <2>1. Table(entries)'
    BY Zenon, <1>1, <1>2
  <2>. QED  BY Zenon, <1>1, <1>2, <1>3, <2>1, TypeFromTable DEF TypeOK
<1>5. Progress'
  BY <1>1, <1>2, <1>3 DEF Progress
<1>6. nextHopMapping' = <<>>
  BY <1>1, <1>2 DEF Progress
<1>7. Mapped(nextHopMapping', AllRoutes(rib'))
  BY Zenon, <1>6, EmptyMapped
<1>8. StandsFor(entries', rib', clash')
  BY Zenon, <1>1, KernelStands
<1>. QED  BY Zenon, <1>4, <1>5, <1>7, <1>8 DEF IInv, Aggregated

LEMMA SortInv ==
  ASSUME IInv, SortLength
  PROVE  IInv'
<1>1. /\ pc = "sort" /\ len > 0
      /\ \/ len' = len - 1 /\ UNCHANGED <<pc, i>>
         \/ pc' = "merge" /\ i' = 1 /\ UNCHANGED len
      /\ UNCHANGED <<rib, clash, nextHopMapping, next_index, netmapIndex, nextHops>>
  BY Zenon DEF SortLength
<1>2. TypeOK /\ Table(entries) /\ Progress /\ Mapped(nextHopMapping, AllRoutes(rib))
  BY Zenon, InvFacts
<1>3. StandsFor(entries, rib, clash)
  BY <1>1, InvFacts DEF Aggregated
<1>4. len \in 1 .. W - 2 /\ len \in 0 .. W
  <2>1. len \in 0 .. W - 2
    BY <1>1, <1>2 DEF Progress
  <2>. QED  BY <1>1, <2>1, SizeFacts
<1>5. /\ Table(entries') /\ AllRoutes(entries') = AllRoutes(entries)
      /\ Apart(entries, clash) => Apart(entries', clash)
  <2>1. PICK f \in SortOrders(entries[len]) :
          entries' = [entries EXCEPT ![len] = [k \in DOMAIN f |-> @[f[k]]]]
    BY Zenon DEF SortLength
  <2>2. entries' = Put(entries, len, [k \in DOMAIN f |-> entries[len][f[k]]])
    BY Zenon, <2>1 DEF Put
  <2>3. Table(entries) /\ len \in 0 .. W
    BY Zenon, <1>2, <1>4
  <2>4. /\ Table(entries') /\ AllRoutes(entries') = AllRoutes(entries)
        /\ \A c : Apart(entries, c) => Apart(entries', c)
    BY <2>2, <2>3, PermutedFacts
  <2>. QED  BY Zenon, <2>4
<1>6. StandsFor(entries', rib', clash')
  <2>1. StandsFor(entries', rib, clash)
    BY Zenon, <1>3, <1>5, PermutedStands
  <2>. QED  BY Zenon, <1>1, <2>1
<1>7. /\ len' \in 0 .. W /\ i' \in Nat /\ pc' \in {"sort", "merge"}
      /\ pc' = "sort" => len' \in 0 .. W - 2
      /\ pc' = "merge" => len' \in 1 .. W - 2 /\ i' >= 1
  <2>1. i \in Nat
    BY Zenon, <1>2 DEF TypeOK
  <2>2. CASE len' = len - 1 /\ UNCHANGED <<pc, i>>
    BY <1>1, <1>4, <2>1, <2>2, SizeFacts
  <2>3. CASE pc' = "merge" /\ i' = 1 /\ UNCHANGED len
    BY <1>4, <2>3, SizeFacts
  <2>. QED  BY Zenon, <1>1, <2>2, <2>3
<1>8. TypeOK'
  <2>1. Table(entries)'
    BY Zenon, <1>5
  <2>. QED  BY Zenon, <1>1, <1>2, <1>7, <2>1, TypeFromTable DEF TypeOK
<1>9. Progress'
  BY <1>1, <1>2, <1>7 DEF Progress
<1>10. Mapped(nextHopMapping', AllRoutes(rib'))
  BY Zenon, <1>1, <1>2
<1>. QED  BY Zenon, <1>6, <1>8, <1>9, <1>10 DEF IInv, Aggregated

LEMMA SortDoneInv ==
  ASSUME IInv, SortDone
  PROVE  IInv'
<1>1. /\ pc = "sort" /\ len = 0 /\ pc' = "index" /\ i' = 1 /\ next_index' = 0
      /\ UNCHANGED <<entries, rib, clash, nextHopMapping, netmapIndex, nextHops, len>>
  BY Zenon DEF SortDone
<1>2. TypeOK /\ Table(entries) /\ Progress /\ Mapped(nextHopMapping, AllRoutes(rib))
  BY Zenon, InvFacts
<1>3. StandsFor(entries', rib', clash')
  BY <1>1, InvFacts DEF Aggregated
<1>4. TypeOK'
  <2>1. Table(entries)' /\ next_index' \in NhIndex /\ i' \in Nat
    BY <1>1, <1>2, NhFacts
  <2>. QED  BY Zenon, <1>1, <1>2, <2>1, TypeFromTable DEF TypeOK
<1>5. Progress'
  <2>1. nextHopMapping' = <<>> /\ next_index' = Len(nextHopMapping')
    BY <1>1, <1>2 DEF Progress
  <2>2. Visited(entries', len', i', nextHopMapping', netmapIndex')
    <3>1. \A q \in 0 .. W : \A k \in 1 .. Len(entries'[q]) : ~ (q < len' \/ (q = len' /\ k < i'))
      BY <1>1, SizeFacts
    <3>. QED  BY Zenon, <3>1 DEF Visited
  <2>. QED  BY <1>1, <1>2, <2>1, <2>2 DEF Progress
<1>6. Mapped(nextHopMapping', AllRoutes(rib'))
  BY Zenon, <1>1, <1>2
<1>. QED  BY Zenon, <1>3, <1>4, <1>5, <1>6 DEF IInv, Aggregated

LEMMA MergeInv ==
  ASSUME IInv, Merge
  PROVE  IInv'
<1>1. /\ pc = "merge" /\ i < Len(entries[len]) /\ i' = i + 1
      /\ UNCHANGED <<rib, nextHopMapping, next_index, netmapIndex, nextHops, pc, len>>
  BY Zenon DEF Merge
<1>2. TypeOK /\ Table(entries) /\ Progress /\ Mapped(nextHopMapping, AllRoutes(rib))
  BY Zenon, InvFacts
<1>3. StandsFor(entries, rib, clash)
  BY <1>1, InvFacts DEF Aggregated
<1>4. len \in 1 .. W - 2 /\ i >= 1 /\ i \in Nat
  BY <1>1, <1>2 DEF Progress, TypeOK
<1>5. len \in 1 .. W /\ len \in 0 .. W /\ len - 1 \in 0 .. W /\ len # len - 1
  BY <1>4, SizeFacts
<1>6. entries[len] \in Seq(Route) /\ entries[len - 1] \in Seq(Route)
  BY Zenon, <1>2, <1>5 DEF Table
<1>7. i \in 1 .. Len(entries[len]) - 1 /\ i \in 1 .. Len(entries[len])
  BY <1>1, <1>4, <1>6
<1>8. entries[len][i] \in Route /\ Len(entries[len][i].base) = len
  BY Zenon, <1>2, <1>5, <1>7, TableFacts
<1>9. PICK new : new = {r.base : r \in {q \in Range(entries[len - 1]) :
                           /\ Siblings(entries[len][i], entries[len][i + 1])
                           /\ q.base = Front(entries[len][i].base)}}
  BY Zenon
<1>10. clash' = clash \cup new
  BY Zenon, <1>9 DEF Merge
<1>11. new \subseteq Prefix
  <2>1. ASSUME NEW b \in new PROVE b \in Prefix
    <3>1. PICK q \in Range(entries[len - 1]) : b = q.base
      BY Zenon, <1>9
    <3>2. q \in Route
      BY <1>6, <3>1 DEF Range
    <3>. QED  BY Zenon, <3>1, <3>2, RouteFields
  <2>. QED  BY Zenon, <2>1
<1>12. Table(entries') /\ StandsFor(entries', rib, clash')
  <2>1. CASE Siblings(entries[len][i], entries[len][i + 1])
    <3>1. entries' = [entries EXCEPT
                        ![len] = SubSeq(entries[len], 1, i - 1)
                                   \o SubSeq(entries[len], i + 2, Len(entries[len])),
                        ![len - 1] = Append(@, Parent(entries[len][i]))]
      BY Zenon, <2>1 DEF Merge
    <3>2. PICK s : s = SubSeq(entries[len], 1, i - 1)
                         \o SubSeq(entries[len], i + 2, Len(entries[len]))
      BY Zenon
    <3>3. PICK p : p = Parent(entries[len][i])
      BY Zenon
    <3>4. s = CutTwo(entries[len], i) /\ p = Parent(entries[len][i])
      BY Zenon, <3>2, <3>3 DEF CutTwo
    <3>5. entries' = [entries EXCEPT ![len] = s, ![len - 1] = Append(@, p)]
      BY Zenon, <3>1, <3>2, <3>3
    <3>6. entries \in [0 .. W -> Seq(Route)]
      BY Zenon, <1>2 DEF Table
    <3>7. entries' = Put(Put(entries, len, s), len - 1, Append(entries[len - 1], p))
      BY <1>5, <3>5, <3>6 DEF Put
    <3>8. entries' = Merged(entries, len, i)
      BY Zenon, <3>4, <3>7 DEF Merged
    <3>9. Parent(entries[len][i]).base = Front(entries[len][i].base)
      BY Zenon, <1>5, <1>8, ParentFacts
    <3>10. ASSUME NEW j \in 1 .. Len(entries[len - 1]),
                  entries[len - 1][j].base = Parent(entries[len][i]).base
           PROVE  entries[len - 1][j].base \in clash'
      <4>1. PICK q : q = entries[len - 1][j]
        BY Zenon
      <4>2. q \in Range(entries[len - 1])
        BY <1>6, <4>1 DEF Range
      <4>3. q.base = Front(entries[len][i].base)
        BY Zenon, <3>9, <3>10, <4>1
      <4>4. q.base \in new
        BY Zenon, <1>9, <2>1, <4>2, <4>3
      <4>. QED  BY Zenon, <1>10, <4>1, <4>4
    <3>11. \A j \in 1 .. Len(entries[len - 1]) :
             entries[len - 1][j].base = Parent(entries[len][i]).base =>
               entries[len - 1][j].base \in clash'
      BY Zenon, <3>10
    <3>12. clash \subseteq clash'
      BY Zenon, <1>10
    <3>13. Table(entries')
      BY <1>2, <1>5, <1>7, <3>8, MergedLists
    <3>14. StandsFor(entries', rib, clash')
      BY Zenon, <1>2, <1>3, <1>5, <1>7, <2>1, <3>8, <3>11, <3>12, MergedStands
    <3>. QED  BY Zenon, <3>13, <3>14
  <2>2. CASE ~ Siblings(entries[len][i], entries[len][i + 1])
    <3>1. entries' = entries
      BY Zenon, <2>2 DEF Merge
    <3>2. new = {}
      BY Zenon, <1>9, <2>2
    <3>3. clash' = clash
      BY Zenon, <1>10, <3>2
    <3>. QED  BY Zenon, <1>2, <1>3, <3>1, <3>3
  <2>. QED  BY Zenon, <2>1, <2>2
<1>13. TypeOK'
  <2>1. Table(entries)' /\ clash' \subseteq Prefix /\ i' \in Nat
    <3>1. i' \in Nat
      BY <1>1, <1>4
    <3>2. clash \subseteq Prefix
      BY Zenon, <1>2 DEF TypeOK
    <3>. QED  BY Zenon, <1>10, <1>11, <1>12, <3>1, <3>2
  <2>. QED  BY Zenon, <1>1, <1>2, <2>1, TypeFromTable DEF TypeOK
<1>14. Progress'
  <2>1. len' \in 1 .. W - 2 /\ i' >= 1
    BY <1>1, <1>4
  <2>. QED  BY <1>1, <1>2, <2>1 DEF Progress
<1>15. Mapped(nextHopMapping', AllRoutes(rib')) /\ StandsFor(entries', rib', clash')
  BY Zenon, <1>1, <1>2, <1>12
<1>. QED  BY Zenon, <1>13, <1>14, <1>15 DEF IInv, Aggregated

LEMMA MergeDoneInv ==
  ASSUME IInv, MergeDone
  PROVE  IInv'
<1>1. /\ pc = "merge"
      /\ \/ pc' = "overrun" /\ UNCHANGED len
         \/ pc' = "sort" /\ len' = len - 1
      /\ UNCHANGED <<entries, rib, clash, nextHopMapping, next_index, netmapIndex, nextHops, i>>
  BY Zenon DEF MergeDone
<1>2. TypeOK /\ Table(entries) /\ Progress /\ Mapped(nextHopMapping, AllRoutes(rib))
  BY Zenon, InvFacts
<1>3. StandsFor(entries', rib', clash')
  BY <1>1, InvFacts DEF Aggregated
<1>4. len' \in 0 .. W /\ (pc' = "sort" => len' \in 0 .. W - 2)
  <2>1. len \in 1 .. W - 2
    BY <1>1, <1>2 DEF Progress
  <2>. QED  BY <1>1, <2>1, SizeFacts
<1>5. TypeOK'
  <2>1. Table(entries)' /\ pc' \in {"sort", "overrun"}
    BY Zenon, <1>1, <1>2
  <2>. QED  BY Zenon, <1>1, <1>2, <1>4, <2>1, TypeFromTable DEF TypeOK
<1>6. Progress'
  BY <1>1, <1>2, <1>4 DEF Progress
<1>7. Mapped(nextHopMapping', AllRoutes(rib'))
  BY Zenon, <1>1, <1>2
<1>. QED  BY Zenon, <1>3, <1>5, <1>6, <1>7 DEF IInv, Aggregated

-----------------------------------------------------------------------------
(* buildNextHopList().                                                      *)
Hop == [nh_ip : Gateways, interface : Interfaces, index : NhIndex]

LEMMA DirectFacts ==
  ASSUME NEW x \in Nat \cup {None}
  PROVE  /\ Uint16(x) \in Nat /\ Uint16(x) <= 65535
         /\ DirectIndex(x) \in NhIndex /\ DirectIndex(x) >= 32768
         /\ Uint16(x) <= 32767 => DirectIndex(x) = Uint16(x) + 32768
<1>1. Uint16(x) \in Nat /\ Uint16(x) <= 65535
  <2>1. CASE x = None
    BY <2>1 DEF Uint16
  <2>2. CASE x # None
    <3>1. x % 65536 \in Nat /\ x % 65536 <= 65535
      BY <2>2
    <3>. QED  BY <2>2, <3>1 DEF Uint16
  <2>. QED  BY <2>1, <2>2
<1>2. PICK y : y = Uint16(x)
  BY Zenon
<1>3. /\ y % 32768 \in Nat /\ y % 32768 <= 32767
      /\ y <= 32767 => y % 32768 = y
  BY <1>1, <1>2
<1>4. DirectIndex(x) = 32768 + (y % 32768)
  BY <1>2 DEF DirectIndex, NH_DIRECTLY_CONNECTED
<1>5. DirectIndex(x) \in Nat /\ DirectIndex(x) <= 65535 /\ DirectIndex(x) >= 32768
  BY <1>3, <1>4
<1>. QED  BY <1>1, <1>2, <1>3, <1>4, <1>5, NhFacts

LEMMA DirectType ==
  ASSUME NEW x \in Nat \cup {None}
  PROVE  DirectIndex(x) \in NhIndex
BY SMT, DirectFacts

(* The list grows, and what was known stays known.                          *)
Extends(m, l) == \A k \in 1 .. Len(m) : k \in 1 .. Len(l) /\ l[k].nh_ip = m[k].nh_ip

LEMMA ExtendsKnown ==
  ASSUME NEW m, NEW l, Extends(m, l), NEW r, NEW number
  PROVE  (Known(r, m) => Known(r, l)) /\ (HasIndex(r, m, number) => HasIndex(r, l, number))
BY Zenon DEF Extends, Known, HasIndex

(* The table after one round of the loop.                                   *)
LEMMA SetIndexTable ==
  ASSUME Table(entries), len \in 0 .. W, i \in 1 .. Len(entries[len]),
         NEW x \in NhIndex, SetIndex(x)
  PROVE  OneChanged(entries', entries, len, i, x)
<1>1. entries' = [entries EXCEPT ![len] =
                    [entries[len] EXCEPT ![i] = [entries[len][i] EXCEPT !.index = x]]]
  BY Zenon DEF SetIndex
<1>2. entries' = Indexed(entries, len, i, x)
  BY Zenon, <1>1 DEF Indexed, Put
<1>. QED  BY Zenon, <1>2, IndexedFacts

(* What every branch of the loop has in common.                             *)
LEMMA SetIndexInv ==
  ASSUME IInv, Visiting, NEW x \in NhIndex, SetIndex(x),
         UNCHANGED <<rib, clash, netmapIndex, nextHops, pc, len>>,
         nextHopMapping' \in Seq(Hop), next_index' \in NhIndex,
         Mapped(nextHopMapping', AllRoutes(rib)), Extends(nextHopMapping, nextHopMapping'),
         pc = "index" => next_index' = Len(nextHopMapping'),
         \A r : SameHop(r, entries[len][i]) /\ r.index = x =>
                  HasIndex(r, nextHopMapping', netmapIndex)
  PROVE  IInv'
<1>1. TypeOK /\ Table(entries) /\ Progress
  BY Zenon, InvFacts
<1>2. pc \in {"index", "reindex"} /\ i <= Len(entries[len])
  BY Zenon DEF Visiting
<1>3. StandsFor(entries, rib, clash)
  BY <1>2, InvFacts DEF Aggregated
<1>4. len \in 0 .. W /\ i >= 1 /\ i \in Nat
  BY <1>1, <1>2 DEF Progress, TypeOK
<1>5. i \in 1 .. Len(entries[len])
  <2>1. entries[len] \in Seq(Route)
    BY Zenon, <1>1, <1>4 DEF Table
  <2>. QED  BY <1>2, <1>4, <2>1
<1>7. /\ Table(entries')
      /\ \A m \in 0 .. W : Len(entries'[m]) = Len(entries[m])
      /\ \A m \in 0 .. W : \A j \in 1 .. Len(entries[m]) :
           /\ entries'[m][j].base = entries[m][j].base /\ SameHop(entries'[m][j], entries[m][j])
           /\ ~ (m = len /\ j = i) => entries'[m][j] = entries[m][j]
      /\ entries'[len][i].index = x
  <2>1. Table(entries) /\ len \in 0 .. W /\ SetIndex(x)
    BY Zenon, <1>1, <1>4
  <2>2. OneChanged(entries', entries, len, i, x)
    BY Zenon, <1>5, <2>1, SetIndexTable
  <2>. QED  BY Zenon, <2>2 DEF OneChanged
<1>8. StandsFor(entries', rib, clash)
  <2>1. Table(entries) /\ Table(entries')
    BY Zenon, <1>1, <1>7
  <2>2. \A m \in 0 .. W : Len(entries'[m]) = Len(entries[m])
    BY Zenon, <1>7
  <2>3. \A m \in 0 .. W : \A j \in 1 .. Len(entries[m]) :
           entries'[m][j].base = entries[m][j].base /\ SameHop(entries'[m][j], entries[m][j])
    BY Zenon, <1>7
  <2>. QED  BY Zenon, <1>3, <2>1, <2>2, <2>3, IndexedStands
<1>9. TypeOK'
  <2>1. i' \in Nat
    BY <1>4 DEF SetIndex
  <2>2. Table(entries)'
    BY Zenon, <1>7
  <2>. QED  BY Zenon, <1>1, <2>1, <2>2, TypeFromTable DEF TypeOK, Hop
<1>10. Visited(entries', len', i', nextHopMapping', netmapIndex')
  <2>1. ASSUME NEW q \in 0 .. W, NEW k \in 1 .. Len(entries'[q]), q < len \/ (q = len /\ k < i + 1)
        PROVE  HasIndex(entries'[q][k], nextHopMapping', netmapIndex)
    <3>1. k \in 1 .. Len(entries[q])
      BY Zenon, <1>7
    <3>2. CASE q = len /\ k = i
      BY Zenon, <1>7, <3>1, <3>2
    <3>3. CASE ~ (q = len /\ k = i)
      <4>1. entries'[q][k] = entries[q][k]
        BY Zenon, <1>7, <3>1, <3>3
      <4>2. Len(entries[q]) \in Nat
        BY Zenon, <1>1, <3>1, TableFacts
      <4>3. q < len \/ (q = len /\ k < i)
        BY <1>4, <2>1, <3>1, <3>3, <4>2
      <4>4. HasIndex(entries[q][k], nextHopMapping, netmapIndex)
        BY Zenon, <1>1, <1>2, <3>1, <4>3 DEF Progress, Visited
      <4>. QED  BY Zenon, <4>1, <4>4, ExtendsKnown
    <3>. QED  BY Zenon, <3>2, <3>3
  <2>2. len' = len /\ i' = i + 1 /\ netmapIndex' = netmapIndex
    BY Zenon DEF SetIndex
  <2>3. Visited(entries', len, i + 1, nextHopMapping', netmapIndex)
    BY Zenon, <2>1 DEF Visited
  <2>. QED  BY Zenon, <2>2, <2>3
<1>11. ASSUME pc = "reindex", NEW e \in AllRoutes(entries') PROVE Known(e, nextHopMapping')
  <2>. Table(entries')
    BY Zenon, <1>7
  <2>1. PICK m \in 0 .. W : \E j \in 1 .. Len(entries'[m]) : e = entries'[m][j]
    BY Zenon, RouteAt
  <2>2. PICK j \in 1 .. Len(entries'[m]) : e = entries'[m][j]
    BY Zenon, <2>1
  <2>3. j \in 1 .. Len(entries[m])
    BY Zenon, <1>7
  <2>4. SameHop(e, entries[m][j])
    BY Zenon, <1>7, <2>2, <2>3
  <2>5. entries[m][j] \in AllRoutes(entries)
    BY Zenon, <1>1, <2>3, RouteIn
  <2>6. Known(entries[m][j], nextHopMapping)
    BY <1>1, <1>11, <2>5 DEF Progress
  <2>7. Known(entries[m][j], nextHopMapping')
    BY Zenon, <2>6, ExtendsKnown
  <2>. QED  BY Zenon, <2>4, <2>7 DEF Known, SameHop
<1>12. Progress'
  <2>1. i' >= 1
    BY <1>4 DEF SetIndex
  <2>2. netmapIndex' = IF pc' \in {"reindex", "table", "ready"} THEN NumberOf
                       ELSE [f \in Interfaces |-> None]
    BY Zenon, <1>1 DEF Progress
  <2>3. pc' = "reindex" => \A e \in AllRoutes(entries') : Known(e, nextHopMapping')
    BY Zenon, <1>11
  <2>4. pc' \in {"index", "reindex"}
    BY Zenon, <1>2
  <2>5. pc' = "index" => next_index' = Len(nextHopMapping')
    BY Zenon
  <2>. QED  BY <1>10, <2>1, <2>2, <2>3, <2>4, <2>5 DEF Progress
<1>13. Mapped(nextHopMapping', AllRoutes(rib')) /\ StandsFor(entries', rib', clash')
  BY Zenon, <1>8
<1>. QED  BY Zenon, <1>9, <1>12, <1>13 DEF IInv, Aggregated

LEMMA VisitingFacts ==
  ASSUME IInv, Visiting
  PROVE  /\ entries[len][i] \in Route /\ entries[len][i] \in AllRoutes(entries)
         /\ pc \in {"index", "reindex"}
<1>1. TypeOK /\ Table(entries) /\ Progress
  BY Zenon, InvFacts
<1>2. pc \in {"index", "reindex"} /\ i <= Len(entries[len])
  BY Zenon DEF Visiting
<1>3. len \in 0 .. W /\ i >= 1 /\ i \in Nat
  BY <1>1, <1>2 DEF Progress, TypeOK
<1>4. i \in 1 .. Len(entries[len])
  <2>1. entries[len] \in Seq(Route)
    BY Zenon, <1>1, <1>3 DEF Table
  <2>. QED  BY <1>2, <1>3, <2>1
<1>. QED  BY Zenon, <1>1, <1>2, <1>3, <1>4, TableFacts

LEMMA ExtendsItself ==
  ASSUME NEW m
  PROVE  Extends(m, m)
BY Zenon DEF Extends

LEMMA IndexDirectInv ==
  ASSUME IInv, IndexDirect
  PROVE  IInv'
<1>1. /\ Visiting /\ entries[len][i].next_hop = None
      /\ SetIndex(DirectIndex(netmapIndex[entries[len][i].interface]))
      /\ UNCHANGED <<rib, clash, nextHopMapping, next_index, netmapIndex, nextHops, pc, len>>
  BY Zenon DEF IndexDirect
<1>2. TypeOK /\ Progress /\ Mapped(nextHopMapping, AllRoutes(rib))
  BY Zenon, InvFacts
<1>3. PICK x : x = DirectIndex(netmapIndex[entries[len][i].interface])
  BY Zenon
<1>4. x \in NhIndex
  <2>1. entries[len][i].interface \in Interfaces
    BY Zenon, <1>1, VisitingFacts, RouteFields
  <2>2. netmapIndex[entries[len][i].interface] \in Nat \cup {None}
    BY Zenon, <1>2, <2>1 DEF TypeOK
  <2>. QED  BY Zenon, <1>3, <2>2, DirectType
<1>5. \A r : SameHop(r, entries[len][i]) /\ r.index = x =>
               HasIndex(r, nextHopMapping', netmapIndex)
  BY Zenon, <1>1, <1>3 DEF HasIndex, SameHop
<1>6. /\ nextHopMapping' \in Seq(Hop) /\ next_index' \in NhIndex
      /\ Mapped(nextHopMapping', AllRoutes(rib)) /\ Extends(nextHopMapping, nextHopMapping')
      /\ pc = "index" => next_index' = Len(nextHopMapping')
  BY Zenon, <1>1, <1>2, ExtendsItself DEF TypeOK, Hop, Progress
<1>7. SetIndex(x) /\ UNCHANGED <<rib, clash, netmapIndex, nextHops, pc, len>>
  BY Zenon, <1>1, <1>3
<1>. QED  BY <1>1, <1>4, <1>5, <1>6, <1>7, SetIndexInv

LEMMA IndexKnownInv ==
  ASSUME IInv, IndexKnown
  PROVE  IInv'
<1>. DEFINE ip == entries[len][i].next_hop
<1>1. /\ Visiting /\ ip # None /\ KnownAs(ip) # {}
      /\ SetIndex(nextHopMapping[Min(KnownAs(ip))].index)
      /\ UNCHANGED <<rib, clash, nextHopMapping, next_index, netmapIndex, nextHops, pc, len>>
  BY Zenon DEF IndexKnown
<1>. HIDE DEF ip
<1>2. TypeOK /\ Progress /\ Mapped(nextHopMapping, AllRoutes(rib))
  BY Zenon, InvFacts
<1>3. PICK k : k = Min(KnownAs(ip))
  BY Zenon
<1>4. nextHopMapping \in Seq(Hop) /\ Len(nextHopMapping) \in Nat
  BY <1>2 DEF TypeOK, Hop
<1>5. k \in 1 .. Len(nextHopMapping) /\ nextHopMapping[k].nh_ip = ip
  <2>1. KnownAs(ip) \in SUBSET (0 .. Len(nextHopMapping))
    BY <1>4 DEF KnownAs
  <2>2. k \in KnownAs(ip)
    BY Zenon, <1>1, <1>3, <1>4, <2>1, MinFacts
  <2>. QED  BY Zenon, <2>2 DEF KnownAs
<1>6. PICK x : x = nextHopMapping[k].index
  BY Zenon
<1>7. x \in NhIndex /\ x = k - 1
  <2>1. nextHopMapping[k] \in Hop
    BY <1>4, <1>5
  <2>2. nextHopMapping[k].index \in NhIndex
    BY <2>1 DEF Hop
  <2>3. nextHopMapping[k].index = k - 1
    BY Zenon, <1>2, <1>5 DEF Mapped
  <2>. QED  BY Zenon, <1>6, <2>2, <2>3
<1>8. ASSUME NEW r, SameHop(r, entries[len][i]), r.index = x
      PROVE  HasIndex(r, nextHopMapping', netmapIndex)
  <2>1. r.next_hop = ip /\ r.next_hop # None
    BY Zenon, <1>1, <1>8 DEF SameHop, ip
  <2>2. k \in 1 .. Len(nextHopMapping') /\ nextHopMapping'[k].nh_ip = r.next_hop /\ r.index = k - 1
    BY Zenon, <1>1, <1>5, <1>7, <1>8, <2>1
  <2>. QED  BY Zenon, <2>1, <2>2 DEF HasIndex
<1>9. /\ nextHopMapping' \in Seq(Hop) /\ next_index' \in NhIndex
      /\ Mapped(nextHopMapping', AllRoutes(rib)) /\ Extends(nextHopMapping, nextHopMapping')
      /\ pc = "index" => next_index' = Len(nextHopMapping')
  BY Zenon, <1>1, <1>2, <1>4, ExtendsItself DEF TypeOK, Progress
<1>10. SetIndex(x) /\ UNCHANGED <<rib, clash, netmapIndex, nextHops, pc, len>>
  BY Zenon, <1>1, <1>3, <1>6
<1>. QED  BY <1>1, <1>7, <1>8, <1>9, <1>10, SetIndexInv

LEMMA AppendMapped ==
  ASSUME NEW m \in Seq(Hop), NEW h \in Hop, NEW K, Mapped(m, K),
         h.index = Len(m), h.index # NH_INVALID,
         \E r \in K : r.next_hop = h.nh_ip /\ r.interface = h.interface,
         \A k \in 1 .. Len(m) : m[k].nh_ip # h.nh_ip
  PROVE  Mapped(Append(m, h), K) /\ Extends(m, Append(m, h))
<1>1. PICK l : l = Append(m, h)
  BY Zenon
<1>2. /\ Len(m) \in Nat /\ Len(l) = Len(m) + 1
      /\ \A k \in 1 .. Len(m) : l[k] = m[k]
      /\ l[Len(m) + 1] = h
  BY <1>1
<1>3. \A k \in 1 .. Len(l) : k \in 1 .. Len(m) \/ (k = Len(m) + 1 /\ k - 1 = Len(m))
  BY <1>2
<1>4. \A k \in 1 .. Len(m) : k \in 1 .. Len(l)
  BY <1>2
<1>5. Extends(m, l)
  BY Zenon, <1>2, <1>4 DEF Extends
<1>6. ASSUME NEW k \in 1 .. Len(l)
      PROVE  /\ l[k].index = k - 1 /\ k - 1 # NH_INVALID
             /\ \E r \in K : r.next_hop = l[k].nh_ip /\ r.interface = l[k].interface
  <2>1. CASE k \in 1 .. Len(m)
    <3>1. l[k] = m[k]
      BY Zenon, <1>2, <2>1
    <3>2. /\ m[k].index = k - 1 /\ k - 1 # NH_INVALID
          /\ \E r \in K : r.next_hop = m[k].nh_ip /\ r.interface = m[k].interface
      BY Zenon, <2>1 DEF Mapped
    <3>. QED  BY Zenon, <3>1, <3>2
  <2>2. CASE k = Len(m) + 1 /\ k - 1 = Len(m)
    BY Zenon, <1>2, <2>2
  <2>. QED  BY Zenon, <1>3, <2>1, <2>2
<1>7. ASSUME NEW j \in 1 .. Len(l), NEW k \in 1 .. Len(l), l[j].nh_ip = l[k].nh_ip
      PROVE  j = k
  <2>1. CASE j \in 1 .. Len(m) /\ k \in 1 .. Len(m)
    BY Zenon, <1>2, <1>7, <2>1 DEF Mapped
  <2>2. CASE j \in 1 .. Len(m) /\ k = Len(m) + 1
    BY Zenon, <1>2, <1>7, <2>2
  <2>3. CASE k \in 1 .. Len(m) /\ j = Len(m) + 1
    BY Zenon, <1>2, <1>7, <2>3
  <2>. QED  BY Zenon, <1>3, <2>1, <2>2, <2>3
<1>8. Mapped(l, K)
  BY Zenon, <1>6, <1>7 DEF Mapped
<1>. QED  BY Zenon, <1>1, <1>5, <1>8

LEMMA IndexNewInv ==
  ASSUME IInv, IndexNew
  PROVE  IInv'
<1>. DEFINE r == entries[len][i]
            h == [nh_ip |-> r.next_hop, interface |-> r.interface, index |-> next_index]
<1>1. /\ Visiting /\ r.next_hop # None /\ KnownAs(r.next_hop) = {} /\ next_index # NH_INVALID
      /\ nextHopMapping' = Append(nextHopMapping, h)
      /\ next_index' = next_index + 1 /\ SetIndex(next_index)
      /\ UNCHANGED <<rib, clash, netmapIndex, nextHops, pc, len>>
  BY Zenon DEF IndexNew
<1>2. TypeOK /\ Progress /\ Mapped(nextHopMapping, AllRoutes(rib)) /\ Aggregated
  BY Zenon, InvFacts
<1>3. r \in Route /\ r \in AllRoutes(entries) /\ pc \in {"index", "reindex"}
  BY Zenon, <1>1, VisitingFacts
<1>4. nextHopMapping \in Seq(Hop) /\ Len(nextHopMapping) \in Nat /\ next_index \in NhIndex
  BY <1>2 DEF TypeOK, Hop
<1>5. \A k \in 1 .. Len(nextHopMapping) : nextHopMapping[k].nh_ip # r.next_hop
  BY Zenon, <1>1 DEF KnownAs
<1>6. pc = "index"
  <2>1. ~ Known(r, nextHopMapping)
    BY Zenon, <1>1, <1>5 DEF Known
  <2>2. pc # "reindex"
    BY <1>2, <1>3, <2>1 DEF Progress
  <2>. QED  BY Zenon, <1>3, <2>2
<1>7. next_index = Len(nextHopMapping)
  BY Zenon, <1>2, <1>6 DEF Progress
<1>8. h \in Hop /\ h.nh_ip = r.next_hop /\ h.interface = r.interface /\ h.index = next_index
  <2>1. r.next_hop \in Gateways /\ r.interface \in Interfaces
    BY Zenon, <1>1, <1>3, RouteFields
  <2>. QED  BY <1>4, <2>1 DEF Hop
<1>9. \E q \in AllRoutes(rib) : q.next_hop = h.nh_ip /\ q.interface = h.interface
  <2>1. StandsFor(entries, rib, clash)
    BY <1>2, <1>6 DEF Aggregated
  <2>2. PICK q \in AllRoutes(rib) : SameHop(r, q)
    BY Zenon, <1>3, <2>1 DEF StandsFor
  <2>3. q.next_hop = h.nh_ip /\ q.interface = h.interface
    BY Zenon, <1>8, <2>2 DEF SameHop
  <2>. QED  BY Zenon, <2>3
<1>. HIDE DEF h, r
<1>10. Mapped(nextHopMapping', AllRoutes(rib)) /\ Extends(nextHopMapping, nextHopMapping')
  <2>1. \A k \in 1 .. Len(nextHopMapping) : nextHopMapping[k].nh_ip # h.nh_ip
    BY Zenon, <1>5, <1>8
  <2>2. h.index = Len(nextHopMapping) /\ h.index # NH_INVALID
    BY Zenon, <1>1, <1>7, <1>8
  <2>3. /\ Mapped(Append(nextHopMapping, h), AllRoutes(rib))
        /\ Extends(nextHopMapping, Append(nextHopMapping, h))
    BY Zenon, <1>2, <1>4, <1>8, <1>9, <2>1, <2>2, AppendMapped
  <2>. QED  BY Zenon, <1>1, <2>3
<1>11. /\ nextHopMapping' \in Seq(Hop) /\ Len(nextHopMapping') = Len(nextHopMapping) + 1
       /\ nextHopMapping'[Len(nextHopMapping) + 1] = h
  BY <1>1, <1>4, <1>8
<1>12. next_index' \in NhIndex
  <2>1. NH_INVALID \in Nat
    BY SMT, NhFacts
  <2>. QED  BY <1>1, <1>4, <2>1 DEF NhIndex
<1>13. next_index' = Len(nextHopMapping')
  BY Zenon, <1>1, <1>7, <1>11
<1>14. ASSUME NEW q, SameHop(q, entries[len][i]), q.index = next_index
       PROVE  HasIndex(q, nextHopMapping', netmapIndex)
  <2>1. q.next_hop = r.next_hop /\ q.next_hop # None
    BY Zenon, <1>1, <1>14 DEF SameHop, r
  <2>2. PICK k : k = Len(nextHopMapping) + 1
    BY Zenon
  <2>3. k \in 1 .. Len(nextHopMapping') /\ k - 1 = next_index
    BY <1>4, <1>7, <1>11, <2>2
  <2>4. nextHopMapping'[k].nh_ip = q.next_hop /\ q.index = k - 1
    BY Zenon, <1>8, <1>11, <1>14, <2>1, <2>2, <2>3
  <2>. QED  BY Zenon, <2>1, <2>3, <2>4 DEF HasIndex
<1>15. SetIndex(next_index) /\ Visiting /\ UNCHANGED <<rib, clash, netmapIndex, nextHops, pc, len>>
  BY Zenon, <1>1
<1>16. nextHopMapping' \in Seq(Hop) /\ next_index \in NhIndex
  BY Zenon, <1>4, <1>11
<1>. QED  BY <1>10, <1>12, <1>13, <1>14, <1>15, <1>16, SetIndexInv

LEMMA IndexNextListInv ==
  ASSUME IInv, IndexNextList
  PROVE  IInv'
<1>1. /\ pc \in {"index", "reindex"} /\ i > Len(entries[len]) /\ i' = 1
      /\ UNCHANGED <<entries, rib, clash, nextHopMapping, next_index, netmapIndex, nextHops, pc>>
  BY Zenon DEF IndexNextList
<1>2. PICK n \in len + 1 .. W : (\A m \in len + 1 .. n - 1 : entries[m] = <<>>) /\ len' = n
  BY Zenon DEF IndexNextList
<1>3. TypeOK /\ Table(entries) /\ Progress /\ Mapped(nextHopMapping, AllRoutes(rib)) /\ Aggregated
  BY Zenon, InvFacts
<1>4. len \in 0 .. W /\ i \in Nat /\ len' \in 0 .. W /\ i' \in Nat /\ i' >= 1
  BY <1>1, <1>2, <1>3, SizeFacts DEF TypeOK
<1>5. Visited(entries, n, 1, nextHopMapping, netmapIndex)
  <2>1. ASSUME NEW q \in 0 .. W, NEW k \in 1 .. Len(entries[q]), q < n \/ (q = n /\ k < 1)
        PROVE  HasIndex(entries[q][k], nextHopMapping, netmapIndex)
    <3>1. Len(entries[q]) \in Nat
      BY Zenon, <1>3, TableFacts
    <3>2. q < n
      BY <2>1, <3>1
    <3>3. q \notin len + 1 .. n - 1
      <4>1. entries[q] # <<>>
        BY <3>1
      <4>. QED  BY Zenon, <1>2, <4>1
    <3>4. q < len \/ q = len
      BY <1>2, <1>4, <3>2, <3>3, SizeFacts
    <3>5. q < len \/ (q = len /\ k < i)
      <4>1. CASE q = len
        BY <1>1, <1>4, <3>1, <4>1
      <4>. QED  BY Zenon, <3>4, <4>1
    <3>6. Visited(entries, len, i, nextHopMapping, netmapIndex)
      BY Zenon, <1>1, <1>3 DEF Progress
    <3>. QED  BY Zenon, <3>5, <3>6 DEF Visited
  <2>. QED  BY Zenon, <2>1 DEF Visited
<1>6. TypeOK'
  <2>1. Table(entries)'
    BY Zenon, <1>1, <1>3
  <2>. QED  BY Zenon, <1>1, <1>3, <1>4, <2>1, TypeFromTable DEF TypeOK
<1>7. Progress'
  <2>1. Visited(entries', len', i', nextHopMapping', netmapIndex')
    BY Zenon, <1>1, <1>2, <1>5
  <2>. QED  BY <1>1, <1>3, <1>4, <2>1 DEF Progress
<1>8. Mapped(nextHopMapping', AllRoutes(rib')) /\ Aggregated'
  BY Zenon, <1>1, <1>3 DEF Aggregated
<1>. QED  BY Zenon, <1>6, <1>7, <1>8 DEF IInv

LEMMA IndexDoneInv ==
  ASSUME IInv, IndexDone
  PROVE  IInv'
<1>1. /\ pc \in {"index", "reindex"} /\ i > Len(entries[len])
      /\ \A n \in len + 1 .. W : entries[n] = <<>>
      /\ pc' = IF pc = "index" THEN "netmap" ELSE "table"
      /\ UNCHANGED <<entries, rib, clash, nextHopMapping, next_index, netmapIndex, nextHops, len, i>>
  BY Zenon DEF IndexDone
<1>2. TypeOK /\ Table(entries) /\ Progress /\ Mapped(nextHopMapping, AllRoutes(rib)) /\ Aggregated
  BY Zenon, InvFacts
<1>3. len \in 0 .. W /\ i \in Nat
  BY Zenon, <1>2 DEF TypeOK
<1>4. ASSUME NEW e \in AllRoutes(entries) PROVE HasIndex(e, nextHopMapping, netmapIndex)
  <2>. Table(entries)
    BY Zenon, <1>2
  <2>1. PICK q \in 0 .. W : \E k \in 1 .. Len(entries[q]) : e = entries[q][k]
    BY Zenon, RouteAt
  <2>2. PICK k \in 1 .. Len(entries[q]) : e = entries[q][k]
    BY Zenon, <2>1
  <2>3. Len(entries[q]) \in Nat
    BY Zenon, TableFacts
  <2>4. q \notin len + 1 .. W
    <3>1. entries[q] # <<>>
      BY <2>3
    <3>. QED  BY Zenon, <1>1, <3>1
  <2>5. q < len \/ q = len
    BY <1>3, <2>4, SizeFacts
  <2>6. q < len \/ (q = len /\ k < i)
    <3>1. CASE q = len
      BY <1>1, <1>3, <2>3, <3>1
    <3>. QED  BY Zenon, <2>5, <3>1
  <2>7. Visited(entries, len, i, nextHopMapping, netmapIndex)
    BY Zenon, <1>1, <1>2 DEF Progress
  <2>. QED  BY Zenon, <2>2, <2>6, <2>7 DEF Visited
<1>5. \A e \in AllRoutes(entries) : Known(e, nextHopMapping)
  BY Zenon, <1>4 DEF Known, HasIndex
<1>6. pc' \in {"netmap", "table"}
  BY Zenon, <1>1
<1>7. TypeOK'
  <2>1. Table(entries)'
    BY Zenon, <1>1, <1>2
  <2>. QED  BY Zenon, <1>1, <1>2, <1>6, <2>1, TypeFromTable DEF TypeOK
<1>8. Progress'
  <2>1. \A e \in AllRoutes(entries') : /\ HasIndex(e, nextHopMapping', netmapIndex')
                                       /\ Known(e, nextHopMapping')
    BY Zenon, <1>1, <1>4, <1>5
  <2>2. netmapIndex' = IF pc' \in {"reindex", "table", "ready"} THEN NumberOf
                       ELSE [f \in Interfaces |-> None]
    BY <1>1, <1>2 DEF Progress
  <2>. QED  BY <1>6, <2>1, <2>2 DEF Progress
<1>9. Mapped(nextHopMapping', AllRoutes(rib'))
  BY Zenon, <1>1, <1>2
<1>10. StandsFor(entries', rib', clash')
  BY <1>1, <1>2 DEF Aggregated
<1>. QED  BY Zenon, <1>7, <1>8, <1>9, <1>10 DEF IInv, Aggregated

(* initNetmap gives number k - 1 to the interface it uses k-th, or to none  *)
(* if that is named again.                                                  *)
LEMMA NumberFacts ==
  /\ NumberOf \in [Interfaces -> Nat \cup {None}]
  /\ \A f \in Interfaces : IF f \in Range(ToUse)
                           THEN NumberOf[f] \in Nat /\ NumberOf[f] < Len(ToUse)
                           ELSE NumberOf[f] = None
<1>1. ToUse \in Seq(Interfaces) /\ Len(ToUse) \in Nat
  BY RoutesAssumption
<1>2. ASSUME NEW f \in Interfaces, f \in Range(ToUse)
      PROVE  NumberOf[f] \in Nat /\ NumberOf[f] < Len(ToUse)
  <2>. DEFINE places == {j \in 1 .. Len(ToUse) : ToUse[j] = f}
  <2>1. places # {} /\ places \in SUBSET (0 .. Len(ToUse))
    BY <1>1, <1>2 DEF Range
  <2>2. PICK k : k = Max(places)
    BY Zenon
  <2>3. k \in 1 .. Len(ToUse)
    <3>1. k \in places
      <4>. HIDE DEF places
      <4>. QED  BY Zenon, <1>1, <2>1, <2>2, MaxFacts
    <3>. QED  BY Zenon, <3>1
  <2>4. NumberOf[f] = k - 1
    BY Zenon, <1>2, <2>2 DEF NumberOf
  <2>. QED  BY <1>1, <2>3, <2>4
<1>3. ASSUME NEW f \in Interfaces, f \notin Range(ToUse) PROVE NumberOf[f] = None
  BY Zenon, <1>3 DEF NumberOf
<1>4. \A f \in Interfaces : NumberOf[f] \in Nat \cup {None}
  BY Zenon, <1>2, <1>3
<1>5. NumberOf \in [Interfaces -> Nat \cup {None}]
  BY SMT, <1>4 DEF NumberOf
<1>. QED  BY Zenon, <1>2, <1>3, <1>5

LEMMA InitNetmapInv ==
  ASSUME IInv, InitNetmap
  PROVE  IInv'
<1>1. /\ pc = "netmap" /\ pc' = "reindex" /\ netmapIndex' = NumberOf
      /\ len' = 0 /\ i' = 1 /\ next_index' = 0
      /\ UNCHANGED <<entries, rib, clash, nextHopMapping, nextHops>>
  BY Zenon DEF InitNetmap
<1>2. TypeOK /\ Table(entries) /\ Progress /\ Mapped(nextHopMapping, AllRoutes(rib)) /\ Aggregated
  BY Zenon, InvFacts
<1>3. TypeOK'
  <2>1. len' \in 0 .. W /\ i' \in Nat
    BY <1>1, SizeFacts
  <2>2. next_index' \in NhIndex
    BY SMT, <1>1, NhFacts
  <2>3. Table(entries)' /\ netmapIndex' \in [Interfaces -> Nat \cup {None}]
    BY Zenon, <1>1, <1>2, NumberFacts
  <2>. QED  BY Zenon, <1>1, <1>2, <2>1, <2>2, <2>3, TypeFromTable DEF TypeOK
<1>4. Progress'
  <2>1. Visited(entries', len', i', nextHopMapping', netmapIndex')
    <3>1. \A q \in 0 .. W : \A k \in 1 .. Len(entries'[q]) : ~ (q < len' \/ (q = len' /\ k < i'))
      BY <1>1, SizeFacts
    <3>. QED  BY Zenon, <3>1 DEF Visited
  <2>2. \A e \in AllRoutes(entries') : Known(e, nextHopMapping')
    BY Zenon, <1>1, <1>2 DEF Progress
  <2>. QED  BY <1>1, <2>1, <2>2 DEF Progress
<1>5. Mapped(nextHopMapping', AllRoutes(rib'))
  BY Zenon, <1>1, <1>2
<1>6. StandsFor(entries', rib', clash')
  BY <1>1, <1>2 DEF Aggregated
<1>. QED  BY Zenon, <1>3, <1>4, <1>5, <1>6 DEF IInv, Aggregated

(* The gateway with index k - 1 is the k-th of the list.                    *)
LEMMA ByIndex ==
  ASSUME NEW m \in Seq(Hop), NEW K, Mapped(m, K), NEW k \in 1 .. Len(m)
  PROVE  (CHOOSE h \in Range(m) : h.index = k - 1) = m[k]
<1>1. m[k] \in Range(m) /\ m[k].index = k - 1
  BY DEF Mapped, Range
<1>2. ASSUME NEW h \in Range(m), h.index = k - 1 PROVE h = m[k]
  <2>1. PICK j \in 1 .. Len(m) : h = m[j]
    BY <1>2 DEF Range
  <2>2. m[j].index = j - 1
    BY Zenon DEF Mapped
  <2>3. Len(m) \in Nat
    BY SeqIsFunction
  <2>4. j = k
    BY <1>2, <2>1, <2>2, <2>3
  <2>. QED  BY Zenon, <2>1, <2>4
<1>. QED  BY Zenon, <1>1, <1>2

LEMMA CreateInv ==
  ASSUME IInv, createCurrentTable
  PROVE  IInv'
<1>1. /\ pc = "table" /\ pc' = "ready"
      /\ nextHops' = [k \in 1 .. Len(nextHopMapping) |->
                       Uint16(netmapIndex[(CHOOSE h \in Range(nextHopMapping) : h.index = k - 1).interface])]
      /\ UNCHANGED <<entries, rib, clash, nextHopMapping, next_index, netmapIndex, len, i>>
  BY Zenon DEF createCurrentTable
<1>2. TypeOK /\ Table(entries) /\ Progress /\ Mapped(nextHopMapping, AllRoutes(rib)) /\ Aggregated
  BY Zenon, InvFacts
<1>3. nextHopMapping \in Seq(Hop)
  BY Zenon, <1>2 DEF TypeOK, Hop
<1>4. \A k \in 1 .. Len(nextHopMapping) :
        (CHOOSE h \in Range(nextHopMapping) : h.index = k - 1) = nextHopMapping[k]
  BY Zenon, <1>2, <1>3, ByIndex
<1>5. nextHops' = [k \in 1 .. Len(nextHopMapping) |->
                     Uint16(netmapIndex[nextHopMapping[k].interface])]
  <2>. DEFINE f(k) == Uint16(netmapIndex[(CHOOSE h \in Range(nextHopMapping) : h.index = k - 1).interface])
              g(k) == Uint16(netmapIndex[nextHopMapping[k].interface])
  <2>1. nextHops' = [k \in 1 .. Len(nextHopMapping) |-> f(k)]
    BY Zenon, <1>1
  <2>2. \A k \in 1 .. Len(nextHopMapping) : f(k) = g(k)
    BY Zenon, <1>4
  <2>. HIDE DEF f, g
  <2>3. nextHops' = [k \in 1 .. Len(nextHopMapping) |-> g(k)]
    BY Zenon, <2>1, <2>2
  <2>. QED  BY Zenon, <2>3 DEF g
<1>6. TypeOK'
  <2>1. Table(entries)'
    BY Zenon, <1>1, <1>2
  <2>. QED  BY Zenon, <1>1, <1>2, <2>1, TypeFromTable DEF TypeOK
<1>7. Progress'
  <2>1. \A e \in AllRoutes(entries') : /\ HasIndex(e, nextHopMapping', netmapIndex')
                                       /\ Known(e, nextHopMapping')
    BY Zenon, <1>1, <1>2 DEF Progress
  <2>2. nextHops' = [k \in 1 .. Len(nextHopMapping') |->
                       Uint16(netmapIndex'[nextHopMapping'[k].interface])]
    BY Zenon, <1>1, <1>5
  <2>3. netmapIndex' = NumberOf
    BY <1>1, <1>2 DEF Progress
  <2>. QED  BY <1>1, <2>1, <2>2, <2>3 DEF Progress
<1>8. Mapped(nextHopMapping', AllRoutes(rib'))
  BY Zenon, <1>1, <1>2
<1>9. StandsFor(entries', rib', clash')
  BY <1>1, <1>2 DEF Aggregated
<1>. QED  BY Zenon, <1>6, <1>7, <1>8, <1>9 DEF IInv, Aggregated

LEMMA NextInv ==
  ASSUME IInv, [Next]_vars
  PROVE  IInv'
<1>1. CASE UNCHANGED vars
  <2>1. UNCHANGED <<entries, rib, clash, nextHopMapping, next_index, netmapIndex, nextHops,
                    pc, len, i>>
    BY Zenon, <1>1 DEF vars
  <2>2. TypeOK'
    BY Zenon, <2>1, InvFacts DEF TypeOK
  <2>3. Progress'
    BY Zenon, <2>1, InvFacts DEF Progress
  <2>. QED  BY Zenon, <2>1, <2>2, <2>3, InvFacts DEF IInv, Aggregated
<1>2. CASE Next
  BY Zenon, <1>2, DataInv, DumpDoneInv, SortInv, SortDoneInv, MergeInv, MergeDoneInv,
     IndexDirectInv, IndexKnownInv, IndexNewInv, IndexNextListInv, IndexDoneInv,
     InitNetmapInv, CreateInv DEF Next
<1>. QED  BY Zenon, <1>1, <1>2

-----------------------------------------------------------------------------
(* The lookups.                                                             *)

(* The places of a prefix in its list.                                      *)
Hits(p) == {k \in 1 .. Len(entries[Len(p)]) : entries[Len(p)][k].base = p}

LEMMA LeafFacts ==
  ASSUME Table(entries), NEW n \in 0 .. W, NEW p \in [1 .. n -> Bits]
  PROVE  /\ Hits(p) = {k \in 1 .. Len(entries[n]) : entries[n][k].base = p}
         /\ Hits(p) = {} => Leaf(p) = NH_INVALID
         /\ Hits(p) # {} => Max(Hits(p)) \in Hits(p) /\ Leaf(p) = entries[n][Max(Hits(p))].index
<1>1. Len(p) = n
  BY Zenon, PrefixOf
<1>2. Len(entries[n]) \in Nat
  <2>1. entries[n] \in Seq(Route)
    BY Zenon DEF Table
  <2>. QED  BY <2>1
<1>3. Hits(p) = {k \in 1 .. Len(entries[n]) : entries[n][k].base = p}
  BY Zenon, <1>1 DEF Hits
<1>4. Hits(p) \in SUBSET (0 .. Len(entries[n]))
  BY <1>2, <1>3
<1>5. Hits(p) # {} => Max(Hits(p)) \in Hits(p)
  BY Zenon, <1>2, <1>4, MaxFacts
<1>6. Leaf(p) = IF Hits(p) = {} THEN NH_INVALID ELSE entries[n][Max(Hits(p))].index
  BY Zenon, <1>1 DEF Leaf, Hits
<1>. QED  BY Zenon, <1>3, <1>5, <1>6

(* The lengths up to n whose prefix of a has a valid leaf, and the last     *)
(* valid leaf on the way down to n.                                         *)
ValidUpTo(a, n) == {m \in 0 .. n : Leaf(SubSeq(a, 1, m)) # NH_INVALID}
LastUpTo(a, n)  == IF ValidUpTo(a, n) = {} THEN NH_INVALID
                   ELSE Leaf(SubSeq(a, 1, Max(ValidUpTo(a, n))))

LEMMA ValidIsNode ==
  ASSUME Table(entries), NEW a \in Addrs, NEW n \in 0 .. W, Leaf(SubSeq(a, 1, n)) # NH_INVALID
  PROVE  SubSeq(a, 1, n) \in Nodes
<1>1. PICK p : p = SubSeq(a, 1, n)
  BY Zenon
<1>2. p \in [1 .. n -> Bits]
  BY Zenon, <1>1, CutFacts
<1>3. Hits(p) # {}
  BY Zenon, <1>1, <1>2, LeafFacts
<1>4. PICK k \in 1 .. Len(entries[n]) : entries[n][k].base = p
  <2>1. Hits(p) = {k \in 1 .. Len(entries[n]) : entries[n][k].base = p}
    BY Zenon, <1>2, LeafFacts
  <2>. QED  BY Zenon, <1>3, <2>1
<1>5. entries[n][k] \in AllRoutes(entries)
  BY Zenon, RouteIn
<1>6. Len(p) = n /\ n \in 0 .. Len(p) /\ SubSeq(p, 1, n) = p
  <2>1. Len(p) = n
    BY Zenon, <1>2, PrefixOf
  <2>2. n \in Nat /\ p \in Seq(Bits)
    BY <1>2, SizeFacts, BaseFacts
  <2>. QED  BY <2>1, <2>2
<1>7. p \in {SubSeq(entries[n][k].base, 1, m) : m \in 0 .. Len(entries[n][k].base)}
  BY Zenon, <1>4, <1>6
<1>8. p \in Nodes
  BY Zenon, <1>5, <1>7 DEF Nodes
<1>. QED  BY Zenon, <1>1, <1>8

(* One step further down.                                                   *)
LEMMA LastStep ==
  ASSUME NEW a, NEW n \in 1 .. W
  PROVE  LastUpTo(a, n) = LastLeaf(Leaf(SubSeq(a, 1, n)), LastUpTo(a, n - 1))
<1>1. n \in Nat /\ n - 1 \in Nat /\ n - 1 < n /\ \A m \in 0 .. n - 1 : m < n
  BY SizeFacts
<1>2. /\ ValidUpTo(a, n) \in SUBSET (0 .. n) /\ ValidUpTo(a, n - 1) \in SUBSET (0 .. n - 1)
  BY Zenon DEF ValidUpTo
<1>3. CASE Leaf(SubSeq(a, 1, n)) # NH_INVALID
  <2>1. n \in ValidUpTo(a, n)
    BY <1>1, <1>3 DEF ValidUpTo
  <2>2. Max(ValidUpTo(a, n)) \in 0 .. n /\ n <= Max(ValidUpTo(a, n))
    BY Zenon, <1>1, <1>2, <2>1, MaxFacts
  <2>3. Max(ValidUpTo(a, n)) = n
    BY <1>1, <2>2
  <2>4. LastUpTo(a, n) = Leaf(SubSeq(a, 1, n))
    BY Zenon, <2>1, <2>3 DEF LastUpTo
  <2>. QED  BY Zenon, <1>3, <2>4 DEF LastLeaf
<1>4. CASE Leaf(SubSeq(a, 1, n)) = NH_INVALID
  <2>1. \A m \in 0 .. n : m = n \/ m \in 0 .. n - 1
    BY <1>1
  <2>2. \A m \in 0 .. n - 1 : m \in 0 .. n
    BY <1>1
  <2>3. ValidUpTo(a, n) = ValidUpTo(a, n - 1)
    <3>1. ASSUME NEW m \in ValidUpTo(a, n) PROVE m \in ValidUpTo(a, n - 1)
      BY Zenon, <1>4, <2>1 DEF ValidUpTo
    <3>2. ASSUME NEW m \in ValidUpTo(a, n - 1) PROVE m \in ValidUpTo(a, n)
      BY Zenon, <2>2 DEF ValidUpTo
    <3>. QED  BY Zenon, <3>1, <3>2
  <2>4. LastUpTo(a, n) = LastUpTo(a, n - 1)
    BY Zenon, <2>3 DEF LastUpTo
  <2>. QED  BY Zenon, <1>4, <2>4 DEF LastLeaf
<1>. QED  BY Zenon, <1>3, <1>4

LEMMA LastStart ==
  ASSUME NEW a \in Addrs
  PROVE  LastUpTo(a, 0) = Leaf(<<>>) /\ SubSeq(a, 1, 0) = <<>>
<1>1. SubSeq(a, 1, 0) = <<>>
  <2>1. a \in Seq(Bits) /\ Len(a) = W
    BY Zenon, SizeFacts, BaseFacts DEF Addrs
  <2>. QED  BY <2>1
<1>2. \A m \in 0 .. 0 : m = 0
  OBVIOUS
<1>3. 0 \in 0 .. 0
  OBVIOUS
<1>4. CASE Leaf(<<>>) = NH_INVALID
  <2>1. ValidUpTo(a, 0) = {}
    BY Zenon, <1>1, <1>2, <1>4 DEF ValidUpTo
  <2>. QED  BY Zenon, <1>1, <1>4, <2>1 DEF LastUpTo
<1>5. CASE Leaf(<<>>) # NH_INVALID
  <2>1. 0 \in ValidUpTo(a, 0)
    BY Zenon, <1>1, <1>3, <1>5 DEF ValidUpTo
  <2>2. ValidUpTo(a, 0) \in SUBSET (0 .. 0) /\ 0 \in Nat
    BY DEF ValidUpTo
  <2>3. Max(ValidUpTo(a, 0)) = 0
    BY Zenon, <1>2, <2>1, <2>2, MaxFacts
  <2>. QED  BY Zenon, <1>1, <2>1, <2>3 DEF LastUpTo
<1>. QED  BY Zenon, <1>1, <1>4, <1>5

(* BasicTrie::route finds the last valid leaf below the address.  The       *)
(* function of the loop exists because LastUpTo is one, and it is the only  *)
(* one by induction over the length.                                        *)
LEMMA TrieFacts ==
  ASSUME Table(entries), NEW a \in Addrs
  PROVE  TrieRoute(a) = LastUpTo(a, W)
<1>. DEFINE Down(w, n) == IF n = 0 THEN Leaf(<<>>)
                          ELSE IF SubSeq(a, 1, n) \in Nodes
                          THEN LastLeaf(Leaf(SubSeq(a, 1, n)), w[n - 1])
                          ELSE w[n - 1]
            Loop(w) == w = [n \in 0 .. W |-> Down(w, n)]
<1>1. ASSUME NEW n \in 1 .. W, NEW w, w[n - 1] = LastUpTo(a, n - 1)
      PROVE  Down(w, n) = LastUpTo(a, n)
  <2>1. n # 0 /\ n \in 0 .. W
    BY SizeFacts
  <2>2. LastUpTo(a, n) = LastLeaf(Leaf(SubSeq(a, 1, n)), LastUpTo(a, n - 1))
    BY Zenon, LastStep
  <2>3. CASE SubSeq(a, 1, n) \in Nodes
    BY Zenon, <1>1, <2>1, <2>2, <2>3
  <2>4. CASE SubSeq(a, 1, n) \notin Nodes
    <3>1. Leaf(SubSeq(a, 1, n)) = NH_INVALID
      BY Zenon, <2>1, <2>4, ValidIsNode
    <3>. QED  BY Zenon, <1>1, <2>1, <2>2, <2>4, <3>1 DEF LastLeaf
  <2>. QED  BY Zenon, <2>3, <2>4
<1>2. \A w : Down(w, 0) = LastUpTo(a, 0)
  BY Zenon, LastStart
<1>3. \A n \in 0 .. W : n # 0 => n \in 1 .. W /\ n - 1 \in 0 .. W
  BY SizeFacts
<1>4. PICK v : v = [n \in 0 .. W |-> LastUpTo(a, n)]
  BY Zenon
<1>5. \A n \in 0 .. W : v[n] = LastUpTo(a, n)
  BY Zenon, <1>4
<1>6. ASSUME NEW n \in 0 .. W PROVE Down(v, n) = LastUpTo(a, n)
  <2>. HIDE DEF Down
  <2>1. CASE n = 0
    BY Zenon, <1>2, <2>1
  <2>2. CASE n # 0
    <3>1. n \in 1 .. W /\ v[n - 1] = LastUpTo(a, n - 1)
      BY Zenon, <1>3, <1>5, <2>2
    <3>. QED  BY Zenon, <1>1, <3>1
  <2>. QED  BY Zenon, <2>1, <2>2
<1>7. Loop(v)
  <2>. HIDE DEF Down
  <2>. QED  BY Zenon, <1>4, <1>6
<1>8. PICK w : w = CHOOSE walk : Loop(walk)
  BY Zenon
<1>9. TrieRoute(a) = w[W]
  BY Zenon, <1>8 DEF TrieRoute
<1>10. Loop(w)
  <2>. HIDE DEF Loop
  <2>. QED  BY Zenon, <1>7, <1>8
<1>11. \A n \in 0 .. W : w[n] = Down(w, n)
  <2>. HIDE DEF Down
  <2>. QED  BY Zenon, <1>10
<1>. HIDE DEF Down, Loop
<1>12. PICK S : S = {n \in 0 .. W : w[n] = LastUpTo(a, n)}
  BY Zenon
<1>13. 0 \in S
  BY Zenon, <1>2, <1>11, <1>12, SizeFacts
<1>14. ASSUME NEW n \in 0 .. W, n \in S, n < W PROVE n + 1 \in S
  <2>1. n + 1 \in 1 .. W /\ n + 1 \in 0 .. W /\ n + 1 - 1 = n
    BY <1>14, SizeFacts
  <2>2. w[n] = LastUpTo(a, n)
    BY Zenon, <1>12, <1>14
  <2>3. PICK m : m = n + 1
    BY Zenon
  <2>4. m \in 1 .. W /\ m \in 0 .. W /\ w[m - 1] = LastUpTo(a, m - 1)
    <3>1. m - 1 = n
      BY <2>1, <2>3
    <3>. QED  BY Zenon, <2>1, <2>2, <2>3, <3>1
  <2>5. w[m] = LastUpTo(a, m)
    BY Zenon, <1>1, <1>11, <2>4
  <2>. QED  BY Zenon, <1>12, <2>3, <2>4, <2>5
<1>15. \A n \in 0 .. W : n \in S
  BY Zenon, <1>13, <1>14, SizeFacts, UpTo
<1>16. W \in S
  BY <1>15, SizeFacts
<1>. QED  BY Zenon, <1>9, <1>12, <1>16

-----------------------------------------------------------------------------
(* The indices in the finished table.                                       *)

(* The indices are wide enough: initNetmap numbers at most 32767            *)
(* interfaces (number 32767 would make NH_INVALID) and no more gateways     *)
(* get an index than are below NH_DIRECTLY_CONNECTED.                       *)
InterfacesFit == Len(ToUse) <= 32767
GatewaysFit   == IsFiniteSet(Gateways) /\ Cardinality(Gateways) <= 32768

LEMMA ReadyFacts ==
  ASSUME IInv, pc = "ready"
  PROVE  /\ Table(entries) /\ netmapIndex = NumberOf /\ nextHopMapping \in Seq(Hop)
         /\ \A e \in AllRoutes(entries) : HasIndex(e, nextHopMapping, netmapIndex)
         /\ nextHops = [k \in 1 .. Len(nextHopMapping) |->
                         Uint16(netmapIndex[nextHopMapping[k].interface])]
         /\ Mapped(nextHopMapping, AllRoutes(rib)) /\ StandsFor(entries, rib, clash)
         /\ rib \in [0 .. W -> Seq(Route)]
<1>1. TypeOK /\ Table(entries) /\ Progress /\ Mapped(nextHopMapping, AllRoutes(rib)) /\ Aggregated
      /\ rib \in [0 .. W -> Seq(Route)]
  BY Zenon, InvFacts
<1>2. netmapIndex = NumberOf
  BY <1>1 DEF Progress
<1>3. \A e \in AllRoutes(entries) : HasIndex(e, nextHopMapping, netmapIndex)
  BY Zenon, <1>1 DEF Progress
<1>4. nextHops = [k \in 1 .. Len(nextHopMapping) |->
                   Uint16(netmapIndex[nextHopMapping[k].interface])]
  BY Zenon, <1>1 DEF Progress
<1>5. StandsFor(entries, rib, clash)
  BY <1>1 DEF Aggregated
<1>6. nextHopMapping \in Seq(Hop)
  BY Zenon, <1>1 DEF TypeOK, Hop
<1>. QED  BY Zenon, <1>1, <1>2, <1>3, <1>4, <1>5, <1>6

(* An index is NH_INVALID exactly for the direct routes out of interfaces   *)
(* without a number.                                                        *)
LEMMA NumberedIndex ==
  ASSUME InterfacesFit, NEW f \in Interfaces
  PROVE  /\ f \in Range(ToUse) => /\ DirectIndex(NumberOf[f]) # NH_INVALID
                                  /\ DirectIndex(NumberOf[f]) >= NH_DIRECTLY_CONNECTED
                                  /\ DirectIndex(NumberOf[f]) - NH_DIRECTLY_CONNECTED = Uint16(NumberOf[f])
         /\ f \notin Range(ToUse) => DirectIndex(NumberOf[f]) = NH_INVALID
<1>1. CASE f \in Range(ToUse)
  <2>1. PICK x : x = NumberOf[f]
    BY Zenon
  <2>2. x \in Nat /\ x < Len(ToUse)
    BY Zenon, <1>1, <2>1, NumberFacts
  <2>3. x <= 32766 /\ x # None
    <3>1. Len(ToUse) \in Nat /\ None \notin Nat
      BY RoutesAssumption
    <3>. QED  BY <2>2, <3>1 DEF InterfacesFit
  <2>4. x % 65536 = x
    BY <2>2, <2>3
  <2>5. Uint16(x) = x
    BY <2>3, <2>4 DEF Uint16
  <2>6. DirectIndex(x) = x + 32768
    <3>1. x % 32768 = x
      BY <2>2, <2>3
    <3>. QED  BY <2>2, <2>5, <3>1 DEF DirectIndex, NH_DIRECTLY_CONNECTED
  <2>. QED  BY <1>1, <2>1, <2>2, <2>3, <2>5, <2>6 DEF NH_INVALID, NH_DIRECTLY_CONNECTED
<1>2. CASE f \notin Range(ToUse)
  <2>1. NumberOf[f] = None
    BY Zenon, <1>2, NumberFacts
  <2>2. Uint16(None) = 65535
    BY DEF Uint16
  <2>3. 65535 % 32768 = 32767
    OBVIOUS
  <2>. QED  BY <1>2, <2>1, <2>2, <2>3 DEF DirectIndex, NH_INVALID, NH_DIRECTLY_CONNECTED
<1>. QED  BY Zenon, <1>1, <1>2

LEMMA IndexValid ==
  ASSUME IInv, pc = "ready", InterfacesFit, NEW e \in AllRoutes(entries)
  PROVE  e.index # NH_INVALID <=> CanUse(e)
<1>1. e \in Route
  <2>1. Table(entries)
    BY Zenon, ReadyFacts
  <2>2. PICK n \in 0 .. W : \E k \in 1 .. Len(entries[n]) : e = entries[n][k]
    BY Zenon, <2>1, RouteAt
  <2>3. PICK k \in 1 .. Len(entries[n]) : e = entries[n][k]
    BY Zenon, <2>2
  <2>. QED  BY Zenon, <2>1, <2>3, TableFacts
<1>2. e.interface \in Interfaces
  BY Zenon, <1>1, RouteFields
<1>3. HasIndex(e, nextHopMapping, NumberOf) /\ Mapped(nextHopMapping, AllRoutes(rib))
  BY Zenon, ReadyFacts
<1>4. CASE e.next_hop = None
  <2>1. e.index = DirectIndex(NumberOf[e.interface])
    BY Zenon, <1>3, <1>4 DEF HasIndex
  <2>2. DirectIndex(NumberOf[e.interface]) # NH_INVALID <=> e.interface \in Range(ToUse)
    BY Zenon, <1>2, NumberedIndex
  <2>. QED  BY Zenon, <1>4, <2>1, <2>2 DEF CanUse
<1>5. CASE e.next_hop # None
  <2>1. PICK k \in 1 .. Len(nextHopMapping) : e.index = k - 1
    BY Zenon, <1>3, <1>5 DEF HasIndex
  <2>2. k - 1 # NH_INVALID
    BY Zenon, <1>3 DEF Mapped
  <2>. QED  BY Zenon, <1>5, <2>1, <2>2 DEF CanUse
<1>. QED  BY Zenon, <1>4, <1>5

(* Where the prefixes of a occur once, a leaf is valid exactly when the     *)
(* route with its prefix can be used.                                       *)
Once(a) ==
  \A n \in 0 .. W : \A j, k \in 1 .. Len(entries[n]) :
    IsPrefix(entries[n][j].base, a) /\ IsPrefix(entries[n][k].base, a) => j = k

LEMMA LeafOfRoute ==
  ASSUME Table(entries), NEW a \in Addrs, Once(a), NEW n \in 0 .. W,
         NEW k \in 1 .. Len(entries[n]), IsPrefix(entries[n][k].base, a)
  PROVE  Leaf(SubSeq(a, 1, n)) = entries[n][k].index
<1>1. PICK p : p = SubSeq(a, 1, n)
  BY Zenon
<1>2. p \in [1 .. n -> Bits]
  BY Zenon, <1>1, CutFacts
<1>3. \A j \in 1 .. Len(entries[n]) : entries[n][j].base \in [1 .. n -> Bits]
  BY Zenon, TableFacts
<1>4. \A j \in 1 .. Len(entries[n]) : IsPrefix(entries[n][j].base, a) <=> entries[n][j].base = p
  BY Zenon, <1>1, <1>3, PrefixFacts
<1>5. Hits(p) = {j \in 1 .. Len(entries[n]) : entries[n][j].base = p}
  BY Zenon, <1>2, LeafFacts
<1>6. k \in Hits(p)
  BY Zenon, <1>4, <1>5
<1>7. Max(Hits(p)) \in Hits(p) /\ Leaf(p) = entries[n][Max(Hits(p))].index
  BY Zenon, <1>2, <1>6, LeafFacts
<1>8. PICK j : j = Max(Hits(p))
  BY Zenon
<1>9. j \in 1 .. Len(entries[n]) /\ IsPrefix(entries[n][j].base, a)
  BY Zenon, <1>4, <1>5, <1>7, <1>8
<1>10. j = k
  BY Zenon, <1>9 DEF Once
<1>. QED  BY Zenon, <1>1, <1>7, <1>8, <1>10

LEMMA RouteOfLeaf ==
  ASSUME Table(entries), NEW a \in Addrs, NEW n \in 0 .. W,
         Leaf(SubSeq(a, 1, n)) # NH_INVALID
  PROVE  \E k \in 1 .. Len(entries[n]) :
           /\ IsPrefix(entries[n][k].base, a)
           /\ Leaf(SubSeq(a, 1, n)) = entries[n][k].index
<1>1. PICK p : p = SubSeq(a, 1, n)
  BY Zenon
<1>2. p \in [1 .. n -> Bits]
  BY Zenon, <1>1, CutFacts
<1>3. Hits(p) = {j \in 1 .. Len(entries[n]) : entries[n][j].base = p}
  BY Zenon, <1>2, LeafFacts
<1>4. Hits(p) # {}
  BY Zenon, <1>1, <1>2, LeafFacts
<1>5. Max(Hits(p)) \in Hits(p) /\ Leaf(p) = entries[n][Max(Hits(p))].index
  BY Zenon, <1>2, <1>4, LeafFacts
<1>6. PICK k : k = Max(Hits(p))
  BY Zenon
<1>7. k \in 1 .. Len(entries[n]) /\ entries[n][k].base = p
  BY Zenon, <1>3, <1>5, <1>6
<1>8. IsPrefix(entries[n][k].base, a)
  <2>1. IsPrefix(p, a)
    BY Zenon, <1>1, <1>2, PrefixFacts
  <2>. QED  BY Zenon, <1>7, <2>1
<1>. QED  BY Zenon, <1>1, <1>5, <1>6, <1>7, <1>8

-----------------------------------------------------------------------------
LEMMA AgreeLemma ==
  ASSUME IInv, InterfacesFit
  PROVE  LookupsAgree
<1>. SUFFICES ASSUME pc = "ready", NoDuplicates(entries), OnNetmap, NEW a \in Addrs
              PROVE  TrieRoute(a) = NaiveRoute(a)
  BY Zenon DEF LookupsAgree
<1>1. Table(entries) /\ StandsFor(entries, rib, clash)
  BY Zenon, ReadyFacts
<1>2. ASSUME NEW e \in AllRoutes(entries) PROVE e.index # NH_INVALID
  <2>1. PICK r \in AllRoutes(rib) : SameHop(e, r)
    BY Zenon, <1>1 DEF StandsFor
  <2>2. CanUse(e)
    BY Zenon, <2>1 DEF CanUse, OnNetmap, SameHop
  <2>. QED  BY Zenon, <2>2, IndexValid
<1>. DEFINE hits(n) == {k \in 1 .. Len(entries[n]) : IsPrefix(entries[n][k].base, a)}
            lens    == {n \in 0 .. W : hits(n) # {}}
<1>3. NaiveRoute(a) = IF lens = {} THEN NH_INVALID
                      ELSE entries[Max(lens)][Min(hits(Max(lens)))].index
  BY Zenon DEF NaiveRoute
<1>4. Once(a)
  <2>1. ASSUME NEW n \in 0 .. W, NEW j \in 1 .. Len(entries[n]), NEW k \in 1 .. Len(entries[n]),
               IsPrefix(entries[n][j].base, a), IsPrefix(entries[n][k].base, a)
        PROVE  j = k
    <3>1. entries[n][j].base \in [1 .. n -> Bits] /\ entries[n][k].base \in [1 .. n -> Bits]
      BY Zenon, <1>1, TableFacts
    <3>2. entries[n][j].base = SubSeq(a, 1, n) /\ entries[n][k].base = SubSeq(a, 1, n)
      BY Zenon, <2>1, <3>1, PrefixFacts
    <3>. QED  BY Zenon, <3>2 DEF NoDuplicates
  <2>. QED  BY Zenon, <2>1 DEF Once
<1>5. \A n \in 0 .. W : \A k \in hits(n) : Leaf(SubSeq(a, 1, n)) = entries[n][k].index
  BY Zenon, <1>1, <1>4, LeafOfRoute
<1>6. ASSUME NEW n \in 0 .. W PROVE n \in ValidUpTo(a, W) <=> n \in lens
  <2>1. ASSUME n \in ValidUpTo(a, W) PROVE n \in lens
    <3>1. Leaf(SubSeq(a, 1, n)) # NH_INVALID
      BY Zenon, <2>1 DEF ValidUpTo
    <3>2. PICK k \in 1 .. Len(entries[n]) : IsPrefix(entries[n][k].base, a)
      BY Zenon, <1>1, <3>1, RouteOfLeaf
    <3>. QED  BY Zenon, <3>2
  <2>2. ASSUME n \in lens PROVE n \in ValidUpTo(a, W)
    <3>1. PICK k \in hits(n) : TRUE
      BY Zenon, <2>2
    <3>2. Leaf(SubSeq(a, 1, n)) = entries[n][k].index
      BY Zenon, <1>5, <3>1
    <3>3. entries[n][k] \in AllRoutes(entries)
      BY Zenon, <1>1, <3>1, RouteIn
    <3>4. Leaf(SubSeq(a, 1, n)) # NH_INVALID
      BY Zenon, <1>2, <3>2, <3>3
    <3>. QED  BY Zenon, <3>4 DEF ValidUpTo
  <2>. QED  BY Zenon, <2>1, <2>2
<1>7. ValidUpTo(a, W) = lens
  <2>1. \A n \in ValidUpTo(a, W) : n \in 0 .. W
    BY Zenon DEF ValidUpTo
  <2>. QED  BY Zenon, <1>6, <2>1
<1>8. TrieRoute(a) = IF lens = {} THEN NH_INVALID ELSE Leaf(SubSeq(a, 1, Max(lens)))
  <2>1. TrieRoute(a) = LastUpTo(a, W)
    BY Zenon, <1>1, TrieFacts
  <2>. QED  BY Zenon, <1>7, <2>1 DEF LastUpTo
<1>9. ASSUME lens # {}
      PROVE  Leaf(SubSeq(a, 1, Max(lens))) = entries[Max(lens)][Min(hits(Max(lens)))].index
  <2>1. W \in Nat /\ lens \in SUBSET (0 .. W)
    BY SizeFacts
  <2>2. Max(lens) \in lens
    <3>. HIDE DEF lens
    <3>. QED  BY Zenon, <1>9, <2>1, MaxFacts
  <2>3. PICK n : n = Max(lens)
    BY Zenon
  <2>4. n \in 0 .. W /\ hits(n) # {}
    BY Zenon, <2>2, <2>3
  <2>5. Len(entries[n]) \in Nat
    <3>1. entries[n] \in Seq(Route)
      BY Zenon, <1>1, <2>4 DEF Table
    <3>. QED  BY <3>1
  <2>6. hits(n) \in SUBSET (0 .. Len(entries[n]))
    BY <2>5
  <2>7. Min(hits(n)) \in hits(n)
    <3>. HIDE DEF hits
    <3>. QED  BY Zenon, <2>4, <2>5, <2>6, MinFacts
  <2>8. Leaf(SubSeq(a, 1, n)) = entries[n][Min(hits(n))].index
    BY Zenon, <1>5, <2>4, <2>7
  <2>. QED  BY Zenon, <2>3, <2>8
<1>. HIDE DEF lens, hits
<1>10. CASE lens = {}
  BY Zenon, <1>3, <1>8, <1>10
<1>11. CASE lens # {}
  BY Zenon, <1>3, <1>8, <1>9, <1>11
<1>. QED  BY Zenon, <1>10, <1>11

LEMMA FewGateways ==
  ASSUME IInv, GatewaysFit
  PROVE  Len(nextHopMapping) \in Nat /\ Len(nextHopMapping) <= 32768
<1>1. nextHopMapping \in Seq(Hop) /\ Len(nextHopMapping) \in Nat
  <2>1. nextHopMapping \in Seq(Hop)
    BY Zenon, InvFacts DEF TypeOK, Hop
  <2>. QED  BY <2>1
<1>2. PICK f : f = [k \in 1 .. Len(nextHopMapping) |-> nextHopMapping[k].nh_ip]
  BY Zenon
<1>3. f \in [1 .. Len(nextHopMapping) -> Gateways]
  <2>1. \A k \in 1 .. Len(nextHopMapping) : nextHopMapping[k] \in Hop
    BY <1>1
  <2>2. \A k \in 1 .. Len(nextHopMapping) : nextHopMapping[k].nh_ip \in Gateways
    BY <2>1 DEF Hop
  <2>. QED  BY Zenon, <1>2, <2>2
<1>4. IsInjective(f)
  <2>1. \A j, k \in 1 .. Len(nextHopMapping) : nextHopMapping[j].nh_ip = nextHopMapping[k].nh_ip => j = k
    BY Zenon, InvFacts DEF Mapped
  <2>2. DOMAIN f = 1 .. Len(nextHopMapping)
    BY Zenon, <1>2
  <2>3. \A j, k \in DOMAIN f : f[j] = f[k] => j = k
    BY Zenon, <1>2, <2>1, <2>2
  <2>. QED  BY Zenon, <2>3 DEF IsInjective
<1>5. f \in Injection(1 .. Len(nextHopMapping), Gateways)
  BY Zenon, <1>3, <1>4 DEF Injection
<1>6. IsFiniteSet(Gateways) /\ Cardinality(Gateways) \in Nat
  <2>1. IsFiniteSet(Gateways)
    BY DEF GatewaysFit
  <2>. QED  BY Zenon, <2>1, FS_CardinalityType
<1>7. Cardinality(1 .. Len(nextHopMapping)) <= Cardinality(Gateways)
  BY Zenon, <1>5, <1>6, FS_Injection
<1>8. Cardinality(1 .. Len(nextHopMapping)) = Len(nextHopMapping)
  <2>1. /\ 1 \in Int /\ Len(nextHopMapping) \in Int
    BY <1>1
  <2>2. Cardinality(1 .. Len(nextHopMapping)) =
          IF 1 > Len(nextHopMapping) THEN 0 ELSE Len(nextHopMapping) - 1 + 1
    BY Zenon, <2>1, FS_Interval
  <2>. QED  BY <1>1, <2>2
<1>. QED  BY <1>1, <1>6, <1>7, <1>8 DEF GatewaysFit

(* What a worker makes of the index of a route that can be used.            *)
LEMMA DecodedRoute ==
  ASSUME IInv, pc = "ready", InterfacesFit, GatewaysFit,
         NEW e \in AllRoutes(entries), CanUse(e), NEW r \in AllRoutes(rib), SameHop(e, r)
  PROVE  \E q \in SameGateway(r) : Decoded(e.index) = LeadsTo(q)
<1>1. /\ netmapIndex = NumberOf /\ nextHopMapping \in Seq(Hop)
      /\ HasIndex(e, nextHopMapping, netmapIndex) /\ Mapped(nextHopMapping, AllRoutes(rib))
      /\ nextHops = [k \in 1 .. Len(nextHopMapping) |->
                      Uint16(netmapIndex[nextHopMapping[k].interface])]
  BY Zenon, ReadyFacts
<1>2. r.next_hop = e.next_hop /\ r.interface = e.interface
  BY Zenon DEF SameHop
<1>3. e.index # NH_INVALID
  BY Zenon, IndexValid
<1>4. CASE e.next_hop = None
  <2>1. e.interface \in Range(ToUse) /\ e.interface \in Interfaces
    <3>1. e.interface \in Range(ToUse)
      BY Zenon, <1>4 DEF CanUse
    <3>2. ToUse \in Seq(Interfaces)
      BY Zenon, RoutesAssumption
    <3>. QED  BY <3>1, <3>2 DEF Range
  <2>2. PICK x : x = DirectIndex(NumberOf[e.interface])
    BY Zenon
  <2>3. e.index = x
    BY Zenon, <1>1, <1>4, <2>2 DEF HasIndex
  <2>4. x >= NH_DIRECTLY_CONNECTED /\ x - NH_DIRECTLY_CONNECTED = Uint16(NumberOf[e.interface])
    BY Zenon, <2>1, <2>2, NumberedIndex
  <2>5. Decoded(e.index) = <<"direct", Uint16(NumberOf[e.interface])>>
    BY Zenon, <1>3, <2>3, <2>4 DEF Decoded
  <2>. QED  BY Zenon, <1>1, <1>2, <1>4, <2>5 DEF LeadsTo, SameGateway
<1>5. CASE e.next_hop # None
  <2>1. PICK k \in 1 .. Len(nextHopMapping) : nextHopMapping[k].nh_ip = e.next_hop /\ e.index = k - 1
    BY Zenon, <1>1, <1>5 DEF HasIndex
  <2>2. ~ (k - 1 >= NH_DIRECTLY_CONNECTED) /\ k - 1 + 1 = k
    <3>1. Len(nextHopMapping) \in Nat /\ Len(nextHopMapping) <= 32768
      BY FewGateways
    <3>. QED  BY <3>1 DEF NH_DIRECTLY_CONNECTED
  <2>3. (CHOOSE h \in Range(nextHopMapping) : h.index = k - 1) = nextHopMapping[k]
    BY Zenon, <1>1, ByIndex
  <2>4. Decoded(e.index) = <<"via", nextHopMapping[k].nh_ip, nextHops[k]>>
    BY Zenon, <1>3, <2>1, <2>2, <2>3 DEF Decoded
  <2>5. nextHops[k] = Uint16(netmapIndex[nextHopMapping[k].interface])
    BY Zenon, <1>1
  <2>6. PICK q \in AllRoutes(rib) : q.next_hop = nextHopMapping[k].nh_ip /\ q.interface = nextHopMapping[k].interface
    BY Zenon, <1>1 DEF Mapped
  <2>7. q \in SameGateway(r) /\ q.next_hop # None
    BY Zenon, <1>2, <1>5, <2>1, <2>6 DEF SameGateway
  <2>8. Decoded(e.index) = LeadsTo(q)
    BY Zenon, <2>4, <2>5, <2>6, <2>7 DEF LeadsTo
  <2>. QED  BY Zenon, <2>7, <2>8
<1>. QED  BY Zenon, <1>4, <1>5

(* A route of the kernel.                                                   *)
LEMMA KernelRouteFacts ==
  ASSUME rib \in [0 .. W -> Seq(Route)], NEW r \in AllRoutes(rib)
  PROVE  Len(r.base) \in 0 .. W /\ r.interface \in Interfaces
<1>1. \A q : q \in AllRoutes(rib) <=> \E n \in 0 .. W : \E k \in 1 .. Len(rib[n]) : q = rib[n][k]
  BY Zenon, RouteFacts
<1>2. PICK n \in 0 .. W : \E k \in 1 .. Len(rib[n]) : r = rib[n][k]
  BY Zenon, <1>1
<1>3. rib[n] \in Seq(Route)
  BY Zenon
<1>4. r \in Route
  BY <1>2, <1>3
<1>5. r.base \in Prefix /\ r.interface \in Interfaces
  BY Zenon, <1>4, RouteFields
<1>. QED  BY Zenon, <1>5, PrefixLen

(* Of the routes that cover an address, some are longest.                   *)
LEMMA LongestExists ==
  ASSUME rib \in [0 .. W -> Seq(Route)], NEW a \in Addrs,
         NEW r \in AllRoutes(rib), IsPrefix(r.base, a)
  PROVE  Longest(AllRoutes(rib), a) # {}
<1>. DEFINE lens == {Len(q.base) : q \in {p \in AllRoutes(rib) : IsPrefix(p.base, a)}}
<1>1. \A q \in AllRoutes(rib) : Len(q.base) \in 0 .. W
  BY Zenon, KernelRouteFacts
<1>2. lens # {} /\ lens \in SUBSET (0 .. W) /\ W \in Nat
  BY Zenon, <1>1, SizeFacts
<1>3. PICK m \in lens : \A n \in lens : n <= m
  <2>. HIDE DEF lens
  <2>. QED  BY Zenon, <1>2, MaxFacts
<1>4. PICK q \in AllRoutes(rib) : IsPrefix(q.base, a) /\ m = Len(q.base)
  BY Zenon, <1>3
<1>5. \A p \in AllRoutes(rib) : IsPrefix(p.base, a) => Len(p.base) <= Len(q.base)
  BY Zenon, <1>3, <1>4
<1>. QED  BY Zenon, <1>4, <1>5 DEF Longest

(* Where all longest matches of the kernel can be used, they are the best   *)
(* ones that can.                                                           *)
LEMMA KernelBest ==
  ASSUME IInv, pc = "ready", NEW a \in Addrs,
         \A r \in Longest(AllRoutes(rib), a) : ~ Unnumbered(r)
  PROVE  Longest(AllRoutes(rib), a) = Best(AllRoutes(rib), a)
<1>1. rib \in [0 .. W -> Seq(Route)] /\ netmapIndex = NumberOf
  BY Zenon, ReadyFacts
<1>2. ASSUME NEW r \in AllRoutes(rib) PROVE Unnumbered(r) \/ CanUse(r)
  <2>1. r.interface \in Interfaces
    BY Zenon, <1>1, KernelRouteFacts
  <2>2. NumberOf[r.interface] = None \/ r.interface \in Range(ToUse)
    BY Zenon, <2>1, NumberFacts
  <2>. QED  BY Zenon, <1>1, <2>2 DEF Unnumbered, CanUse
<1>3. ASSUME NEW r \in Longest(AllRoutes(rib), a) PROVE r \in Best(AllRoutes(rib), a)
  BY Zenon, <1>2 DEF Longest, Best, Fits
<1>4. ASSUME NEW r \in Best(AllRoutes(rib), a) PROVE r \in Longest(AllRoutes(rib), a)
  <2>1. r \in AllRoutes(rib) /\ IsPrefix(r.base, a)
    BY Zenon DEF Best, Fits
  <2>2. PICK l \in Longest(AllRoutes(rib), a) : TRUE
    BY Zenon, <1>1, <2>1, LongestExists
  <2>3. Len(r.base) = Len(l.base)
    <3>1. Len(l.base) <= Len(r.base) /\ Len(r.base) <= Len(l.base)
      BY Zenon, <1>3, <2>1, <2>2 DEF Longest, Best
    <3>2. Len(l.base) \in 0 .. W /\ Len(r.base) \in 0 .. W
      BY Zenon, <1>1, <2>1, <2>2, KernelRouteFacts DEF Longest
    <3>. QED  BY <3>1, <3>2
  <2>. QED  BY Zenon, <2>1, <2>2, <2>3 DEF Longest
<1>. QED  BY Zenon, <1>3, <1>4

(* The trie finds a longest one of the routes with a valid leaf.            *)
LEMMA TrieHit ==
  ASSUME Table(entries), NEW a \in Addrs
  PROVE  IF ValidUpTo(a, W) = {} THEN TrieRoute(a) = NH_INVALID
         ELSE \E e \in AllRoutes(entries) :
                /\ IsPrefix(e.base, a) /\ TrieRoute(a) = e.index /\ e.index # NH_INVALID
                /\ \A m \in ValidUpTo(a, W) : m <= Len(e.base)
<1>1. TrieRoute(a) = LastUpTo(a, W)
  BY Zenon, TrieFacts
<1>2. CASE ValidUpTo(a, W) = {}
  BY Zenon, <1>1, <1>2 DEF LastUpTo
<1>3. CASE ValidUpTo(a, W) # {}
  <2>1. PICK n : n = Max(ValidUpTo(a, W))
    BY Zenon
  <2>2. n \in ValidUpTo(a, W) /\ \A m \in ValidUpTo(a, W) : m <= n
    <3>1. W \in Nat /\ ValidUpTo(a, W) \in SUBSET (0 .. W)
      BY SizeFacts DEF ValidUpTo
    <3>. QED  BY Zenon, <1>3, <2>1, <3>1, MaxFacts
  <2>3. n \in 0 .. W /\ Leaf(SubSeq(a, 1, n)) # NH_INVALID
    BY Zenon, <2>2 DEF ValidUpTo
  <2>4. TrieRoute(a) = Leaf(SubSeq(a, 1, n))
    BY Zenon, <1>1, <1>3, <2>1 DEF LastUpTo
  <2>5. PICK k \in 1 .. Len(entries[n]) : /\ IsPrefix(entries[n][k].base, a)
                                          /\ Leaf(SubSeq(a, 1, n)) = entries[n][k].index
    BY Zenon, <2>3, RouteOfLeaf
  <2>6. entries[n][k] \in AllRoutes(entries) /\ Len(entries[n][k].base) = n
    BY Zenon, <2>3, TableFacts
  <2>. QED  BY Zenon, <1>3, <2>2, <2>3, <2>4, <2>5, <2>6
<1>. QED  BY Zenon, <1>2, <1>3

(* A route that fits is found in the trie at its length.                    *)
LEMMA FitIsValid ==
  ASSUME IInv, pc = "ready", InterfacesFit, NEW a \in Addrs, Once(a),
         NEW e \in AllRoutes(entries), Fits(e, a)
  PROVE  Len(e.base) \in ValidUpTo(a, W) /\ Leaf(SubSeq(a, 1, Len(e.base))) = e.index
<1>1. Table(entries)
  BY Zenon, ReadyFacts
<1>2. PICK n \in 0 .. W : \E k \in 1 .. Len(entries[n]) : e = entries[n][k]
  BY Zenon, <1>1, RouteAt
<1>3. PICK k \in 1 .. Len(entries[n]) : e = entries[n][k]
  BY Zenon, <1>2
<1>4. Len(entries[n][k].base) = n
  BY Zenon, <1>1, TableFacts
<1>5. IsPrefix(entries[n][k].base, a) /\ CanUse(e)
  BY Zenon, <1>3 DEF Fits
<1>6. Leaf(SubSeq(a, 1, n)) = entries[n][k].index
  BY Zenon, <1>1, <1>5, LeafOfRoute
<1>7. e.index # NH_INVALID
  BY Zenon, <1>5, IndexValid
<1>8. Leaf(SubSeq(a, 1, n)) # NH_INVALID /\ Len(e.base) = n
  BY Zenon, <1>3, <1>4, <1>6, <1>7
<1>. QED  BY Zenon, <1>3, <1>6, <1>8 DEF ValidUpTo

LEMMA KernelLemma ==
  ASSUME IInv, InterfacesFit, GatewaysFit
  PROVE  RoutedAsKernel
<1>. SUFFICES ASSUME pc = "ready", NoDuplicates(rib), NEW a \in Addrs, ~ Hidden(clash, a),
                     NEW L, L = Longest(AllRoutes(rib), a),
                     \A r \in L : /\ ~ Unnumbered(r)
                                  /\ \A q \in SameGateway(r) : q.interface = r.interface
              PROVE  Decoded(TrieRoute(a)) \in Wanted(a)
  BY Zenon DEF RoutedAsKernel, Hidden
<1>1. Table(entries) /\ StandsFor(entries, rib, clash)
  BY Zenon, ReadyFacts
<1>2. Apart(entries, clash) /\ Kept(AllRoutes(entries), AllRoutes(rib), a)
  BY Zenon, <1>1 DEF StandsFor
<1>3. Once(a)
  <2>1. ASSUME NEW n \in 0 .. W, NEW j \in 1 .. Len(entries[n]), NEW k \in 1 .. Len(entries[n]),
               IsPrefix(entries[n][j].base, a), IsPrefix(entries[n][k].base, a)
        PROVE  j = k
    <3>1. entries[n][j].base \in [1 .. n -> Bits] /\ entries[n][k].base \in [1 .. n -> Bits]
      BY Zenon, <1>1, TableFacts
    <3>2. entries[n][j].base = SubSeq(a, 1, n) /\ entries[n][k].base = SubSeq(a, 1, n)
      BY Zenon, <2>1, <3>1, PrefixFacts
    <3>3. entries[n][j].base \notin clash
      BY Zenon, <2>1 DEF Hidden
    <3>. QED  BY Zenon, <1>2, <3>2, <3>3 DEF Apart
  <2>. QED  BY Zenon, <2>1 DEF Once
<1>4. /\ Best(AllRoutes(rib), a) = L
      /\ Wanted(a) = IF L = {} THEN {<<"no route">>} ELSE {LeadsTo(r) : r \in L}
  BY Zenon, KernelBest DEF Wanted
<1>5. ASSUME NEW e \in AllRoutes(entries), Fits(e, a)
      PROVE  Len(e.base) \in ValidUpTo(a, W) /\ Leaf(SubSeq(a, 1, Len(e.base))) = e.index
  BY Zenon, <1>3, <1>5, FitIsValid
<1>6. CASE ValidUpTo(a, W) = {}
  <2>1. Decoded(TrieRoute(a)) = <<"no route">>
    BY Zenon, <1>1, <1>6, TrieHit DEF Decoded
  <2>2. \A e \in AllRoutes(entries) : ~ Fits(e, a)
    BY Zenon, <1>5, <1>6
  <2>3. L = {}
    BY Zenon, <1>2, <1>4, <2>2 DEF Kept, Best
  <2>. QED  BY Zenon, <1>4, <2>1, <2>3
<1>7. CASE ValidUpTo(a, W) # {}
  <2>1. PICK e \in AllRoutes(entries) :
             /\ IsPrefix(e.base, a) /\ TrieRoute(a) = e.index /\ e.index # NH_INVALID
             /\ \A m \in ValidUpTo(a, W) : m <= Len(e.base)
    BY Zenon, <1>1, <1>7, TrieHit
  <2>2. CanUse(e)
    BY Zenon, <2>1, IndexValid
  <2>3. e \in Best(AllRoutes(entries), a)
    <3>1. \A q \in AllRoutes(entries) : Fits(q, a) => Len(q.base) <= Len(e.base)
      BY Zenon, <1>5, <2>1
    <3>. QED  BY Zenon, <2>1, <2>2, <3>1 DEF Best, Fits
  <2>4. PICK r \in L : SameHop(e, r)
    BY Zenon, <1>2, <1>4, <2>3 DEF Kept
  <2>5. r \in AllRoutes(rib)
    BY Zenon DEF Longest
  <2>6. PICK q \in SameGateway(r) : Decoded(e.index) = LeadsTo(q)
    BY Zenon, <2>2, <2>4, <2>5, DecodedRoute
  <2>7. LeadsTo(q) = LeadsTo(r)
    <3>1. q.next_hop = r.next_hop /\ q.interface = r.interface
      BY Zenon DEF SameGateway
    <3>. QED  BY Zenon, <3>1 DEF LeadsTo
  <2>. QED  BY Zenon, <1>4, <2>1, <2>6, <2>7
<1>. QED  BY Zenon, <1>6, <1>7

LEMMA CoveredLemma ==
  ASSUME IInv, InterfacesFit, GatewaysFit
  PROVE  NoRouteInvented
<1>. SUFFICES ASSUME pc = "ready", NEW a \in Addrs, Decoded(TrieRoute(a)) # <<"no route">>
              PROVE  \E r \in AllRoutes(rib) :
                       /\ IsPrefix(r.base, a)
                       /\ \E q \in SameGateway(r) : Decoded(TrieRoute(a)) = LeadsTo(q)
  BY Zenon DEF NoRouteInvented
<1>1. Table(entries) /\ Covered(AllRoutes(entries), AllRoutes(rib), a)
  BY Zenon, ReadyFacts DEF StandsFor
<1>2. ValidUpTo(a, W) # {}
  BY Zenon, <1>1, TrieHit DEF Decoded
<1>3. PICK e \in AllRoutes(entries) :
           IsPrefix(e.base, a) /\ TrieRoute(a) = e.index /\ e.index # NH_INVALID
  BY Zenon, <1>1, <1>2, TrieHit
<1>4. CanUse(e)
  BY Zenon, <1>3, IndexValid
<1>5. PICK r \in AllRoutes(rib) : IsPrefix(r.base, a) /\ SameHop(e, r)
  BY Zenon, <1>1, <1>3 DEF Covered
<1>6. \E q \in SameGateway(r) : Decoded(e.index) = LeadsTo(q)
  BY Zenon, <1>4, <1>5, DecodedRoute
<1>. QED  BY Zenon, <1>3, <1>5, <1>6

-----------------------------------------------------------------------------
LEMMA Inv == Spec => []IInv
<1>1. Init => IInv
  BY Zenon, InitInv
<1>2. IInv /\ [Next]_vars => IInv'
  BY Zenon, NextInv
<1>. QED  BY <1>1, <1>2, PTL DEF Spec

(* aggregate(), buildNextHopList() and createCurrentTable() keep the types, *)
(* and every route stays in the list of its prefix length.                  *)
THEOREM TypeCorrect == Spec => []TypeOK
<1>1. IInv => TypeOK
  BY Zenon DEF IInv
<1>. QED  BY <1>1, Inv, PTL

(* buildNextHopList() (routingTable.cpp:96-170), run twice, gives gateway k *)
(* index k - 1 and every route through it that index, whatever the routes   *)
(* and the order sort() leaves them in.                                     *)
THEOREM GatewayIndices == Spec => []IndicesDense
<1>1. ASSUME IInv PROVE IndicesDense
  <2>. SUFFICES ASSUME pc \in {"netmap", "table", "ready"}
                PROVE  /\ \A k \in 1 .. Len(nextHopMapping) : nextHopMapping[k].index = k - 1
                       /\ \A r \in AllRoutes(entries) : r.next_hop # None =>
                            /\ r.index < Len(nextHopMapping)
                            /\ nextHopMapping[r.index + 1].nh_ip = r.next_hop
    BY Zenon DEF IndicesDense
  <2>1. Mapped(nextHopMapping, AllRoutes(rib)) /\ Progress /\ TypeOK
    BY Zenon, <1>1, InvFacts
  <2>2. \A k \in 1 .. Len(nextHopMapping) : nextHopMapping[k].index = k - 1
    BY Zenon, <2>1 DEF Mapped
  <2>3. ASSUME NEW r \in AllRoutes(entries), r.next_hop # None
        PROVE  r.index < Len(nextHopMapping) /\ nextHopMapping[r.index + 1].nh_ip = r.next_hop
    <3>1. HasIndex(r, nextHopMapping, netmapIndex)
      BY <2>1 DEF Progress
    <3>2. PICK k \in 1 .. Len(nextHopMapping) : nextHopMapping[k].nh_ip = r.next_hop /\ r.index = k - 1
      BY Zenon, <2>3, <3>1 DEF HasIndex
    <3>3. Len(nextHopMapping) \in Nat
      BY <2>1 DEF TypeOK
    <3>4. k - 1 < Len(nextHopMapping) /\ k - 1 + 1 = k
      BY <3>3
    <3>. QED  BY Zenon, <3>2, <3>4
  <2>. QED  BY Zenon, <2>2, <2>3
<1>2. IInv => IndicesDense
  BY Zenon, <1>1
<1>. QED  BY <1>2, Inv, PTL

(* The trie and the naive table give every address the same index once     *)
(* every interface has a number and no prefix occurs twice: basicTrie.cpp   *)
(* and naive.cpp compute the same longest match, if initNetmap numbers at   *)
(* most 32767 interfaces.                                                   *)
THEOREM TrieIsNaive ==
  ASSUME InterfacesFit
  PROVE  Spec => []LookupsAgree
<1>1. IInv => LookupsAgree
  BY Zenon, AgreeLemma
<1>. QED  BY <1>1, Inv, PTL

(* What a worker gets for an address is what the longest match among the    *)
(* routes of the kernel says, after aggregate(), two passes of              *)
(* buildNextHopList(), the trie and createCurrentTable(): for every dump in *)
(* which no prefix occurs twice, every order of equal bases and address     *)
(* width, if the 16 bits of an index suffice, and for every address that is *)
(* not below a prefix aggregate() makes a second time (routingTable.cpp:50),*)
(* whose longest match is no direct route out of an interface without a     *)
(* number, and whose gateway is not on two interfaces.                      *)
THEOREM KernelRoutesKept ==
  ASSUME InterfacesFit, GatewaysFit
  PROVE  Spec => []RoutedAsKernel
<1>1. IInv => RoutedAsKernel
  BY Zenon, KernelLemma
<1>. QED  BY <1>1, Inv, PTL

(* In any dump whatever, duplicates and the exceptions above included, a    *)
(* packet goes nowhere but where a route leads that covers its address, if  *)
(* the 16 bits of an index suffice: aggregate(), which replaces two routes  *)
(* by one (routingTable.cpp:43-50), makes up no destination.                *)
THEOREM OnlyKernelRoutes ==
  ASSUME InterfacesFit, GatewaysFit
  PROVE  Spec => []NoRouteInvented
<1>1. IInv => NoRouteInvented
  BY Zenon, CoveredLemma
<1>. QED  BY <1>1, Inv, PTL
=============================================================================
