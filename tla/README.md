# A verification of the ariadne software router

This directory holds TLA+ models of the router, the TLC configurations that
check them on small instances, and theorems checked by TLAPS. Line numbers
refer to the repository (`src/`, `include/`); `PROJECT.json` maps every
definition to the lines it models.

## The system

The router binds interfaces to netmap and forwards IPv4 packets in user space.

| Part | Code | State | Operations |
|---|---|---|---|
| Start-up | `main.cpp`, `netlink.cpp`, `manager.cpp` | options, `interfaces`, rings, free buffers | two netlink dumps, `fillNetLink`, `initNetmap` |
| Routing table | `routingTable.cpp`, `linuxTable.cpp` | `entries`, `nextHopMapping` | `updateInfo`, `aggregate`, `buildNextHopList` |
| Longest prefix match | `basicTrie.cpp`, `naive.cpp` | the trie | build, `route` |
| Life cycle | `manager.hpp`, `worker.hpp` | `state`, the current and the new tables | `run`, `stop`, `update` |
| Manager loop | `manager.cpp` `process` | netmap rings, `freeBufs`, `missingMACs`, TX round robin | `poll`, empty the RX rings into `inRings[0]`, drain `outRings[0]` into the TX rings |
| Worker threads | `worker.cpp` `process` | a batch of frames | verify, look up, rewrite, flag, enqueue |
| Queues | moodycamel, external | `inRings[0]`, `outRings[0]` | `try_(en/de)queue(_bulk)`, which may fail |
| netmap | external | head, tail, slots, buffers | the kernel moves `tail` inside `poll` |
| ARP table | `arpTable.cpp` | `nextHops`, `directlyConnected`, `mapping` | `handleFrame`, `prepareRequest`, `createCurrentTable` |
| Statistics thread | `manager.cpp`, `worker.cpp` | counters of the workers | print and clear |

The parts run one after the other up to `Manager::run`: the interfaces are
read, the routes are turned into tables once, netmap is set up, the threads
start. From then on the manager is the only thread that touches rings and
`freeBufs`; it shares the two queues, the contents of buffers and the ARP table
with the workers. Frames are never copied: a *buffer* moves from an RX slot to
a frame, through two queues and a worker, into a TX slot, and on each side a
swap has to put another buffer in its place. No lock protects anything.

## Modules

| Module | Models | State and actions |
|---|---|---|
| `StartUp` | `main` to the first `poll` | one action per option, netlink message, dump and interface; `KernelChange` lets links come and go in between; netmap may refuse an interface, and takes one twice |
| `RoutingTable` | routes to tables to lookups | the dump, each step of `aggregate`, `buildNextHopList` twice and route by route, interface numbers, `createCurrentTable`; trie and naive search as operators |
| `DataPath` | `Manager::process`, `Worker::process`, queues, NIC | one action per step other threads can see between: taking a frame, enqueuing a batch, handling a frame in a worker, one round of the TX loop |
| `NetmapRing` | ring arithmetic, external | `nm_ring_space`, `nm_ring_next` |
| `BufferPool` | what `DataPath` promises about buffers | a buffer is in a slot, free or in a frame; `Receive`, `Send`, `Discard`, `Lose` |
| `Header` | header verification, checksum, TTL step | one header going from router to router, 16-bit arithmetic |
| `Arp` | ARP with MAC values | neighbours that move, ask and announce themselves, lossy links, `handleFrame`, lookups that race with it, `missingMACs` |
| `Lifecycle` | threads and their shared state | every load and store of `state`, the counters and the table pointers |
| `MC*` | constants for TLC | |

The theorems are in `DataPathLemmas` (sequences and rings, type correctness,
who holds a buffer, the ways buffers move and that every action moves them in
one of these ways), `DataPathFrames` (what queued frames, filled TX slots and
frames that no worker has seen promise), `DataPathProofs` (the inductive
invariant, how many buffers the queues must hold, the theorems),
`RoutingProofs`, `HeaderProofs`, `LifecycleProofs`, `ArpProofs` and
`StartUpProofs`.

The models meet at their borders. `StartUp!BuffersOnce` and `NumbersMatch` are
what `DataPath` assumes about its buffers and interface numbers, for a command
line without repetitions and without a refusal;
`RoutingTable!IndicesDense` is why `DataPath` may look next hops up by address;
`DataPath!ManagerReturns` justifies the fairness of `Process` in `Lifecycle`;
`DataPath` only knows whether a header is valid (`Header` says when) and
whether a MAC is known (`Arp` says which).

Definitions whose comment begins with "Faulty:" are deliberate mutations.
Nothing refers to them; each replaces its neighbour once to show that a
property notices.

### Abstractions

- `DataPath`: `poll` also watches the host rings (`NR_REG_NIC_SW`,
  `manager.cpp:26`), so it may return more often than `PollReturn`; safety does
  not use that guard. The host rings themselves are never read or written
  ("TODO host ring", line 224). A queue accepts `RING_SIZE` frames and all of a
  batch or none. The library's queue has blocks for that many and gives each
  block to one producer; with blocks partly used it may refuse a little earlier.
  `outRing` is one FIFO per producer, taken in any order. Interface ID and flags
  of a frame are two fields; in the code they share 16 bits
  (`frame.hpp:20-24`), which is the same below 4096 interfaces. A
  worker handles one frame in one step. An entry of `missingMACs` may or may
  not have expired. Addresses in packets are in network order, those in tables
  in host order, and `ntohl` converts.
- `Header`: identification, fragmentation, addresses and options are only ever
  added up, so one word `rest` stands for their sum. A header is inside its
  frame: one that claims more options than the frame has bytes for passes the
  test at `worker.cpp:8`, and what is then added up behind the frame is left out.
- `Arp`: queues and buffers are left out (they are `DataPath`). A frame arrives
  on a link in any order, any number of times, or never. Hosts send requests,
  replies to the router's requests, and replies nobody asked for, which
  `handleReply` takes like any other (`arpTable.cpp:89`). A MAC that is being
  written is read as two halves, old and new in any combination. A lookup during
  an insert into the map may miss the entry, and what it finds is whole; that a
  rehash could crash the reader, or show it anything else, is undefined
  behaviour the model does not follow.
- `Lifecycle`: frames are counted, and a counter stays at `Many` (in the code it
  wraps after 2^32). An increment
  of a plain counter is a read and a write. The uninitialised
  `Manager::state` is either value.
- `StartUp`: a netlink message is its fields. Sorting pointers gives any
  permutation. netmap may refuse any interface; an interface that is named twice
  it registers twice (`NR_EXCLUSIVE` is not set, `manager.cpp:26`), with the same
  rings and new extra buffers.
- `RoutingTable`: an address is a sequence of `W` bits, a route's base the
  sequence of its prefix bits. `StableSort` says whether `sort` keeps the order
  of equal bases. `rib` and `clash` are history: the kernel's routes as dumped,
  and the prefixes `aggregate` made that were there already. A failing assert of
  `buildNextHopList` (nothing defines `NDEBUG`) is a state without a step.

## Runs

| Run | Instance | Checks | Distinct states |
|---|---|---|---|
| `startup` | 4 links, 11 command lines, 2 changes of the kernel's links | `TypeOK` `DumpFaithful` `CrashOnlyFor` `NumbersMatch` `BuffersOnce` | 55,343 |
| `rt_tables` | W = 4, dumps of up to 5 of 12 routes, any order of equal bases, an interface named twice, one without a number | `TypeOK` `RoutedAsKernel` `NoRouteInvented` `IndicesDense` `LookupsAgree` | 1,898,163 |
| `dp_transit` | 2 interfaces, 1 worker, 3 slots, batches of 2, traffic from one link to a host on the other that asks and answers | `TypeOK` `SentToNextHop` `NoBufferLost` `BatchFits` `NoMacIsIp` `StaysUp` `PendingUntouched` | 654,324 |
| `dp_faults` | 2 interfaces, 2 workers, queues of one frame; bad headers, packets for the router, no route, no address | `BufferExclusive` `OnNicRing` `ImplementsPool` | 90,800 |
| `dp_live` | 1 interface, 1 worker, fair threads and NIC | `ManagerReturns` `QueuesMove` `RxMoves` | 354,298 |
| `header` | all 65,536 values of `rest` and so every checksum, TTLs at the limits, malformed headers | `ChecksumCorrect` `RefusedOnlyFor` `LoopEnds` | 657,462 |
| `arp` | a gateway, a direct host, a second link; one move, two frames under way | `TypeOK` `BindingsTrue` `SentToOwner` `LastOrFirst` `SilentNextHopUnknown` `Resolved` | 470,368 |
| `life` | 1 worker, one update, stops at any time | `TypeOK` `DivisorNonZero` `StopEndsRun` `StopJoins` `CountersSettle` | 88,144 |

Four runs show a disagreement between the code and what the repository says:

| Run | What happens |
|---|---|
| `dp_leak` | a frame with a bad header is flagged for discarding but not enqueued (`worker.cpp:86`), its buffer is lost |
| `dp_local` | the test for the router's own address compares byte orders (`worker.cpp:89`), such packets are routed |
| `dp_gateway_asks` | the ARP request of a registered gateway is not answered but sent back (`arpTable.cpp:187`) |
| `rt_overrun` | `size() - 1` wraps after the only two routes of a length were merged (`routingTable.cpp:35`) |

### What the passing runs say about weak spots

Some properties carry an exception, or say less than one would wish, because
the code does not do better:

- `RoutedAsKernel` has three exceptions, each for the addresses it concerns, and
  each needed (without it TLC finds a counterexample in `rt_tables`). Below a
  prefix that `aggregate` made although it was there (`clash`), `sort` may
  exchange the two routes, or a second merge makes the new one shorter, and the
  one that was shadowed wins. A longest match that goes straight out of an
  interface without a number has the index `0xffff`, which is `NH_INVALID`
  (`routingTable.cpp:120`), so the trie takes a shorter route. A gateway reached
  through two interfaces has one index (`routingTable.cpp:127`) and one of the
  two. And a dump with a prefix twice leaves open which of the two is meant.
- `NoRouteInvented` is what remains in all of these cases: the packet still goes
  where a route that covers its address leads, or by another interface of that
  route's gateway, or nowhere.
- `StopEndsRun`, `StopJoins`: a `stop()` that comes before `run()` has stored
  `RUN` (`manager.hpp:120`, `worker.hpp:68`) is overwritten. A worker under
  continuous traffic is not joined either: `process()` only returns when it
  finds `inRing` empty.
- `update()` has no effect, although `worker.hpp:101-102` says it "updates the
  worker thread": `run()` never takes `new_lpm` and `new_arp_table` over, the two
  lines that would do it (`worker.hpp:72-73`) are commented out. No property
  covers this; with the lines active, an LPM could meet the ARP table of another,
  since `update()` stores the two pointers one after the other.
- `CountersSettle`: a reset that falls between a worker's read and write of a
  counter is lost, and the frames of that interval are reported twice. What
  holds is that all counters become and stay zero when the traffic ends.
- `CrashOnlyFor`: a link that comes up between the link dump and the route dump
  gives a route a null interface (`linuxTable.cpp:160`), and options without an
  interface read past `argv` (`main.cpp:38`).
- `NumbersMatch`, `BuffersOnce`: the result of `NIOCREGIF` is ignored
  (`manager.cpp:39`); an interface netmap refuses gets the rings and the extra
  buffers of the one before. An interface named twice gets two numbers for the
  same rings, and its `Interface` keeps the second one (`manager.cpp:100`): no
  `Interface` has the first. `DataPath` does not follow these two cases.
- `RefusedOnlyFor`: a correct packet whose checksum became 0xffff is refused by
  the next router, whose recomputed checksum is 0.
- `LastOrFirst`: a directly connected host that changes its card keeps its old
  entry for ever (`arpTable.cpp:127`).
- `SentToOwner`: a frame looked up while the manager overwrites the MAC of its
  gateway may get half of the old and half of the new one, or of zero
  (`arpTable.cpp:120`).
- `SilentNextHopUnknown`: the request for a packet through a gateway asks for
  the packet's destination (`manager.cpp:251`), so a gateway is only learnt when
  it asks, or announces itself, of its own accord.
- A gateway's own address is never put into `directlyConnected`
  (`arpTable.cpp:122`), so packets to it find no MAC. No property covers this:
  nothing in the repository says what should happen.

### Bounds

Two slots per ring, in `dp_faults` and `dp_live`, are the smallest ring netmap
can run (one slot always stays with the kernel): every TX ring is full after one
frame, so the "no space" branch and the wrap of `head` and `tail` happen all the
time. In `dp_transit` three slots and `MANAGER_BULK_SIZE` 2 give batches of
several frames, cut short by the ring, by `freeBufs` or by the bulk size. Two
extra buffers make `freeBufs` run empty. `RING_SIZE` 1 in `dp_faults` makes both
queues reject frames. `VIEW BufView` in these two runs names a buffer by its
first holder and lists a ring from its head on: buffers differ only in who holds
them, and slots only in how far they are from `head` and `tail`, so states that
differ in these names are one state. `ImplementsPool` and `PendingUntouched` are
checked under that view as well, and proved without it.

`dp_live` has one worker, since liveness cannot be checked under the view and two
workers make too many states without it. That the manager may choose between
several producers of `outRing` is therefore not part of `QueuesMove`. It does
not add much: the second half of `process()` ends only when no producer has a
frame left (`TxDone`), so whenever the manager returns to `poll()` all of them
have been served.

In `RoutingTable`, four bits leave two lengths that are aggregated, the two
longest ones that are not, and length 0. `MaxRoutes` bounds the dump; its routes
include two through one gateway on different interfaces and one out of an
interface netmap does not drive. A merge
that does not empty its list needs three routes, one that meets a route of its
own prefix four, and a second merge of the result five: with a stable sort the
first exception of `RoutedAsKernel` is needed from five routes on.

In `Arp`, `MaxMoves` = 1 lets a host change card or link once, which is what a
stale entry needs, and `MaxWire` = 2 lets an old frame overtake a new one. In
`StartUp`, `MaxChanges` = 2 lets a link go and another come between any two
dumps. In `Lifecycle`, `Many` = 2 tells no, one and several counts apart; one
worker is enough because workers share only the queues, and the theorems hold
for any number.

`CHECK_DEADLOCK FALSE` is set where the program may stop: `dp_faults` (`fatal`
and `abort` end it), `header` (a dropped packet), `rt_*` and `startup` (they end
where the data path begins).

### Fairness

- `DataPath!FairSpec`: the operating system runs the manager and every worker
  (weak fairness of each thread), and a NIC transmits what it was given (weak
  fairness of `TxSync`). Nothing is assumed about arriving packets. `RxMoves` is
  checked with one RX ring: with several, the code serves them in a fixed order
  while `freeBufs` lasts (`manager.cpp:178`) and promises the later ones nothing.
- `Lifecycle!FairSpec`: the same for its threads, and `join()` returns once the
  thread has ended. Nobody is obliged to call `stop` or `update`.
- `Header!FairSpec`: every router handles the packet it has.
- `Arp!FairSpec`: threads and clock go on, packets for the host keep coming, and
  a frame that is sent again and again gets through again and again (strong
  fairness of the sending step, the fair-lossy link).

## Proofs

### DataPath

The theorems hold for every number of interfaces, workers, slots, queue and
batch sizes, buffers, addresses and tables that satisfy the four assumptions of
`DataPath` (`SizesAssumption`, `TablesAssumption`, `ArrivalsAssumption`,
`BuffersAssumption`) and `NumSlotsAssumption`: `ntohl` is its own inverse, the
tables are well typed, netmap hands out each buffer once, and a ring has two
slots or more.

| Theorem | States |
|---|---|
| `TypeCorrect` | `[]TypeOK` |
| `Exclusive` | `[]BufferExclusive` |
| `RefinesPool` | `ImplementsPool`, that is `Pool!PoolSpec` |
| `BatchTakeable` | `[]BatchFits` |
| `NoMacHasHeader` | `[]NoMacIsIp` |
| `SentRight` | `[]SentToNextHop` |
| `Untouched` | `PendingUntouched` |
| `RingIndex` | `[]OnNicRing` |
| `NeverEnds` | `AllRouted => []StaysUp` |
| `NothingLost` | `TransitOnly /\ PoolFits => []NoBufferLost` |

None of these is inductive alone. The invariant is

    IInv == TypeOK /\ BufferExclusive /\ BatchFits /\ FramesOK

`BufferExclusive` needs `BatchFits` (taking a frame needs a free buffer to
exist). `FramesOK` says that frames on their way to a worker have no flags, and
that a frame in `outRing` fits its flags: NOMAC means an IPv4 packet, no flag a
packet that may be sent on its interface. It needs `BufferExclusive`: a step that
writes one buffer must not change the packet of another frame. `SentToNextHop`
follows from `SentOK`, which adds the same about filled TX slots.

Exclusive ownership is proved by giving for every cell after a step the cell
before it that held the same buffer. That map is injective and keeps the
holders apart, so two cells with one buffer after the step would be two cells
with one buffer before it. Each kind of step (take a frame, move a prefix of a
queue, release a frame to a slot or to the free list) has one lemma, which also
shows that the step is a `Receive`, a `Lose`, a `Send` or a `Discard` of
`BufferPool`: exclusiveness is what makes "the set of buffers in slots loses b
and gains c" true. So every action of `DataPath` proves `HandedOver`, both at
once, and the refinement follows. `Untouched` follows step by step from `Kept`:
a slot filled before and after a step has the same buffer and packet.

The last two theorems have hypotheses, about constants only, since without them
the program does end (`WorkerFatal`, `TxNoMacFatal`) and does lose buffers
(`dp_leak`). The constants of `dp_transit` satisfy all three.

- `AllRouted`: the LPM knows every address, next hops are on interfaces netmap
  knows, every interface has an address. Then neither `fatal` can be reached, and
  `RingIndex` excludes the third way to end.
- `TransitOnly`: an IPv4 packet that arrives has a good header and is not for the
  interface it came in by, so it passes the two tests of `worker.cpp` 82-95
  behind which a frame is not enqueued.
- `PoolFits`: the buffers are those of the slots and the extra ones, and a queue
  holds at least as many frames as there are extra buffers. In the code that is
  256 extra buffers for each interface (`manager.cpp:30`) and `RING_SIZE` 1024
  (`config.hpp:14`), so it holds for four interfaces at most. The library's
  queue may refuse a frame a little before 1024, when blocks are partly used by
  several workers, so four leave no margin.

`NothingLost` needs two facts that are true at any time, not just at the start.
`Clean`: every packet in a slot the program owns, in `inRing`, in a batch or in
a worker's hands is still one of `TransitOnly`; the NIC and the workers write
packets meanwhile, and `BufferExclusive` keeps them out of these buffers. And
room: a swap puts a buffer back for each one it takes, so the slots hold as many
buffers as at the start (a bijection, both tables being injective), and the
frames in all queues together share what is left, `Len(InitFree)`. The frame a
worker holds is one of them, so `outRing` has room for it (`OutHasRoom`), and a
batch fits behind `inRing` (`InHasRoom`): no call of `try_enqueue`, whose
result nobody looks at, ever fails. Every other step passes all buffers on
(`NoneLost`, proved with `HandedOver`).

### Header

`ChecksumAlwaysCorrect` (`[]ChecksumCorrect`) and `ForwardedIsRefusedOnlyFor`
(`[]RefusedOnlyFor`) hold for any set of headers and any frame lengths. The
argument is arithmetic modulo 65535: the carry of `AddCarry` keeps the sum,
`htons` multiplies it by 256, and adding one to the swapped field is adding 256
to the sum, which is what one TTL less takes away. The invariant adds that a
forwarded packet still passes the checks that do not look at its TTL, and that
its header is right.

### Lifecycle

`TypeCorrect` and `NeverDividesByZero` (`[]DivisorNonZero`) hold for any number
of workers, any queue size and any bound on the counters. The invariant adds to
the types that workers are constructed one by one. `DivisorNonZero` is inductive because only the statistics thread clears
the divisor.

### Arp

`TypeCorrect`, `FramesTrue` (`[]BindingsTrue`), `SentToNeighbour`
(`[]SentToOwner`), `InsertNeverReplaces` (`[]LastOrFirst`) and `GatewayMustSpeak`
(`[]SilentNextHopUnknown`) hold for any hosts, links, next hops and
destinations, any number of moves and any number of frames under way.
`ArpAssumption` says that the router's addresses and MACs are not those of a
host and that every interface has an address. The invariant is

    IInv == TypeOK /\ BindingsTrue /\ Provoked /\ Learning

`Provoked` says why a frame is under way: a neighbour sends it unasked and is
then in `spoke`, or it replies to a request of the router, which asks for a
packet's destination or is an echo of one for the router. Without it a reply
could teach the table a gateway that never spoke. `Learning` says that the table has only what a host has or had, and
ties the first and the last MAC handled to the entries. Hosts only add to what
they had, so a frame that was true when sent stays true however late it comes.

### StartUp

`TypeCorrect`, `InterfacesFaithful` (`[]DumpFaithful`), `CrashesExplained`
(`[]CrashOnlyFor`), `NumbersAgree` (`[]NumbersMatch`) and `BuffersDistinct`
(`[]BuffersOnce`) hold for any set of links with any addresses, any command
lines, any number of changes of the kernel and any number of extra buffers.
`StartUpAssumption` says that links differ in index and name, and that `-t` is
followed by a number. The invariant is

    IInv == TypeOK /\ Dumping /\ Unnumbered /\ Attached /\ Ended /\ CrashOnlyFor

`Dumping` describes `interfaces` after any part of the two dumps: each link seen
so far has exactly one entry, with the addresses counted so far and the label of
the last one until its link message comes. `Attached` describes the rings, the
numbers after any prefix of the command line, whatever netmap refused, and
`freeBufs` as long as it refused nothing. Each registration has extra buffers of
its own, so a name that comes twice does no harm to them; an `Interface` has the
number of the last place with its name, and is the first one of that name.

### RoutingTable

The theorems hold for addresses of any width, any set of kernel routes and
interfaces, any length of the dump, and whatever order `sort` gives equal bases,
under `RoutesAssumption` (the routes are well typed).

| Theorem | States |
|---|---|
| `TypeCorrect` | `[]TypeOK` |
| `GatewayIndices` | `[]IndicesDense` |
| `TrieIsNaive` | `[]LookupsAgree`, if `InterfacesFit` |
| `KernelRoutesKept` | `[]RoutedAsKernel`, if `InterfacesFit` and `GatewaysFit` |
| `OnlyKernelRoutes` | `[]NoRouteInvented`, if `InterfacesFit` and `GatewaysFit` |

`InterfacesFit` (at most 32767 interfaces on netmap) and `GatewaysFit` (at most
32768 gateways) say that the 16 bits of `nh_index` are enough. They are where
the code needs them: interface 32767 would get `NH_INVALID`, gateway 32768 the
`NH_DIRECTLY_CONNECTED` bit, and no line of the code tests for either. Neither
is needed for `IndicesDense`: before an index is reused the assert on
`NH_INVALID` fails.

The invariant is

    IInv == TypeOK /\ Mapped(nextHopMapping, AllRoutes(rib)) /\ Progress /\ Aggregated

`Mapped`: a gateway is listed once, its index is its place, and its interface is
that of one of the kernel's routes through it. `Progress` says what holds at
each program counter: the routes that a pass of `buildNextHopList` has visited
have the index of their gateway or their interface, and from the first pass on
every gateway is listed, so the second pass never takes the branch that
restarts `next_index` at 0 over existing indices. `Aggregated` is

    StandsFor(entries, rib, clash)

for an address not below a prefix in `clash`, every best match in `entries`
leads where a best match in the kernel's routes leads, and where the kernel has
a match `entries` has one. "Best" is the longest match among the routes usable
once interfaces have numbers, so the statement does not change when
`initNetmap` hands them out. A sort permutes a list and an index is not part of
where a route leads, so only `Merge` can disturb it. An address that
matched one of the siblings matches the parent; nothing between the two lengths
can match it, so the parent is its best match unless another route has the same
prefix, and that prefix is then in `clash`.

A fourth part of `StandsFor` holds everywhere, below `clash` as well: every route
of `entries` that covers an address leads where a route of the kernel leads that
covers it (`Covered`). A parent covers no address that neither sibling covers,
so a merge keeps it, and with it `NoRouteInvented` needs no exception. For
`RoutedAsKernel`, where no longest match of the kernel is a direct route without
a number, the best usable matches are the longest ones (`KernelBest`).

What remains is the lookup. `TrieRoute` is a recursive function, and two things
have to be shown of it: that the recursion has a solution at all, and that every
solution gives the leaf of the longest prefix with a valid one. The first is
shown by writing a solution down (`LastUpTo`), the second by induction over the
length of the prefix. The library's induction schemes take an operator
parameter, which the provers cannot instantiate, so `UpTo` states induction for
a set of naturals and is proved from the well-foundedness of `<`, by a least
counterexample. A prefix that is no node has no valid leaf, so walking on past a
missing node changes nothing (`ValidIsNode`).

### Only model-checked

- Liveness (`ManagerReturns`, `QueuesMove`, `RxMoves`, `LoopEnds`, `Resolved`,
  `StopEndsRun`, `StopJoins`, `CountersSettle`): fairness and `ENABLED` are out of
  the prover's reach.
- `InsideList`, `NoBufferLost` for arbitrary traffic, `LocalNotRouted` and
  `RequestsAnswered`, which the code violates.

## Not modelled

- `pcTrie` is compiled out, `fileTable` is not used by the router.
- Formatting, logging, hexdumps, and helpers without a caller (`parseMac`,
  `mostSigOne`, `frame::hash`).
- The attribute parsing of netlink messages and socket errors in detail: the
  dumps arrive as fields, or fail.
- Starvation between RX rings (`manager.cpp:178`): no promise to check.
- What becomes of packets with more than 32768 gateways, where `next_index`
  (`routingTable.cpp:147`) grows into the `NH_DIRECTLY_CONNECTED` bit: out of
  TLC's reach at the code's width, and excluded by `GatewaysFit` in the proofs.
- One model with everything in it. `RoutingTable` and `StartUp` end before
  `DataPath` begins and nothing flows back, so their composition has no
  interleavings of its own; the borders are the assumptions named above.
