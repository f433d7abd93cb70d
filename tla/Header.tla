------------------------------ MODULE Header ------------------------------
(***************************************************************************)
(* An IPv4 header on its way through routers that run Worker::process:     *)
(* IPv4HdrVerification, IPv4HdrChecksum, and the TTL and checksum update   *)
(* of a forwarded packet, at the width of the code.                        *)
(*                                                                         *)
(* Fields are the numbers the wire carries, except checksum, which is what *)
(* a little-endian host reads from the field: the code never swaps it.     *)
(***************************************************************************)
EXTENDS Integers

CONSTANTS
  Headers,        \* headers that may arrive, with a correct checksum or not
  Lengths         \* frame lengths (frame::len)

uint16_t_max == 65535
U8  == 0 .. 255
U16 == 0 .. uint16_t_max

(* rest stands for the words that are only added up: identification,        *)
(* fragmentation, addresses and options, added up with AddCarry.            *)
Ipv4 == [version : 0 .. 15, ihl : 0 .. 15, tos : U8, total_length : U16,
         ttl : U8, proto : U8, checksum : U16, rest : U16]

ASSUME HeadersAssumption == Headers \subseteq Ipv4 /\ Lengths \subseteq U16

htons(x) == (x % 256) * 256 + (x \div 256)

(* Faulty: the carry is cut off, not added.                                 *)
AddCarryLost(a, b) == (a + b) % 65536

(* One round of the loop of IPv4HdrChecksum.                                *)
AddCarry(a, b) == IF a + b >= 65536 THEN ((a + b) % 65536) + 1 ELSE a + b

FirstWord(h) == (h.version * 16 + h.ihl) * 256 + h.tos
TtlWord(h)   == h.ttl * 256 + h.proto

IPv4HdrChecksum(h) ==
  htons(65535 - AddCarry(AddCarry(AddCarry(FirstWord(h), h.total_length),
                                  TtlWord(h)), h.rest))

IPv4HdrVerification(h, f_len) ==
  /\ f_len >= 20
  /\ IPv4HdrChecksum(h) = h.checksum
  /\ h.version = 4 /\ h.ihl >= 5
  /\ h.total_length >= h.ihl * 4
  /\ h.ttl > 1

(* Faulty: nothing changes on the way.                                      *)
TtlStepForgotten(h) == h

(* Faulty: the checksum is incremented as a number of the wire.             *)
TtlStepNetworkOrder(h) ==
  [h EXCEPT !.ttl = (@ - 1) % 256, !.checksum = htons((htons(@) + 1) % 65536)]

(* ttl-- and checksum++ on the fields as they are in memory.                *)
TtlStep(h) ==
  [h EXCEPT !.ttl = (@ - 1) % 256, !.checksum = (@ + 1) % 65536]

-----------------------------------------------------------------------------
VARIABLES
  hdr, len,       \* the packet at the router it has reached
  forwarded,      \* has a router forwarded it?
  dropped         \* has a router refused it?

vars == <<hdr, len, forwarded, dropped>>

TypeOK ==
  /\ hdr \in Ipv4 /\ len \in U16
  /\ forwarded \in BOOLEAN /\ dropped \in BOOLEAN

Init ==
  /\ hdr \in Headers /\ len \in Lengths
  /\ forwarded = FALSE /\ dropped = FALSE

(* The frame leaves with at least 60 bytes and reaches the next router,     *)
(* with all of its header: a header that claims more options than the frame *)
(* has bytes for, which the code does not notice (worker.cpp:8), is left    *)
(* out, as the words behind the frame are whatever the buffer held before.  *)
Forward ==
  /\ ~dropped /\ IPv4HdrVerification(hdr, len)
  /\ hdr' = TtlStep(hdr)
  /\ len' = IF len < 60 THEN 60 ELSE len
  /\ forwarded' = TRUE /\ UNCHANGED dropped

Discard ==
  /\ ~dropped /\ ~IPv4HdrVerification(hdr, len)
  /\ dropped' = TRUE /\ UNCHANGED <<hdr, len, forwarded>>

Next == Forward \/ Discard

Spec == Init /\ [][Next]_vars

(* Every router it reaches handles the packet.                              *)
FairSpec == Spec /\ WF_vars(Next)

-----------------------------------------------------------------------------
(* RFC 1071: all words of the header, the checksum included, add up to      *)
(* zero in ones' complement.                                                *)
Rfc1071(h) ==
  (FirstWord(h) + h.total_length + TtlWord(h) + h.rest + htons(h.checksum))
    % 65535 = 0

(* Incrementing the checksum in host order (worker.cpp:99) is the right     *)
(* update for one TTL less: however many routers have handled a packet, its *)
(* header adds up as RFC 1071 asks.                                         *)
ChecksumCorrect == forwarded => Rfc1071(hdr)

(* What one router forwards, the next one running the same verification     *)
(* (worker.cpp:5-41) refuses only for its TTL, or because the increment     *)
(* made the checksum 0xffff, where the recomputed one is 0: the comparison  *)
(* takes two representations of zero for different.                         *)
RefusedOnlyFor ==
  dropped /\ forwarded =>
    hdr.ttl <= 1 \/ hdr.checksum = uint16_t_max

(* A packet caught in a routing loop is dropped in the end, as the TTL      *)
(* check and ttl-- (worker.cpp:36, 98) are there for.                       *)
LoopEnds == <>dropped
=============================================================================
