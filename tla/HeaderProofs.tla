--------------------------- MODULE HeaderProofs ---------------------------
(* For every header: the checksum a router leaves behind is right, and the *)
(* only reasons the next router can have to refuse the packet.             *)
EXTENDS Header, TLAPS

(* The sum IPv4HdrChecksum computes before it complements it.               *)
Added(h) == AddCarry(AddCarry(AddCarry(FirstWord(h), h.total_length),
                              TtlWord(h)), h.rest)

Byte(x) == x \in Int /\ 0 <= x /\ x <= 255
Word(x) == x \in Int /\ 0 <= x /\ x <= 65535

(* A 16-bit number as the arithmetic of the provers wants it.               *)
LEMMA WordOf ==
  ASSUME NEW x \in U16
  PROVE  Word(x)
  <1>1. uint16_t_max \in Int
    BY SMT DEF uint16_t_max
  <1>2. x \in Int /\ 0 <= x /\ x <= uint16_t_max
    BY <1>1, SMT DEF U16
  <1> QED
    BY <1>2 DEF Word, uint16_t_max

(* The same in the other direction.                                         *)
LEMMA OfWord ==
  ASSUME NEW x, Word(x)
  PROVE  x \in U16
  <1>1. uint16_t_max \in Int /\ x \in Int /\ 0 <= x /\ x <= uint16_t_max
    BY DEF Word, uint16_t_max
  <1> QED
    BY <1>1, SMT DEF U16

(* And for a byte.                                                          *)
LEMMA OfByte ==
  ASSUME NEW x, Byte(x)
  PROVE  x \in U8
  BY SMT DEF Byte, U8

(* The two bytes of a word.                                                 *)
LEMMA BytesOf ==
  ASSUME NEW x, Word(x)
  PROVE  /\ Byte(x % 256) /\ Byte(x \div 256)
         /\ x = (x \div 256) * 256 + (x % 256)
  BY SMT DEF Word, Byte

(* A word made of two bytes has these bytes.                                *)
LEMMA OfBytes ==
  ASSUME NEW hi, Byte(hi), NEW lo, Byte(lo)
  PROVE  /\ Word(hi * 256 + lo)
         /\ (hi * 256 + lo) % 256 = lo /\ (hi * 256 + lo) \div 256 = hi
  BY SMT DEF Word, Byte

(* htons exchanges the bytes of a word and undoes itself.                   *)
LEMMA HtonsTwice ==
  ASSUME NEW x, Word(x)
  PROVE  Word(htons(x)) /\ htons(htons(x)) = x
  <1> DEFINE hi == x \div 256  lo == x % 256
  <1>1. Byte(hi) /\ Byte(lo) /\ x = hi * 256 + lo /\ htons(x) = lo * 256 + hi
    BY BytesOf DEF htons
  <1> HIDE DEF hi, lo
  <1>2. /\ Word(lo * 256 + hi)
        /\ (lo * 256 + hi) % 256 = hi /\ (lo * 256 + hi) \div 256 = lo
    BY <1>1, OfBytes
  <1>3. htons(lo * 256 + hi) = hi * 256 + lo
    BY <1>2 DEF htons
  <1> QED
    BY <1>1, <1>2, <1>3

(* One round of the loop adds modulo 65535 and is zero only for zeros.      *)
LEMMA AddCarryMod ==
  ASSUME NEW a, Word(a), NEW b, Word(b)
  PROVE  /\ Word(AddCarry(a, b))
         /\ AddCarry(a, b) = a + b \/ AddCarry(a, b) = a + b - 65535
         /\ AddCarry(a, b) = 0 => a = 0
  <1>1. CASE a + b >= 65536
    <2>1. (a + b) % 65536 = a + b - 65536
      BY <1>1, SMT DEF Word
    <2>2. AddCarry(a, b) = (a + b - 65536) + 1
      BY <1>1, <2>1, SMT DEF AddCarry
    <2> QED
      BY <1>1, <2>2, SMT DEF Word
  <1>2. CASE ~(a + b >= 65536)
    <2>1. AddCarry(a, b) = a + b
      BY <1>2, SMT DEF AddCarry
    <2> QED
      BY <1>2, <2>1, SMT DEF Word
  <1> QED
    BY <1>1, <1>2

(* checksum++ in memory adds 0x0100 on the wire, with the carry out of the  *)
(* upper byte going to the lower one; only 0xffff has no right successor.   *)
LEMMA Incremented ==
  ASSUME NEW c, Word(c), c # 65535
  PROVE  /\ (c + 1) % 65536 = c + 1 /\ Word(c + 1)
         /\ \/ htons(c + 1) = htons(c) + 256
            \/ htons(c + 1) = htons(c) + 256 - 65535
  <1> DEFINE hi == c \div 256  lo == c % 256
  <1>1. Byte(hi) /\ Byte(lo) /\ c = hi * 256 + lo /\ htons(c) = lo * 256 + hi
    BY BytesOf DEF htons
  <1> HIDE DEF hi, lo
  <1>2. (c + 1) % 65536 = c + 1 /\ Word(c + 1)
    BY SMT DEF Word
  <1>3. CASE lo < 255
    <2>1. Byte(lo + 1) /\ c + 1 = hi * 256 + (lo + 1)
      BY <1>1, <1>3, SMT DEF Byte
    <2>2. htons(c + 1) = (lo + 1) * 256 + hi
      BY <1>1, <2>1, OfBytes DEF htons
    <2> QED
      BY <1>1, <1>2, <2>2, SMT DEF Byte
  <1>4. CASE lo = 255
    <2>1. Byte(hi + 1) /\ Byte(0) /\ c + 1 = (hi + 1) * 256 + 0
      BY <1>1, <1>4, SMT DEF Byte, Word
    <2>2. htons(c + 1) = 0 * 256 + (hi + 1)
      BY <2>1, OfBytes DEF htons
    <2> QED
      BY <1>1, <1>2, <1>4, <2>2, SMT DEF Byte
  <1> QED
    BY <1>1, <1>3, <1>4, SMT DEF Byte

(* The words of a header have 16 bits; the first one of IPv4 is not 0.      *)
LEMMA WordTypes ==
  ASSUME NEW h \in Ipv4
  PROVE  /\ Word(FirstWord(h)) /\ Word(TtlWord(h)) /\ Word(h.total_length)
         /\ Word(h.rest) /\ Word(h.checksum)
         /\ h.version = 4 => FirstWord(h) > 0
  <1>1. /\ h.version \in Int /\ 0 <= h.version /\ h.version <= 15
        /\ h.ihl \in Int /\ 0 <= h.ihl /\ h.ihl <= 15
    BY SMT DEF Ipv4
  <1>2. Byte(h.tos) /\ Byte(h.ttl) /\ Byte(h.proto)
    BY SMT DEF Ipv4, U8, Byte
  <1>3. h.total_length \in U16 /\ h.rest \in U16 /\ h.checksum \in U16
    BY SMT DEF Ipv4
  <1>4. Word(h.total_length) /\ Word(h.rest) /\ Word(h.checksum)
    BY <1>3, WordOf
  <1>5. Word(TtlWord(h))
    BY <1>2, SMT DEF TtlWord, Word, Byte
  <1>6. Word(FirstWord(h)) /\ (h.version = 4 => FirstWord(h) > 0)
    BY <1>1, <1>2, SMT DEF FirstWord, Word, Byte
  <1> QED
    BY <1>4, <1>5, <1>6

(* All words but the checksum, added up as numbers.                         *)
Plain(h) == FirstWord(h) + h.total_length + TtlWord(h) + h.rest

(* The sum of the loop differs from the plain one by a multiple of 65535,   *)
(* and an IPv4 header never adds up to 0.                                   *)
LEMMA AddedMod ==
  ASSUME NEW h \in Ipv4
  PROVE  /\ Word(Added(h)) /\ Plain(h) \in Int
         /\ \E k \in 0 .. 3 : Plain(h) = Added(h) + 65535 * k
         /\ h.version = 4 => Added(h) > 0
  <1> DEFINE f == FirstWord(h)  t == TtlWord(h)  n == h.total_length
             r == h.rest
             a == AddCarry(f, n)  b == AddCarry(a, t)  c == AddCarry(b, r)
  <1>0. Word(f) /\ Word(t) /\ Word(n) /\ Word(r) /\ (h.version = 4 => f > 0)
    BY WordTypes
  <1>1. c = Added(h) /\ Plain(h) = f + n + t + r
    BY DEF Added, Plain
  <1> HIDE DEF f, t, n, r
  <1>2. Word(a) /\ (a = f + n \/ a = f + n - 65535) /\ (a = 0 => f = 0)
    BY <1>0, AddCarryMod
  <1> HIDE DEF a
  <1>3. Word(b) /\ (b = a + t \/ b = a + t - 65535) /\ (b = 0 => a = 0)
    BY <1>0, <1>2, AddCarryMod
  <1> HIDE DEF b
  <1>4. Word(c) /\ (c = b + r \/ c = b + r - 65535) /\ (c = 0 => b = 0)
    BY <1>0, <1>3, AddCarryMod
  <1> HIDE DEF c
  <1>5. \E k \in 0 .. 3 : f + n + t + r = c + 65535 * k
    <2>1. \/ f + n + t + r = c + 65535 * 0 \/ f + n + t + r = c + 65535 * 1
          \/ f + n + t + r = c + 65535 * 2 \/ f + n + t + r = c + 65535 * 3
      BY <1>0, <1>2, <1>3, <1>4, SMT DEF Word
    <2> QED
      BY <2>1, SMT
  <1>6. h.version = 4 => c > 0
    BY <1>0, <1>2, <1>3, <1>4, SMT DEF Word
  <1>7. f + n + t + r \in Int
    BY <1>0, SMT DEF Word
  <1> QED
    BY <1>1, <1>4, <1>5, <1>6, <1>7

(* What the comparison in IPv4HdrVerification says: the checksum on the     *)
(* wire is the complement of the sum.                                       *)
LEMMA Compared ==
  ASSUME NEW h \in Ipv4
  PROVE  IPv4HdrChecksum(h) = h.checksum <=> htons(h.checksum) = 65535 - Added(h)
  <1>1. Word(Added(h)) /\ Word(h.checksum)
    BY AddedMod, WordTypes
  <1>2. Word(65535 - Added(h))
    BY <1>1, SMT DEF Word
  <1>3. IPv4HdrChecksum(h) = htons(65535 - Added(h))
    BY DEF IPv4HdrChecksum, Added
  <1>4. htons(htons(h.checksum)) = h.checksum
    BY <1>1, HtonsTwice
  <1>5. htons(htons(65535 - Added(h))) = 65535 - Added(h)
    BY <1>2, HtonsTwice
  <1> QED
    BY <1>3, <1>4, <1>5

(* A header that passed the verification and went through ttl-- and         *)
(* checksum++ is right: the two changes cancel out modulo 65535.            *)
LEMMA StepKeepsRfc ==
  ASSUME NEW h \in Ipv4, NEW n, IPv4HdrVerification(h, n)
  PROVE  TtlStep(h) \in Ipv4 /\ Rfc1071(TtlStep(h))
  <1> DEFINE g == TtlStep(h)  c == h.checksum  net == htons(c)
  <1>1. /\ h.version = 4 /\ h.ttl > 1 /\ net = 65535 - Added(h)
    BY Compared DEF IPv4HdrVerification
  <1>2. /\ Word(c) /\ Word(Added(h)) /\ Added(h) > 0 /\ Byte(h.ttl)
        /\ Byte(h.proto)
    BY <1>1, WordTypes, AddedMod DEF Ipv4, U8, Byte
  <1>3. c # 65535
    <2>1. htons(65535) = 65535
      BY SMT DEF htons
    <2> QED
      BY <1>1, <1>2, <2>1, SMT DEF Word
  <1>4. /\ (c + 1) % 65536 = c + 1 /\ Word(c + 1)
        /\ htons(c + 1) = net + 256 \/ htons(c + 1) = net + 256 - 65535
    BY <1>2, <1>3, Incremented
  <1>5. (h.ttl - 1) % 256 = h.ttl - 1 /\ Byte(h.ttl - 1)
    BY <1>1, <1>2, SMT DEF Byte
  <1> DEFINE t == (h.ttl - 1) % 256  d == (c + 1) % 65536
  <1>6. g = [h EXCEPT !.ttl = t, !.checksum = d]
    BY DEF TtlStep
  <1>7. t \in U8 /\ d \in U16 /\ t = h.ttl - 1 /\ d = c + 1
    <2>1. h.ttl - 1 \in U8
      BY <1>5, OfByte
    <2>2. c + 1 \in U16
      BY <1>4, OfWord
    <2> QED
      BY <1>4, <1>5, <2>1, <2>2
  <1> HIDE DEF t, d, c, net
  <1>8. /\ g \in Ipv4
        /\ g.checksum = d /\ g.ttl = t /\ g.proto = h.proto
        /\ g.total_length = h.total_length /\ g.rest = h.rest
        /\ g.version = h.version /\ g.ihl = h.ihl /\ g.tos = h.tos
    BY Zenon, <1>6, <1>7 DEF Ipv4
  <1>9. Word(FirstWord(h)) /\ Word(h.total_length) /\ Word(h.rest)
    BY WordTypes
  <1>10. Plain(g) = Plain(h) - 256
    <2> HIDE DEF g
    <2>1. FirstWord(g) = FirstWord(h) /\ TtlWord(g) = (h.ttl - 1) * 256 + h.proto
      BY <1>7, <1>8 DEF FirstWord, TtlWord
    <2>2. TtlWord(g) = TtlWord(h) - 256 /\ TtlWord(h) \in Int
      BY <1>2, <2>1, SMT DEF TtlWord, Byte
    <2> DEFINE f == FirstWord(h)  w == TtlWord(h)  m == h.total_length  r == h.rest
    <2>3. Plain(g) = f + m + (w - 256) + r /\ Plain(h) = f + m + w + r
      BY <1>8, <2>1, <2>2 DEF Plain
    <2> HIDE DEF f, w, m, r
    <2>4. f \in Int /\ m \in Int /\ w \in Int /\ r \in Int
      BY <1>9, <2>2 DEF f, m, w, r, Word
    <2> QED
      BY <2>3, <2>4, SMT
  <1>11. PICK k \in 0 .. 3 : Plain(h) = Added(h) + 65535 * k
    BY AddedMod
  <1>12. (Plain(g) + htons(c + 1)) % 65535 = 0
    <2>1. Plain(g) + htons(c + 1) = 65535 * (k + 1)
            \/ Plain(g) + htons(c + 1) = 65535 * k
      BY <1>1, <1>2, <1>4, <1>10, <1>11, SMT DEF Word
    <2> QED
      BY <2>1, SMT
  <1> QED
    BY <1>7, <1>8, <1>12 DEF Rfc1071, Plain

(* A right header with a sum that is not 0 passes the comparison, unless    *)
(* its checksum is 0xffff.                                                  *)
LEMMA RightIsAccepted ==
  ASSUME NEW h \in Ipv4, h.version = 4, Rfc1071(h), h.checksum # 65535
  PROVE  IPv4HdrChecksum(h) = h.checksum
  <1> DEFINE c == htons(h.checksum)  s == Added(h)
  <1>1. Word(c) /\ Word(s) /\ s > 0 /\ c # 65535
    <2>1. htons(65535) = 65535
      BY SMT DEF htons
    <2> QED
      BY <2>1, WordTypes, AddedMod, HtonsTwice
  <1>2. PICK k \in 0 .. 3 : Plain(h) = s + 65535 * k
    BY AddedMod
  <1>3. (s + 65535 * k + c) % 65535 = 0
    BY <1>2 DEF Rfc1071, Plain
  <1> HIDE DEF c, s
  <1>4. c = 65535 - s
    BY <1>1, <1>3, SMT DEF Word
  <1> QED
    BY <1>4, Compared DEF c, s

(* What the next router may count on.                                       *)
Checked ==
  /\ hdr.version = 4 /\ hdr.ihl >= 5
  /\ hdr.total_length >= hdr.ihl * 4
  /\ len >= 20
  /\ Rfc1071(hdr)

IInv == TypeOK /\ (forwarded => Checked) /\ RefusedOnlyFor

(* A forwarded packet still passes the checks that do not look at its TTL.  *)
LEMMA ForwardInductive ==
  ASSUME IInv, Forward
  PROVE  IInv'
  <1>1. hdr \in Ipv4 /\ len \in U16 /\ ~dropped /\ dropped' = dropped
        /\ forwarded' = TRUE /\ hdr' = TtlStep(hdr)
    BY DEF Forward, IInv, TypeOK
  <1>2. hdr' \in Ipv4 /\ Rfc1071(hdr')
    BY <1>1, StepKeepsRfc DEF Forward
  <1>3. /\ hdr'.version = hdr.version /\ hdr'.ihl = hdr.ihl
        /\ hdr'.total_length = hdr.total_length
    BY <1>1 DEF TtlStep, Ipv4
  <1>4. /\ hdr.version = 4 /\ hdr.ihl >= 5
        /\ hdr.total_length >= hdr.ihl * 4
    BY DEF Forward, IPv4HdrVerification
  <1>5. len' \in U16 /\ len' >= 20
    <2>1. len' = 60 \/ len' = len
      BY DEF Forward
    <2>2. Word(60) /\ 60 >= 20
      BY SMT DEF Word
    <2>3. len >= 20
      BY DEF Forward, IPv4HdrVerification
    <2> QED
      BY <1>1, <2>1, <2>2, <2>3, OfWord
  <1> QED
    BY <1>1, <1>2, <1>3, <1>4, <1>5
    DEF IInv, TypeOK, Checked, Rfc1071, RefusedOnlyFor, FirstWord, TtlWord

(* A packet some router let through is refused for one of two reasons.      *)
LEMMA DiscardInductive ==
  ASSUME IInv, Discard
  PROVE  IInv'
  <1>1. hdr \in Ipv4 /\ hdr' = hdr /\ len' = len /\ forwarded' = forwarded
        /\ dropped' = TRUE
    BY DEF Discard, IInv, TypeOK
  <1>2. ASSUME forwarded, hdr.checksum # uint16_t_max
        PROVE  ~(hdr.ttl > 1)
    <2>1. IPv4HdrChecksum(hdr) = hdr.checksum
      BY <1>1, <1>2, RightIsAccepted DEF IInv, Checked, uint16_t_max
    <2> QED
      BY <1>2, <2>1 DEF Discard, IInv, Checked, IPv4HdrVerification
  <1>3. ~(hdr.ttl > 1) => hdr.ttl <= 1
    BY <1>1, SMT DEF Ipv4, U8
  <1>4. RefusedOnlyFor'
    BY <1>1, <1>2, <1>3 DEF RefusedOnlyFor
  <1> QED
    BY <1>1, <1>4 DEF IInv, TypeOK, Checked, Rfc1071, FirstWord, TtlWord

(* Both steps keep the invariant, which holds for every packet at first.    *)
LEMMA IInvHolds == Spec => []IInv
  <1>1. Init => IInv
    <2> SUFFICES ASSUME Init PROVE IInv
      OBVIOUS
    <2>1. hdr \in Ipv4 /\ len \in U16
      BY HeadersAssumption DEF HeadersAssumption, Init
    <2>2. forwarded = FALSE /\ dropped = FALSE
      BY DEF Init
    <2> QED
      BY Zenon, <2>1, <2>2 DEF IInv, TypeOK, RefusedOnlyFor
  <1>2. IInv /\ [Next]_vars => IInv'
    <2>1. ASSUME IInv, UNCHANGED vars
          PROVE  IInv'
      BY <2>1 DEF vars, IInv, TypeOK, Checked, Rfc1071, RefusedOnlyFor,
                  FirstWord, TtlWord
    <2> QED
      BY <2>1, ForwardInductive, DiscardInductive DEF Next
  <1> QED
    BY <1>1, <1>2, PTL DEF Spec

(* Whatever header arrives and however many routers handle it, what they    *)
(* forward satisfies RFC 1071: worker.cpp:98-99 is a correct incremental    *)
(* update, although it works on the field in host byte order.               *)
THEOREM ChecksumAlwaysCorrect == Spec => []ChecksumCorrect
  <1>1. IInv => ChecksumCorrect
    BY DEF IInv, Checked, ChecksumCorrect
  <1> QED
    BY <1>1, IInvHolds, PTL

(* The verification of worker.cpp:5-41 refuses a forwarded header only when *)
(* the TTL is used up or the checksum reads 0xffff.                         *)
THEOREM ForwardedIsRefusedOnlyFor == Spec => []RefusedOnlyFor
  <1>1. IInv => RefusedOnlyFor
    BY DEF IInv
  <1> QED
    BY <1>1, IInvHolds, PTL
=============================================================================
