------------------------- MODULE BlockLayoutProofs -------------------------
(***************************************************************************)
(* The properties of BlockLayout for any widths, limits, sizes, alignments *)
(* and addresses that satisfy its assumptions.                             *)
(***************************************************************************)
EXTENDS BlockLayout, TLAPS

(* Where the caller's bytes are, in a plain block, in a guarded one and    *)
(* behind a shim.                                                          *)
Plain ==
    /\ asked.alignment = kDefaultAlignment /\ ~config.enableGuardBytes
    /\ user = raw.address /\ raw.asked = asked.size
Fenced ==
    /\ Guarded
    /\ user = raw.address + kFrontGuardSize
    /\ raw.asked = asked.size + kFrontGuardSize + kRearGuardSize
Shimmed ==
    /\ asked.alignment \in Nat /\ asked.alignment > kDefaultAlignment
    /\ user \in raw.address + kHeaderSize .. raw.address + asked.alignment
    /\ user % asked.alignment = 0
    /\ raw.asked = asked.size + asked.alignment

Placed ==
    /\ raw.address \in Addresses
    /\ raw.bytes \in Nat /\ raw.asked \in Nat /\ raw.asked <= raw.bytes
    /\ asked.size \in Nat /\ wanted \in Nat /\ wanted <= asked.size
    /\ Plain \/ Fenced \/ Shimmed

userTier == IF Plain THEN "Raw" ELSE IF Fenced THEN "DebugShim" ELSE "AlignedShim"

(* Both headers are as the allocation wrote them.                          *)
Intact ==
    /\ user \in DOMAIN headers /\ raw.address \in DOMAIN headers
    /\ headers[user].payloadSize = asked.size
    /\ headers[user].offset = user - raw.address
    /\ headers[user].tier = userTier /\ headers[user].state = "allocated"
    /\ headers[raw.address].payloadSize = raw.asked
    /\ headers[raw.address].tier = "Raw"

(* What an overrun has left: of the guards what was not changed, and the   *)
(* headers unless it hit the shim.                                         *)
Marks ==
    /\ damaged = {} \/ (Fenced /\ \E b \in Guards \cup HeaderBytes(user) : damaged = {b})
    /\ damaged \cap HeaderBytes(user) = {} => Intact
    /\ Fenced => Guards \cap pattern = Guards \ damaged

IInv ==
    /\ config \in [enableGuardBytes : BOOLEAN, enablePoisoning : BOOLEAN]
    /\ pc \in {"idle", "held", "freed"}
    /\ pc = "held" => Placed /\ Marks
    /\ GuardsExact

-----------------------------------------------------------------------------
(* Arithmetic                                                              *)

(* A sum below the modulus does not wrap around.                           *)
LEMMA NoWrap == ASSUME NEW m \in Nat, NEW x \in Nat, x < m PROVE x % m = x
OBVIOUS

(* A power of two beyond the default alignment is a multiple of it.        *)
LEMMA PowerMultiple ==
    ASSUME NEW n \in Nat, isPowerOfTwo(n), n > kDefaultAlignment
    PROVE  n % kDefaultAlignment = 0
<1> USE DEF kDefaultAlignment
<1>1. PICK k \in 0 .. 30 : n = 2^k
  BY Zenon DEF isPowerOfTwo
<1>2. 2^0 <= 16 /\ 2^1 <= 16 /\ 2^2 <= 16 /\ 2^3 <= 16 /\ 2^4 <= 16
  OBVIOUS
<1>3. \A j \in {0, 1, 2, 3, 4} : 2^j <= 16
  BY Zenon, <1>2
<1>4. /\ (2^5) % 16 = 0 /\ (2^6) % 16 = 0 /\ (2^7) % 16 = 0 /\ (2^8) % 16 = 0 /\ (2^9) % 16 = 0 /\ (2^10) % 16 = 0
      /\ (2^11) % 16 = 0 /\ (2^12) % 16 = 0 /\ (2^13) % 16 = 0 /\ (2^14) % 16 = 0 /\ (2^15) % 16 = 0
      /\ (2^16) % 16 = 0 /\ (2^17) % 16 = 0 /\ (2^18) % 16 = 0 /\ (2^19) % 16 = 0 /\ (2^20) % 16 = 0
      /\ (2^21) % 16 = 0 /\ (2^22) % 16 = 0 /\ (2^23) % 16 = 0 /\ (2^24) % 16 = 0 /\ (2^25) % 16 = 0
      /\ (2^26) % 16 = 0 /\ (2^27) % 16 = 0 /\ (2^28) % 16 = 0 /\ (2^29) % 16 = 0 /\ (2^30) % 16 = 0
  OBVIOUS
<1>5. \A j \in {5, 6, 7, 8, 9, 10, 11, 12, 13, 14, 15, 16, 17, 18, 19, 20,
                21, 22, 23, 24, 25, 26, 27, 28, 29, 30} : (2^j) % 16 = 0
  BY ZenonT(30), <1>4
<1>6. \/ k \in {0, 1, 2, 3, 4}
      \/ k \in {5, 6, 7, 8, 9, 10, 11, 12, 13, 14, 15, 16, 17, 18, 19, 20,
                21, 22, 23, 24, 25, 26, 27, 28, 29, 30}
  OBVIOUS
<1>7. n <= 16 \/ n % 16 = 0
  BY Zenon, <1>1, <1>3, <1>5, <1>6
<1>8. QED
  BY <1>7

(* alignUp is the least multiple that is no less.                          *)
LEMMA AlignUp ==
    ASSUME NEW x \in Nat, NEW a \in Nat \ {0}
    PROVE  /\ alignUp(x, a) \in Nat /\ x <= alignUp(x, a) /\ alignUp(x, a) < x + a
           /\ alignUp(x, a) % a = 0 /\ (alignUp(x, a) + a) % a = 0
<1> DEFINE q == (x + a - 1) \div a
<1>1. q \in Nat
  OBVIOUS
<1>2. alignUp(x, a) = q * a
  BY Zenon DEF alignUp
<1>3. x <= q * a /\ q * a < x + a
  OBVIOUS
<1> HIDE DEF q
<1>4. (q * a) % a = 0
  BY <1>1
<1>5. q * a + a = (q + 1) * a /\ q + 1 \in Nat
  BY <1>1
<1>6. ((q + 1) * a) % a = 0
  BY <1>5
<1>7. QED
  BY <1>1, <1>2, <1>3, <1>4, <1>5, <1>6

(* A multiple of a multiple of the default alignment is one of it.         *)
LEMMA Multiple ==
    ASSUME NEW a \in Nat \ {0}, a % kDefaultAlignment = 0, NEW x \in Nat, x % a = 0
    PROVE  x % kDefaultAlignment = 0
<1> USE DEF kDefaultAlignment
<1>1. PICK m \in Nat : a = 16 * m
  <2>1. a \div 16 \in Nat /\ a = 16 * (a \div 16)
    OBVIOUS
  <2>2. QED
    BY <2>1
<1>2. PICK q \in Nat : x = q * a
  <2>1. x \div a \in Nat /\ x = (x \div a) * a
    OBVIOUS
  <2>2. QED
    BY SMTT(30), <2>1
<1>3. x = 16 * (q * m) /\ q * m \in Nat
  BY <1>1, <1>2
<1>4. QED
  BY <1>3

(* The aligned address leaves room for the shim behind the raw header and  *)
(* is no further than the alignment.                                       *)
LEMMA AlignedAddress ==
    ASSUME NEW a \in Addresses, NEW n \in Nat, isPowerOfTwo(n), n > kDefaultAlignment
    PROVE  LET p == alignedAddress(a, n)
           IN  p \in a + kHeaderSize .. a + n /\ p % n = 0
<1> DEFINE p == alignedAddress(a, n)
<1>1. a \in Nat /\ a % kDefaultAlignment = 0 /\ n \in Nat \ {0}
  BY TierAssumption DEF kDefaultAlignment
<1> DEFINE up == alignUp(a, n)
<1>2. up \in Nat /\ a <= up /\ up < a + n /\ up % n = 0 /\ (up + n) % n = 0
  BY <1>1, AlignUp
<1>3. p = IF up = a THEN up + n ELSE up
  BY DEF alignedAddress
<1> HIDE DEF up, p
<1>4. p \in Nat /\ a < p /\ p <= a + n /\ p % n = 0
  BY <1>1, <1>2, <1>3
<1>5. p % kDefaultAlignment = 0
  BY <1>1, <1>4, PowerMultiple, Multiple
<1>6. a + kHeaderSize <= p
  BY <1>1, <1>4, <1>5 DEF kHeaderSize, kDefaultAlignment
<1>7. QED
  BY <1>1, <1>4, <1>6 DEF p, kHeaderSize

(* StlAllocator's check keeps the product from wrapping around.            *)
LEMMA ProductFits ==
    ASSUME NEW n \in Nat, NEW s \in Nat \ {0}, ~(n > (SizeModulus - 1) \div s)
    PROVE  n * s \in Nat /\ (n * s) % SizeModulus = n * s
<1>1. SizeModulus \in Nat /\ SizeModulus - 1 \in Nat
  BY WidthAssumption DEF kFrontGuardSize, kRearGuardSize
<1>2. (SizeModulus - 1) \div s \in Nat /\ n <= (SizeModulus - 1) \div s
  BY <1>1
<1>3. n * s \in Nat /\ n * s <= SizeModulus - 1
  BY <1>1, <1>2
<1>4. QED
  BY <1>1, <1>3, NoWrap

-----------------------------------------------------------------------------
(* Memory                                                                  *)

(* The headers of m that a store to these bytes leaves alone are in n.     *)
Keeps(m, n, bytes) ==
    \A q \in DOMAIN m.headers :
        HeaderBytes(q) \cap bytes = {} => q \in DOMAIN n.headers /\ n.headers[q] = m.headers[q]

(* What a store does to the pattern and to the headers.                    *)
LEMMA WriteEffect ==
    ASSUME NEW m, NEW bytes
    PROVE  /\ Write(m, bytes).pattern = m.pattern \ bytes
           /\ Keeps(m, Write(m, bytes), bytes)
           /\ DOMAIN Write(m, bytes).headers \subseteq DOMAIN m.headers
           /\ \A q \in DOMAIN Write(m, bytes).headers : HeaderBytes(q) \cap bytes = {}
BY DEF Write, Keeps

(* What the store of a guard does.                                         *)
LEMMA PatternEffect ==
    ASSUME NEW m, NEW bytes
    PROVE  /\ writePattern(m, bytes).pattern = (m.pattern \ bytes) \cup bytes
           /\ Keeps(m, writePattern(m, bytes), bytes)
BY DEF Write, Keeps, writePattern

(* n is m with this header in front of p.                                  *)
Stored(m, n, p, header) ==
    /\ n.pattern = m.pattern \ HeaderBytes(p)
    /\ Keeps(m, n, HeaderBytes(p))
    /\ p \in DOMAIN n.headers /\ n.headers[p] = header

(* What the store of a header does.                                        *)
LEMMA HeaderEffect ==
    ASSUME NEW m, NEW p \in Int, NEW header
    PROVE  Stored(m, writeHeader(m, p, header), p, header)
<1>1. HeaderBytes(p) # {}
  BY DEF HeaderBytes, Bytes, kHeaderSize
<1> DEFINE w == Write(m, HeaderBytes(p))
           hs == [q \in DOMAIN w.headers \cup {p} |-> IF q = p THEN header ELSE w.headers[q]]
<1>2. writeHeader(m, p, header) = [w EXCEPT !.headers = hs]
  BY Zenon DEF writeHeader
<1>3. w.pattern = m.pattern \ HeaderBytes(p) /\ Keeps(m, w, HeaderBytes(p))
  BY WriteEffect
<1>4. writeHeader(m, p, header).pattern = w.pattern /\ writeHeader(m, p, header).headers = hs
  <2>1. DOMAIN w = {"pattern", "headers"}
    BY DEF Write
  <2> HIDE DEF w, hs
  <2>2. QED
    BY <1>2, <2>1
<1> HIDE DEF w
<1>5. p \in DOMAIN hs /\ hs[p] = header
  OBVIOUS
<1>6. ASSUME NEW q \in DOMAIN m.headers, HeaderBytes(q) \cap HeaderBytes(p) = {}
      PROVE  q \in DOMAIN hs /\ hs[q] = m.headers[q]
  <2>1. q # p
    BY Zenon, <1>1, <1>6
  <2>2. q \in DOMAIN w.headers /\ w.headers[q] = m.headers[q]
    BY Zenon, <1>3, <1>6 DEF Keeps
  <2>3. QED
    BY <2>1, <2>2
<1> HIDE DEF hs
<1>7. QED
  BY Zenon, <1>3, <1>4, <1>5, <1>6 DEF Stored, Keeps

(* What poisoning does, whether it is configured or not.                   *)
LEMMA PoisonEffect ==
    ASSUME NEW m, NEW p, NEW size
    PROVE  /\ m.pattern \ Bytes(p, size) \subseteq poison(m, p, size).pattern
           /\ Keeps(m, poison(m, p, size), Bytes(p, size))
<1>1. CASE config.enablePoisoning
  BY <1>1, WriteEffect DEF poison
<1>2. CASE ~config.enablePoisoning
  BY <1>2 DEF poison, Keeps
<1>3. QED
  BY <1>1, <1>2

(* The parts of a block do not overlap.                                    *)
Apart ==
    /\ HeaderBytes(user) \cap Bytes(user, asked.size) = {}
    /\ HeaderBytes(raw.address) \cap Bytes(user, asked.size) = {}
    /\ ~Plain => HeaderBytes(raw.address) \cap HeaderBytes(user) = {}
    /\ Fenced =>
          /\ Bytes(user, asked.size) \cap Guards = {}
          /\ HeaderBytes(user) \cap FrontGuard(user) = {}
          /\ HeaderBytes(user) \cap RearGuard(user, asked.size) = {}
          /\ HeaderBytes(raw.address) \cap FrontGuard(user) = {}
          /\ HeaderBytes(raw.address) \cap RearGuard(user, asked.size) = {}

(* A placed block's parts do not overlap.                                  *)
LEMMA PlacedApart == Placed => Apart
<1> SUFFICES ASSUME Placed PROVE Apart
  OBVIOUS
<1>1. raw.address \in Nat /\ asked.size \in Nat
  BY TierAssumption DEF Placed
<1>2. user \in Nat /\ user >= raw.address
  BY <1>1 DEF Placed, Plain, Fenced, Shimmed, kHeaderSize, kFrontGuardSize, Guarded, kDefaultAlignment
<1>3. HeaderBytes(user) \cap Bytes(user, asked.size) = {}
  BY <1>1, <1>2 DEF HeaderBytes, Bytes, kHeaderSize
<1>4. HeaderBytes(raw.address) \cap Bytes(user, asked.size) = {}
  BY <1>1, <1>2 DEF HeaderBytes, Bytes, kHeaderSize
<1>5. ~Plain => HeaderBytes(raw.address) \cap HeaderBytes(user) = {}
  <2>1. ~Plain => user >= raw.address + kHeaderSize
    BY <1>1, <1>2 DEF Placed, Fenced, Shimmed, kHeaderSize, kFrontGuardSize
  <2>2. QED
    BY <1>1, <1>2, <2>1 DEF HeaderBytes, Bytes, kHeaderSize
<1>6. ASSUME Fenced
      PROVE  /\ Bytes(user, asked.size) \cap FrontGuard(user) = {}
             /\ Bytes(user, asked.size) \cap RearGuard(user, asked.size) = {}
             /\ HeaderBytes(user) \cap FrontGuard(user) = {}
             /\ HeaderBytes(user) \cap RearGuard(user, asked.size) = {}
             /\ HeaderBytes(raw.address) \cap FrontGuard(user) = {}
             /\ HeaderBytes(raw.address) \cap RearGuard(user, asked.size) = {}
  <2>1. user = raw.address + kFrontGuardSize
    BY <1>6 DEF Fenced
  <2> USE DEF HeaderBytes, Bytes, FrontGuard, RearGuard, kHeaderSize, kFrontGuardSize, kRearGuardSize
  <2>2. Bytes(user, asked.size) \cap FrontGuard(user) = {} /\ Bytes(user, asked.size) \cap RearGuard(user, asked.size) = {}
    BY <1>1, <1>2
  <2>3. HeaderBytes(user) \cap FrontGuard(user) = {} /\ HeaderBytes(user) \cap RearGuard(user, asked.size) = {}
    BY <1>1, <1>2
  <2>4. HeaderBytes(raw.address) \cap FrontGuard(user) = {} /\ HeaderBytes(raw.address) \cap RearGuard(user, asked.size) = {}
    BY <1>1, <1>2, <2>1
  <2>5. QED
    BY <2>2, <2>3, <2>4
<1>7. QED
  BY Zenon, <1>3, <1>4, <1>5, <1>6 DEF Apart, Guards

-----------------------------------------------------------------------------
(* Allocation                                                              *)

(* The raw header is written first.                                        *)
LEMMA RawHeader ==
    ASSUME NEW n \in Nat, NEW r \in rawAllocate(n)
    PROVE  /\ r.address \in Addresses /\ r.address \in Nat
           /\ r.bytes \in Nat /\ r.asked = n /\ n <= r.bytes
           /\ r.address \in DOMAIN withRawHeader(r).headers
           /\ withRawHeader(r).headers[r.address] = [payloadSize |-> n, tier |-> "Raw", state |-> "allocated", offset |-> 0]
<1>1. PICK a \in Addresses, s \in Slack : r = [address |-> a, bytes |-> n + s, asked |-> n]
  BY DEF rawAllocate
<1>2. r.address = a /\ r.bytes = n + s /\ r.asked = n /\ a \in Nat /\ s \in Nat
  BY <1>1, TierAssumption
<1>3. r.address \in Int /\ r.bytes \in Nat /\ n <= r.bytes
  BY <1>2
<1>4. /\ r.address \in DOMAIN withRawHeader(r).headers
      /\ withRawHeader(r).headers[r.address] = [payloadSize |-> r.asked, tier |-> "Raw", state |-> "allocated", offset |-> 0]
  <2> DEFINE rawHeader == [payloadSize |-> r.asked, tier |-> "Raw", state |-> "allocated", offset |-> 0]
  <2>1. withRawHeader(r) = writeHeader(memory, r.address, rawHeader)
    BY Zenon DEF withRawHeader
  <2> HIDE DEF rawHeader
  <2>2. Stored(memory, withRawHeader(r), r.address, rawHeader)
    BY Zenon, <1>3, <2>1, HeaderEffect
  <2>3. QED
    BY Zenon, <2>2 DEF Stored, rawHeader
<1>5. QED
  BY Zenon, <1>2, <1>3, <1>4

(* A block the allocation has placed and marked satisfies the invariant.   *)
LEMMA HeldInv ==
    ASSUME IInv, UNCHANGED config, pc' = "held", Placed', Marks'
    PROVE  IInv'
BY Zenon DEF IInv, GuardsExact

(* allocate without guards.                                                *)
LEMMA PlainInv ==
    ASSUME IInv, UNCHANGED config, ~config.enableGuardBytes,
           NEW size \in Nat, wanted' \in Nat, wanted' <= size,
           NEW r \in rawAllocate(size),
           Allocates(kDefaultAlignment, size, r, r.address, withRawHeader(r))
    PROVE  IInv'
<1> DEFINE m == withRawHeader(r)
           n == poison(m, r.address, size)
<1>1. /\ raw' = r /\ user' = r.address /\ asked' = [alignment |-> kDefaultAlignment, size |-> size]
      /\ pattern' = n.pattern /\ headers' = n.headers /\ damaged' = {} /\ pc' = "held"
  BY Zenon DEF Allocates, Becomes
<1>2. /\ r.address \in Addresses /\ r.address \in Nat
      /\ r.bytes \in Nat /\ r.asked = size /\ size <= r.bytes
      /\ r.address \in DOMAIN m.headers
      /\ m.headers[r.address] = [payloadSize |-> size, tier |-> "Raw", state |-> "allocated", offset |-> 0]
  BY Zenon, RawHeader
<1>3. Keeps(m, n, Bytes(r.address, size))
  BY Zenon, PoisonEffect
<1> HIDE DEF m, n
<1>4. asked'.alignment = kDefaultAlignment /\ asked'.size = size
  BY <1>1
<1>5. Plain'
  BY Zenon, <1>1, <1>2, <1>4 DEF Plain
<1>6. Placed'
  BY Zenon, <1>1, <1>2, <1>4, <1>5 DEF Placed
<1>7. Apart'
  BY <1>6, PlacedApart, PTL
<1>8. user' \in DOMAIN headers' /\ headers'[user'] = [payloadSize |-> size, tier |-> "Raw", state |-> "allocated", offset |-> 0]
  <2>1. HeaderBytes(r.address) \cap Bytes(r.address, size) = {}
    BY Zenon, <1>7, <1>1, <1>4 DEF Apart
  <2>2. QED
    BY Zenon, <1>1, <1>2, <1>3, <2>1 DEF Keeps
<1>9. Intact'
  <2>1. userTier' = "Raw"
    BY Zenon, <1>5 DEF userTier
  <2>2. /\ headers'[user'].payloadSize = size /\ headers'[user'].tier = "Raw" /\ headers'[user'].state = "allocated"
        /\ headers'[user'].offset = user' - raw'.address
    BY <1>1, <1>2, <1>8
  <2>3. QED
    BY Zenon, <1>1, <1>2, <1>4, <1>8, <2>1, <2>2 DEF Intact
<1>10. ~Fenced'
  BY Zenon, <1>5 DEF Plain, Fenced, Guarded
<1>11. Marks'
  BY <1>1, <1>9, <1>10 DEF Marks
<1>12. QED
  BY Zenon, <1>1, <1>6, <1>11, HeldInv

(* allocate with guards.                                                   *)
LEMMA FencedInv ==
    ASSUME IInv, UNCHANGED config, config.enableGuardBytes,
           NEW size \in Nat, wanted' \in Nat, wanted' <= size,
           NEW r \in rawAllocate(size + kFrontGuardSize + kRearGuardSize),
           Allocates(kDefaultAlignment, size, r, r.address + kFrontGuardSize,
                     applyGuards(withRawHeader(r), r.address + kFrontGuardSize, size))
    PROVE  IInv'
<1> DEFINE at == r.address + kFrontGuardSize
           shim == [payloadSize |-> size, tier |-> "DebugShim", state |-> "allocated", offset |-> kFrontGuardSize]
           rawHeader == [payloadSize |-> size + kFrontGuardSize + kRearGuardSize, tier |-> "Raw",
                         state |-> "allocated", offset |-> 0]
           m0 == withRawHeader(r)
           m1 == writePattern(m0, FrontGuard(at))
           m2 == writePattern(m1, RearGuard(at, size))
           m3 == writeHeader(m2, at, shim)
           n == poison(m3, at, size)
<1>1. /\ raw' = r /\ user' = at /\ asked' = [alignment |-> kDefaultAlignment, size |-> size]
      /\ pattern' = n.pattern /\ headers' = n.headers /\ damaged' = {} /\ pc' = "held"
  BY Zenon DEF Allocates, Becomes, applyGuards
<1>2. size + kFrontGuardSize + kRearGuardSize \in Nat
  BY DEF kFrontGuardSize, kRearGuardSize
<1>3. /\ r.address \in Addresses /\ r.address \in Nat
      /\ r.bytes \in Nat /\ r.asked = size + kFrontGuardSize + kRearGuardSize /\ r.asked <= r.bytes
      /\ r.address \in DOMAIN m0.headers /\ m0.headers[r.address] = rawHeader
  BY <1>2, RawHeader
<1>4. at \in Int /\ r.asked \in Nat
  BY <1>2, <1>3 DEF kFrontGuardSize
<1>5. m1.pattern = (m0.pattern \ FrontGuard(at)) \cup FrontGuard(at) /\ Keeps(m0, m1, FrontGuard(at))
  BY PatternEffect
<1>6. m2.pattern = (m1.pattern \ RearGuard(at, size)) \cup RearGuard(at, size) /\ Keeps(m1, m2, RearGuard(at, size))
  BY PatternEffect
<1>7. /\ m3.pattern = m2.pattern \ HeaderBytes(at) /\ Keeps(m2, m3, HeaderBytes(at))
      /\ at \in DOMAIN m3.headers /\ m3.headers[at] = shim
  <2>1. at \in Int
    BY <1>4
  <2>2. m3 = writeHeader(m2, at, shim)
    OBVIOUS
  <2> HIDE DEF at, shim, rawHeader, m0, m1, m2, m3, n
  <2>3. Stored(m2, m3, at, shim)
    BY ZenonT(30), <2>1, <2>2, HeaderEffect
  <2>4. QED
    BY Zenon, <2>3 DEF Stored
<1>8. m3.pattern \ Bytes(at, size) \subseteq n.pattern /\ Keeps(m3, n, Bytes(at, size))
  BY Zenon, PoisonEffect
<1> HIDE DEF m0, m1, m2, m3, n
<1>9. asked'.alignment = kDefaultAlignment /\ asked'.size = size
  BY <1>1
<1>10. Guarded' /\ Fenced'
  BY Zenon, <1>1, <1>3, <1>9 DEF Guarded, Fenced
<1>11. Placed'
  BY Zenon, <1>1, <1>3, <1>4, <1>9, <1>10 DEF Placed
<1>12. Apart' /\ ~Plain'
  <2>1. Apart'
    BY <1>11, PlacedApart, PTL
  <2>2. ~Plain'
    BY Zenon, <1>10 DEF Plain, Fenced, Guarded
  <2>3. QED
    BY <2>1, <2>2
<1>13. /\ HeaderBytes(at) \cap Bytes(at, size) = {} /\ HeaderBytes(r.address) \cap Bytes(at, size) = {}
       /\ HeaderBytes(r.address) \cap HeaderBytes(at) = {}
       /\ HeaderBytes(r.address) \cap FrontGuard(at) = {} /\ HeaderBytes(r.address) \cap RearGuard(at, size) = {}
  <2> HIDE DEF at
  <2>1. QED
    BY Zenon, <1>1, <1>9, <1>10, <1>12 DEF Apart
<1>14. /\ Bytes(at, size) \cap (FrontGuard(at) \cup RearGuard(at, size)) = {}
       /\ HeaderBytes(at) \cap FrontGuard(at) = {} /\ HeaderBytes(at) \cap RearGuard(at, size) = {}
  <2> HIDE DEF at
  <2>1. QED
    BY Zenon, <1>1, <1>9, <1>10, <1>12 DEF Apart, Guards
<1> HIDE DEF at, shim, rawHeader
<1>15. r.address \in DOMAIN m2.headers /\ m2.headers[r.address] = rawHeader
  <2>1. r.address \in DOMAIN m1.headers /\ m1.headers[r.address] = rawHeader
    BY Zenon, <1>3, <1>5, <1>13 DEF Keeps
  <2>2. QED
    BY Zenon, <1>6, <1>13, <2>1 DEF Keeps
<1>16. r.address \in DOMAIN n.headers /\ n.headers[r.address] = rawHeader
  <2>1. r.address \in DOMAIN m3.headers /\ m3.headers[r.address] = rawHeader
    BY Zenon, <1>7, <1>13, <1>15 DEF Keeps
  <2>2. QED
    BY Zenon, <1>8, <1>13, <2>1 DEF Keeps
<1>17. at \in DOMAIN n.headers /\ n.headers[at] = shim
  BY Zenon, <1>7, <1>8, <1>13 DEF Keeps
<1>18. Intact'
  <2>1. userTier' = "DebugShim"
    BY Zenon, <1>10, <1>12 DEF userTier
  <2>2. /\ headers'[user'].payloadSize = size /\ headers'[user'].tier = "DebugShim"
        /\ headers'[user'].state = "allocated" /\ headers'[user'].offset = kFrontGuardSize
    BY SMTT(30), <1>1, <1>17 DEF shim
  <2>3. headers'[raw'.address].payloadSize = raw'.asked /\ headers'[raw'.address].tier = "Raw"
    BY SMTT(30), <1>1, <1>3, <1>16 DEF rawHeader
  <2>4. user' - raw'.address = kFrontGuardSize
    BY SMTT(30), <1>1, <1>3 DEF at, kFrontGuardSize
  <2>5. QED
    BY Zenon, <1>1, <1>9, <1>16, <1>17, <2>1, <2>2, <2>3, <2>4 DEF Intact
<1>19. Guards' \subseteq pattern'
  <2>1. Guards' = FrontGuard(at) \cup RearGuard(at, size)
    BY Zenon, <1>1, <1>9 DEF Guards
  <2>2. FrontGuard(at) \cup RearGuard(at, size) \subseteq m2.pattern
    BY SMTT(30), <1>5, <1>6
  <2>3. QED
    BY <1>1, <1>7, <1>8, <1>14, <2>1, <2>2
<1>20. Marks'
  BY <1>1, <1>10, <1>18, <1>19 DEF Marks
<1>21. QED
  BY Zenon, <1>1, <1>11, <1>20, HeldInv

(* alignedAllocate beyond the default alignment.                           *)
LEMMA ShimmedInv ==
    ASSUME IInv, UNCHANGED config,
           NEW size \in Nat, wanted' \in Nat, wanted' <= size,
           NEW alignment \in Nat, alignment > kDefaultAlignment,
           NEW r \in rawAllocate(size + alignment),
           NEW p \in r.address + kHeaderSize .. r.address + alignment, p % alignment = 0,
           Allocates(alignment, size, r, p,
                     writeHeader(withRawHeader(r), p, [payloadSize |-> size, tier |-> "AlignedShim",
                                                       state |-> "allocated", offset |-> p - r.address]))
    PROVE  IInv'
<1> DEFINE shim == [payloadSize |-> size, tier |-> "AlignedShim", state |-> "allocated", offset |-> p - r.address]
           rawHeader == [payloadSize |-> size + alignment, tier |-> "Raw", state |-> "allocated", offset |-> 0]
           m0 == withRawHeader(r)
           m1 == writeHeader(m0, p, shim)
           n == poison(m1, p, size)
<1>1. /\ raw' = r /\ user' = p /\ asked' = [alignment |-> alignment, size |-> size]
      /\ pattern' = n.pattern /\ headers' = n.headers /\ damaged' = {} /\ pc' = "held"
  BY Zenon DEF Allocates, Becomes
<1>2. size + alignment \in Nat
  OBVIOUS
<1>3. /\ r.address \in Addresses /\ r.address \in Nat
      /\ r.bytes \in Nat /\ r.asked = size + alignment /\ r.asked <= r.bytes
      /\ r.address \in DOMAIN m0.headers /\ m0.headers[r.address] = rawHeader
  BY SMTT(30), <1>2, RawHeader
<1>4. p \in Int /\ r.asked \in Nat
  BY <1>2, <1>3 DEF kHeaderSize
<1>5. Keeps(m0, m1, HeaderBytes(p)) /\ p \in DOMAIN m1.headers /\ m1.headers[p] = shim
  <2>1. m1 = writeHeader(m0, p, shim)
    OBVIOUS
  <2> HIDE DEF shim, m0, m1
  <2>2. Stored(m0, m1, p, shim)
    BY Zenon, <1>4, <2>1, HeaderEffect
  <2>3. QED
    BY Zenon, <2>2 DEF Stored
<1>6. Keeps(m1, n, Bytes(p, size))
  BY PoisonEffect
<1> HIDE DEF m0, m1, n
<1>7. asked'.alignment = alignment /\ asked'.size = size
  BY <1>1
<1>8. Shimmed'
  BY Zenon, <1>1, <1>3, <1>7 DEF Shimmed
<1>9. Placed'
  BY Zenon, <1>1, <1>3, <1>4, <1>7, <1>8 DEF Placed
<1>10. ~Plain' /\ ~Fenced'
  BY <1>8 DEF Shimmed, Plain, Fenced, Guarded, kDefaultAlignment
<1>11. Apart'
  BY <1>9, PlacedApart, PTL
<1>12. /\ HeaderBytes(p) \cap Bytes(p, size) = {} /\ HeaderBytes(r.address) \cap Bytes(p, size) = {}
       /\ HeaderBytes(r.address) \cap HeaderBytes(p) = {}
  BY Zenon, <1>1, <1>7, <1>10, <1>11 DEF Apart
<1> HIDE DEF shim, rawHeader
<1>13. r.address \in DOMAIN n.headers /\ n.headers[r.address] = rawHeader
  <2>1. r.address \in DOMAIN m1.headers /\ m1.headers[r.address] = rawHeader
    BY Zenon, <1>3, <1>5, <1>12 DEF Keeps
  <2>2. QED
    BY Zenon, <1>6, <1>12, <2>1 DEF Keeps
<1>14. p \in DOMAIN n.headers /\ n.headers[p] = shim
  BY Zenon, <1>5, <1>6, <1>12 DEF Keeps
<1>15. Intact'
  <2>1. userTier' = "AlignedShim"
    BY Zenon, <1>10 DEF userTier
  <2>2. /\ headers'[user'].payloadSize = size /\ headers'[user'].tier = "AlignedShim"
        /\ headers'[user'].state = "allocated" /\ headers'[user'].offset = user' - raw'.address
    BY SMTT(30), <1>1, <1>14 DEF shim
  <2>3. headers'[raw'.address].payloadSize = raw'.asked /\ headers'[raw'.address].tier = "Raw"
    BY SMTT(30), <1>1, <1>3, <1>13 DEF rawHeader
  <2>4. QED
    BY Zenon, <1>1, <1>7, <1>13, <1>14, <2>1, <2>2, <2>3 DEF Intact
<1>16. Marks'
  BY <1>1, <1>10, <1>15 DEF Marks
<1>17. QED
  BY Zenon, <1>1, <1>9, <1>16, HeldInv

(* A call that fails leaves nothing behind.                                *)
LEMMA FailsInv ==
    ASSUME IInv, UNCHANGED config, pc = "idle", NEW error, Fails(error)
    PROVE  IInv'
BY Zenon DEF IInv, Fails, GuardsExact

(* A request of no bytes is one of a byte.                                 *)
LEMMA AtLeastOne ==
    ASSUME NEW n \in Nat
    PROVE  atLeastOne(n) \in Nat /\ n <= atLeastOne(n)
BY DEF atLeastOne

(* AllocatorImpl::allocate.                                                *)
LEMMA AllocateInv ==
    ASSUME IInv, UNCHANGED config, NEW n \in Nat, allocate(n), wanted' = n
    PROVE  IInv'
<1> DEFINE size == atLeastOne(n)
<1>1. size \in Nat /\ wanted' \in Nat /\ wanted' <= size
  BY AtLeastOne
<1>2. pc = "idle"
  BY Zenon DEF allocate
<1>3. CASE size > kMaxRequest
  BY Zenon, <1>2, <1>3, FailsInv DEF allocate
<1>4. CASE ~(size > kMaxRequest) /\ Fails("OutOfMemory")
  BY Zenon, <1>2, <1>4, FailsInv
<1>5. CASE /\ ~(size > kMaxRequest) /\ config.enableGuardBytes
           /\ \E r \in rawAllocate(guardedSize(size)) :
                 Allocates(kDefaultAlignment, size, r, r.address + kFrontGuardSize,
                           applyGuards(withRawHeader(r), r.address + kFrontGuardSize, size))
  <2> HIDE DEF size
  <2>1. guardedSize(size) = size + kFrontGuardSize + kRearGuardSize
    <3>1. /\ SizeModulus \in Nat /\ size + kFrontGuardSize + kRearGuardSize \in Nat
          /\ size + kFrontGuardSize + kRearGuardSize < SizeModulus
      BY <1>1, <1>5, WidthAssumption DEF kFrontGuardSize, kRearGuardSize
    <3>2. QED
      BY Zenon, <3>1, NoWrap DEF guardedSize
  <2>2. QED
    BY Zenon, <1>1, <1>5, <2>1, FencedInv
<1>6. CASE /\ ~(size > kMaxRequest) /\ ~config.enableGuardBytes
           /\ \E r \in rawAllocate(size) : Allocates(kDefaultAlignment, size, r, r.address, withRawHeader(r))
  <2> HIDE DEF size
  <2>1. QED
    BY Zenon, <1>1, <1>6, PlainInv
<1>7. QED
  BY Zenon, <1>3, <1>4, <1>5, <1>6 DEF allocate, userOf

(* AllocatorImpl::alignedAllocate beyond the default alignment.            *)
LEMMA AlignedAllocateInv ==
    ASSUME IInv, UNCHANGED config, NEW n \in Nat, NEW alignment \in Nat,
           ~(isPowerOfTwo(alignment) /\ alignment <= kDefaultAlignment),
           alignedAllocate(alignment, n), wanted' = n
    PROVE  IInv'
<1> DEFINE size == atLeastOne(n)
           Shim(r, p) == [payloadSize |-> size, tier |-> "AlignedShim", state |-> "allocated", offset |-> (p - r.address) % OffsetModulus]
           refused == ~isPowerOfTwo(alignment) \/ alignment > kMaxAlignment
<1>1. size \in Nat /\ wanted' \in Nat /\ wanted' <= size
  BY AtLeastOne
<1>2. pc = "idle"
  BY Zenon DEF alignedAllocate
<1>3. CASE \E error \in {"InvalidAlignment", "SizeOverflow", "OutOfMemory"} : Fails(error)
  BY Zenon, <1>2, <1>3, FailsInv
<1>4. CASE /\ ~refused /\ ~(size > kMaxRequest)
           /\ \E r \in rawAllocate(alignedSize(size, alignment)) :
                 LET p == alignedAddress(r.address, alignment)
                 IN  Allocates(alignment, size, r, p, writeHeader(withRawHeader(r), p, Shim(r, p)))
  <2> HIDE DEF size
  <2>1. isPowerOfTwo(alignment) /\ alignment > kDefaultAlignment /\ alignment <= kMaxAlignment /\ kMaxAlignment \in Nat
    BY <1>4, WidthAssumption DEF kDefaultAlignment
  <2>2. alignedSize(size, alignment) = size + alignment
    <3>1. SizeModulus \in Nat /\ size + alignment \in Nat /\ size + alignment < SizeModulus
      BY <1>1, <1>4, <2>1, WidthAssumption DEF kFrontGuardSize, kRearGuardSize
    <3>2. QED
      BY Zenon, <3>1, NoWrap DEF alignedSize
  <2>3. PICK r \in rawAllocate(size + alignment) :
            LET p == alignedAddress(r.address, alignment)
            IN  Allocates(alignment, size, r, p, writeHeader(withRawHeader(r), p, Shim(r, p)))
    BY Zenon, <1>4, <2>2
  <2>4. r.address \in Addresses /\ r.address \in Nat
    <3>1. size + alignment \in Nat
      BY <1>1
    <3>2. QED
      BY Zenon, <3>1, RawHeader
  <2> DEFINE at == alignedAddress(r.address, alignment)
  <2>5. at \in r.address + kHeaderSize .. r.address + alignment /\ at % alignment = 0
    BY Zenon, <2>1, <2>4, AlignedAddress
  <2> HIDE DEF at
  <2>6. (at - r.address) % OffsetModulus = at - r.address
    <3>1. OffsetModulus \in Nat /\ at - r.address \in Nat /\ at - r.address < OffsetModulus
      BY <2>1, <2>4, <2>5, WidthAssumption DEF kHeaderSize
    <3>2. QED
      BY Zenon, <3>1, NoWrap
  <2>7. Allocates(alignment, size, r, at, writeHeader(withRawHeader(r), at,
                  [payloadSize |-> size, tier |-> "AlignedShim", state |-> "allocated", offset |-> at - r.address]))
    BY Zenon, <2>3, <2>6 DEF at
  <2>8. QED
    BY Zenon, <1>1, <2>1, <2>5, <2>7, ShimmedInv
<1>5. QED
  BY Zenon, <1>3, <1>4 DEF alignedAllocate

(* Allocator::alignedAllocate.                                             *)
LEMMA AlignedInv ==
    ASSUME IInv, UNCHANGED config, NEW n \in Nat, NEW alignment \in Nat,
           Aligned(alignment, n), wanted' = n
    PROVE  IInv'
<1>1. CASE isPowerOfTwo(alignment) /\ alignment <= kDefaultAlignment
  BY Zenon, <1>1, AllocateInv DEF Aligned
<1>2. CASE ~(isPowerOfTwo(alignment) /\ alignment <= kDefaultAlignment)
  BY Zenon, <1>2, AlignedAllocateInv DEF Aligned
<1>3. QED
  BY Zenon, <1>1, <1>2

(* MemoryResource::do_allocate.                                            *)
LEMMA ResourceInv ==
    ASSUME IInv, UNCHANGED config, NEW n \in Nat, NEW alignment \in Nat,
           do_allocate(n, alignment), wanted' = n
    PROVE  IInv'
BY Zenon, AllocateInv, AlignedInv DEF do_allocate

(* StlAllocator::allocate.                                                 *)
LEMMA StlInv ==
    ASSUME IInv, UNCHANGED config, NEW count \in Nat, NEW sizeofT \in Nat \ {0}, NEW alignment \in Nat,
           StlAllocate(count, sizeofT, alignment), wanted' = count * sizeofT
    PROVE  IInv'
<1>1. CASE count > (SizeModulus - 1) \div sizeofT
  BY Zenon, <1>1, FailsInv DEF StlAllocate
<1>2. CASE ~(count > (SizeModulus - 1) \div sizeofT)
  <2>1. count * sizeofT \in Nat /\ (count * sizeofT) % SizeModulus = count * sizeofT
    BY Zenon, <1>2, ProductFits
  <2>2. do_allocate(count * sizeofT, alignment)
    BY Zenon, <1>2, <2>1 DEF StlAllocate
  <2>3. QED
    BY Zenon, <2>1, <2>2, ResourceInv
<1>3. QED
  BY Zenon, <1>1, <1>2

-----------------------------------------------------------------------------
(* The block in use                                                        *)

(* Where the block is does not depend on what is stored in it.             *)
LEMMA SamePlace ==
    ASSUME UNCHANGED <<config, raw, user, asked, wanted>>
    PROVE  /\ Placed' = Placed /\ Plain' = Plain /\ Fenced' = Fenced /\ userTier' = userTier
           /\ Guards' = Guards /\ HeaderBytes(user)' = HeaderBytes(user)
<1>1. config' = config /\ raw' = raw /\ user' = user /\ asked' = asked /\ wanted' = wanted
  OBVIOUS
<1>2. Plain' = Plain /\ Fenced' = Fenced /\ Shimmed' = Shimmed
  BY <1>1 DEF Plain, Fenced, Shimmed, Guarded
<1>3. Placed' = Placed
  BY <1>1, <1>2 DEF Placed
<1>4. userTier' = userTier
  BY <1>2 DEF userTier
<1>5. Guards' = Guards /\ HeaderBytes(user)' = HeaderBytes(user)
  BY <1>1 DEF Guards
<1>6. QED
  BY <1>2, <1>3, <1>4, <1>5

(* A store that reaches neither header leaves them as they are.            *)
LEMMA StoreIntact ==
    ASSUME NEW bytes, Intact, UNCHANGED <<config, raw, user, asked, wanted>>,
           headers' = Write(memory, bytes).headers,
           HeaderBytes(user) \cap bytes = {}, HeaderBytes(raw.address) \cap bytes = {}
    PROVE  Intact'
<1>1. memory.headers = headers
  BY DEF memory
<1>2. Keeps(memory, Write(memory, bytes), bytes)
  BY Zenon, WriteEffect
<1>3. user \in DOMAIN headers' /\ headers'[user] = headers[user]
  BY Zenon, <1>1, <1>2 DEF Keeps, Intact
<1>4. raw.address \in DOMAIN headers' /\ headers'[raw.address] = headers[raw.address]
  BY Zenon, <1>1, <1>2 DEF Keeps, Intact
<1>5. raw' = raw /\ user' = user /\ asked' = asked /\ userTier' = userTier
  BY Zenon, SamePlace
<1>6. QED
  BY Zenon, <1>3, <1>4, <1>5 DEF Intact

(* The caller writes all of its bytes.                                     *)
LEMMA UseInv ==
    ASSUME IInv, UNCHANGED config, Use
    PROVE  IInv'
<1> DEFINE w == Write(memory, Bytes(user, asked.size))
<1>1. /\ pc = "held" /\ pc' = "held" /\ damaged' = damaged
      /\ UNCHANGED <<config, raw, user, asked, wanted>>
      /\ pattern' = w.pattern /\ headers' = w.headers
  BY Zenon DEF Use, Becomes
<1>2. Placed /\ Marks
  BY Zenon, <1>1 DEF IInv
<1>3. Apart
  BY <1>2, PlacedApart
<1>4. /\ Placed' /\ Fenced' = Fenced /\ Guards' = Guards /\ HeaderBytes(user)' = HeaderBytes(user) /\ user' = user
  BY Zenon, <1>1, <1>2, SamePlace
<1>5. w.pattern = pattern \ Bytes(user, asked.size)
  <2>1. memory.pattern = pattern
    BY DEF memory
  <2>2. QED
    BY <2>1, WriteEffect
<1>6. Intact => Intact'
  BY Zenon, <1>1, <1>3, StoreIntact DEF Apart
<1> HIDE DEF w
<1>7. Fenced => Guards \cap pattern' = Guards \ damaged
  <2>1. Fenced => Bytes(user, asked.size) \cap Guards = {}
    BY Zenon, <1>3 DEF Apart
  <2>2. Fenced => Guards \cap pattern = Guards \ damaged
    BY Zenon, <1>2 DEF Marks
  <2>3. pattern' = pattern \ Bytes(user, asked.size)
    BY Zenon, <1>1, <1>5
  <2>4. QED
    BY <2>1, <2>2, <2>3
<1>8. Marks'
  BY Zenon, <1>1, <1>2, <1>4, <1>6, <1>7 DEF Marks
<1>9. QED
  BY Zenon, <1>1, <1>4, <1>8, HeldInv

(* The caller changes a byte of a guard or of the shim.                    *)
LEMMA OverrunInv ==
    ASSUME IInv, UNCHANGED config, NEW byte, Overrun(byte)
    PROVE  IInv'
<1> DEFINE w == Write(memory, {byte})
<1>1. /\ pc = "held" /\ pc' = "held" /\ Guarded /\ damaged = {} /\ damaged' = {byte}
      /\ UNCHANGED <<config, raw, user, asked, wanted>>
      /\ IF byte \in HeaderBytes(user) THEN pattern' = pattern
         ELSE byte \in Guards /\ pattern' = w.pattern /\ headers' = w.headers
  BY Zenon DEF Overrun, Becomes
<1>2. Placed /\ Marks
  BY Zenon, <1>1 DEF IInv
<1>3. Apart
  BY <1>2, PlacedApart
<1>4. Placed' /\ Fenced' = Fenced /\ Guards' = Guards /\ HeaderBytes(user)' = HeaderBytes(user)
  BY Zenon, <1>1, <1>2, SamePlace
<1>5. Fenced
  BY <1>1, <1>2 DEF Placed, Plain, Shimmed, Guarded, kDefaultAlignment
<1>6. Intact /\ Guards \subseteq pattern
  BY <1>1, <1>2, <1>5 DEF Marks
<1>7. CASE byte \in HeaderBytes(user)
  <2>1. byte \notin Guards
    BY SMTT(30), <1>3, <1>5, <1>7 DEF Apart, Guards
  <2>2. Guards' \cap pattern' = Guards' \ damaged'
    BY <1>1, <1>4, <1>6, <1>7, <2>1
  <2>3. damaged' \cap HeaderBytes(user)' # {}
    BY <1>1, <1>4, <1>7
  <2>4. Marks'
    BY Zenon, <1>1, <1>4, <1>5, <1>7, <2>2, <2>3 DEF Marks
  <2>5. QED
    BY Zenon, <1>1, <1>4, <2>4, HeldInv
<1>8. CASE byte \notin HeaderBytes(user)
  <2>1. byte \in Guards
    BY Zenon, <1>1, <1>8
  <2>2. HeaderBytes(user) \cap {byte} = {} /\ HeaderBytes(raw.address) \cap {byte} = {}
    BY <1>3, <1>5, <2>1 DEF Apart, Guards
  <2>3. Intact'
    BY Zenon, <1>1, <1>6, <1>8, <2>2, StoreIntact
  <2>4. pattern' = pattern \ {byte}
    <3>1. memory.pattern = pattern
      BY DEF memory
    <3>2. QED
      BY <1>1, <1>8, <3>1, WriteEffect
  <2> HIDE DEF w
  <2>5. Guards' \cap pattern' = Guards' \ damaged'
    BY <1>1, <1>4, <1>6, <2>4
  <2>6. Marks'
    BY Zenon, <1>1, <1>4, <1>5, <2>1, <2>3, <2>5 DEF Marks
  <2>7. QED
    BY Zenon, <1>1, <1>4, <2>6, HeldInv
<1>9. QED
  BY Zenon, <1>7, <1>8

-----------------------------------------------------------------------------
(* The free                                                                *)

(* With both headers intact the free finds the tier's header, and gives    *)
(* the block back.                                                         *)
LEMMA FindsBlock ==
    ASSUME Placed, Intact, NEW m, m = poison(memory, user, asked.size)
    PROVE  /\ (IF headers[user].tier = "Raw" THEN user ELSE user - headers[user].offset) = raw.address
           /\ rawDeallocate(m, raw.address) = {raw.address}
           /\ raw.address # nullptr
<1>1. raw.address \in Nat /\ raw.address # nullptr /\ asked.size \in Nat
  BY TierAssumption DEF Placed, nullptr, kHeaderSize
<1>2. user \in Int
  BY <1>1 DEF Placed, Plain, Fenced, Shimmed, kHeaderSize, kFrontGuardSize
<1>3. user - headers[user].offset = raw.address
  BY <1>1, <1>2 DEF Intact
<1>4. headers[user].tier = "Raw" => user = raw.address
  BY DEF Intact, userTier, Plain
<1>5. raw.address \in DOMAIN m.headers /\ m.headers[raw.address].tier = "Raw"
  <2>1. HeaderBytes(raw.address) \cap Bytes(user, asked.size) = {}
    BY Zenon, PlacedApart DEF Apart
  <2>2. Keeps(memory, m, Bytes(user, asked.size))
    BY Zenon, PoisonEffect
  <2>3. memory.headers = headers
    BY DEF memory
  <2>4. QED
    BY Zenon, <2>1, <2>2, <2>3 DEF Keeps, Intact
<1>6. rawDeallocate(m, raw.address) = {raw.address}
  BY <1>1, <1>5 DEF rawDeallocate
<1>7. QED
  BY <1>1, <1>3, <1>4, <1>6

(* verifyGuards finds the change of a guard, and no other.                 *)
LEMMA Verified ==
    ASSUME Marks, damaged \cap HeaderBytes(user) = {}, Fenced,
           NEW verified \in verifyGuards(user, asked.size)
    PROVE  verified \in BOOLEAN /\ (verified <=> damaged = {})
<1>1. /\ verified \in BOOLEAN
      /\ verified => Guards \cap damaged = {}
      /\ ~verified => ~(Guards \subseteq pattern)
  BY Zenon DEF verifyGuards, Guards
<1>2. damaged = {} \/ \E b \in Guards : damaged = {b}
  BY DEF Marks
<1>3. Guards \cap pattern = Guards \ damaged
  BY DEF Marks
<1>4. verified => damaged = {}
  BY <1>1, <1>2
<1>5. ~verified => damaged # {}
  BY <1>1, <1>3
<1>6. QED
  BY Zenon, <1>1, <1>4, <1>5

(* A free by intact headers.                                               *)
LEMMA FreeReports ==
    ASSUME Placed, Marks, damaged \cap HeaderBytes(user) = {}, deallocate
    PROVE  /\ released' = raw.address
           /\ reported' = IF damaged = {} THEN {} ELSE {"HeapCorruption"}
<1> DEFINE m == poison(memory, user, asked.size)
<1>1. Intact
  BY Zenon DEF Marks
<1>2. /\ user \in DOMAIN headers /\ headers[user].payloadSize = asked.size
      /\ headers[user].tier = userTier /\ headers[user].state = "allocated"
  BY Zenon, <1>1 DEF Intact
<1>3. userTier \in {"Raw", "DebugShim", "AlignedShim"} /\ (userTier = "DebugShim" <=> Fenced)
  BY DEF userTier, Plain, Fenced, Guarded
<1>4. Valid(headers[user])
  BY <1>2, <1>3 DEF Valid
<1>5. PICK verified \in verifyGuards(user, asked.size) : Releases(headers[user], verified)
  BY Zenon, <1>2, <1>4 DEF deallocate
<1>6. /\ (IF headers[user].tier = "Raw" THEN user ELSE user - headers[user].offset) = raw.address
      /\ rawDeallocate(m, raw.address) = {raw.address} /\ raw.address # nullptr
  BY Zenon, <1>1, FindsBlock
<1>7. /\ released' = raw.address
      /\ reported' = IF userTier = "DebugShim" /\ config.enableGuardBytes /\ ~verified
                     THEN {"HeapCorruption"} ELSE {}
  <2>1. \E q \in rawDeallocate(m, raw.address) :
           /\ released' = q
           /\ reported' = (IF userTier = "DebugShim" /\ config.enableGuardBytes /\ ~verified
                           THEN {"HeapCorruption"} ELSE {})
                            \cup (IF q = nullptr THEN {"InvalidPointer"} ELSE {})
    BY Zenon, <1>2, <1>5, <1>6 DEF Releases
  <2> HIDE DEF m
  <2>2. QED
    BY <1>6, <2>1
<1>8. Fenced => config.enableGuardBytes /\ (verified <=> damaged = {})
  BY Zenon, <1>5, Verified DEF Fenced, Guarded
<1>9. ~Fenced => damaged = {}
  BY Zenon DEF Marks
<1>10. QED
  BY Zenon, <1>3, <1>7, <1>8, <1>9

(* deallocate.                                                             *)
LEMMA DeallocateInv ==
    ASSUME IInv, UNCHANGED config, deallocate
    PROVE  IInv'
<1>1. /\ pc = "held" /\ pc' = "freed" /\ damaged' = damaged
      /\ UNCHANGED <<config, raw, user, asked, wanted>>
  BY Zenon DEF deallocate
<1>2. Placed /\ Marks
  BY Zenon, <1>1 DEF IInv
<1>3. HeaderBytes(user)' = HeaderBytes(user) /\ raw' = raw
  BY Zenon, <1>1, SamePlace
<1>4. GuardsExact'
  BY Zenon, <1>1, <1>2, <1>3, FreeReports DEF GuardsExact
<1>5. QED
  BY <1>1, <1>4 DEF IInv

-----------------------------------------------------------------------------
(* Invariance                                                              *)

(* Every step of the front end, of a caller or of none keeps IInv.         *)
LEMMA StepInv == IInv /\ [Next]_vars => IInv'
<1> SUFFICES ASSUME IInv, [Next]_vars PROVE IInv'
  OBVIOUS
<1>1. /\ Sizes \subseteq Nat /\ Counts \subseteq Nat /\ Alignments \subseteq Nat
  BY TierAssumption
<1>2. CASE UNCHANGED vars
  <2>1. Placed' = Placed /\ Fenced' = Fenced /\ userTier' = userTier /\ Guards' = Guards /\ HeaderBytes(user)' = HeaderBytes(user)
    BY Zenon, <1>2, SamePlace DEF vars
  <2>2. /\ config' = config /\ pattern' = pattern /\ headers' = headers /\ raw' = raw /\ user' = user
        /\ asked' = asked /\ damaged' = damaged /\ pc' = pc
        /\ reported' = reported /\ released' = released
    BY Zenon, <1>2 DEF vars
  <2>3. Intact' = Intact
    BY <2>1, <2>2 DEF Intact
  <2>4. Marks' = Marks
    BY <2>1, <2>2, <2>3 DEF Marks
  <2>5. QED
    BY Zenon, <2>1, <2>2, <2>4 DEF IInv, GuardsExact
<1>3. CASE step /\ UNCHANGED config
  <2>1. ASSUME NEW size \in Sizes, NEW alignment \in Alignments,
               Aligned(alignment, size), wanted' = size
        PROVE  IInv'
    BY Zenon, <1>1, <1>3, <2>1, AlignedInv
  <2>2. ASSUME NEW alignment \in Alignments, NEW bytes \in Sizes,
               do_allocate(bytes, alignment), wanted' = bytes
        PROVE  IInv'
    BY Zenon, <1>1, <1>3, <2>2, ResourceInv
  <2>3. ASSUME NEW alignment \in Alignments, NEW count \in Counts, NEW sizeofT \in Sizes \ {0},
               StlAllocate(count, sizeofT, alignment), wanted' = count * sizeofT
        PROVE  IInv'
    BY Zenon, <1>1, <1>3, <2>3, StlInv
  <2>4. CASE Use
    BY Zenon, <1>3, <2>4, UseInv
  <2>5. CASE deallocate
    BY Zenon, <1>3, <2>5, DeallocateInv
  <2>6. ASSUME NEW byte, Overrun(byte) PROVE IInv'
    BY Zenon, <1>3, <2>6, OverrunInv
  <2>7. QED
    BY Zenon, <1>3, <2>1, <2>2, <2>3, <2>4, <2>5, <2>6 DEF step
<1>4. QED
  BY Zenon, <1>2, <1>3 DEF Next, Finished

(* The invariant holds of every behaviour of the front end.                *)
THEOREM Invariance == Spec => []IInv
<1>1. Init => IInv
  BY DEF Init, IInv, GuardsExact
<1>2. QED
  BY <1>1, StepInv, PTL DEF Spec

(* LayoutSound for every width, limit, size, alignment and address: the    *)
(* pointer allocate and alignedAllocate return is aligned as asked, and    *)
(* what the caller needs and the guards lie inside the tier's block.       *)
THEOREM LayoutCorrect == Spec => []LayoutSound
<1>1. IInv => LayoutSound
  <2> SUFFICES ASSUME Placed PROVE
          /\ user % asked.alignment = 0 /\ wanted <= asked.size
          /\ Bytes(user, asked.size) \subseteq Bytes(raw.address, raw.bytes)
          /\ Guarded => Guards \subseteq Bytes(raw.address, raw.bytes)
    BY Zenon DEF IInv, LayoutSound
  <2>1. /\ raw.address \in Nat /\ raw.address % kDefaultAlignment = 0
        /\ asked.size \in Nat /\ raw.bytes \in Nat /\ raw.asked \in Nat /\ raw.asked <= raw.bytes
        /\ wanted <= asked.size
    BY TierAssumption DEF Placed
  <2>2. CASE Plain
    BY <2>1, <2>2 DEF Plain, Guarded, Bytes
  <2>3. CASE Fenced
    <3>1. /\ asked.alignment = 16 /\ user = raw.address + 32 /\ raw.asked = asked.size + 64
          /\ raw.address % 16 = 0
      BY <2>1, <2>3 DEF Fenced, Guarded, kDefaultAlignment, kFrontGuardSize, kRearGuardSize
    <3>2. user % 16 = 0
      BY <2>1, <3>1
    <3>3. Bytes(user, asked.size) \subseteq Bytes(raw.address, raw.bytes)
      BY <2>1, <3>1 DEF Bytes
    <3>4. Guards \subseteq Bytes(raw.address, raw.bytes)
      BY <2>1, <3>1 DEF Bytes, Guards, FrontGuard, RearGuard, kFrontGuardSize, kRearGuardSize, kHeaderSize
    <3>5. QED
      BY <2>1, <3>1, <3>2, <3>3, <3>4
  <2>4. CASE Shimmed
    <3>1. ~Guarded
      BY <2>4 DEF Shimmed, Guarded, kDefaultAlignment
    <3>2. Bytes(user, asked.size) \subseteq Bytes(raw.address, raw.bytes)
      BY <2>1, <2>4 DEF Shimmed, Bytes, kHeaderSize
    <3>3. QED
      BY Zenon, <2>1, <2>4, <3>1, <3>2 DEF Shimmed
  <2>5. QED
    BY Zenon, <2>2, <2>3, <2>4 DEF Placed
<1>2. QED
  BY <1>1, Invariance, PTL

(* HeadersIntact: while the caller keeps to its bytes no store, poison     *)
(* included, reaches the shim or the tier's header, so that                *)
(* allocationSize and deallocate read what the allocation wrote.           *)
THEOREM HeadersCorrect == Spec => []HeadersIntact
<1>1. IInv => HeadersIntact
  <2> SUFFICES ASSUME Placed, Marks, damaged = {} PROVE
          /\ {user, raw.address} \subseteq DOMAIN headers
          /\ headers[user].payloadSize = asked.size
          /\ user - headers[user].offset = raw.address
          /\ headers[raw.address].payloadSize = raw.asked
    BY Zenon DEF IInv, HeadersIntact
  <2>1. Intact
    BY DEF Marks
  <2>2. raw.address \in Nat
    BY TierAssumption DEF Placed
  <2>3. user \in Int
    BY <2>2 DEF Placed, Plain, Fenced, Shimmed, kHeaderSize, kFrontGuardSize
  <2>4. user - headers[user].offset = raw.address
    BY <2>1, <2>2, <2>3 DEF Intact
  <2>5. QED
    BY Zenon, <2>1, <2>4 DEF Intact
<1>2. QED
  BY <1>1, Invariance, PTL

(* GuardsExact: while the shim is as applyGuards wrote it, deallocate gives *)
(* the block back to its tier, and reports HeapCorruption for every changed *)
(* byte of a guard and for nothing else.                                    *)
THEOREM GuardsCorrect == Spec => []GuardsExact
<1>1. IInv => GuardsExact
  BY Zenon DEF IInv
<1>2. QED
  BY <1>1, Invariance, PTL
=============================================================================
