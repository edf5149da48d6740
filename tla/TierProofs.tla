------------------------------ MODULE TierProofs ------------------------------
(***************************************************************************)
(* Proofs about the two ends of the choice by size: the table that gives a *)
(* small request its class, for every table that satisfies the assumptions *)
(* of SizeClassTable, and LargeAllocator, for any number of threads, any   *)
(* page size and any address space.                                        *)
(***************************************************************************)
EXTENDS LargeAllocator, SizeClassTable, TLAPS

-----------------------------------------------------------------------------
(* SizeClassTable                                                          *)

(* The inductive invariant: what TableTypeOK and SlotsExact need besides   *)
(* is that the classes the inner loop has passed are too small for this    *)
(* slot.                                                                   *)
Passed == \A j \in Class : j < classIdx => kClassSizes[j] < slot * kGranularity

TableInv == TableTypeOK /\ SlotsExact /\ Passed

(* A slot of the table stands for a size of at most kSmallMax.             *)
LEMMA SlotSize ==
    ASSUME NEW s \in Slot
    PROVE  s * kGranularity \in Nat /\ s * kGranularity <= kSmallMax
<1> DEFINE q == kSmallMax \div kGranularity
<1>1. q \in Nat /\ q * kGranularity <= kSmallMax
  BY CountAssumption
<1>2. s \in Nat /\ s <= q
  BY <1>1 DEF Slot, kLookupSize
<1>3. s * kGranularity <= q * kGranularity
  BY <1>1, <1>2, CountAssumption
<1>4. QED
  BY <1>1, <1>2, <1>3, CountAssumption

(* The state before the loop satisfies the invariant.                      *)
LEMMA InitTable == TableInit => TableInv
<1> SUFFICES ASSUME TableInit PROVE TableInv
  OBVIOUS
<1>1. 0 \in Class /\ kLookupSize \in Nat
  BY CountAssumption DEF Class, kLookupSize
<1>2. TableTypeOK
  BY <1>1 DEF TableInit, TableTypeOK
<1>3. SlotsExact /\ Passed
  BY <1>1 DEF TableInit, SlotsExact, Passed, Slot, Class
<1>4. QED
  BY <1>2, <1>3 DEF TableInv

(* Every turn of either loop keeps the invariant.                          *)
LEMMA NextTable == TableInv /\ [TableNext]_tableVars => TableInv'
<1> SUFFICES ASSUME TableInv, [TableNext]_tableVars PROVE TableInv'
  OBVIOUS
<1> USE CountAssumption
<1>0. /\ kLookupSize \in Nat /\ slot \in Nat /\ classIdx \in Nat
      /\ kGranularity > 0
      /\ table \in [Slot -> Class]
  BY DEF TableInv, TableTypeOK, kLookupSize, Class
<1>1. CASE nextClass
  <2>1. slot \in Slot
    BY <1>0, <1>1 DEF nextClass, Slot
  <2>2. slot * kGranularity \in Nat /\ slot * kGranularity <= kSmallMax
    BY Zenon, <2>1, SlotSize
  <2>3. classIdx \in Class /\ kClassSizes[classIdx] < slot * kGranularity
    BY Zenon, <1>1 DEF nextClass, tooSmall, TableInv, TableTypeOK
  <2>4. classIdx # kClassCount - 1
    <3> DEFINE size == slot * kGranularity
    <3>1. kClassCount - 1 \in Class
      BY DEF Class
    <3>2. kClassSizes[kClassCount - 1] \in Nat /\ kClassSizes[kClassCount - 1] >= kSmallMax
      BY Zenon, <3>1, ClassSizesAssumption
    <3>3. size \in Nat /\ size <= kSmallMax /\ kClassSizes[classIdx] < size
      BY Zenon, <2>2, <2>3
    <3> HIDE DEF size
    <3>4. QED
      BY <3>2, <3>3
  <2>5. TableTypeOK'
    BY <1>1, <2>3, <2>4 DEF nextClass, TableInv, TableTypeOK, Class
  <2>6. SlotsExact'
    BY Zenon, <1>1 DEF nextClass, TableInv, SlotsExact, Smallest
  <2>7. Passed'
    BY <1>1, <2>3, <1>0 DEF nextClass, TableInv, Passed, Class
  <2>8. QED
    BY Zenon, <2>5, <2>6, <2>7 DEF TableInv
<1>2. CASE fillSlot
  <2>1. slot \in Slot
    BY <1>0, <1>2 DEF fillSlot, Slot
  <2>2. slot * kGranularity \in Nat
    BY Zenon, <2>1, SlotSize
  <2>3. classIdx \in Class /\ kClassSizes[classIdx] \in Nat
        /\ ~(kClassSizes[classIdx] < slot * kGranularity)
    BY Zenon, <1>2, ClassSizesAssumption DEF fillSlot, tooSmall, TableInv, TableTypeOK
  <2>4. uint8(classIdx) = classIdx
    BY <2>3 DEF uint8, Class
  <2>5. table' = [table EXCEPT ![slot] = classIdx] /\ slot' = slot + 1 /\ classIdx' = classIdx
    BY Zenon, <1>2, <2>4 DEF fillSlot
  <2>6. TableTypeOK'
    BY <2>1, <2>3, <2>5, <1>0 DEF TableInv, TableTypeOK, Slot
  <2>7. Smallest(classIdx, slot * kGranularity)
    BY <2>2, <2>3 DEF TableInv, Passed, Smallest
  <2>8. SlotsExact'
    <3> SUFFICES ASSUME NEW s \in Slot, s < slot + 1
                 PROVE  Smallest(table'[s], s * kGranularity)
      BY Zenon, <2>5 DEF SlotsExact, Smallest
    <3>1. CASE s = slot
      BY Zenon, <3>1, <2>1, <2>5, <2>7, <1>0
    <3>2. CASE s # slot
      <4>1. s < slot /\ table'[s] = table[s]
        BY <3>2, <2>1, <2>5, <1>0 DEF Slot
      <4>2. QED
        BY Zenon, <4>1 DEF TableInv, SlotsExact
    <3>3. QED
      BY Zenon, <3>1, <3>2
  <2>9. Passed'
    <3> SUFFICES ASSUME NEW j \in Class, j < classIdx
                 PROVE  kClassSizes[j] < (slot + 1) * kGranularity
      BY Zenon, <2>5 DEF Passed
    <3>1. kClassSizes[j] \in Nat /\ kClassSizes[j] < slot * kGranularity
      BY Zenon, ClassSizesAssumption DEF TableInv, Passed
    <3>2. (slot + 1) * kGranularity = slot * kGranularity + kGranularity
      BY <1>0
    <3>3. QED
      BY <3>1, <3>2, <2>2
  <2>10. QED
    BY <2>6, <2>8, <2>9 DEF TableInv
<1>3. CASE UNCHANGED tableVars
  BY Zenon, <1>3 DEF tableVars, TableInv, TableTypeOK, SlotsExact, Passed, Smallest
<1>4. QED
  BY <1>1, <1>2, <1>3 DEF TableNext

(* The loop that fills kLookup stays inside kClassSizes and kLookup.       *)
THEOREM TableCorrect == TableSpec => []TableTypeOK
<1>1. TableInv => TableTypeOK
  BY DEF TableInv
<1>2. QED
  BY InitTable, NextTable, <1>1, PTL DEF TableSpec

(* Every slot that kLookup has so far holds the smallest class.            *)
THEOREM SlotsCorrect == TableSpec => []SlotsExact
<1>1. TableInv => SlotsExact
  BY Zenon DEF TableInv
<1>2. QED
  BY InitTable, NextTable, <1>1, PTL DEF TableSpec

(* The slot classIndex reads for a size is the size rounded up to whole    *)
(* slots, and a class holds the size exactly when it holds the slot's.     *)
LEMMA RoundedUp ==
    ASSUME NEW size \in 1 .. kSmallMax
    PROVE  LET s == (size + kGranularity - 1) \div kGranularity
           IN  /\ s \in Slot
               /\ \A i \in Class : kClassSizes[i] >= size <=> kClassSizes[i] >= s * kGranularity
<1> DEFINE g == kGranularity
           s == (size + g - 1) \div g
<1>1. g \in Nat /\ g > 0 /\ size \in Nat /\ size > 0 /\ size <= kSmallMax /\ kSmallMax \in Nat
  BY CountAssumption
<1>2. s \in Nat /\ s * g >= size /\ s * g < size + g
  BY <1>1
<1>3. \A k \in Nat : k * g >= size <=> k * g >= s * g
  <2> SUFFICES ASSUME NEW k \in Nat PROVE k * g >= size <=> k * g >= s * g
    OBVIOUS
  <2>1. k >= s => k * g >= s * g
    BY <1>1, <1>2
  <2>2. k < s => (k + 1) * g <= s * g
    BY <1>1, <1>2
  <2>3. (k + 1) * g = k * g + g
    BY <1>1
  <2>4. k * g \in Nat /\ s * g \in Nat
    BY <1>1, <1>2
  <2> HIDE DEF s, g
  <2>5. QED
    BY <2>1, <2>2, <2>3, <2>4, <1>1, <1>2
<1>4. PICK m \in Nat : kSmallMax = m * g
  BY CountAssumption
<1>5. m * g >= s * g
  BY Zenon, <1>1, <1>3, <1>4
<1>6. m >= s /\ kSmallMax \div g = m
  <2>1. m < s => (m + 1) * g <= s * g
    BY <1>1, <1>2
  <2>2. (m + 1) * g = m * g + g /\ m * g \in Nat /\ s * g \in Nat
    BY <1>1, <1>2
  <2>3. m >= s
    <3> HIDE DEF s, g
    <3> QED BY <2>1, <2>2, <1>1, <1>2, <1>5
  <2>4. (m * g) \div g = m
    BY <1>1
  <2>5. QED
    BY Zenon, <2>3, <2>4, <1>4
<1>7. s \in Slot
  BY <1>2, <1>6 DEF Slot, kLookupSize
<1>8. ASSUME NEW i \in Class PROVE kClassSizes[i] >= size <=> kClassSizes[i] >= s * g
  <2>1. PICK k \in Nat : kClassSizes[i] = k * g
    BY ClassSizesAssumption
  <2>2. QED
    BY Zenon, <1>3, <2>1
<1>9. QED
  BY Zenon, <1>7, <1>8

(* LookupExact: the finished table gives every small request the smallest  *)
(* class that holds it, from the step that finishes it on.                 *)
THEOREM LookupCorrect == TableSpec => [](Built => LookupRight) /\ LookupExact
<1>1. TableInv => (Built => LookupRight)
  <2> SUFFICES ASSUME TableInv, Built, NEW size \in 1 .. kSmallMax
               PROVE  Smallest(classIndex(size), size)
    BY Zenon DEF LookupRight
  <2> DEFINE s == (size + kGranularity - 1) \div kGranularity
             i == table[s]
  <2>1. s \in Slot /\ \A j \in Class : kClassSizes[j] >= size <=> kClassSizes[j] >= s * kGranularity
    BY Zenon, RoundedUp
  <2>2. s < slot
    BY <2>1, CountAssumption DEF Built, Slot, kLookupSize
  <2>3. Smallest(i, s * kGranularity)
    BY Zenon, <2>1, <2>2 DEF TableInv, SlotsExact
  <2>4. s * kGranularity \in Nat /\ size \in Nat
    BY <2>1, SlotSize
  <2>5. \A j \in Class : kClassSizes[j] \in Nat
    BY Zenon, ClassSizesAssumption
  <2> HIDE DEF s
  <2>6. Smallest(i, size)
    BY <2>1, <2>3, <2>4, <2>5 DEF Smallest
  <2>7. QED
    BY <2>6 DEF classIndex, s
<1>2. TableSpec => [](Built => LookupRight)
  BY InitTable, NextTable, <1>1, PTL DEF TableSpec
<1>3. (Built => LookupRight)' => [~Built /\ Built' => LookupRight']_tableVars
  BY Zenon
<1>4. QED
  BY <1>2, <1>3, PTL DEF LookupExact

-----------------------------------------------------------------------------
(* LargeAllocator                                                          *)

Starts == {page * i : i \in 1 .. Pages}
Sizes == {roundToPages(n + kPayloadOffset) : n \in Requests}

(* The mapping of region r exists, and is large enough for its headers.    *)
Mapping(r) == r.data \in DOMAIN mapped /\ mapped[r.data] = r.size

Typed ==
    /\ mapped = [a \in DOMAIN mapped |-> mapped[a]]
    /\ \A a \in DOMAIN mapped : a \in Starts /\ mapped[a] \in Sizes \ {0}
    /\ regions_ = [p \in DOMAIN regions_ |-> regions_[p]]
    /\ owned = [p \in DOMAIN owned |-> owned[p]]
    /\ \A p \in DOMAIN regions_ : regions_[p] \in Region
    /\ region \in [Threads -> Region]
    /\ pc \in [Threads -> {"idle", "emplace", "reserved", "deallocate", "gone"}]
    /\ payload \in [Threads -> Nat] /\ reserved \in [Threads -> Nat]
    /\ \A p \in DOMAIN owned : p \in Nat /\ owned[p] \in Nat

(* The system keeps mappings apart.                                        *)
MappingsApart ==
    \A a, b \in DOMAIN mapped : a # b => Apart(a, mapped[a], b, mapped[b])

(* A registered region has the mapping below its key.                      *)
Registered ==
    \A p \in DOMAIN regions_ :
        p = regions_[p].data + kPayloadOffset /\ Mapping(regions_[p])

(* A local region is that of a thread between mmap and emplace, and no one *)
(* else's.                                                                 *)
Local ==
    /\ \A t \in Threads : pc[t] # "emplace" => region[t] = empty
    /\ \A t \in Threads : pc[t] = "emplace" =>
          /\ Mapping(region[t])
          /\ payload[t] = region[t].data + kPayloadOffset
          /\ payload[t] \notin DOMAIN regions_
    /\ \A t, u \in Threads :
          pc[t] = "emplace" /\ pc[u] = "emplace" /\ t # u => region[t].data # region[u].data

(* No mapping is without an owner.                                         *)
Owned ==
    \A a \in DOMAIN mapped :
        \/ a + kPayloadOffset \in DOMAIN regions_
        \/ \E t \in Threads : pc[t] = "emplace" /\ region[t].data = a

(* A payload is in one pair of hands: a thread's that is allocating or     *)
(* freeing it, or a caller's.                                              *)
OneHand ==
    /\ \A t \in Threads : pc[t] \in {"reserved", "deallocate"} =>
          payload[t] \in DOMAIN regions_ \ DOMAIN owned
    /\ \A t, u \in Threads :
          pc[t] \in {"reserved", "deallocate"} /\ pc[u] \in {"reserved", "deallocate"} /\ t # u
              => payload[t] # payload[u]

(* A caller's block is registered, with the capacity it was told.          *)
Served ==
    alive => \A p \in DOMAIN owned :
        /\ p \in DOMAIN regions_
        /\ owned[p] + kHeaderSize + kPayloadOffset = regions_[p].size

(* After the destructor nothing is mapped.                                 *)
Over ==
    (\E t \in Threads : pc[t] = "gone") =>
        (\A t \in Threads : pc[t] = "gone") /\ DOMAIN mapped = {} /\ DOMAIN regions_ = {}

IInv ==
    /\ Typed /\ MappingsApart /\ Registered /\ Local /\ Owned /\ OneHand /\ Served /\ Over

-----------------------------------------------------------------------------
(* Rounding up to whole pages loses nothing.                               *)
LEMMA Rounded ==
    ASSUME NEW x \in Nat
    PROVE  roundToPages(x) \in Nat /\ roundToPages(x) >= x
<1> DEFINE q == (x + page - 1) \div page
           m == (x + page - 1) % page
<1>1. x + page - 1 = page * q + m /\ m \in 0 .. page - 1 /\ q \in Nat
  BY PageAssumption
<1>2. page * q \in Nat /\ page * q = q * page
  BY <1>1, PageAssumption
<1> HIDE DEF q, m
<1>3. q * page \in Nat /\ q * page >= x
  BY <1>1, <1>2, PageAssumption
<1>4. QED
  BY Zenon, <1>3 DEF q, roundToPages

(* A mapping has room for the offset and the header.                       *)
LEMMA SizeRoom ==
    ASSUME NEW s \in Sizes
    PROVE  s \in Nat /\ s >= kPayloadOffset + kHeaderSize
<1>1. PICK n \in Requests : s = roundToPages(n + kPayloadOffset)
  BY DEF Sizes
<1>2. n \in Nat /\ n >= kHeaderSize /\ n + kPayloadOffset \in Nat
  BY LargeAssumption
<1>3. s \in Nat /\ s >= n + kPayloadOffset
  BY Zenon, <1>1, <1>2, Rounded
<1>4. QED
  BY <1>2, <1>3, LargeAssumption

(* Pages start at natural numbers.                                         *)
LEMMA StartNat == Starts \subseteq Nat
<1> SUFFICES ASSUME NEW i \in 1 .. Pages PROVE page * i \in Nat
  BY Zenon DEF Starts
<1> QED
  BY PageAssumption

(* What map returns for a request: nothing, or a free place for a mapping  *)
(* of one of the tier's sizes.                                             *)
LEMMA MapSound ==
    ASSUME Typed, NEW n \in Requests, NEW r \in map(n + kPayloadOffset)
    PROVE  \/ r = empty
           \/ /\ r.data \in Starts /\ r.size \in Sizes \ {0}
              /\ r = [data |-> r.data, size |-> r.size]
              /\ r.data \notin DOMAIN mapped
              /\ \A b \in DOMAIN mapped : Apart(r.data, r.size, b, mapped[b])
<1> SUFFICES ASSUME r # empty
             PROVE  /\ r.data \in Starts /\ r.size \in Sizes \ {0}
                    /\ r = [data |-> r.data, size |-> r.size]
                    /\ r.data \notin DOMAIN mapped
                    /\ \A b \in DOMAIN mapped : Apart(r.data, r.size, b, mapped[b])
  OBVIOUS
<1> DEFINE rounded == roundToPages(n + kPayloadOffset)
<1>1. n + kPayloadOffset \in Nat
  BY LargeAssumption
<1>2. PICK a \in Starts :
          /\ r = [data |-> a, size |-> rounded] /\ n + kPayloadOffset # 0
          /\ \A b \in DOMAIN mapped : Apart(a, rounded, b, mapped[b])
  BY Zenon DEF map, Starts
<1>3. rounded \in Nat \ {0} /\ rounded \in Sizes
  BY <1>1, <1>2, Rounded DEF Sizes
<1> HIDE DEF rounded
<1>4. a \in Nat
  BY Zenon, StartNat
<1>5. a \notin DOMAIN mapped
  <2> SUFFICES ASSUME a \in DOMAIN mapped PROVE FALSE
    OBVIOUS
  <2>1. mapped[a] \in Nat \ {0}
    BY Zenon, SizeRoom DEF Typed
  <2>2. QED
    BY <1>2, <1>3, <1>4, <2>1 DEF Apart
<1>6. QED
  BY Zenon, <1>2, <1>3, <1>5

-----------------------------------------------------------------------------
(* The invariant holds before the first call.                              *)
LEMMA InitInv == Init => IInv
BY DEF Init, IInv, Typed, MappingsApart, Registered, Local, Owned, OneHand, Served, Over,
       empty, Region, nullptr, Mapping

(* The mapping of allocate keeps the invariant: the new mapping is clear   *)
(* of all others and belongs to the thread's local region.                 *)
LEMMA AllocateInv ==
    ASSUME IInv, NEW t \in Threads, NEW n \in Requests, allocate(t, n)
    PROVE  IInv'
<1>1. PICK r \in map(n + kPayloadOffset) :
          /\ construct(r)
          /\ region' = [region EXCEPT ![t] = r]
          /\ payload' = [payload EXCEPT ![t] = IF valid(r) THEN r.data + kPayloadOffset ELSE nullptr]
          /\ pc' = [pc EXCEPT ![t] = IF valid(r) THEN "emplace" ELSE "idle"]
  BY Zenon DEF allocate, Goto
<1>2. pc[t] = "idle" /\ UNCHANGED <<regions_, reserved, owned>>
  BY Zenon DEF allocate
<1>3. CASE r = empty
  <2>1. ~valid(r)
    BY Zenon, <1>3 DEF valid, empty
  <2>2. mapped' = mapped /\ pc' = pc /\ region' = region
    BY <1>1, <1>2, <1>3, <2>1 DEF construct, IInv, Typed, Local
  <2>3. payload' \in [Threads -> Nat] /\ \A u \in Threads : u # t => payload'[u] = payload[u]
    BY Zenon, <1>1, <2>1 DEF IInv, Typed, nullptr
  <2>4. Typed' /\ Registered' /\ Owned' /\ Served' /\ Over' /\ MappingsApart'
    BY <1>2, <2>2, <2>3 DEF IInv, Typed, Registered, Owned, Served, Over, MappingsApart, Mapping, alive
  <2>5. Local' /\ OneHand'
    BY <1>2, <2>2, <2>3 DEF IInv, Local, OneHand, Mapping
  <2>6. QED
    BY Zenon, <2>4, <2>5 DEF IInv
<1>4. CASE r # empty
  <2>1. /\ r.data \in Starts /\ r.size \in Sizes \ {0}
        /\ r = [data |-> r.data, size |-> r.size]
        /\ r.data \notin DOMAIN mapped
        /\ \A b \in DOMAIN mapped : Apart(r.data, r.size, b, mapped[b])
    BY Zenon, <1>4, MapSound DEF IInv
  <2>2. r.data \in Nat /\ r.size \in Nat \ {0} /\ r \in Region /\ valid(r)
    BY Zenon, <2>1, StartNat, SizeRoom DEF Region, valid
  <2>3. /\ mapped' = [a \in DOMAIN mapped \cup {r.data} |-> IF a = r.data THEN r.size ELSE mapped[a]]
        /\ pc' = [pc EXCEPT ![t] = "emplace"]
        /\ payload' = [payload EXCEPT ![t] = r.data + kPayloadOffset]
    BY Zenon, <1>1, <2>2 DEF construct
  <2>4. r.data + kPayloadOffset \in Nat
    BY SMTT(30), <2>2, LargeAssumption
  <2>5. Typed'
    BY <1>1, <1>2, <2>1, <2>2, <2>3, <2>4 DEF IInv, Typed
  <2>6. MappingsApart'
    <3> SUFFICES ASSUME NEW a \in DOMAIN mapped', NEW b \in DOMAIN mapped', a # b
                 PROVE  Apart(a, mapped'[a], b, mapped'[b])
      BY Zenon DEF MappingsApart
    <3>1. CASE a = r.data
      BY Zenon, <2>1, <2>3, <3>1
    <3>2. CASE b = r.data
      BY Zenon, <2>1, <2>3, <3>2 DEF Apart
    <3>3. CASE a # r.data /\ b # r.data
      BY Zenon, <2>3, <3>3 DEF IInv, MappingsApart
    <3>4. QED
      BY Zenon, <3>1, <3>2, <3>3
  <2>7. Registered'
    BY Zenon, <1>2, <2>1, <2>3 DEF IInv, Registered, Mapping
  <2>8. r.data + kPayloadOffset \notin DOMAIN regions_
    <3> SUFFICES ASSUME NEW p \in DOMAIN regions_, p = r.data + kPayloadOffset PROVE FALSE
      OBVIOUS
    <3>1. regions_[p].data \in DOMAIN mapped /\ p = regions_[p].data + kPayloadOffset
      BY Zenon DEF IInv, Registered, Mapping
    <3>2. regions_[p].data \in Nat
      BY Zenon DEF IInv, Typed, Region
    <3>3. QED
      BY <2>1, <2>2, <3>1, <3>2, LargeAssumption
  <2>9. Local'
    <3>1. /\ \A u \in Threads : u # t =>
                pc'[u] = pc[u] /\ region'[u] = region[u] /\ payload'[u] = payload[u]
          /\ pc'[t] = "emplace" /\ region'[t] = r /\ payload'[t] = r.data + kPayloadOffset
      BY Zenon, <1>1, <2>3 DEF IInv, Typed
    <3>2. \A u \in Threads : u # t /\ pc[u] = "emplace" =>
             region[u].data \in DOMAIN mapped /\ region[u].data # r.data
      BY Zenon, <2>1 DEF IInv, Local, Mapping
    <3>3. QED
      BY <1>2, <2>1, <2>3, <2>8, <3>1, <3>2 DEF IInv, Local, Mapping
  <2>10. Owned'
    BY <1>1, <1>2, <2>3 DEF IInv, Owned, Typed
  <2>11. OneHand' /\ Served' /\ Over'
    BY ZenonT(30), <1>2, <2>3 DEF IInv, Typed, OneHand, Served, Over, alive
  <2>12. QED
    BY Zenon, <2>5, <2>6, <2>7, <2>9, <2>10, <2>11 DEF IInv
<1>5. QED
  BY <1>3, <1>4

(* emplace keeps the invariant: the key is new, so the region moves into   *)
(* the registry and nothing is unmapped.                                   *)
LEMMA EmplaceInv ==
    ASSUME IInv, NEW t \in Threads, emplace(t)
    PROVE  IInv'
<1> DEFINE p == payload[t]
           r == region[t]
<1>1. /\ pc[t] = "emplace" /\ p = r.data + kPayloadOffset /\ p \notin DOMAIN regions_
      /\ Mapping(r) /\ r \in Region /\ p \in Nat
  BY Zenon DEF IInv, Local, Typed, emplace
<1>2. /\ mapped' = mapped
      /\ regions_' = [q \in DOMAIN regions_ \cup {p} |-> IF q = p THEN r ELSE regions_[q]]
      /\ region' = [region EXCEPT ![t] = empty]
      /\ pc' = [pc EXCEPT ![t] = "reserved"]
      /\ UNCHANGED <<payload, reserved, owned>>
  BY Zenon, <1>1 DEF emplace, With, Goto
<1> HIDE DEF p, r
<1>3. Typed'
  BY ZenonT(60), <1>1, <1>2 DEF IInv, Typed, empty, Region
<1>4. MappingsApart'
  BY Zenon, <1>2 DEF IInv, MappingsApart
<1>5. Registered'
  BY Zenon, <1>1, <1>2 DEF IInv, Registered, Mapping
<1>6. Local'
  <2>1. /\ \A u \in Threads : u # t => pc'[u] = pc[u] /\ region'[u] = region[u]
        /\ pc'[t] = "reserved" /\ region'[t] = empty
    BY Zenon, <1>2 DEF IInv, Typed
  <2>2. \A u \in Threads : u # t /\ pc[u] = "emplace" => payload[u] # p
    <3> SUFFICES ASSUME NEW u \in Threads, u # t, pc[u] = "emplace", payload[u] = p PROVE FALSE
      OBVIOUS
    <3>1. payload[u] = region[u].data + kPayloadOffset /\ region[u].data # r.data
      BY Zenon, <1>1 DEF IInv, Local, r
    <3>2. region[u].data \in Nat /\ r.data \in Nat
      BY Zenon, <1>1 DEF IInv, Typed, Region
    <3>3. QED
      BY <1>1, <3>1, <3>2, LargeAssumption
  <2>3. QED
    BY <1>2, <2>1, <2>2 DEF IInv, Local, Mapping
<1>7. Owned'
  BY Zenon, <1>1, <1>2 DEF IInv, Owned, Typed, r
<1>8. p \notin DOMAIN owned
  BY Zenon, <1>1 DEF IInv, Served, alive
<1>9. OneHand'
  <2>1. /\ \A u \in Threads : u # t => pc'[u] = pc[u]
        /\ pc'[t] = "reserved"
    BY Zenon, <1>2 DEF IInv, Typed
  <2>2. QED
    BY ZenonT(30), <1>1, <1>2, <1>8, <2>1 DEF IInv, OneHand, p
<1>10. Served' /\ Over'
  BY Zenon, <1>1, <1>2, <1>8 DEF IInv, Typed, Served, Over, alive
<1>11. QED
  BY Zenon, <1>3, <1>4, <1>5, <1>6, <1>7, <1>9, <1>10 DEF IInv

(* The capacity of a registered payload covers the header.                 *)
LEMMA CapacityNat ==
    ASSUME IInv, NEW p \in DOMAIN regions_
    PROVE  /\ payloadCapacity(p) - kHeaderSize \in Nat
           /\ payloadCapacity(p) - kHeaderSize + kHeaderSize + kPayloadOffset = regions_[p].size
<1>1. regions_[p].size \in Sizes
  BY Zenon DEF IInv, Typed, Registered, Mapping
<1>2. QED
  BY <1>1, SizeRoom, LargeAssumption DEF payloadCapacity

(* The caller gets the block with the capacity of its region.              *)
LEMMA ReturnInv ==
    ASSUME IInv, NEW t \in Threads, returnPayload(t)
    PROVE  IInv'
<1> DEFINE p == payload[t]
           n == payloadCapacity(p) - kHeaderSize
<1>1. pc[t] = "reserved" /\ p \in DOMAIN regions_ /\ p \notin DOMAIN owned /\ p \in Nat
  BY Zenon DEF returnPayload, IInv, OneHand, Typed
<1>2. n \in Nat /\ n + kHeaderSize + kPayloadOffset = regions_[p].size
  BY Zenon, <1>1, CapacityNat
<1>3. /\ owned' = [q \in DOMAIN owned \cup {p} |-> IF q = p THEN n ELSE owned[q]]
      /\ pc' = [pc EXCEPT ![t] = "idle"]
      /\ UNCHANGED <<mapped, regions_, region, payload, reserved>>
  BY Zenon DEF returnPayload, With, Goto
<1> HIDE DEF n, p
<1>4. /\ \A u \in Threads : u # t => pc'[u] = pc[u]
      /\ pc'[t] = "idle"
  BY Zenon, <1>3 DEF IInv, Typed
<1>5. Typed'
  BY ZenonT(30), <1>1, <1>2, <1>3 DEF IInv, Typed
<1>6. MappingsApart' /\ Registered' /\ Local' /\ Owned'
  BY <1>1, <1>3, <1>4 DEF IInv, MappingsApart, Registered, Local, Owned, Mapping
<1>7. OneHand'
  BY Zenon, <1>1, <1>3, <1>4 DEF IInv, OneHand, p
<1>8. Served' /\ Over'
  BY Zenon, <1>1, <1>2, <1>3, <1>4 DEF IInv, Served, Over, alive
<1>9. QED
  BY <1>5, <1>6, <1>7, <1>8 DEF IInv

(* The caller gives its block to the thread that frees it.                 *)
LEMMA RawDeallocateInv ==
    ASSUME IInv, NEW t \in Threads, NEW p \in DOMAIN owned, rawDeallocate(t, p)
    PROVE  IInv' /\ reserved'[t] = owned[p] /\ payload'[t] = p
<1> DEFINE n == payloadCapacity(p) - kHeaderSize
<1>1. pc[t] = "idle" /\ p \in DOMAIN regions_ /\ p \in Nat
  BY Zenon DEF rawDeallocate, IInv, Served, Typed, alive
<1>2. n \in Nat /\ n + kHeaderSize + kPayloadOffset = regions_[p].size
  BY Zenon, <1>1, CapacityNat
<1>3. n = owned[p]
  <2>1. owned[p] \in Nat /\ owned[p] + kHeaderSize + kPayloadOffset = regions_[p].size
    BY Zenon, <1>1 DEF IInv, Typed, Served, alive
  <2> HIDE DEF n
  <2>2. QED
    BY <1>2, <2>1, LargeAssumption
<1>4. /\ owned' = [q \in DOMAIN owned \ {p} |-> owned[q]]
      /\ pc' = [pc EXCEPT ![t] = "deallocate"]
      /\ payload' = [payload EXCEPT ![t] = p]
      /\ reserved' = [reserved EXCEPT ![t] = n]
      /\ UNCHANGED <<mapped, regions_, region>>
  BY Zenon DEF rawDeallocate, Without, Goto
<1> HIDE DEF n
<1>5. /\ \A u \in Threads : u # t => pc'[u] = pc[u] /\ payload'[u] = payload[u]
      /\ pc'[t] = "deallocate" /\ payload'[t] = p /\ reserved'[t] = n
  BY Zenon, <1>4 DEF IInv, Typed
<1>6. Typed'
  BY ZenonT(30), <1>1, <1>2, <1>4 DEF IInv, Typed
<1>7. MappingsApart' /\ Registered' /\ Local' /\ Owned'
  BY <1>1, <1>4, <1>5 DEF IInv, MappingsApart, Registered, Local, Owned, Mapping
<1>8. OneHand'
  BY <1>1, <1>4, <1>5 DEF IInv, OneHand
<1>9. Served' /\ Over'
  BY Zenon, <1>1, <1>4, <1>5 DEF IInv, Served, Over, alive
<1>10. QED
  BY Zenon, <1>3, <1>5, <1>6, <1>7, <1>8, <1>9 DEF IInv

(* erase destroys exactly the region under its key: no other registered or *)
(* local region has the same mapping.                                      *)
LEMMA DeallocateInv ==
    ASSUME IInv, NEW t \in Threads, deallocate(t)
    PROVE  IInv'
<1> DEFINE p == payload[t]
           a == regions_[p].data
<1>1. pc[t] = "deallocate" /\ p \in DOMAIN regions_ /\ p \notin DOMAIN owned
  BY Zenon DEF deallocate, IInv, OneHand
<1>2. a \in Nat /\ a \in DOMAIN mapped /\ p = a + kPayloadOffset
  BY Zenon, <1>1 DEF IInv, Registered, Mapping, Typed, Region
<1>3. /\ mapped' = [b \in DOMAIN mapped \ {a} |-> mapped[b]]
      /\ regions_' = [q \in DOMAIN regions_ \ {p} |-> regions_[q]]
      /\ pc' = [pc EXCEPT ![t] = "idle"]
      /\ UNCHANGED <<region, payload, reserved, owned>>
  BY Zenon, <1>1 DEF deallocate, reset, Without, Goto
<1>4. \A q \in DOMAIN regions_ : q # p => regions_[q].data # a
  BY Zenon, <1>2 DEF IInv, Registered
<1>5. \A u \in Threads : pc[u] = "emplace" => region[u].data # a
  BY <1>1, <1>2 DEF IInv, Local
<1> HIDE DEF a, p
<1>6. /\ \A u \in Threads : u # t => pc'[u] = pc[u]
      /\ pc'[t] = "idle"
  BY Zenon, <1>3 DEF IInv, Typed
<1>7. Typed' /\ MappingsApart'
  BY ZenonT(30), <1>3 DEF IInv, Typed, MappingsApart
<1>8. Registered'
  BY Zenon, <1>3, <1>4 DEF IInv, Registered, Mapping
<1>9. Local'
  BY <1>1, <1>3, <1>5, <1>6 DEF IInv, Local, Mapping
<1>10. Owned'
  <2> SUFFICES ASSUME NEW b \in DOMAIN mapped'
               PROVE  \/ b + kPayloadOffset \in DOMAIN regions_'
                      \/ \E u \in Threads : pc'[u] = "emplace" /\ region'[u].data = b
    BY Zenon DEF Owned
  <2>1. b \in DOMAIN mapped /\ b # a /\ b \in Nat
    BY Zenon, <1>3, StartNat DEF IInv, Typed
  <2>2. b + kPayloadOffset # p
    BY <1>2, <2>1, LargeAssumption
  <2>3. CASE b + kPayloadOffset \in DOMAIN regions_
    BY Zenon, <1>3, <2>2, <2>3
  <2>4. CASE \E u \in Threads : pc[u] = "emplace" /\ region[u].data = b
    BY Zenon, <1>1, <1>3, <1>6, <2>4
  <2>5. QED
    BY Zenon, <2>1, <2>3, <2>4 DEF IInv, Owned
<1>11. OneHand'
  BY Zenon, <1>1, <1>3, <1>6 DEF IInv, OneHand, p
<1>12. Served' /\ Over'
  BY Zenon, <1>1, <1>3, <1>6 DEF IInv, Served, Over, alive
<1>13. QED
  BY Zenon, <1>7, <1>8, <1>9, <1>10, <1>11, <1>12 DEF IInv

(* The destructor leaves no mapping: all of them are registered when no    *)
(* call is in progress.                                                    *)
LEMMA DestroyInv ==
    ASSUME IInv, destroy
    PROVE  IInv'
<1>1. /\ \A t \in Threads : pc[t] = "idle"
      /\ mapped' = [a \in DOMAIN mapped \ {regions_[p].data : p \in DOMAIN regions_} |-> mapped[a]]
      /\ regions_' = [p \in {} |-> empty]
      /\ pc' = [t \in Threads |-> "gone"]
      /\ UNCHANGED <<region, payload, reserved, owned>>
  BY ZenonT(30) DEF destroy, reset
<1>2. DOMAIN mapped \subseteq {regions_[p].data : p \in DOMAIN regions_}
  <2> SUFFICES ASSUME NEW a \in DOMAIN mapped
               PROVE  \E p \in DOMAIN regions_ : regions_[p].data = a
    OBVIOUS
  <2>1. a + kPayloadOffset \in DOMAIN regions_ /\ a \in Nat
    BY Zenon, <1>1, StartNat DEF IInv, Owned, Typed
  <2>2. regions_[a + kPayloadOffset].data = a
    <3>1. /\ regions_[a + kPayloadOffset].data \in Nat
          /\ a + kPayloadOffset = regions_[a + kPayloadOffset].data + kPayloadOffset
      BY Zenon, <2>1 DEF IInv, Registered, Typed, Region
    <3>2. QED
      BY <2>1, <3>1, LargeAssumption
  <2>3. QED
    BY Zenon, <2>1, <2>2
<1>3. DOMAIN mapped' = {} /\ DOMAIN regions_' = {}
  BY Zenon, <1>1, <1>2
<1>4. Typed'
  BY ZenonT(30), <1>1, <1>3 DEF IInv, Typed
<1>5. QED
  BY Zenon, <1>1, <1>3, <1>4 DEF IInv, MappingsApart, Registered, Local, Owned, OneHand, Served, Over, alive

(* Every step keeps the invariant.                                         *)
LEMMA NextInv == IInv /\ [Next]_vars => IInv'
<1> SUFFICES ASSUME IInv, [Next]_vars PROVE IInv'
  OBVIOUS
<1>1. CASE UNCHANGED vars
  BY <1>1 DEF vars, IInv, Typed, MappingsApart, Registered, Local, Owned, OneHand, Served, Over,
              alive, Mapping
<1>2. CASE \E t \in Threads : step(t)
  BY Zenon, <1>2, AllocateInv, EmplaceInv, ReturnInv, RawDeallocateInv, DeallocateInv DEF step
<1>3. CASE destroy
  BY <1>3, DestroyInv
<1>4. QED
  BY Zenon, <1>1, <1>2, <1>3 DEF Next, Destroyed

(* The inductive invariant of the large tier.                              *)
THEOREM Invariance == Spec => []IInv
BY InitInv, NextInv, PTL DEF Spec

-----------------------------------------------------------------------------
(* TypeOK, of LargeAllocator::payloadCapacity and the state: a capacity    *)
(* less the header is never below zero.                                    *)
THEOREM TypeCorrect == Spec => []TypeOK
<1>1. ASSUME IInv PROVE TypeOK
  <2>1. \A a \in DOMAIN mapped : a \in Nat /\ mapped[a] \in Nat \ {0}
    BY Zenon, <1>1, StartNat, SizeRoom DEF IInv, Typed
  <2>2. \A p \in DOMAIN regions_ : p \in Nat
    BY <1>1, LargeAssumption DEF IInv, Typed, Registered, Region
  <2>3. QED
    BY Zenon, <1>1, <2>1, <2>2 DEF IInv, Typed, TypeOK
<1>2. QED
  BY <1>1, Invariance, PTL

(* MappingsOwned: every mapping has exactly one MappedRegion that owns it, *)
(* in the registry of LargeAllocator or local to its allocate.             *)
THEOREM OwnershipCorrect == Spec => []MappingsOwned
<1>1. ASSUME IInv PROVE MappingsOwned
  <2> DEFINE registered == {regions_[p] : p \in DOMAIN regions_}
             local == {region[t] : t \in {u \in Threads : valid(region[u])}}
             all == {[data |-> a, size |-> mapped[a]] : a \in DOMAIN mapped}
  <2>1. \A t \in Threads : valid(region[t]) <=> pc[t] = "emplace"
    <3> SUFFICES ASSUME NEW t \in Threads PROVE valid(region[t]) <=> pc[t] = "emplace"
      OBVIOUS
    <3>1. CASE pc[t] = "emplace"
      BY <1>1, <3>1, SizeRoom DEF IInv, Local, Mapping, Typed, valid
    <3>2. CASE pc[t] # "emplace"
      BY <1>1, <3>2 DEF IInv, Local, valid, empty
    <3>3. QED
      BY Zenon, <3>1, <3>2
  <2>2. ASSUME NEW r \in Region, Mapping(r) PROVE r \in all
    BY Zenon, <2>2 DEF Mapping, Region
  <2>3. registered \subseteq all /\ local \subseteq all
    BY <1>1, <2>1, <2>2 DEF IInv, Typed, Registered, Local
  <2>4. ASSUME NEW a \in DOMAIN mapped
        PROVE  [data |-> a, size |-> mapped[a]] \in registered \cup local
    <3>1. a \in Nat
      BY Zenon, <1>1, StartNat DEF IInv, Typed
    <3>2. CASE a + kPayloadOffset \in DOMAIN regions_
      <4> DEFINE r == regions_[a + kPayloadOffset]
      <4>1. r \in Region /\ Mapping(r) /\ a + kPayloadOffset = r.data + kPayloadOffset
        BY Zenon, <1>1, <3>2 DEF IInv, Typed, Registered
      <4>2. r.data = a
        BY <3>1, <4>1, LargeAssumption DEF Region
      <4>3. r = [data |-> a, size |-> mapped[a]]
        BY Zenon, <4>1, <4>2 DEF Region, Mapping
      <4>4. QED
        BY Zenon, <3>2, <4>3
    <3>3. CASE \E t \in Threads : pc[t] = "emplace" /\ region[t].data = a
      <4>1. PICK t \in Threads : pc[t] = "emplace" /\ region[t].data = a
        BY Zenon, <3>3
      <4>2. region[t] \in Region /\ Mapping(region[t])
        BY Zenon, <1>1, <4>1 DEF IInv, Typed, Local
      <4>3. region[t] = [data |-> a, size |-> mapped[a]]
        BY Zenon, <4>1, <4>2 DEF Region, Mapping
      <4>4. QED
        BY Zenon, <2>1, <4>1, <4>3
    <3>4. QED
      BY Zenon, <1>1, <3>2, <3>3 DEF IInv, Owned
  <2>5. registered \cap local = {}
    <3> SUFFICES ASSUME NEW p \in DOMAIN regions_, NEW t \in Threads,
                        valid(region[t]), regions_[p] = region[t]
                 PROVE  FALSE
      OBVIOUS
    <3>1. pc[t] = "emplace"
      BY Zenon, <2>1
    <3>2. p = payload[t] /\ payload[t] \notin DOMAIN regions_
      BY Zenon, <1>1, <3>1 DEF IInv, Local, Registered
    <3>3. QED
      BY Zenon, <3>2
  <2>6. \A p \in DOMAIN regions_ : p = regions_[p].data + kPayloadOffset
    BY Zenon, <1>1 DEF IInv, Registered
  <2>7. \A t, u \in Threads : valid(region[t]) /\ region[t] = region[u] => t = u
    BY Zenon, <1>1, <2>1 DEF IInv, Local
  <2>8. all = registered \cup local
    BY Zenon, <2>3, <2>4
  <2>9. QED
    BY Zenon, <2>5, <2>6, <2>7, <2>8 DEF MappingsOwned
<1>2. QED
  BY <1>1, Invariance, PTL

(* OwnedRegistered: a block in a caller's hands, or on its way there or    *)
(* back, is in the registry, and emplace always brings a new key.          *)
THEOREM RegistryCorrect == Spec => []OwnedRegistered
<1>1. ASSUME IInv PROVE OwnedRegistered
  BY Zenon, <1>1 DEF IInv, Served, OneHand, Local, OwnedRegistered
<1>2. QED
  BY <1>1, Invariance, PTL

(* ReservedMatches: a free records what the allocation recorded.           *)
THEOREM ReservedCorrect == Spec => ReservedMatches
<1>1. ASSUME IInv, [Next]_vars
      PROVE  [\A t \in Threads : pc[t] = "idle" /\ pc'[t] = "deallocate"
                 => reserved'[t] = owned[payload'[t]]]_vars
  <2> SUFFICES ASSUME Next, NEW t \in Threads, pc[t] = "idle", pc'[t] = "deallocate"
               PROVE  reserved'[t] = owned[payload'[t]]
    BY Zenon, <1>1
  <2>1. PICK u \in Threads : step(u)
    BY Zenon, <1>1 DEF Next, destroy, Destroyed, vars, IInv, Typed
  <2>2. u = t
    BY Zenon, <1>1, <2>1 DEF IInv, Typed, step, allocate, emplace, returnPayload, rawDeallocate,
                      deallocate, Goto
  <2>3. PICK p \in DOMAIN owned : rawDeallocate(t, p)
    BY Zenon, <1>1, <2>1, <2>2 DEF IInv, Typed, step, allocate, emplace, returnPayload, deallocate, Goto
  <2>4. QED
    BY Zenon, <1>1, <2>3, RawDeallocateInv
<1>2. QED
  BY <1>1, Invariance, PTL DEF Spec, ReservedMatches

-----------------------------------------------------------------------------
Addrs == {page * i + kPayloadOffset : i \in 1 .. Pages}
Extents == {roundToPages(n + kPayloadOffset) - kHeaderSize - kPayloadOffset : n \in Requests}

(* A registered payload is at one of the tier's addresses and has one of   *)
(* its extents.                                                            *)
LEMMA Placed ==
    ASSUME IInv, NEW p \in DOMAIN regions_
    PROVE  /\ p \in Addrs /\ p \in Nat
           /\ payloadCapacity(p) - kHeaderSize \in Extents
<1> DEFINE r == regions_[p]
<1>1. p = r.data + kPayloadOffset /\ r.data \in Starts /\ r.size \in Sizes /\ r.data \in Nat
  BY Zenon, StartNat DEF IInv, Typed, Registered, Mapping
<1>2. p \in Addrs /\ p \in Nat
  BY <1>1, LargeAssumption DEF Addrs, Starts
<1>3. PICK n \in Requests : r.size = roundToPages(n + kPayloadOffset)
  BY Zenon, <1>1 DEF Sizes
<1>4. payloadCapacity(p) - kHeaderSize = r.size - kHeaderSize - kPayloadOffset
  BY <1>1, SizeRoom, LargeAssumption DEF payloadCapacity
<1>5. QED
  BY Zenon, <1>2, <1>3, <1>4 DEF Extents

(* Blocks at different registered payloads do not overlap, because their   *)
(* mappings do not.                                                        *)
LEMMA PayloadsApart ==
    ASSUME IInv, NEW p \in DOMAIN regions_, NEW q \in DOMAIN regions_, p # q
    PROVE  Store!Disjoint(p, payloadCapacity(p) - kHeaderSize, q, payloadCapacity(q) - kHeaderSize)
<1> DEFINE a == regions_[p].data
           b == regions_[q].data
<1>1. p = a + kPayloadOffset /\ a \in DOMAIN mapped /\ mapped[a] = regions_[p].size
  BY Zenon DEF IInv, Registered, Mapping
<1>2. q = b + kPayloadOffset /\ b \in DOMAIN mapped /\ mapped[b] = regions_[q].size
  BY Zenon DEF IInv, Registered, Mapping
<1>3. Apart(a, mapped[a], b, mapped[b])
  BY Zenon, <1>1, <1>2 DEF IInv, MappingsApart
<1>4. a \in Nat /\ b \in Nat /\ mapped[a] \in Nat /\ mapped[b] \in Nat
  BY Zenon, <1>1, <1>2, StartNat, SizeRoom DEF IInv, Typed
<1>5. /\ payloadCapacity(p) - kHeaderSize = mapped[a] - kPayloadOffset - kHeaderSize
      /\ payloadCapacity(q) - kHeaderSize = mapped[b] - kPayloadOffset - kHeaderSize
  BY Zenon, <1>1, <1>2 DEF payloadCapacity
<1> HIDE DEF a, b
<1>6. QED
  BY <1>1, <1>2, <1>3, <1>4, <1>5, LargeAssumption DEF Store!Disjoint, Apart

(* returnPayload is a Grant of the abstract store.                         *)
LEMMA ReturnGrants ==
    ASSUME IInv, NEW t \in Threads, returnPayload(t)
    PROVE  Store!Grant(payload[t], payloadCapacity(payload[t]) - kHeaderSize)
           /\ payload[t] \in DOMAIN regions_
<1> DEFINE p == payload[t]
           n == payloadCapacity(p) - kHeaderSize
<1>1. p \in DOMAIN regions_ /\ p \notin DOMAIN owned /\ alive
  BY Zenon DEF returnPayload, IInv, OneHand, alive
<1>2. owned' = [q \in DOMAIN owned \cup {p} |-> IF q = p THEN n ELSE owned[q]]
  BY Zenon DEF returnPayload, With
<1>3. ASSUME NEW q \in DOMAIN owned PROVE Store!Disjoint(p, n, q, owned[q])
  <2>1. q \in DOMAIN regions_ /\ q # p
    BY Zenon, <1>1 DEF IInv, Served
  <2>2. owned[q] = payloadCapacity(q) - kHeaderSize
    <3>1. /\ owned[q] \in Nat
          /\ owned[q] + kHeaderSize + kPayloadOffset = regions_[q].size
      BY Zenon, <1>1 DEF IInv, Served, Typed
    <3>2. /\ payloadCapacity(q) - kHeaderSize \in Nat
          /\ payloadCapacity(q) - kHeaderSize + kHeaderSize + kPayloadOffset = regions_[q].size
      BY Zenon, <2>1, CapacityNat
    <3>3. QED
      BY <3>1, <3>2, LargeAssumption
  <2>3. QED
    BY Zenon, <1>1, <2>1, <2>2, PayloadsApart
<1>4. QED
  BY Zenon, <1>1, <1>2, <1>3 DEF Store!Grant

(* rawDeallocate is a Return of the abstract store.                        *)
LEMMA RawDeallocateReturns ==
    ASSUME IInv, NEW t \in Threads, NEW p \in DOMAIN owned, rawDeallocate(t, p)
    PROVE  p \in DOMAIN regions_ /\ Store!Return(p)
BY DEF rawDeallocate, IInv, Served, alive, Store!Return, Without

(* StoreSpec: the large tier implements BlockStore.  A caller gets a block *)
(* at the end of rawAllocate and gives it up at the start of               *)
(* rawDeallocate; every other step is a stutter.                           *)
THEOREM ImplementsStore == Spec => StoreSpec
<1>1. Init => Store!Init
  BY Zenon DEF Init, Store!Init
<1>2. IInv /\ [Next]_vars => [Store!Next]_owned
  <2> SUFFICES ASSUME IInv, Next, owned' # owned
               PROVE  \/ \E a \in Addrs, n \in Extents : Store!Grant(a, n)
                      \/ \E a \in Addrs : Store!Return(a)
    BY Zenon DEF Store!Next, Addrs, Extents, vars
  <2>1. PICK t \in Threads : step(t)
    BY Zenon DEF Next, destroy, Destroyed, vars
  <2>2. CASE returnPayload(t)
    BY Zenon, <2>2, ReturnGrants, Placed
  <2>3. CASE \E p \in DOMAIN owned : rawDeallocate(t, p)
    BY <2>3, RawDeallocateReturns, Placed
  <2>4. QED
    BY Zenon, <2>1, <2>2, <2>3 DEF step, allocate, emplace, deallocate
<1>3. QED
  BY <1>1, <1>2, Invariance, PTL DEF Spec, StoreSpec, Store!Spec
=============================================================================
