-------------------------- MODULE StatisticsProofs --------------------------
(***************************************************************************)
(* The properties of StatisticsCollector for any threads, readers, blocks, *)
(* sizes and number of calls.                                              *)
(***************************************************************************)
EXTENDS StatisticsCollector, FiniteSetTheorems, TLAPS

(* What the callers hold adds to a counter, and what the calls of some     *)
(* threads about these blocks do.                                          *)
HeldSum(c, blocks) == Total([b \in blocks |-> Amount(c, b)])
CallSum(c, blockOf, threads) == Total([t \in threads |-> Amount(c, blockOf[t])])

Allocating == In("recordAllocation")
Freeing == In("recordFree")
ToAdd(c) == {t \in Allocating : c \in todo[t]}
ToTake(c) == {t \in Freeing : c \in todo[t]}

(* The calls whose block a live counter has in it, and callers do not.     *)
due(c) == (Allocating \ ToAdd(c)) \cup ToTake(c)

Access == Field \cup {"current", "peak", "exchange"}
toAllocate == {"allocationCount", "allocatedBytes", "current", "peak", "exchange"} \cup Live
toFree == {"freeCount", "freedBytes"} \cup Live

Typed ==
    /\ counter \in [Counter -> Nat] /\ peakUsage \in Nat /\ high \in Nat
    /\ pc \in [Threads \cup Readers -> {"idle", "recordAllocation", "recordFree", "snapshot"}]
    /\ block \in [Threads \cup Readers -> Blocks \cup {none}]
    /\ todo \in [Threads \cup Readers -> SUBSET Access]
    /\ seen \in [Threads \cup Readers -> [Field -> Nat]]
    /\ held \subseteq Blocks /\ quiet \subseteq Threads \cup Readers

(* A block being recorded as allocated is in one call and no caller's      *)
(* hands; the loads and the exchange of updatePeak are in order.           *)
Calling(t) ==
    /\ pc[t] = "idle" => todo[t] = {}
    /\ pc[t] = "snapshot" => todo[t] \subseteq Field
    /\ pc[t] = "recordFree" => t \in Threads /\ block[t] \in Blocks /\ todo[t] \subseteq toFree
    /\ pc[t] = "recordAllocation" =>
          /\ t \in Threads /\ block[t] \in Blocks \ held /\ todo[t] \subseteq toAllocate
          /\ "liveRequested" \in todo[t] => "current" \in todo[t]
          /\ "current" \in todo[t] => "exchange" \in todo[t]
Calls ==
    /\ \A t \in Threads \cup Readers : Calling(t)
    /\ \A t, u \in Allocating : block[t] = block[u] => t = u

Exact(c) == counter[c] = HeldSum(c, held) + CallSum(c, block, due(c))

(* The total a of allocations less the total f of frees is what is live,   *)
(* but for whole turns of the counters and the calls in progress.          *)
Balanced(a, f, c) ==
    \E turns \in Int :
        counter[a] + CallSum(c, block, ToAdd(a))
            = counter[f] + CallSum(c, block, ToTake(f))
              + HeldSum(c, held) + CallSum(c, block, Allocating) + turns * Modulus

Sums ==
    /\ \A c \in Live : Exact(c)
    /\ Balanced("allocationCount", "freeCount", "activeAllocations")
    /\ Balanced("allocatedBytes", "freedBytes", "liveRequested")

(* An allocation that has added and not loaded yet, or has loaded as much  *)
(* as is live and not exchanged yet, will raise a peak that is too low.    *)
WillRaise(t) ==
    /\ pc[t] = "recordAllocation" /\ "exchange" \in todo[t] /\ "liveRequested" \notin todo[t]
    /\ "current" \in todo[t] \/ counter["liveRequested"] <= seen[t]["liveRequested"]
Peaks ==
    /\ counter["liveRequested"] <= high /\ peakUsage <= high
    /\ \A t \in Threads \cup Readers :
          seen[t]["liveRequested"] <= high /\ seen[t]["peakUsage"] <= peakUsage
    /\ counter["liveRequested"] <= peakUsage \/ \E t \in Threads \cup Readers : WillRaise(t)

value(f) == IF f = "peakUsage" THEN peakUsage ELSE counter[f]
Undisturbed ==
    /\ quiet # {} => Allocating \cup Freeing = {}
    /\ \A t \in quiet : pc[t] = "snapshot" /\ \A f \in Field \ todo[t] : seen[t][f] = value(f)

IInv == Typed /\ Calls /\ Sums /\ Peaks /\ Undisturbed

-----------------------------------------------------------------------------
(* Sums                                                                    *)

(* A sum of naturals over a finite domain is a natural.                    *)
LEMMA TotalType ==
    ASSUME NEW f, IsFiniteSet(DOMAIN f), \A x \in DOMAIN f : f[x] \in Nat
    PROVE  IsFiniteSet(Units(f)) /\ Total(f) \in Nat
<1> DEFINE row == [x \in DOMAIN f |-> {x} \X (1 .. f[x])]
           rows == {{x} \X (1 .. f[x]) : x \in DOMAIN f}
<1>1. row \in Surjection(DOMAIN f, rows)
  BY Zenon DEF Surjection
<1>2. IsFiniteSet(rows)
  <2> HIDE DEF row, rows
  <2>1. QED
    BY <1>1, FS_Surjection
<1>3. ASSUME NEW r \in rows PROVE IsFiniteSet(r)
  <2>1. PICK x \in DOMAIN f : r = {x} \X (1 .. f[x])
    OBVIOUS
  <2>2. IsFiniteSet({x})
    BY Zenon, FS_Singleton
  <2>3. 1 \in Int /\ f[x] \in Int
    OBVIOUS
  <2>4. IsFiniteSet(1 .. f[x])
    BY Zenon, <2>3, FS_Interval
  <2>5. QED
    BY Zenon, <2>1, <2>2, <2>4, FS_Product
<1>4. Units(f) = UNION rows
  BY Zenon DEF Units
<1>5. IsFiniteSet(Units(f))
  <2> HIDE DEF rows
  <2>1. QED
    BY <1>2, <1>3, <1>4, FS_UNION
<1>6. QED
  BY Zenon, <1>5, FS_CardinalityType DEF Total

(* One more element adds its amount.                                       *)
LEMMA TotalAdd ==
    ASSUME NEW f, IsFiniteSet(DOMAIN f), \A y \in DOMAIN f : f[y] \in Nat,
           NEW g, NEW x, x \notin DOMAIN f, DOMAIN g = DOMAIN f \cup {x},
           g[x] \in Nat, \A y \in DOMAIN f : g[y] = f[y]
    PROVE  Total(g) = Total(f) + g[x]
<1> DEFINE r == {x} \X (1 .. g[x])
<1>1. Units(g) = Units(f) \cup r /\ Units(f) \cap r = {}
  BY DEF Units
<1>2. IsFiniteSet({x}) /\ Cardinality({x}) = 1
  BY Zenon, FS_Singleton
<1>3. IsFiniteSet(1 .. g[x]) /\ Cardinality(1 .. g[x]) = g[x]
  BY FS_Interval
<1>4. IsFiniteSet(r) /\ Cardinality(r) = g[x]
  <2>1. IsFiniteSet(r) /\ Cardinality(r) = Cardinality({x}) * Cardinality(1 .. g[x])
    BY Zenon, <1>2, <1>3, FS_Product
  <2>2. QED
    BY <1>2, <1>3, <2>1
<1>5. IsFiniteSet(Units(f)) /\ Total(f) \in Nat
  BY Zenon, TotalType
<1> HIDE DEF r
<1>6. Cardinality(Units(g)) = Cardinality(Units(f)) + Cardinality(r) - Cardinality({})
  <2>1. Cardinality(Units(f) \cup r) = Cardinality(Units(f)) + Cardinality(r) - Cardinality(Units(f) \cap r)
    BY Zenon, <1>4, <1>5, FS_Union
  <2>2. QED
    BY Zenon, <1>1, <2>1
<1>7. QED
  BY <1>4, <1>5, <1>6, FS_EmptySet DEF Total

(* Equal functions have equal sums.                                        *)
LEMMA TotalSame ==
    ASSUME NEW f, NEW g, DOMAIN f = DOMAIN g, \A x \in DOMAIN f : f[x] = g[x]
    PROVE  Total(f) = Total(g)
BY DEF Total, Units

(* A sum over less is no more.                                             *)
LEMMA TotalLess ==
    ASSUME NEW f, NEW g, IsFiniteSet(DOMAIN g), \A x \in DOMAIN g : g[x] \in Nat,
           DOMAIN f \subseteq DOMAIN g, \A x \in DOMAIN f : f[x] \in Nat /\ f[x] <= g[x]
    PROVE  Total(f) \in Nat /\ Total(f) <= Total(g)
<1>1. Units(f) \subseteq Units(g)
  BY DEF Units
<1>2. IsFiniteSet(Units(g)) /\ Total(g) \in Nat
  BY Zenon, TotalType
<1>3. IsFiniteSet(Units(f)) /\ Cardinality(Units(f)) <= Cardinality(Units(g))
  BY <1>1, <1>2, FS_Subset
<1>4. QED
  BY Zenon, <1>3, FS_CardinalityType DEF Total

(* A sum is no more than the greatest amount for each element.             *)
LEMMA TotalMost ==
    ASSUME NEW f, IsFiniteSet(DOMAIN f), NEW k \in Nat, \A x \in DOMAIN f : f[x] \in Nat /\ f[x] <= k
    PROVE  Total(f) \in Nat /\ Total(f) <= Cardinality(DOMAIN f) * k
<1> DEFINE D == DOMAIN f
           K == 1 .. k
<1>1. Units(f) \subseteq D \X K
  <2> SUFFICES ASSUME NEW x \in D, NEW i \in 1 .. f[x] PROVE i \in K
    BY DEF Units
  <2>1. QED
    OBVIOUS
<1>2. IsFiniteSet(D) /\ IsFiniteSet(K) /\ Cardinality(K) = k
  BY FS_Interval
<1>3. IsFiniteSet(D \X K) /\ Cardinality(D \X K) = Cardinality(D) * Cardinality(K)
  <2> HIDE DEF D, K
  <2>1. QED
    BY <1>2, FS_Product
<1>4. Cardinality(Units(f)) <= Cardinality(D \X K)
  <2> HIDE DEF D, K
  <2>1. QED
    BY <1>1, <1>3, FS_Subset
<1>5. Total(f) \in Nat
  BY Zenon, TotalType
<1>6. QED
  BY Zenon, <1>2, <1>3, <1>4, <1>5 DEF Total

(* The sum of ones counts.                                                 *)
LEMMA TotalOnes ==
    ASSUME NEW f, IsFiniteSet(DOMAIN f), \A x \in DOMAIN f : f[x] = 1
    PROVE  Total(f) = Cardinality(DOMAIN f)
<1> DEFINE D == DOMAIN f
           K == {1}
<1>1. Units(f) = D \X K
  <2>1. \A x \in D : 1 .. f[x] = K
    OBVIOUS
  <2>2. Units(f) = UNION {{x} \X K : x \in D}
    BY <2>1 DEF Units
  <2>3. QED
    BY <2>2
<1>2. Cardinality(D) \in Nat /\ IsFiniteSet(K) /\ Cardinality(K) = 1
  BY Zenon, FS_CardinalityType, FS_Singleton
<1>3. Cardinality(D \X K) = Cardinality(D) * Cardinality(K)
  <2>1. IsFiniteSet(D)
    OBVIOUS
  <2> HIDE DEF D, K
  <2>2. QED
    BY <1>2, <2>1, FS_Product
<1> HIDE DEF D, K
<1>4. QED
  BY <1>1, <1>2, <1>3 DEF Total, D

-----------------------------------------------------------------------------
(* What is live                                                            *)

(* What a call adds to a counter is a natural.                             *)
LEMMA AmountType ==
    ASSUME NEW c \in Counter, NEW b \in Blocks
    PROVE  Amount(c, b) \in Nat
BY SizeAssumption DEF Amount, Counter

(* One more call.                                                          *)
LEMMA CallSumAdd ==
    ASSUME NEW c \in Counter, NEW blockOf, NEW S, IsFiniteSet(S), NEW t, t \notin S,
           \A u \in S : blockOf[u] \in Blocks, blockOf[t] \in Blocks
    PROVE  CallSum(c, blockOf, S \cup {t}) = CallSum(c, blockOf, S) + Amount(c, blockOf[t])
<1> DEFINE f == [u \in S |-> Amount(c, blockOf[u])]
           g == [u \in S \cup {t} |-> Amount(c, blockOf[u])]
<1>1. \A u \in S \cup {t} : Amount(c, blockOf[u]) \in Nat
  BY Zenon, AmountType
<1>2. /\ DOMAIN f = S /\ DOMAIN g = DOMAIN f \cup {t} /\ g[t] = Amount(c, blockOf[t])
      /\ \A u \in DOMAIN f : f[u] \in Nat /\ g[u] = f[u]
  BY Zenon, <1>1
<1>3. g[t] \in Nat
  BY Zenon, <1>1, <1>2
<1>4. CallSum(c, blockOf, S \cup {t}) = Total(g) /\ CallSum(c, blockOf, S) = Total(f)
  BY Zenon DEF CallSum
<1> HIDE DEF f, g
<1>5. Total(g) = Total(f) + g[t]
  BY ZenonT(30), <1>2, <1>3, TotalAdd
<1>6. QED
  BY Zenon, <1>2, <1>4, <1>5

(* One call less.                                                          *)
LEMMA CallSumRemove ==
    ASSUME NEW c \in Counter, NEW blockOf, NEW S, IsFiniteSet(S), NEW t \in S,
           \A u \in S : blockOf[u] \in Blocks
    PROVE  CallSum(c, blockOf, S) = CallSum(c, blockOf, S \ {t}) + Amount(c, blockOf[t])
<1> DEFINE R == S \ {t}
<1>1. IsFiniteSet(R)
  BY FS_RemoveElement
<1>2. R \cup {t} = S
  OBVIOUS
<1>3. t \notin R
  OBVIOUS
<1> HIDE DEF R
<1>4. (\A u \in R : blockOf[u] \in Blocks) /\ blockOf[t] \in Blocks
  BY Zenon, <1>2
<1>5. CallSum(c, blockOf, R \cup {t}) = CallSum(c, blockOf, R) + Amount(c, blockOf[t])
  BY <1>1, <1>3, <1>4, CallSumAdd
<1>6. QED
  BY Zenon, <1>2, <1>5 DEF R

(* The same calls about the same blocks.                                   *)
LEMMA CallSumSame ==
    ASSUME NEW c, NEW old, NEW new, NEW S, \A u \in S : old[u] = new[u]
    PROVE  CallSum(c, old, S) = CallSum(c, new, S)
<1> DEFINE f == [u \in S |-> Amount(c, old[u])]
           g == [u \in S |-> Amount(c, new[u])]
<1>1. DOMAIN f = DOMAIN g /\ \A u \in DOMAIN f : f[u] = g[u]
  OBVIOUS
<1>2. CallSum(c, old, S) = Total(f) /\ CallSum(c, new, S) = Total(g)
  BY Zenon DEF CallSum
<1> HIDE DEF f, g
<1>3. QED
  BY Zenon, <1>1, <1>2, TotalSame

(* One more block in a caller's hands.                                     *)
LEMMA HeldSumAdd ==
    ASSUME NEW c \in Counter, NEW H \in SUBSET Blocks, NEW b \in Blocks, b \notin H
    PROVE  HeldSum(c, H \cup {b}) = HeldSum(c, H) + Amount(c, b)
<1> DEFINE f == [x \in H |-> Amount(c, x)]
           g == [x \in H \cup {b} |-> Amount(c, x)]
<1>1. \A x \in H \cup {b} : Amount(c, x) \in Nat
  BY Zenon, AmountType
<1>2. /\ DOMAIN f = H /\ DOMAIN g = DOMAIN f \cup {b} /\ g[b] = Amount(c, b)
      /\ \A x \in DOMAIN f : f[x] \in Nat /\ g[x] = f[x]
  BY Zenon, <1>1
<1>3. g[b] \in Nat /\ IsFiniteSet(H)
  BY <1>1, <1>2, SizeAssumption, FS_Subset
<1>4. HeldSum(c, H \cup {b}) = Total(g) /\ HeldSum(c, H) = Total(f)
  BY Zenon DEF HeldSum
<1> HIDE DEF f, g
<1>5. Total(g) = Total(f) + g[b]
  BY ZenonT(60), <1>2, <1>3, TotalAdd
<1>6. QED
  BY Zenon, <1>2, <1>4, <1>5

(* One block less.                                                         *)
LEMMA HeldSumRemove ==
    ASSUME NEW c \in Counter, NEW H \in SUBSET Blocks, NEW b \in H
    PROVE  HeldSum(c, H) = HeldSum(c, H \ {b}) + Amount(c, b)
<1> DEFINE R == H \ {b}
<1>1. R \in SUBSET Blocks /\ b \in Blocks /\ b \notin R /\ R \cup {b} = H
  OBVIOUS
<1> HIDE DEF R
<1>2. HeldSum(c, R \cup {b}) = HeldSum(c, R) + Amount(c, b)
  BY Zenon, <1>1, HeldSumAdd
<1>3. QED
  BY Zenon, <1>1, <1>2 DEF R

(* The sums are naturals.                                                  *)
LEMMA SumTypes ==
    ASSUME NEW c \in Counter, NEW H \in SUBSET Blocks, NEW S \in SUBSET Threads,
           NEW blockOf, \A u \in S : blockOf[u] \in Blocks
    PROVE  IsFiniteSet(H) /\ IsFiniteSet(S) /\ HeldSum(c, H) \in Nat /\ CallSum(c, blockOf, S) \in Nat
<1>1. IsFiniteSet(H) /\ IsFiniteSet(S)
  BY SizeAssumption, FS_Subset
<1> DEFINE f == [b \in H |-> Amount(c, b)]
           g == [u \in S |-> Amount(c, blockOf[u])]
<1>2. /\ IsFiniteSet(DOMAIN f) /\ \A b \in DOMAIN f : f[b] \in Nat
      /\ IsFiniteSet(DOMAIN g) /\ \A u \in DOMAIN g : g[u] \in Nat
  BY Zenon, <1>1, AmountType
<1>3. HeldSum(c, H) = Total(f) /\ CallSum(c, blockOf, S) = Total(g)
  BY Zenon DEF HeldSum, CallSum
<1> HIDE DEF f, g
<1>4. QED
  BY Zenon, <1>1, <1>2, <1>3, TotalType

(* A live counter has room for all that can be live.                       *)
LEMMA LiveBound ==
    ASSUME NEW c \in Live, NEW H \in SUBSET Blocks, NEW S \in SUBSET Threads,
           NEW blockOf, \A u \in S : blockOf[u] \in Blocks
    PROVE  HeldSum(c, H) + CallSum(c, blockOf, S) < Modulus
<1> DEFINE f == [b \in H |-> Amount(c, b)]
           g == [u \in S |-> Amount(c, blockOf[u])]
<1>1. c \in Counter
  BY DEF Live, Counter
<1>2. /\ IsFiniteSet(Threads) /\ IsFiniteSet(Blocks) /\ Modulus \in Nat
      /\ Cardinality(Threads) \in Nat /\ Cardinality(Blocks) \in Nat
  BY SizeAssumption, FS_CardinalityType
<1>3. /\ IsFiniteSet(H) /\ IsFiniteSet(S) /\ HeldSum(c, H) \in Nat /\ CallSum(c, blockOf, S) \in Nat
  BY Zenon, <1>1, SumTypes
<1>4. /\ Cardinality(H) \in Nat /\ Cardinality(H) <= Cardinality(Blocks)
      /\ Cardinality(S) \in Nat /\ Cardinality(S) <= Cardinality(Threads)
  BY <1>2, <1>3, FS_Subset, FS_CardinalityType
<1>5. HeldSum(c, H) = Total(f) /\ CallSum(c, blockOf, S) = Total(g)
  BY Zenon DEF HeldSum, CallSum
<1>6. DOMAIN f = H /\ DOMAIN g = S
  OBVIOUS
<1>7. CASE c = "activeAllocations"
  <2>1. (\A b \in DOMAIN f : f[b] = 1) /\ (\A u \in DOMAIN g : g[u] = 1)
    BY <1>7 DEF Amount
  <2> HIDE DEF f, g
  <2>2. Total(f) = Cardinality(H) /\ Total(g) = Cardinality(S)
    BY <1>3, <1>6, <2>1, TotalOnes
  <2>3. QED
    BY SMTT(30), <1>2, <1>4, <1>5, <2>2, SizeAssumption
<1>8. CASE c # "activeAllocations"
  <2>1. \A b \in Blocks : Amount(c, b) \in Nat /\ reserved[b] \in Nat /\ Amount(c, b) <= reserved[b]
    BY <1>8, SizeAssumption DEF Amount, Live
  <2>2. DOMAIN reserved = Blocks /\ Total(reserved) \in Nat
    <3>1. DOMAIN reserved = Blocks
      BY SizeAssumption
    <3>2. QED
      BY Zenon, <1>2, <2>1, <3>1, TotalType
  <2>3. \A b \in Blocks : Amount(c, b) <= Total(reserved)
    <3> SUFFICES ASSUME NEW b \in Blocks PROVE Amount(c, b) <= Total(reserved)
      OBVIOUS
    <3> DEFINE h == [x \in {b} |-> reserved[b]]
               e == [x \in {} |-> 0]
    <3>1. DOMAIN h \subseteq DOMAIN reserved /\ \A x \in DOMAIN h : h[x] \in Nat /\ h[x] <= reserved[x]
      BY <2>1, <2>2
    <3>2. /\ DOMAIN e = {} /\ b \notin DOMAIN e /\ DOMAIN h = DOMAIN e \cup {b} /\ h[b] = reserved[b]
          /\ IsFiniteSet(DOMAIN e)
      BY FS_EmptySet
    <3> HIDE DEF h, e
    <3>3. Total(h) \in Nat /\ Total(h) <= Total(reserved)
      BY Zenon, <1>2, <2>1, <2>2, <3>1, TotalLess
    <3>4. Total(h) = Total(e) + h[b]
      BY ZenonT(30), <2>1, <3>2, TotalAdd
    <3>5. Total(e) \in Nat
      BY Zenon, <3>2, TotalType
    <3>6. QED
      BY SMTT(30), <2>1, <2>2, <3>2, <3>3, <3>4, <3>5
  <2>4. Total(f) <= Total(reserved)
    <3>1. DOMAIN f \subseteq DOMAIN reserved /\ \A b \in DOMAIN f : f[b] \in Nat /\ f[b] <= reserved[b]
      BY Zenon, <2>1, <2>2
    <3> HIDE DEF f
    <3>2. QED
      BY Zenon, <1>2, <2>1, <2>2, <3>1, TotalLess
  <2>5. Total(g) <= Cardinality(S) * Total(reserved)
    <3>1. \A u \in DOMAIN g : g[u] \in Nat /\ g[u] <= Total(reserved)
      BY Zenon, <2>1, <2>3
    <3> HIDE DEF g
    <3>2. QED
      BY Zenon, <1>3, <1>6, <2>2, <3>1, TotalMost
  <2> HIDE DEF f, g
  <2>6. Cardinality(S) * Total(reserved) <= Cardinality(Threads) * Total(reserved)
    BY <1>2, <1>4, <2>2
  <2>7. Total(f) \in Nat /\ Total(g) \in Nat /\ (Cardinality(Threads) + 1) * Total(reserved) < Modulus
    BY Zenon, <1>3, <1>5, SizeAssumption
  <2>8. (Cardinality(Threads) + 1) * Total(reserved) = Cardinality(Threads) * Total(reserved) + Total(reserved)
    BY <1>2, <2>2
  <2>9. Cardinality(S) * Total(reserved) \in Nat /\ Cardinality(Threads) * Total(reserved) \in Nat
    BY SMTT(30), <1>2, <1>4, <2>2
  <2>10. Total(f) + Total(g) < Modulus
    BY SMTT(30), <1>2, <2>2, <2>4, <2>5, <2>6, <2>7, <2>8, <2>9
  <2>11. QED
    BY Zenon, <1>5, <2>10
<1>9. QED
  BY Zenon, <1>7, <1>8

-----------------------------------------------------------------------------
(* Steps that change no sum                                                *)

(* What the invariant says of the threads in a call.                       *)
LEMMA CallFacts ==
    ASSUME Typed, Calls
    PROVE  /\ Allocating \subseteq Threads /\ Freeing \subseteq Threads /\ Allocating \cap Freeing = {}
           /\ \A t \in Allocating \cup Freeing : block[t] \in Blocks
           /\ \A c : due(c) \subseteq Allocating \cup Freeing /\ ToAdd(c) \subseteq Allocating /\ ToTake(c) \subseteq Freeing
           /\ \A c : due(c) \subseteq Threads /\ ToAdd(c) \subseteq Threads /\ ToTake(c) \subseteq Threads
<1>1. \A t \in Allocating : t \in Threads /\ block[t] \in Blocks /\ pc[t] = "recordAllocation"
  BY Zenon DEF Calls, Calling, Allocating, In
<1>2. \A t \in Freeing : t \in Threads /\ block[t] \in Blocks /\ pc[t] = "recordFree"
  BY Zenon DEF Calls, Calling, Freeing, In
<1>3. \A c : due(c) \subseteq Allocating \cup Freeing /\ ToAdd(c) \subseteq Allocating /\ ToTake(c) \subseteq Freeing
  BY DEF due, ToAdd, ToTake
<1>4. Allocating \cap Freeing = {}
  BY <1>1, <1>2
<1>5. QED
  BY <1>1, <1>2, <1>3, <1>4

(* A step after which the same calls have the same additions to make, to   *)
(* the same counters, about the same blocks.                               *)
LEMMA SumsFrame ==
    ASSUME Sums, counter' = counter, held' = held, Allocating' = Allocating,
           \A c \in Counter : ToAdd(c)' = ToAdd(c) /\ ToTake(c)' = ToTake(c),
           \A u \in Allocating : block'[u] = block[u],
           \A c \in Counter : \A u \in ToTake(c) : block'[u] = block[u]
    PROVE  Sums'
<1>1. ASSUME NEW c \in Counter, NEW d, NEW S, S \subseteq Allocating \cup ToTake(c)
      PROVE  CallSum(d, block', S) = CallSum(d, block, S)
  <2>1. \A u \in S : block'[u] = block[u]
    BY Zenon, <1>1
  <2>2. QED
    BY ZenonT(30), <2>1, CallSumSame
<1>2. \A c : due(c) \subseteq Allocating \cup ToTake(c) /\ ToAdd(c) \subseteq Allocating
  BY DEF due, ToAdd
<1>3. ASSUME NEW c \in Live PROVE Exact(c)'
  <2>1. c \in Counter
    BY DEF Live, Counter
  <2>2. due(c)' = due(c)
    BY Zenon, <2>1 DEF due
  <2>3. CallSum(c, block', due(c)) = CallSum(c, block, due(c))
    BY Zenon, <1>1, <1>2, <2>1
  <2>4. QED
    BY Zenon, <1>3, <2>2, <2>3 DEF Exact, Sums
<1>4. ASSUME NEW a \in Counter, NEW f \in Counter, NEW c \in Counter, Balanced(a, f, c)
      PROVE  Balanced(a, f, c)'
  <2>1. /\ \A u \in ToAdd(a) : block[u] = block'[u]
        /\ \A u \in ToTake(f) : block[u] = block'[u]
        /\ \A u \in Allocating : block[u] = block'[u]
    BY Zenon, <1>2
  <2>2. /\ CallSum(c, block', ToAdd(a)) = CallSum(c, block, ToAdd(a))
        /\ CallSum(c, block', ToTake(f)) = CallSum(c, block, ToTake(f))
        /\ CallSum(c, block', Allocating) = CallSum(c, block, Allocating)
    <3>1. CallSum(c, block, ToAdd(a)) = CallSum(c, block', ToAdd(a))
      <4>1. \A u \in ToAdd(a) : block[u] = block'[u]
        BY Zenon, <2>1
      <4>2. QED
        BY <4>1, CallSumSame
    <3>2. CallSum(c, block, ToTake(f)) = CallSum(c, block', ToTake(f))
      BY ZenonT(60), <2>1, CallSumSame
    <3>3. CallSum(c, block, Allocating) = CallSum(c, block', Allocating)
      BY ZenonT(30), <2>1, CallSumSame
    <3>4. QED
      BY Zenon, <3>1, <3>2, <3>3
  <2>3. ToAdd(a)' = ToAdd(a) /\ ToTake(f)' = ToTake(f)
    BY Zenon
  <2>4. QED
    BY Zenon, <1>4, <2>2, <2>3 DEF Balanced
<1>5. {"allocationCount", "freeCount", "activeAllocations", "allocatedBytes", "freedBytes", "liveRequested"} \subseteq Counter
  BY DEF Counter
<1>6. QED
  BY Zenon, <1>3, <1>4, <1>5 DEF Sums

(* An access that is not to a counter, or is a snapshot's.                 *)
LEMMA DoneFrame ==
    ASSUME Typed, NEW t \in Threads \cup Readers, NEW x, UNCHANGED pc,
           todo' = [todo EXCEPT ![t] = @ \ {x}] \/ todo' = todo,
           x \notin Counter \/ pc[t] = "snapshot"
    PROVE  /\ Allocating' = Allocating /\ Freeing' = Freeing
           /\ \A c \in Counter : ToAdd(c)' = ToAdd(c) /\ ToTake(c)' = ToTake(c)
<1>1. Allocating' = Allocating /\ Freeing' = Freeing
  BY Zenon DEF Allocating, Freeing, In
<1>2. \A u \in Allocating \cup Freeing : u \in Threads \cup Readers /\ pc[u] # "snapshot"
  BY DEF Allocating, Freeing, In
<1>3. ASSUME NEW c \in Counter, NEW u \in Allocating \cup Freeing
      PROVE  c \in todo'[u] <=> c \in todo[u]
  <2>1. u # t => todo'[u] = todo[u]
    BY Zenon, <1>2 DEF Typed
  <2>2. todo'[t] = todo[t] \ {x} \/ todo'[t] = todo[t]
    BY Zenon DEF Typed
  <2>3. u = t => c # x
    BY Zenon, <1>2
  <2>4. QED
    BY <2>1, <2>2, <2>3
<1>4. QED
  BY Zenon, <1>1, <1>3 DEF ToAdd, ToTake

(* Peaks, when what is live and the threads' progress are as before.       *)
LEMMA PeaksFrame ==
    ASSUME Peaks, counter' = counter, peakUsage' = peakUsage, high' = high, seen' = seen,
           \A u \in Threads \cup Readers : WillRaise(u) => WillRaise(u)'
    PROVE  Peaks'
BY Zenon DEF Peaks

(* The load of what is live, for updatePeak.                               *)
LEMMA LoadCurrentInv ==
    ASSUME IInv, NEW t \in Threads \cup Readers, loadCurrent(t)
    PROVE  IInv'
<1>1. /\ "current" \in todo[t] /\ "liveRequested" \notin todo[t]
      /\ seen' = [seen EXCEPT ![t]["liveRequested"] = counter["liveRequested"]]
      /\ todo' = [todo EXCEPT ![t] = @ \ {"current"}]
      /\ counter' = counter /\ peakUsage' = peakUsage /\ pc' = pc /\ block' = block
      /\ held' = held /\ high' = high /\ quiet' = quiet
  BY Zenon DEF loadCurrent, Done
<1>2. Typed /\ Calls /\ Sums /\ Peaks /\ Undisturbed
  BY Zenon DEF IInv
<1>3. pc[t] = "recordAllocation" /\ "exchange" \in todo[t]
  BY SMTT(30), <1>1, <1>2 DEF Typed, Calls, Calling, toFree, Live, Field, Counter
<1>4. /\ \A u \in Threads \cup Readers : u # t => todo'[u] = todo[u] /\ seen'[u] = seen[u]
      /\ todo'[t] = todo[t] \ {"current"}
      /\ seen'[t]["liveRequested"] = counter["liveRequested"] /\ seen'[t]["peakUsage"] = seen[t]["peakUsage"]
  BY <1>1, <1>2 DEF Typed, Field, Counter
<1>5. Typed'
  BY <1>1, <1>2 DEF Typed, Field, Counter
<1>6. /\ Allocating' = Allocating /\ Freeing' = Freeing
      /\ \A c \in Counter : ToAdd(c)' = ToAdd(c) /\ ToTake(c)' = ToTake(c)
  <2>1. "current" \notin Counter
    BY DEF Counter
  <2>2. QED
    BY Zenon, <1>1, <1>2, <2>1, DoneFrame
<1>7. Sums'
  BY Zenon, <1>1, <1>2, <1>6, SumsFrame
<1>8. Calls'
  <2>1. ASSUME NEW u \in Threads \cup Readers PROVE Calling(u)'
    <3>1. Calling(u) /\ Calling(t)
      BY Zenon, <1>2 DEF Calls
    <3>2. CASE u # t
      BY ZenonT(30), <1>1, <1>4, <3>1, <3>2 DEF Calling
    <3>3. CASE u = t
      BY SMTT(30), <1>1, <1>3, <1>4, <3>1, <3>3 DEF Calling
    <3>4. QED
      BY Zenon, <3>2, <3>3
  <2>2. QED
    BY Zenon, <1>1, <1>2, <1>6, <2>1 DEF Calls
<1>9. WillRaise(t)'
  <2>1. "exchange" \in todo'[t] /\ "liveRequested" \notin todo'[t]
    BY SMTT(30), <1>1, <1>3, <1>4
  <2>2. counter'["liveRequested"] <= seen'[t]["liveRequested"]
    BY <1>1, <1>2, <1>4 DEF Typed, Counter
  <2>3. QED
    BY Zenon, <1>1, <1>3, <2>1, <2>2 DEF WillRaise
<1>10. Peaks'
  <2>1. \A u \in Threads \cup Readers : seen'[u]["liveRequested"] <= high /\ seen'[u]["peakUsage"] <= peakUsage
    BY Zenon, <1>2, <1>4 DEF Peaks
  <2>2. QED
    BY Zenon, <1>1, <1>2, <1>9, <2>1 DEF Peaks
<1>11. Undisturbed'
  <2>1. quiet = {}
    <3>1. t \in Allocating
      BY SMTT(30), <1>3 DEF Allocating, In
    <3>2. QED
      BY SMTT(30), <1>2, <3>1 DEF Undisturbed
  <2>2. QED
    BY <1>1, <2>1 DEF Undisturbed
<1>12. QED
  BY Zenon, <1>5, <1>7, <1>8, <1>10, <1>11 DEF IInv

(* The load of the peak, for updatePeak.                                   *)
LEMMA LoadPeakInv ==
    ASSUME IInv, NEW t \in Threads \cup Readers, loadPeak(t)
    PROVE  IInv'
<1>1. /\ "peak" \in todo[t]
      /\ seen' = [seen EXCEPT ![t]["peakUsage"] = peakUsage]
      /\ todo' = [todo EXCEPT ![t] = @ \ {"peak"}]
      /\ counter' = counter /\ peakUsage' = peakUsage /\ pc' = pc /\ block' = block
      /\ held' = held /\ high' = high /\ quiet' = quiet
  BY Zenon DEF loadPeak, Done
<1>2. Typed /\ Calls /\ Sums /\ Peaks /\ Undisturbed
  BY Zenon DEF IInv
<1>3. pc[t] = "recordAllocation"
  BY ZenonT(30), <1>1, <1>2 DEF Typed, Calls, Calling, toFree, Live, Field, Counter
<1>4. /\ \A u \in Threads \cup Readers : u # t => todo'[u] = todo[u] /\ seen'[u] = seen[u]
      /\ todo'[t] = todo[t] \ {"peak"}
      /\ seen'[t]["liveRequested"] = seen[t]["liveRequested"] /\ seen'[t]["peakUsage"] = peakUsage
  BY <1>1, <1>2 DEF Typed, Field, Counter
<1>5. Typed'
  BY <1>1, <1>2 DEF Typed, Field, Counter
<1>6. /\ Allocating' = Allocating /\ Freeing' = Freeing
      /\ \A c \in Counter : ToAdd(c)' = ToAdd(c) /\ ToTake(c)' = ToTake(c)
  <2>1. "peak" \notin Counter
    BY DEF Counter
  <2>2. QED
    BY Zenon, <1>1, <1>2, <2>1, DoneFrame
<1>7. Sums'
  BY Zenon, <1>1, <1>2, <1>6, SumsFrame
<1>8. Calls'
  <2>1. ASSUME NEW u \in Threads \cup Readers PROVE Calling(u)'
    <3>1. Calling(u) /\ Calling(t)
      BY Zenon, <1>2 DEF Calls
    <3>2. CASE u # t
      BY Zenon, <1>1, <1>4, <3>1, <3>2 DEF Calling
    <3>3. CASE u = t
      BY <1>1, <1>3, <1>4, <3>1, <3>3 DEF Calling
    <3>4. QED
      BY Zenon, <3>2, <3>3
  <2>2. QED
    BY ZenonT(30), <1>1, <1>2, <1>6, <2>1 DEF Calls
<1>9. Peaks'
  <2>1. \A u \in Threads \cup Readers : seen'[u]["liveRequested"] <= high /\ seen'[u]["peakUsage"] <= peakUsage
    <3>1. peakUsage <= peakUsage
      BY <1>2 DEF Typed
    <3>2. QED
      BY Zenon, <1>2, <1>4, <3>1 DEF Peaks
  <2>2. ASSUME NEW u \in Threads \cup Readers, WillRaise(u) PROVE WillRaise(u)'
    <3>1. \A x : x # "peak" => (x \in todo'[u] <=> x \in todo[u])
      BY <1>4
    <3>2. seen'[u]["liveRequested"] = seen[u]["liveRequested"]
      BY Zenon, <1>4
    <3>3. QED
      BY <1>1, <2>2, <3>1, <3>2 DEF WillRaise
  <2>3. QED
    BY Zenon, <1>1, <1>2, <2>1, <2>2 DEF Peaks
<1>10. Undisturbed'
  <2>1. quiet = {}
    <3>1. t \in Allocating
      BY SMTT(30), <1>3 DEF Allocating, In
    <3>2. QED
      BY <1>2, <3>1 DEF Undisturbed
  <2>2. QED
    BY <1>1, <2>1 DEF Undisturbed
<1>11. QED
  BY Zenon, <1>5, <1>7, <1>8, <1>9, <1>10 DEF IInv

(* A turn of updatePeak's loop.                                            *)
LEMMA UpdatePeakInv ==
    ASSUME IInv, NEW t \in Threads \cup Readers, updatePeak(t)
    PROVE  IInv'
<1> DEFINE current == seen[t]["liveRequested"]
           peak == seen[t]["peakUsage"]
           ends == current <= peak \/ peak = peakUsage
<1>1. /\ "exchange" \in todo[t] /\ "current" \notin todo[t] /\ "peak" \notin todo[t]
      /\ peakUsage' = IF current > peak /\ ends THEN current ELSE peakUsage
      /\ ends => todo' = [todo EXCEPT ![t] = @ \ {"exchange"}] /\ seen' = seen
      /\ ~ends => seen' = [seen EXCEPT ![t]["peakUsage"] = peakUsage] /\ todo' = todo
      /\ counter' = counter /\ pc' = pc /\ block' = block
      /\ held' = held /\ high' = high /\ quiet' = quiet
  BY DEF updatePeak, Done
<1>2. Typed /\ Calls /\ Sums /\ Peaks /\ Undisturbed
  BY Zenon DEF IInv
<1>3. pc[t] = "recordAllocation"
  BY SMTT(30), <1>1, <1>2 DEF Typed, Calls, Calling, toFree, Live, Field, Counter
<1>4. /\ current \in Nat /\ peak \in Nat /\ peakUsage \in Nat /\ high \in Nat /\ counter["liveRequested"] \in Nat
      /\ current <= high /\ peak <= peakUsage /\ peakUsage <= high
  BY <1>2 DEF Typed, Peaks, Field, Counter
<1> HIDE DEF current, peak
<1>5. peakUsage' \in Nat /\ peakUsage <= peakUsage' /\ peakUsage' <= high /\ (ends => current <= peakUsage')
  BY <1>1, <1>4
<1>6. /\ \A u \in Threads \cup Readers : u # t => todo'[u] = todo[u]
      /\ todo'[t] = todo[t] \/ todo'[t] = todo[t] \ {"exchange"}
      /\ todo' = [todo EXCEPT ![t] = @ \ {"exchange"}] \/ todo' = todo
      /\ \A u \in Threads \cup Readers :
            /\ seen'[u]["liveRequested"] = seen[u]["liveRequested"]
            /\ seen'[u]["peakUsage"] = seen[u]["peakUsage"] \/ seen'[u]["peakUsage"] = peakUsage
  <2> HIDE DEF ends
  <2>1. CASE ends
    BY Zenon, <1>1, <1>2, <2>1 DEF Typed
  <2>2. CASE ~ends
    BY <1>1, <1>2, <2>2 DEF Typed, Field, Counter
  <2>3. QED
    BY Zenon, <2>1, <2>2
<1>7. Typed'
  <2> HIDE DEF ends
  <2>1. CASE ends
    BY SMTT(30), <1>1, <1>2, <1>5, <2>1 DEF Typed
  <2>2. CASE ~ends
    BY <1>1, <1>2, <1>5, <2>2 DEF Typed, Field, Counter
  <2>3. QED
    BY Zenon, <2>1, <2>2
<1>8. /\ Allocating' = Allocating /\ Freeing' = Freeing
      /\ \A c \in Counter : ToAdd(c)' = ToAdd(c) /\ ToTake(c)' = ToTake(c)
  <2>1. "exchange" \notin Counter
    BY DEF Counter
  <2>2. QED
    BY Zenon, <1>1, <1>2, <1>6, <2>1, DoneFrame
<1>9. Sums'
  BY Zenon, <1>1, <1>2, <1>8, SumsFrame
<1>10. Calls'
  <2>1. ASSUME NEW u \in Threads \cup Readers PROVE Calling(u)'
    <3>1. Calling(u) /\ Calling(t)
      BY Zenon, <1>2 DEF Calls
    <3>2. CASE u # t
      BY ZenonT(30), <1>1, <1>6, <3>1, <3>2 DEF Calling
    <3>3. CASE u = t
      BY SMTT(30), <1>1, <1>3, <1>6, <3>1, <3>3 DEF Calling
    <3>4. QED
      BY Zenon, <3>2, <3>3
  <2>2. QED
    BY ZenonT(30), <1>1, <1>2, <1>8, <2>1 DEF Calls
<1>11. Peaks'
  <2>1. \A u \in Threads \cup Readers : seen'[u]["liveRequested"] <= high /\ seen'[u]["peakUsage"] <= peakUsage'
    <3> SUFFICES ASSUME NEW u \in Threads \cup Readers
                 PROVE  seen'[u]["liveRequested"] <= high /\ seen'[u]["peakUsage"] <= peakUsage'
      BY Zenon
    <3>1. seen[u]["liveRequested"] <= high /\ seen[u]["peakUsage"] <= peakUsage /\ seen[u]["peakUsage"] \in Nat
      BY <1>2 DEF Peaks, Typed, Field
    <3>2. QED
      BY <1>4, <1>5, <1>6, <3>1
  <2>2. counter["liveRequested"] <= peakUsage' \/ \E u \in Threads \cup Readers : WillRaise(u)'
    <3>1. CASE counter["liveRequested"] <= peakUsage
      BY <1>4, <1>5, <3>1
    <3>2. ASSUME NEW u \in Threads \cup Readers, WillRaise(u), u # t \/ ~ends
          PROVE  WillRaise(u)'
      <4>1. todo'[u] = todo[u]
        BY Zenon, <1>1, <1>6, <3>2
      <4>2. QED
        BY Zenon, <1>1, <1>6, <3>2, <4>1 DEF WillRaise
    <3>3. CASE WillRaise(t) /\ ends
      <4>1. counter["liveRequested"] <= current
        BY Zenon, <1>1, <3>3 DEF WillRaise, current
      <4>2. QED
        BY <1>4, <1>5, <3>3, <4>1
    <3> HIDE DEF ends
    <3>4. QED
      BY Zenon, <1>2, <3>1, <3>2, <3>3 DEF Peaks
  <2>3. QED
    BY ZenonT(30), <1>1, <1>2, <1>5, <2>1, <2>2 DEF Peaks
<1>12. Undisturbed'
  <2>1. quiet = {}
    <3>1. t \in Allocating
      BY <1>3 DEF Allocating, In
    <3>2. QED
      BY <1>2, <3>1 DEF Undisturbed
  <2>2. QED
    BY ZenonT(30), <1>1, <2>1 DEF Undisturbed
<1>13. QED
  BY Zenon, <1>7, <1>9, <1>10, <1>11, <1>12 DEF IInv

-----------------------------------------------------------------------------
(* Snapshots                                                               *)

(* A snapshot begins.                                                      *)
LEMMA SnapshotInv ==
    ASSUME IInv, NEW t \in Threads \cup Readers, snapshot(t)
    PROVE  IInv'
<1>1. /\ pc[t] = "idle" /\ pc' = [pc EXCEPT ![t] = "snapshot"]
      /\ block' = [block EXCEPT ![t] = none] /\ todo' = [todo EXCEPT ![t] = Field]
      /\ quiet' = IF Allocating \cup Freeing = {} THEN quiet \cup {t} ELSE quiet
      /\ counter' = counter /\ peakUsage' = peakUsage /\ seen' = seen
      /\ held' = held /\ high' = high
  BY Zenon DEF snapshot, Begin, Allocating, Freeing
<1>2. Typed /\ Calls /\ Sums /\ Peaks /\ Undisturbed
  BY Zenon DEF IInv
<1>3. /\ pc'[t] = "snapshot" /\ todo'[t] = Field
      /\ \A u \in Threads \cup Readers : u # t => pc'[u] = pc[u] /\ block'[u] = block[u] /\ todo'[u] = todo[u]
  BY Zenon, <1>1, <1>2 DEF Typed
<1>4. Typed'
  <2>1. Field \in SUBSET Access
    BY DEF Access
  <2>2. quiet' \subseteq Threads \cup Readers
    BY <1>1, <1>2 DEF Typed
  <2>3. QED
    BY <1>1, <1>2, <2>1, <2>2 DEF Typed
<1>5. /\ Allocating' = Allocating /\ Freeing' = Freeing /\ t \notin Allocating /\ t \notin Freeing
      /\ \A c \in Counter : ToAdd(c)' = ToAdd(c) /\ ToTake(c)' = ToTake(c)
      /\ \A u \in Allocating \cup Freeing : u \in Threads \cup Readers /\ u # t
  <2>1. /\ Allocating' = Allocating /\ Freeing' = Freeing /\ t \notin Allocating /\ t \notin Freeing
        /\ \A u \in Allocating \cup Freeing : u \in Threads \cup Readers /\ u # t
    BY <1>1, <1>3 DEF Allocating, Freeing, In
  <2>2. \A u \in Allocating \cup Freeing : todo'[u] = todo[u]
    BY Zenon, <1>3, <2>1
  <2>3. \A c \in Counter : ToAdd(c)' = ToAdd(c) /\ ToTake(c)' = ToTake(c)
    BY <2>1, <2>2 DEF ToAdd, ToTake
  <2>4. QED
    BY Zenon, <2>1, <2>3
<1>6. Sums'
  <2>1. \A u \in Allocating \cup Freeing : block'[u] = block[u]
    BY Zenon, <1>3, <1>5
  <2>2. QED
    BY Zenon, <1>1, <1>2, <1>5, <2>1, SumsFrame DEF ToTake
<1>7. Calls'
  <2>1. ASSUME NEW u \in Threads \cup Readers PROVE Calling(u)'
    <3>1. Calling(u)
      BY Zenon, <1>2 DEF Calls
    <3>2. CASE u # t
      BY Zenon, <1>1, <1>3, <3>1, <3>2 DEF Calling
    <3>3. CASE u = t
      BY <1>3, <3>3 DEF Calling
    <3>4. QED
      BY Zenon, <3>2, <3>3
  <2>2. \A u, v \in Allocating' : block'[u] = block'[v] => u = v
    <3>1. \A u \in Allocating : block'[u] = block[u]
      BY Zenon, <1>3, <1>5
    <3>2. QED
      BY ZenonT(30), <1>2, <1>5, <3>1 DEF Calls
  <2>3. QED
    BY Zenon, <2>1, <2>2 DEF Calls
<1>8. Peaks'
  <2>1. ASSUME NEW u \in Threads \cup Readers, WillRaise(u) PROVE WillRaise(u)'
    <3>1. u # t
      BY <1>1, <2>1 DEF WillRaise
    <3>2. QED
      BY Zenon, <1>1, <1>3, <2>1, <3>1 DEF WillRaise
  <2>2. QED
    BY Zenon, <1>1, <1>2, <2>1, PeaksFrame
<1>9. Undisturbed'
  <2>1. quiet' # {} => Allocating' \cup Freeing' = {}
    BY <1>1, <1>2, <1>5 DEF Undisturbed
  <2>2. ASSUME NEW u \in quiet' PROVE pc'[u] = "snapshot" /\ \A f \in Field \ todo'[u] : seen'[u][f] = value(f)'
    <3>1. CASE u = t
      BY <1>3, <3>1
    <3>2. CASE u # t
      <4>1. u \in quiet /\ u \in Threads \cup Readers
        BY <1>1, <1>2, <2>2, <3>2 DEF Typed
      <4>2. pc[u] = "snapshot" /\ \A f \in Field \ todo[u] : seen[u][f] = value(f)
        BY Zenon, <1>2, <4>1 DEF Undisturbed
      <4>3. \A f : value(f)' = value(f)
        BY Zenon, <1>1 DEF value
      <4>4. pc'[u] = pc[u] /\ todo'[u] = todo[u]
        BY Zenon, <1>3, <3>2, <4>1
      <4>5. QED
        BY Zenon, <1>1, <4>2, <4>3, <4>4
    <3>3. QED
      BY Zenon, <3>1, <3>2
  <2>3. QED
    BY Zenon, <2>1, <2>2 DEF Undisturbed
<1>10. QED
  BY Zenon, <1>4, <1>6, <1>7, <1>8, <1>9 DEF IInv

(* A snapshot loads a field.                                               *)
LEMMA LoadInv ==
    ASSUME IInv, NEW t \in Threads \cup Readers, load(t)
    PROVE  IInv'
<1>1. PICK i \in DOMAIN Loads :
          /\ Loads[i] \in todo[t]
          /\ seen' = [seen EXCEPT ![t][Loads[i]] =
                          IF Loads[i] = "peakUsage" THEN peakUsage ELSE counter[Loads[i]]]
          /\ Done(t, Loads[i])
  BY Zenon DEF load
<1> DEFINE f == Loads[i]
<1>2. /\ pc[t] = "snapshot" /\ f \in todo[t] /\ f \in Field
      /\ seen' = [seen EXCEPT ![t][f] = value(f)]
      /\ todo' = [todo EXCEPT ![t] = @ \ {f}]
      /\ counter' = counter /\ peakUsage' = peakUsage /\ pc' = pc /\ block' = block
      /\ held' = held /\ high' = high /\ quiet' = quiet
  <2>1. f \in Field
    BY DEF Loads, Field, Counter
  <2>2. QED
    BY Zenon, <1>1, <2>1 DEF load, Done, value
<1> HIDE DEF f
<1>3. Typed /\ Calls /\ Sums /\ Peaks /\ Undisturbed
  BY Zenon DEF IInv
<1>4. value(f) \in Nat
  BY <1>2, <1>3 DEF value, Typed, Field
<1>5. /\ \A u \in Threads \cup Readers : u # t => todo'[u] = todo[u] /\ seen'[u] = seen[u]
      /\ todo'[t] = todo[t] \ {f}
      /\ seen'[t] = [seen[t] EXCEPT ![f] = value(f)] /\ seen[t] \in [Field -> Nat]
  BY Zenon, <1>2, <1>3 DEF Typed
<1>6. /\ seen'[t] \in [Field -> Nat] /\ seen'[t][f] = value(f)
      /\ \A g \in Field : g # f => seen'[t][g] = seen[t][g]
  BY <1>2, <1>4, <1>5
<1>7. Typed'
  <2>1. seen' \in [Threads \cup Readers -> [Field -> Nat]]
    BY <1>2, <1>3, <1>5, <1>6 DEF Typed
  <2>2. todo' \in [Threads \cup Readers -> SUBSET Access]
    BY <1>2, <1>3 DEF Typed
  <2>3. QED
    BY Zenon, <1>2, <1>3, <2>1, <2>2 DEF Typed
<1>8. /\ Allocating' = Allocating /\ Freeing' = Freeing
      /\ \A c \in Counter : ToAdd(c)' = ToAdd(c) /\ ToTake(c)' = ToTake(c)
  BY Zenon, <1>2, <1>3, DoneFrame
<1>9. Sums'
  BY Zenon, <1>2, <1>3, <1>8, SumsFrame
<1>10. Calls'
  <2>1. ASSUME NEW u \in Threads \cup Readers PROVE Calling(u)'
    <3>1. Calling(u) /\ Calling(t)
      BY Zenon, <1>3 DEF Calls
    <3>2. CASE u # t
      BY Zenon, <1>2, <1>5, <3>1, <3>2 DEF Calling
    <3>3. CASE u = t
      BY <1>2, <1>5, <3>1, <3>3 DEF Calling
    <3>4. QED
      BY Zenon, <3>2, <3>3
  <2>2. QED
    BY Zenon, <1>2, <1>3, <1>8, <2>1 DEF Calls
<1>11. Peaks'
  <2>1. \A u \in Threads \cup Readers : seen'[u]["liveRequested"] <= high /\ seen'[u]["peakUsage"] <= peakUsage
    <3>1. /\ seen[t]["liveRequested"] <= high /\ seen[t]["peakUsage"] <= peakUsage
          /\ counter["liveRequested"] <= high
      BY Zenon, <1>3 DEF Peaks
    <3>2. peakUsage <= peakUsage /\ "liveRequested" \in Field /\ "peakUsage" \in Field /\ "peakUsage" # "liveRequested"
      BY <1>3 DEF Typed, Field, Counter
    <3>3. seen'[t]["liveRequested"] <= high
      <4>1. f = "liveRequested" => seen'[t]["liveRequested"] = counter["liveRequested"]
        BY Zenon, <1>6, <3>2 DEF value
      <4>2. f # "liveRequested" => seen'[t]["liveRequested"] = seen[t]["liveRequested"]
        BY Zenon, <1>6, <3>2
      <4>3. QED
        BY Zenon, <3>1, <4>1, <4>2
    <3>4. seen'[t]["peakUsage"] <= peakUsage
      <4>1. f = "peakUsage" => seen'[t]["peakUsage"] = peakUsage
        BY Zenon, <1>6 DEF value
      <4>2. f # "peakUsage" => seen'[t]["peakUsage"] = seen[t]["peakUsage"]
        BY Zenon, <1>6, <3>2
      <4>3. QED
        BY Zenon, <3>1, <3>2, <4>1, <4>2
    <3>5. QED
      BY Zenon, <1>3, <1>5, <3>3, <3>4 DEF Peaks
  <2>2. ASSUME NEW u \in Threads \cup Readers, WillRaise(u) PROVE WillRaise(u)'
    <3>1. u # t
      BY <1>2, <2>2 DEF WillRaise
    <3>2. QED
      BY Zenon, <1>2, <1>5, <2>2, <3>1 DEF WillRaise
  <2>3. QED
    BY Zenon, <1>2, <1>3, <2>1, <2>2 DEF Peaks
<1>12. Undisturbed'
  <2>1. ASSUME NEW u \in quiet PROVE pc[u] = "snapshot" /\ \A g \in Field \ todo'[u] : seen'[u][g] = value(g)
    <3>1. u \in Threads \cup Readers /\ pc[u] = "snapshot" /\ \A g \in Field \ todo[u] : seen[u][g] = value(g)
      BY Zenon, <1>3, <2>1 DEF Typed, Undisturbed
    <3>2. CASE u = t
      BY Zenon, <1>5, <1>6, <3>1, <3>2
    <3>3. CASE u # t
      BY Zenon, <1>5, <3>1, <3>3
    <3>4. QED
      BY Zenon, <3>2, <3>3
  <2>2. \A g : value(g)' = value(g)
    BY Zenon, <1>2 DEF value
  <2>3. QED
    BY Zenon, <1>2, <1>3, <1>8, <2>1, <2>2 DEF Undisturbed
<1>13. QED
  BY Zenon, <1>7, <1>9, <1>10, <1>11, <1>12 DEF IInv

-----------------------------------------------------------------------------
(* Calls begin                                                             *)

(* What a thread's new call adds to a sum.                                 *)
LEMMA SumJoin ==
    ASSUME Typed, NEW c \in Counter, NEW t \in Threads, NEW b \in Blocks, NEW S \in SUBSET Threads,
           t \notin S, \A u \in S : block[u] \in Blocks, block' = [block EXCEPT ![t] = b]
    PROVE  /\ CallSum(c, block', S) = CallSum(c, block, S)
           /\ CallSum(c, block', S \cup {t}) = CallSum(c, block, S) + Amount(c, b)
<1>1. \A u \in S : block'[u] = block[u]
  BY DEF Typed
<1>2. CallSum(c, block', S) = CallSum(c, block, S)
  BY ZenonT(60), <1>1, CallSumSame
<1>3. block'[t] = b
  BY DEF Typed
<1>4. (\A u \in S : block'[u] \in Blocks) /\ block'[t] \in Blocks
  BY Zenon, <1>1, <1>3
<1>5. IsFiniteSet(S)
  BY SizeAssumption, FS_Subset
<1>6. CallSum(c, block', S \cup {t}) = CallSum(c, block', S) + Amount(c, block'[t])
  <2>1. ASSUME NEW B, \A u \in S : B[u] \in Blocks, B[t] \in Blocks
        PROVE  CallSum(c, B, S \cup {t}) = CallSum(c, B, S) + Amount(c, B[t])
    BY <1>5, <2>1, CallSumAdd
  <2>2. QED
    BY Zenon, <1>4, <2>1
<1>7. QED
  BY Zenon, <1>2, <1>3, <1>6

(* The sets and sums a thread's new call changes.                          *)
LEMMA BeginFrame ==
    ASSUME Typed, Calls, NEW t \in Threads, NEW name, NEW b \in Blocks, NEW accesses,
           Begin(t, name, b, accesses)
    PROVE  /\ t \notin Allocating /\ t \notin Freeing
           /\ pc'[t] = name /\ block'[t] = b /\ todo'[t] = accesses
           /\ \A u \in Threads \cup Readers :
                 u # t => pc'[u] = pc[u] /\ block'[u] = block[u] /\ todo'[u] = todo[u]
           /\ name = "recordAllocation" =>
                 /\ Allocating' = Allocating \cup {t} /\ Freeing' = Freeing
                 /\ \A c \in accesses : ToAdd(c)' = ToAdd(c) \cup {t}
                 /\ \A c : ToTake(c)' = ToTake(c)
           /\ name = "recordFree" =>
                 /\ Allocating' = Allocating /\ Freeing' = Freeing \cup {t}
                 /\ \A c \in accesses : ToTake(c)' = ToTake(c) \cup {t}
                 /\ \A c : ToAdd(c)' = ToAdd(c)
<1>1. /\ pc[t] = "idle" /\ t \in Threads \cup Readers /\ pc' = [pc EXCEPT ![t] = name]
      /\ block' = [block EXCEPT ![t] = b] /\ todo' = [todo EXCEPT ![t] = accesses]
  BY Zenon DEF Begin
<1>2. /\ pc'[t] = name /\ block'[t] = b /\ todo'[t] = accesses
      /\ \A u \in Threads \cup Readers : u # t => pc'[u] = pc[u] /\ block'[u] = block[u] /\ todo'[u] = todo[u]
  BY Zenon, <1>1 DEF Typed
<1>3. t \notin Allocating /\ t \notin Freeing
  BY <1>1 DEF Allocating, Freeing, In
<1>4. \A u \in Allocating \cup Freeing : u # t /\ todo'[u] = todo[u]
  BY Zenon, <1>2, <1>3 DEF Allocating, Freeing, In
<1>5. ASSUME name = "recordAllocation"
      PROVE  /\ Allocating' = Allocating \cup {t} /\ Freeing' = Freeing
             /\ \A c \in accesses : ToAdd(c)' = ToAdd(c) \cup {t}
             /\ \A c : ToTake(c)' = ToTake(c)
  <2>1. Allocating' = Allocating \cup {t} /\ Freeing' = Freeing
    BY <1>1, <1>2, <1>5 DEF Allocating, Freeing, In
  <2>2. \A c \in accesses : ToAdd(c)' = ToAdd(c) \cup {t}
    BY <1>2, <1>4, <2>1 DEF ToAdd
  <2>3. \A c : ToTake(c)' = ToTake(c)
    BY <1>4, <2>1 DEF ToTake
  <2>4. QED
    BY Zenon, <2>1, <2>2, <2>3
<1>6. ASSUME name = "recordFree"
      PROVE  /\ Allocating' = Allocating /\ Freeing' = Freeing \cup {t}
             /\ \A c \in accesses : ToTake(c)' = ToTake(c) \cup {t}
             /\ \A c : ToAdd(c)' = ToAdd(c)
  <2>1. Allocating' = Allocating /\ Freeing' = Freeing \cup {t}
    BY SMTT(30), <1>1, <1>2, <1>6 DEF Allocating, Freeing, In
  <2>2. \A c \in accesses : ToTake(c)' = ToTake(c) \cup {t}
    BY <1>2, <1>4, <2>1 DEF ToTake
  <2>3. \A c : ToAdd(c)' = ToAdd(c)
    BY <1>4, <2>1 DEF ToAdd
  <2>4. QED
    BY Zenon, <2>1, <2>2, <2>3
<1>7. QED
  BY Zenon, <1>2, <1>3, <1>5, <1>6

(* A call's beginning leaves the peak to the calls that will raise it.     *)
LEMMA BeginPeaks ==
    ASSUME Peaks, NEW t \in Threads, pc[t] = "idle",
           counter' = counter, peakUsage' = peakUsage, high' = high, seen' = seen,
           \A u \in Threads \cup Readers : u # t => pc'[u] = pc[u] /\ todo'[u] = todo[u]
    PROVE  Peaks'
<1>1. ASSUME NEW u \in Threads \cup Readers, WillRaise(u) PROVE WillRaise(u)'
  <2>1. u # t
    BY <1>1 DEF WillRaise
  <2>2. QED
    BY Zenon, <1>1, <2>1 DEF WillRaise
<1>2. QED
  BY Zenon, <1>1, PeaksFrame

(* An allocation begins to be recorded.                                    *)
LEMMA RecordAllocationInv ==
    ASSUME IInv, NEW t \in Threads, NEW b \in Blocks, recordAllocation(t, b)
    PROVE  IInv'
<1>1. /\ b \notin held /\ (\A u \in Threads : pc[u] = "recordAllocation" => block[u] # b)
      /\ Begin(t, "recordAllocation", b, toAllocate)
      /\ counter' = counter /\ peakUsage' = peakUsage /\ seen' = seen
      /\ held' = held /\ high' = high /\ quiet' = {}
  BY Zenon DEF recordAllocation, toAllocate
<1>2. Typed /\ Calls /\ Sums /\ Peaks /\ Undisturbed
  BY Zenon DEF IInv
<1>3. /\ t \notin Allocating /\ t \notin Freeing
      /\ pc'[t] = "recordAllocation" /\ block'[t] = b /\ todo'[t] = toAllocate
      /\ \A u \in Threads \cup Readers : u # t => pc'[u] = pc[u] /\ block'[u] = block[u] /\ todo'[u] = todo[u]
      /\ Allocating' = Allocating \cup {t} /\ Freeing' = Freeing
      /\ \A c \in toAllocate : ToAdd(c)' = ToAdd(c) \cup {t}
      /\ \A c : ToTake(c)' = ToTake(c)
  BY Zenon, <1>1, <1>2, BeginFrame
<1>4. /\ Allocating \subseteq Threads /\ Freeing \subseteq Threads
      /\ \A u \in Allocating \cup Freeing : block[u] \in Blocks
      /\ \A c : due(c) \subseteq Allocating \cup Freeing /\ ToAdd(c) \subseteq Allocating /\ ToTake(c) \subseteq Freeing
      /\ \A c : due(c) \subseteq Threads /\ ToAdd(c) \subseteq Threads /\ ToTake(c) \subseteq Threads
  BY Zenon, <1>2, CallFacts
<1>5. /\ pc' = [pc EXCEPT ![t] = "recordAllocation"] /\ block' = [block EXCEPT ![t] = b]
      /\ todo' = [todo EXCEPT ![t] = toAllocate] /\ pc[t] = "idle"
  BY Zenon, <1>1 DEF Begin
<1>6. Typed'
  <2>1. toAllocate \in SUBSET Access
    BY DEF toAllocate, Access, Field, Counter, Live
  <2>2. QED
    BY <1>1, <1>2, <1>5, <2>1 DEF Typed
<1>7. ASSUME NEW c \in Counter, NEW S \in SUBSET Threads, S \subseteq Allocating \cup Freeing
      PROVE  /\ CallSum(c, block', S) = CallSum(c, block, S) /\ CallSum(c, block, S) \in Nat
             /\ CallSum(c, block', S \cup {t}) = CallSum(c, block, S) + Amount(c, b)
  <2>1. t \notin S /\ \A u \in S : block[u] \in Blocks
    BY <1>3, <1>4, <1>7
  <2>2. held \in SUBSET Blocks
    BY Zenon, <1>2 DEF Typed
  <2>3. CallSum(c, block, S) \in Nat
    BY Zenon, <2>1, <2>2, SumTypes
  <2>4. QED
    BY Zenon, <1>2, <1>5, <2>1, <2>3, SumJoin
<1>8. ASSUME NEW c \in Live PROVE Exact(c)'
  <2>1. c \in Counter /\ c \in toAllocate
    BY DEF Live, Counter, toAllocate
  <2>2. due(c)' = due(c)
    <3>1. ToAdd(c)' = ToAdd(c) \cup {t} /\ ToTake(c)' = ToTake(c)
      BY ZenonT(30), <1>3, <2>1
    <3>2. (Allocating \cup {t}) \ (ToAdd(c) \cup {t}) = Allocating \ ToAdd(c)
      BY <1>3
    <3>3. QED
      BY Zenon, <1>3, <3>1, <3>2 DEF due
  <2>3. CallSum(c, block', due(c)) = CallSum(c, block, due(c))
    BY Zenon, <1>4, <1>7, <2>1
  <2>4. QED
    BY Zenon, <1>1, <1>2, <1>8, <2>2, <2>3 DEF Exact, Sums
<1>9. ASSUME NEW a \in Counter \cap toAllocate, NEW f \in Counter, NEW c \in Counter, Balanced(a, f, c)
      PROVE  Balanced(a, f, c)'
  <2>1. PICK turns \in Int :
            counter[a] + CallSum(c, block, ToAdd(a))
                = counter[f] + CallSum(c, block, ToTake(f))
                  + HeldSum(c, held) + CallSum(c, block, Allocating) + turns * Modulus
    BY Zenon, <1>9 DEF Balanced
  <2>2. /\ ToAdd(a) \in SUBSET Threads /\ ToTake(f) \in SUBSET Threads /\ Allocating \in SUBSET Threads
        /\ ToAdd(a) \subseteq Allocating \cup Freeing /\ ToTake(f) \subseteq Allocating \cup Freeing
    BY <1>4
  <2>3. /\ CallSum(c, block', ToAdd(a) \cup {t}) = CallSum(c, block, ToAdd(a)) + Amount(c, b)
        /\ CallSum(c, block', ToTake(f)) = CallSum(c, block, ToTake(f))
        /\ CallSum(c, block', Allocating \cup {t}) = CallSum(c, block, Allocating) + Amount(c, b)
        /\ CallSum(c, block, ToAdd(a)) \in Nat /\ CallSum(c, block, ToTake(f)) \in Nat
        /\ CallSum(c, block, Allocating) \in Nat
    BY Zenon, <1>7, <2>2
  <2>4. HeldSum(c, held) \in Nat
    <3>1. held \in SUBSET Blocks /\ {} \in SUBSET Threads /\ \A u \in {} : block[u] \in Blocks
      BY <1>2 DEF Typed
    <3>2. QED
      BY Zenon, <3>1, SumTypes
  <2>5. counter[a] \in Nat /\ counter[f] \in Nat /\ Amount(c, b) \in Nat /\ turns * Modulus \in Int
    BY SMTT(30), <1>2, AmountType, SizeAssumption DEF Typed
  <2>6. counter[a] + (CallSum(c, block, ToAdd(a)) + Amount(c, b))
            = counter[f] + CallSum(c, block, ToTake(f))
              + HeldSum(c, held) + (CallSum(c, block, Allocating) + Amount(c, b)) + turns * Modulus
    BY <2>1, <2>3, <2>4, <2>5
  <2>7. ToAdd(a)' = ToAdd(a) \cup {t} /\ ToTake(f)' = ToTake(f)
    BY Zenon, <1>3
  <2>8. QED
    BY Zenon, <1>1, <1>3, <2>3, <2>6, <2>7 DEF Balanced
<1>10. Sums'
  <2>1. /\ "allocationCount" \in Counter \cap toAllocate /\ "allocatedBytes" \in Counter \cap toAllocate
        /\ {"freeCount", "activeAllocations", "freedBytes", "liveRequested"} \subseteq Counter
    BY DEF Counter, toAllocate
  <2>2. QED
    BY Zenon, <1>2, <1>8, <1>9, <2>1 DEF Sums
<1>11. Calls'
  <2>1. ASSUME NEW u \in Threads \cup Readers PROVE Calling(u)'
    <3>1. Calling(u)
      BY Zenon, <1>2 DEF Calls
    <3>2. CASE u # t
      BY Zenon, <1>1, <1>3, <3>1, <3>2 DEF Calling
    <3>3. CASE u = t
      BY ZenonT(30), <1>1, <1>3, <3>3 DEF Calling, toAllocate
    <3>4. QED
      BY Zenon, <3>2, <3>3
  <2>2. \A u \in Allocating : block'[u] = block[u] /\ block[u] # b /\ u # t
    BY <1>1, <1>3, <1>4 DEF Allocating, In
  <2>3. \A u, v \in Allocating : block[u] = block[v] => u = v
    BY Zenon, <1>2 DEF Calls
  <2>4. \A u, v \in Allocating \cup {t} : block'[u] = block'[v] => u = v
    BY <1>3, <2>2, <2>3
  <2>5. QED
    BY Zenon, <1>3, <2>1, <2>4 DEF Calls
<1>12. Peaks'
  BY Zenon, <1>1, <1>2, <1>3, <1>5, BeginPeaks
<1>13. Undisturbed'
  BY SMTT(30), <1>1 DEF Undisturbed
<1>14. QED
  BY Zenon, <1>6, <1>10, <1>11, <1>12, <1>13 DEF IInv

(* A free begins to be recorded.                                           *)
LEMMA RecordFreeInv ==
    ASSUME IInv, NEW t \in Threads, NEW b \in Blocks, recordFree(t, b)
    PROVE  IInv'
<1>1. /\ b \in held /\ held' = held \ {b}
      /\ Begin(t, "recordFree", b, toFree)
      /\ counter' = counter /\ peakUsage' = peakUsage /\ seen' = seen
      /\ high' = high /\ quiet' = {}
  BY Zenon DEF recordFree, toFree
<1>2. Typed /\ Calls /\ Sums /\ Peaks /\ Undisturbed
  BY Zenon DEF IInv
<1>3. /\ t \notin Allocating /\ t \notin Freeing
      /\ pc'[t] = "recordFree" /\ block'[t] = b /\ todo'[t] = toFree
      /\ \A u \in Threads \cup Readers : u # t => pc'[u] = pc[u] /\ block'[u] = block[u] /\ todo'[u] = todo[u]
      /\ Allocating' = Allocating /\ Freeing' = Freeing \cup {t}
      /\ \A c \in toFree : ToTake(c)' = ToTake(c) \cup {t}
      /\ \A c : ToAdd(c)' = ToAdd(c)
  BY Zenon, <1>1, <1>2, BeginFrame
<1>4. /\ Allocating \subseteq Threads /\ Freeing \subseteq Threads
      /\ \A u \in Allocating \cup Freeing : block[u] \in Blocks
      /\ \A c : due(c) \subseteq Allocating \cup Freeing /\ ToAdd(c) \subseteq Allocating /\ ToTake(c) \subseteq Freeing
      /\ \A c : due(c) \subseteq Threads /\ ToAdd(c) \subseteq Threads /\ ToTake(c) \subseteq Threads
  BY Zenon, <1>2, CallFacts
<1>5. /\ pc' = [pc EXCEPT ![t] = "recordFree"] /\ block' = [block EXCEPT ![t] = b]
      /\ todo' = [todo EXCEPT ![t] = toFree] /\ pc[t] = "idle"
  BY Zenon, <1>1 DEF Begin
<1>6. Typed'
  <2>1. toFree \in SUBSET Access
    BY DEF toFree, Access, Field, Counter, Live
  <2>2. QED
    BY <1>1, <1>2, <1>5, <2>1 DEF Typed
<1>7. ASSUME NEW c \in Counter, NEW S \in SUBSET Threads, S \subseteq Allocating \cup Freeing
      PROVE  /\ CallSum(c, block', S) = CallSum(c, block, S) /\ CallSum(c, block, S) \in Nat
             /\ CallSum(c, block', S \cup {t}) = CallSum(c, block, S) + Amount(c, b)
  <2>1. t \notin S /\ \A u \in S : block[u] \in Blocks
    BY SMTT(30), <1>3, <1>4, <1>7
  <2>2. held \in SUBSET Blocks
    BY Zenon, <1>2 DEF Typed
  <2>3. CallSum(c, block, S) \in Nat
    BY Zenon, <2>1, <2>2, SumTypes
  <2>4. QED
    BY ZenonT(30), <1>2, <1>5, <2>1, <2>3, SumJoin
<1>8. ASSUME NEW c \in Counter
      PROVE  /\ HeldSum(c, held) = HeldSum(c, held') + Amount(c, b)
             /\ HeldSum(c, held') \in Nat /\ Amount(c, b) \in Nat
  <2>1. /\ held \in SUBSET Blocks /\ held \ {b} \in SUBSET Blocks /\ {} \in SUBSET Threads
        /\ \A u \in {} : block[u] \in Blocks
    BY <1>2 DEF Typed
  <2>2. HeldSum(c, held \ {b}) \in Nat
    BY Zenon, <2>1, SumTypes
  <2>3. HeldSum(c, held) = HeldSum(c, held \ {b}) + Amount(c, b)
    BY Zenon, <1>1, <2>1, HeldSumRemove
  <2>4. QED
    BY Zenon, <1>1, <2>2, <2>3, AmountType
<1>9. ASSUME NEW c \in Live PROVE Exact(c)'
  <2>1. c \in Counter /\ c \in toFree
    BY DEF Live, Counter, toFree
  <2>2. due(c)' = due(c) \cup {t}
    <3>1. ToTake(c)' = ToTake(c) \cup {t} /\ ToAdd(c)' = ToAdd(c)
      BY Zenon, <1>3, <2>1
    <3>2. (Allocating \ ToAdd(c)) \cup (ToTake(c) \cup {t}) = ((Allocating \ ToAdd(c)) \cup ToTake(c)) \cup {t}
      OBVIOUS
    <3>3. QED
      BY Zenon, <1>3, <3>1, <3>2 DEF due
  <2>3. CallSum(c, block', due(c) \cup {t}) = CallSum(c, block, due(c)) + Amount(c, b) /\ CallSum(c, block, due(c)) \in Nat
    BY Zenon, <1>4, <1>7, <2>1
  <2>4. counter[c] = HeldSum(c, held) + CallSum(c, block, due(c))
    BY Zenon, <1>2, <1>9 DEF Exact, Sums
  <2>5. counter[c] = HeldSum(c, held') + CallSum(c, block', due(c) \cup {t})
    BY <1>8, <2>1, <2>3, <2>4
  <2>6. QED
    BY Zenon, <1>1, <2>2, <2>5 DEF Exact
<1>10. ASSUME NEW a \in Counter, NEW f \in Counter \cap toFree, NEW c \in Counter, Balanced(a, f, c)
      PROVE  Balanced(a, f, c)'
  <2>1. PICK turns \in Int :
            counter[a] + CallSum(c, block, ToAdd(a))
                = counter[f] + CallSum(c, block, ToTake(f))
                  + HeldSum(c, held) + CallSum(c, block, Allocating) + turns * Modulus
    BY Zenon, <1>10 DEF Balanced
  <2>2. /\ ToAdd(a) \in SUBSET Threads /\ ToTake(f) \in SUBSET Threads /\ Allocating \in SUBSET Threads
        /\ ToAdd(a) \subseteq Allocating \cup Freeing /\ ToTake(f) \subseteq Allocating \cup Freeing
    BY <1>4
  <2>3. /\ CallSum(c, block', ToAdd(a)) = CallSum(c, block, ToAdd(a))
        /\ CallSum(c, block', ToTake(f) \cup {t}) = CallSum(c, block, ToTake(f)) + Amount(c, b)
        /\ CallSum(c, block', Allocating) = CallSum(c, block, Allocating)
        /\ CallSum(c, block, ToAdd(a)) \in Nat /\ CallSum(c, block, ToTake(f)) \in Nat
        /\ CallSum(c, block, Allocating) \in Nat
    BY Zenon, <1>7, <2>2
  <2>4. /\ HeldSum(c, held) = HeldSum(c, held') + Amount(c, b)
        /\ HeldSum(c, held') \in Nat /\ Amount(c, b) \in Nat
    BY Zenon, <1>8
  <2>5. counter[a] \in Nat /\ counter[f] \in Nat /\ turns * Modulus \in Int
    BY SMTT(30), <1>2, SizeAssumption DEF Typed
  <2>6. counter[a] + CallSum(c, block, ToAdd(a))
            = counter[f] + (CallSum(c, block, ToTake(f)) + Amount(c, b))
              + HeldSum(c, held') + CallSum(c, block, Allocating) + turns * Modulus
    BY <2>1, <2>3, <2>4, <2>5
  <2>7. ToTake(f)' = ToTake(f) \cup {t} /\ ToAdd(a)' = ToAdd(a)
    BY Zenon, <1>3
  <2>8. QED
    BY Zenon, <1>1, <1>3, <2>3, <2>6, <2>7 DEF Balanced
<1>11. Sums'
  <2>1. /\ "freeCount" \in Counter \cap toFree /\ "freedBytes" \in Counter \cap toFree
        /\ {"allocationCount", "activeAllocations", "allocatedBytes", "liveRequested"} \subseteq Counter
    BY DEF Counter, toFree
  <2>2. QED
    BY Zenon, <1>2, <1>9, <1>10, <2>1 DEF Sums
<1>12. Calls'
  <2>1. ASSUME NEW u \in Threads \cup Readers PROVE Calling(u)'
    <3>1. Calling(u)
      BY Zenon, <1>2 DEF Calls
    <3>2. CASE u # t
      <4>1. \A x : x \in Blocks \ held => x \in Blocks \ held'
        BY Zenon, <1>1
      <4>2. QED
        BY Zenon, <1>3, <3>1, <3>2, <4>1 DEF Calling
    <3>3. CASE u = t
      BY ZenonT(30), <1>1, <1>3, <3>3 DEF Calling
    <3>4. QED
      BY Zenon, <3>2, <3>3
  <2>2. \A u \in Allocating : block'[u] = block[u]
    BY <1>3, <1>4
  <2>3. \A u, v \in Allocating : block[u] = block[v] => u = v
    BY Zenon, <1>2 DEF Calls
  <2>4. \A u, v \in Allocating' : block'[u] = block'[v] => u = v
    <3>1. Allocating' = Allocating
      BY Zenon, <1>3
    <3>2. QED
      BY ZenonT(30), <2>2, <2>3, <3>1
  <2>5. QED
    BY ZenonT(30), <2>1, <2>4 DEF Calls
<1>13. Peaks'
  BY Zenon, <1>1, <1>2, <1>3, <1>5, BeginPeaks
<1>14. Undisturbed'
  BY <1>1 DEF Undisturbed
<1>15. QED
  BY Zenon, <1>6, <1>11, <1>12, <1>13, <1>14 DEF IInv

-----------------------------------------------------------------------------
(* Calls return                                                            *)

(* A call that returns is in no set of calls with an access to come.       *)
LEMMA ReturnFrame ==
    ASSUME Typed, Calls, NEW t \in Threads \cup Readers, return(t)
    PROVE  /\ pc'[t] = "idle" /\ todo[t] = {}
           /\ \A u \in Threads \cup Readers : u # t => pc'[u] = pc[u] /\ block'[u] = block[u] /\ seen'[u] = seen[u]
           /\ Allocating' = Allocating \ {t} /\ Freeing' = Freeing \ {t}
           /\ \A c : /\ ToAdd(c)' = ToAdd(c) /\ ToTake(c)' = ToTake(c)
                     /\ t \notin ToAdd(c) /\ t \notin ToTake(c)
<1>1. /\ todo[t] = {} /\ pc' = [pc EXCEPT ![t] = "idle"] /\ block' = [block EXCEPT ![t] = none]
      /\ seen' = [seen EXCEPT ![t] = unseen] /\ todo' = todo
  BY Zenon DEF return
<1>2. /\ pc'[t] = "idle"
      /\ \A u \in Threads \cup Readers : u # t => pc'[u] = pc[u] /\ block'[u] = block[u] /\ seen'[u] = seen[u]
  BY Zenon, <1>1 DEF Typed
<1>3. Allocating' = Allocating \ {t} /\ Freeing' = Freeing \ {t}
  BY SMTT(30), <1>1, <1>2 DEF Allocating, Freeing, In
<1>4. \A c : /\ ToAdd(c)' = ToAdd(c) /\ ToTake(c)' = ToTake(c)
             /\ t \notin ToAdd(c) /\ t \notin ToTake(c)
  BY <1>1, <1>3 DEF ToAdd, ToTake
<1>5. QED
  BY Zenon, <1>1, <1>2, <1>3, <1>4

(* An allocation that returns gives its block to the caller: what the call *)
(* stood for in a sum, the caller's hands stand for.                       *)
LEMMA ReturnSums ==
    ASSUME Typed, Calls, Sums, NEW t \in Allocating, return(t)
    PROVE  Sums'
<1>1. t \in Threads \cup Readers /\ pc[t] = "recordAllocation"
  BY DEF Allocating, In
<1>2. counter' = counter /\ held' = held \cup {block[t]}
  BY Zenon, <1>1 DEF return
<1>3. /\ \A u \in Threads \cup Readers : u # t => block'[u] = block[u]
      /\ Allocating' = Allocating \ {t}
      /\ \A c : /\ ToAdd(c)' = ToAdd(c) /\ ToTake(c)' = ToTake(c)
                /\ t \notin ToAdd(c) /\ t \notin ToTake(c)
  BY Zenon, <1>1, ReturnFrame
<1>4. /\ Allocating \subseteq Threads /\ Freeing \subseteq Threads /\ t \notin Freeing
      /\ \A u \in Allocating \cup Freeing : block[u] \in Blocks
      /\ \A c : due(c) \subseteq Allocating \cup Freeing /\ ToAdd(c) \subseteq Allocating /\ ToTake(c) \subseteq Freeing
  <2>1. Allocating \cap Freeing = {} => t \notin Freeing
    OBVIOUS
  <2>2. QED
    BY Zenon, <2>1, CallFacts
<1>5. block[t] \in Blocks /\ block[t] \notin held /\ held \in SUBSET Blocks
  <2>1. Calling(t)
    BY Zenon, <1>1 DEF Calls
  <2>2. QED
    BY <1>1, <2>1 DEF Calling, Typed
<1>6. ASSUME NEW c \in Counter, NEW S \in SUBSET (Allocating \cup Freeing), t \notin S
      PROVE  /\ CallSum(c, block', S) = CallSum(c, block, S) /\ CallSum(c, block, S) \in Nat
             /\ CallSum(c, block, S \cup {t}) = CallSum(c, block, S) + Amount(c, block[t])
  <2>1. /\ S \in SUBSET Threads /\ (\A u \in S : block[u] \in Blocks)
        /\ block[t] \in Blocks
    BY <1>4, <1>6
  <2>2. \A u \in S : block'[u] = block[u]
    <3>1. \A u \in S : u \in Threads \cup Readers /\ u # t
      BY <1>6, <2>1
    <3>2. QED
      BY Zenon, <1>3, <3>1
  <2>3. CallSum(c, block', S) = CallSum(c, block, S)
    BY Zenon, <2>2, CallSumSame
  <2>4. IsFiniteSet(S) /\ CallSum(c, block, S) \in Nat
    BY Zenon, <1>5, <2>1, SumTypes
  <2>5. QED
    BY SMTT(30), <1>6, <2>1, <2>3, <2>4, CallSumAdd
<1>7. ASSUME NEW c \in Counter
      PROVE  /\ HeldSum(c, held') = HeldSum(c, held) + Amount(c, block[t])
             /\ HeldSum(c, held) \in Nat /\ Amount(c, block[t]) \in Nat
  <2>1. {} \in SUBSET Threads /\ \A u \in {} : block[u] \in Blocks
    OBVIOUS
  <2>2. HeldSum(c, held) \in Nat
    BY Zenon, <1>5, <2>1, SumTypes
  <2>3. HeldSum(c, held \cup {block[t]}) = HeldSum(c, held) + Amount(c, block[t])
    BY Zenon, <1>5, HeldSumAdd
  <2>4. QED
    BY Zenon, <1>2, <1>5, <2>2, <2>3, AmountType
<1>8. ASSUME NEW c \in Live PROVE Exact(c)'
  <2>1. c \in Counter
    BY DEF Live, Counter
  <2> DEFINE rest == due(c) \ {t}
  <2>2. due(c)' = rest /\ rest \cup {t} = due(c) /\ t \notin rest /\ rest \in SUBSET (Allocating \cup Freeing)
    <3>1. ToAdd(c)' = ToAdd(c) /\ ToTake(c)' = ToTake(c) /\ t \notin ToAdd(c) /\ t \notin ToTake(c)
      BY Zenon, <1>3
    <3>2. due(c)' = ((Allocating \ {t}) \ ToAdd(c)) \cup ToTake(c)
      BY Zenon, <1>3, <3>1 DEF due
    <3>3. QED
      BY <1>4, <3>1, <3>2 DEF due
  <2> HIDE DEF rest
  <2>3. /\ CallSum(c, block', rest) = CallSum(c, block, rest) /\ CallSum(c, block, rest) \in Nat
        /\ CallSum(c, block, rest \cup {t}) = CallSum(c, block, rest) + Amount(c, block[t])
    BY Zenon, <1>6, <2>1, <2>2
  <2>4. counter[c] = HeldSum(c, held) + CallSum(c, block, rest \cup {t})
    BY Zenon, <1>8, <2>2 DEF Exact, Sums
  <2>5. counter[c] = HeldSum(c, held') + CallSum(c, block', rest)
    BY <1>7, <2>1, <2>3, <2>4
  <2>6. QED
    BY Zenon, <1>2, <2>2, <2>5 DEF Exact
<1>9. ASSUME NEW a \in Counter, NEW f \in Counter, NEW c \in Counter, Balanced(a, f, c)
      PROVE  Balanced(a, f, c)'
  <2>1. PICK turns \in Int :
            counter[a] + CallSum(c, block, ToAdd(a))
                = counter[f] + CallSum(c, block, ToTake(f))
                  + HeldSum(c, held) + CallSum(c, block, Allocating) + turns * Modulus
    BY Zenon, <1>9 DEF Balanced
  <2> DEFINE rest == Allocating \ {t}
  <2>2. /\ ToAdd(a) \in SUBSET (Allocating \cup Freeing) /\ ToTake(f) \in SUBSET (Allocating \cup Freeing)
        /\ rest \in SUBSET (Allocating \cup Freeing) /\ t \notin rest /\ rest \cup {t} = Allocating
    BY <1>4
  <2>3. Allocating' = rest
    BY Zenon, <1>3
  <2> HIDE DEF rest
  <2>4. /\ CallSum(c, block', ToAdd(a)) = CallSum(c, block, ToAdd(a)) /\ CallSum(c, block, ToAdd(a)) \in Nat
        /\ CallSum(c, block', ToTake(f)) = CallSum(c, block, ToTake(f)) /\ CallSum(c, block, ToTake(f)) \in Nat
    BY Zenon, <1>3, <1>6, <2>2
  <2>5. /\ CallSum(c, block', rest) = CallSum(c, block, rest) /\ CallSum(c, block, rest) \in Nat
        /\ CallSum(c, block, rest \cup {t}) = CallSum(c, block, rest) + Amount(c, block[t])
    BY Zenon, <1>6, <2>2
  <2>6. CallSum(c, block, Allocating) = CallSum(c, block, rest) + Amount(c, block[t])
    BY Zenon, <2>2, <2>5
  <2>7. /\ HeldSum(c, held') = HeldSum(c, held) + Amount(c, block[t])
        /\ HeldSum(c, held) \in Nat /\ Amount(c, block[t]) \in Nat
    BY Zenon, <1>7
  <2>8. counter[a] \in Nat /\ counter[f] \in Nat /\ turns * Modulus \in Int
    BY SMTT(30), SizeAssumption DEF Typed
  <2>9. counter[a] + CallSum(c, block', ToAdd(a))
            = counter[f] + CallSum(c, block', ToTake(f))
              + HeldSum(c, held') + CallSum(c, block', rest) + turns * Modulus
    BY SMTT(30), <2>1, <2>4, <2>5, <2>6, <2>7, <2>8
  <2>10. QED
    BY Zenon, <1>2, <1>3, <2>3, <2>9 DEF Balanced
<1>10. {"allocationCount", "freeCount", "activeAllocations", "allocatedBytes", "freedBytes", "liveRequested"} \subseteq Counter
  BY Zenon DEF Counter
<1>11. QED
  BY Zenon, <1>8, <1>9, <1>10 DEF Sums

(* A call returns.                                                         *)
LEMMA ReturnInv ==
    ASSUME IInv, NEW t \in Threads \cup Readers, return(t)
    PROVE  IInv'
<1>1. /\ pc' = [pc EXCEPT ![t] = "idle"] /\ block' = [block EXCEPT ![t] = none]
      /\ seen' = [seen EXCEPT ![t] = unseen] /\ quiet' = quiet \ {t} /\ todo' = todo
      /\ held' = IF pc[t] = "recordAllocation" THEN held \cup {block[t]} ELSE held
      /\ counter' = counter /\ peakUsage' = peakUsage /\ high' = high
  BY Zenon DEF return
<1>2. Typed /\ Calls /\ Sums /\ Peaks /\ Undisturbed
  BY Zenon DEF IInv
<1>3. /\ pc'[t] = "idle" /\ todo[t] = {}
      /\ \A u \in Threads \cup Readers : u # t => pc'[u] = pc[u] /\ block'[u] = block[u] /\ seen'[u] = seen[u]
      /\ Allocating' = Allocating \ {t} /\ Freeing' = Freeing \ {t}
      /\ \A c : /\ ToAdd(c)' = ToAdd(c) /\ ToTake(c)' = ToTake(c)
                /\ t \notin ToAdd(c) /\ t \notin ToTake(c)
  BY Zenon, <1>2, ReturnFrame
<1>4. t \in Allocating <=> pc[t] = "recordAllocation"
  BY DEF Allocating, In
<1>5. \A u \in Allocating \cup Freeing : u \in Threads \cup Readers
  BY DEF Allocating, Freeing, In
<1>6. unseen \in [Field -> Nat] /\ seen'[t] = unseen /\ unseen["liveRequested"] = 0 /\ unseen["peakUsage"] = 0
  <2>1. seen'[t] = unseen
    BY Zenon, <1>1, <1>2 DEF Typed
  <2>2. QED
    BY <2>1 DEF unseen, Field, Counter
<1>7. Typed'
  <2>1. held' \subseteq Blocks
    <3>1. pc[t] = "recordAllocation" => block[t] \in Blocks
      BY <1>2 DEF Calls, Calling
    <3>2. QED
      BY SMTT(30), <1>1, <1>2, <3>1 DEF Typed
  <2>2. QED
    BY SMTT(30), <1>1, <1>2, <1>6, <2>1 DEF Typed
<1>8. Sums'
  <2>1. CASE t \in Allocating
    BY Zenon, <1>2, <2>1, ReturnSums
  <2>2. CASE t \notin Allocating
    <3>1. Allocating' = Allocating /\ held' = held
      BY <1>1, <1>3, <1>4, <2>2
    <3>2. \A u \in Allocating : block'[u] = block[u]
      BY Zenon, <1>3, <1>5, <2>2
    <3>3. \A c \in Counter : \A u \in ToTake(c) : u \in Freeing /\ u # t
      <4>1. \A c : ToTake(c) \subseteq Freeing
        BY DEF ToTake
      <4>2. QED
        BY Zenon, <1>3, <4>1
    <3>4. \A c \in Counter : \A u \in ToTake(c) : block'[u] = block[u]
      BY Zenon, <1>3, <1>5, <3>3
    <3>5. QED
      BY ZenonT(30), <1>1, <1>2, <1>3, <3>1, <3>2, <3>4, SumsFrame
  <2>3. QED
    BY Zenon, <2>1, <2>2
<1>9. Calls'
  <2>1. \A u, v \in Allocating : block[u] = block[v] => u = v
    BY Zenon, <1>2 DEF Calls
  <2>2. ASSUME NEW u \in Threads \cup Readers PROVE Calling(u)'
    <3>1. Calling(u)
      BY Zenon, <1>2 DEF Calls
    <3>2. CASE u # t
      <4>1. pc[u] = "recordAllocation" => block[u] \in Blocks \ held'
        <5> SUFFICES ASSUME pc[u] = "recordAllocation" PROVE block[u] \in Blocks \ held'
          BY SMTT(30)
        <5>1. u \in Allocating /\ block[u] \in Blocks \ held
          BY <3>1 DEF Allocating, In, Calling
        <5>2. pc[t] = "recordAllocation" => block[u] # block[t]
          BY Zenon, <1>4, <2>1, <3>2, <5>1
        <5>3. QED
          BY SMTT(30), <1>1, <5>1, <5>2
      <4>2. QED
        BY Zenon, <1>1, <1>3, <3>1, <3>2, <4>1 DEF Calling
    <3>3. CASE u = t
      BY Zenon, <1>1, <1>3, <3>3 DEF Calling
    <3>4. QED
      BY Zenon, <3>2, <3>3
  <2>3. \A u \in Allocating' : u \in Allocating /\ block'[u] = block[u]
    BY <1>3, <1>5
  <2>4. \A u, v \in Allocating' : block'[u] = block'[v] => u = v
    BY Zenon, <2>1, <2>3
  <2>5. QED
    BY Zenon, <2>2, <2>4 DEF Calls
<1>10. Peaks'
  <2>1. ASSUME NEW u \in Threads \cup Readers PROVE seen'[u]["liveRequested"] <= high /\ seen'[u]["peakUsage"] <= peakUsage
    <3>1. CASE u # t
      BY ZenonT(30), <1>2, <1>3, <3>1 DEF Peaks
    <3>2. CASE u = t
      BY <1>2, <1>6, <3>2 DEF Typed
    <3>3. QED
      BY Zenon, <3>1, <3>2
  <2>2. ASSUME NEW u \in Threads \cup Readers, WillRaise(u) PROVE WillRaise(u)'
    <3>1. u # t
      BY ZenonT(30), <1>3, <2>2 DEF WillRaise
    <3>2. QED
      BY Zenon, <1>1, <1>3, <2>2, <3>1 DEF WillRaise
  <2>3. QED
    BY Zenon, <1>1, <1>2, <2>1, <2>2 DEF Peaks
<1>11. Undisturbed'
  <2>1. quiet' # {} => Allocating' \cup Freeing' = {}
    BY <1>1, <1>2, <1>3 DEF Undisturbed
  <2>2. ASSUME NEW u \in quiet' PROVE pc'[u] = "snapshot" /\ \A f \in Field \ todo'[u] : seen'[u][f] = value(f)'
    <3>1. u \in quiet /\ u \in Threads \cup Readers /\ u # t
      BY <1>1, <1>2, <2>2 DEF Typed
    <3>2. pc[u] = "snapshot" /\ \A f \in Field \ todo[u] : seen[u][f] = value(f)
      BY Zenon, <1>2, <3>1 DEF Undisturbed
    <3>3. \A f : value(f)' = value(f)
      BY Zenon, <1>1 DEF value
    <3>4. pc'[u] = pc[u] /\ seen'[u] = seen[u]
      BY Zenon, <1>3, <3>1
    <3>5. QED
      BY Zenon, <1>1, <3>2, <3>3, <3>4
  <2>3. QED
    BY Zenon, <2>1, <2>2 DEF Undisturbed
<1>12. QED
  BY Zenon, <1>7, <1>8, <1>9, <1>10, <1>11 DEF IInv

-----------------------------------------------------------------------------
(* Additions                                                               *)

(* What is left of a sum on going round: a value in range is itself, and   *)
(* another differs by whole turns.                                         *)
LEMMA Wrapped ==
    ASSUME NEW x \in Int
    PROVE  /\ Modulus \in Nat /\ x % Modulus \in Nat
           /\ 0 <= x /\ x < Modulus => x % Modulus = x
           /\ \E k \in Int : x % Modulus = x - k * Modulus
<1>1. Modulus \in Nat /\ Modulus > 0
  BY SizeAssumption, FS_CardinalityType
<1>2. x % Modulus \in Nat
  BY <1>1
<1>3. 0 <= x /\ x < Modulus => x % Modulus = x
  BY <1>1
<1>4. \E k \in Int : x % Modulus = x - Modulus * k
  BY <1>1
<1>5. PICK k \in Int : x % Modulus = x - Modulus * k
  BY Zenon, <1>4
<1>6. Modulus * k = k * Modulus
  BY <1>1
<1>7. QED
  BY Zenon, <1>1, <1>2, <1>3, <1>5, <1>6

(* The sets and sums a call's addition changes.                            *)
LEMMA FetchFrame ==
    ASSUME IInv, NEW t \in Threads \cup Readers, NEW c \in Counter, fetch(t, c)
    PROVE  /\ t \in Allocating \cup Freeing /\ c \in todo[t] /\ block[t] \in Blocks
           /\ t \in Allocating => c \in toAllocate /\ t \in ToAdd(c) /\ t \notin Freeing
           /\ t \in Freeing => c \in toFree /\ t \in ToTake(c) /\ t \notin Allocating
           /\ todo'[t] = todo[t] \ {c} /\ \A u \in Threads \cup Readers : u # t => todo'[u] = todo[u]
           /\ Allocating' = Allocating /\ Freeing' = Freeing
           /\ ToAdd(c)' = ToAdd(c) \ {t} /\ ToTake(c)' = ToTake(c) \ {t}
           /\ \A d : d # c => ToAdd(d)' = ToAdd(d) /\ ToTake(d)' = ToTake(d)
<1>1. /\ pc[t] \in {"recordAllocation", "recordFree"} /\ c \in todo[t]
      /\ todo' = [todo EXCEPT ![t] = @ \ {c}] /\ pc' = pc
  BY Zenon DEF fetch, Done
<1>2. Typed /\ Calls /\ Calling(t)
  BY Zenon DEF IInv, Calls
<1>3. todo'[t] = todo[t] \ {c} /\ \A u \in Threads \cup Readers : u # t => todo'[u] = todo[u]
  BY Zenon, <1>1, <1>2 DEF Typed
<1>4. Allocating' = Allocating /\ Freeing' = Freeing
  BY Zenon, <1>1 DEF Allocating, Freeing, In
<1>5. /\ t \in Allocating \cup Freeing /\ block[t] \in Blocks
      /\ t \in Allocating => pc[t] = "recordAllocation" /\ c \in toAllocate /\ t \notin Freeing
      /\ t \in Freeing => pc[t] = "recordFree" /\ c \in toFree /\ t \notin Allocating
  BY <1>1, <1>2 DEF Allocating, Freeing, In, Calling
<1>6. /\ t \in Allocating => t \in ToAdd(c)
      /\ t \in Freeing => t \in ToTake(c)
  BY Zenon, <1>1 DEF ToAdd, ToTake
<1>7. \A u \in Allocating \cup Freeing : u \in Threads \cup Readers
  BY DEF Allocating, Freeing, In
<1>8. \A u \in Allocating \cup Freeing : /\ c \in todo'[u] <=> c \in todo[u] /\ u # t
                                        /\ \A d : d # c => (d \in todo'[u] <=> d \in todo[u])
  BY Zenon, <1>3, <1>7
<1>9. ToAdd(c)' = ToAdd(c) \ {t} /\ ToTake(c)' = ToTake(c) \ {t}
  BY SMTT(30), <1>4, <1>8 DEF ToAdd, ToTake
<1>10. \A d : d # c => ToAdd(d)' = ToAdd(d) /\ ToTake(d)' = ToTake(d)
  BY <1>4, <1>8 DEF ToAdd, ToTake
<1>11. QED
  BY Zenon, <1>1, <1>3, <1>4, <1>5, <1>6, <1>9, <1>10

(* The value of a counter after an addition: a live counter neither passes *)
(* its range nor drops below zero.                                         *)
LEMMA FetchValue ==
    ASSUME IInv, NEW t \in Threads \cup Readers, NEW c \in Counter, fetch(t, c)
    PROVE  /\ Amount(c, block[t]) \in Nat /\ counter' \in [Counter -> Nat]
           /\ \A d \in Counter : d # c => counter'[d] = counter[d]
           /\ \E k \in Int : c \notin Live => counter'[c] = counter[c] + Amount(c, block[t]) - k * Modulus
           /\ c \in Live =>
                 /\ counter'[c] = IF t \in Freeing THEN counter[c] - Amount(c, block[t])
                                  ELSE counter[c] + Amount(c, block[t])
                 /\ Exact(c)'
<1> DEFINE amt == Amount(c, block[t])
           rest == due(c) \ {t}
<1>1. Typed /\ Calls /\ Sums
  BY Zenon DEF IInv
<1>2. /\ t \in Allocating \cup Freeing /\ block[t] \in Blocks
      /\ t \in Allocating => t \in ToAdd(c) /\ t \notin Freeing
      /\ t \in Freeing => t \in ToTake(c) /\ t \notin Allocating
      /\ Allocating' = Allocating /\ Freeing' = Freeing
      /\ ToAdd(c)' = ToAdd(c) \ {t} /\ ToTake(c)' = ToTake(c) \ {t}
  BY Zenon, FetchFrame
<1>3. amt \in Nat /\ counter[c] \in Nat
  BY Zenon, <1>1, <1>2, AmountType DEF Typed
<1>4. PICK x \in Int :
          /\ x = IF t \in Freeing /\ c \in Live THEN counter[c] - amt ELSE counter[c] + amt
          /\ counter' = [counter EXCEPT ![c] = x % Modulus]
  <2>1. pc[t] = "recordFree" <=> t \in Freeing
    BY DEF Freeing, In
  <2> DEFINE sign == IF pc[t] = "recordFree" /\ c \in Live THEN -1 ELSE 1
  <2>2. counter' = [counter EXCEPT ![c] = (counter[c] + sign * amt) % Modulus]
    BY Zenon DEF fetch
  <2> HIDE DEF amt
  <2>3. /\ sign = -1 => counter[c] + sign * amt = counter[c] - amt
        /\ sign = 1 => counter[c] + sign * amt = counter[c] + amt
    <3> HIDE DEF sign
    <3>1. QED
      BY <1>3
  <2>4. counter[c] - amt \in Int /\ counter[c] + amt \in Int
    BY <1>3
  <2>5. CASE t \in Freeing /\ c \in Live
    <3>1. sign = -1
      BY Zenon, <2>1, <2>5
    <3> HIDE DEF sign
    <3>2. QED
      BY Zenon, <2>2, <2>3, <2>4, <2>5, <3>1
  <2>6. CASE ~(t \in Freeing /\ c \in Live)
    <3>1. sign = 1
      BY Zenon, <2>1, <2>6
    <3> HIDE DEF sign
    <3>2. QED
      BY Zenon, <2>2, <2>3, <2>4, <2>6, <3>1
  <2>7. QED
    BY Zenon, <2>5, <2>6
<1>5. /\ Modulus \in Nat /\ x % Modulus \in Nat
      /\ 0 <= x /\ x < Modulus => x % Modulus = x
      /\ \E k \in Int : x % Modulus = x - k * Modulus
  BY Zenon, Wrapped
<1>6. counter' \in [Counter -> Nat] /\ counter'[c] = x % Modulus /\ \A d \in Counter : d # c => counter'[d] = counter[d]
  <2>1. x % Modulus \in Nat /\ counter' = [counter EXCEPT ![c] = x % Modulus] /\ counter \in [Counter -> Nat]
    BY Zenon, <1>1, <1>4, <1>5 DEF Typed
  <2> DEFINE y == x % Modulus
  <2> HIDE DEF y
  <2>2. y \in Nat /\ counter' = [counter EXCEPT ![c] = y]
    BY Zenon, <2>1 DEF y
  <2>3. counter' \in [Counter -> Nat] /\ counter'[c] = y /\ \A d \in Counter : d # c => counter'[d] = counter[d]
    BY <2>1, <2>2
  <2>4. QED
    BY Zenon, <2>3 DEF y
<1>7. \E k \in Int : c \notin Live => counter'[c] = counter[c] + amt - k * Modulus
  <2>1. PICK k \in Int : x % Modulus = x - k * Modulus
    BY Zenon, <1>5
  <2>2. c \notin Live => x = counter[c] + amt
    BY Zenon, <1>4
  <2> DEFINE more == k * Modulus
  <2>3. counter'[c] = x - more
    BY Zenon, <1>6, <2>1
  <2>4. c \notin Live => counter'[c] = counter[c] + amt - more
    <3>1. more \in Int
      BY <1>5
    <3> HIDE DEF more, amt
    <3>2. QED
      BY <1>3, <2>2, <2>3, <3>1
  <2>5. QED
    BY Zenon, <2>4
<1>8. ASSUME c \in Live
      PROVE  /\ counter'[c] = IF t \in Freeing THEN counter[c] - amt ELSE counter[c] + amt
             /\ Exact(c)'
  <2>1. /\ rest \in SUBSET Threads /\ rest \cup {t} \in SUBSET Threads /\ held \in SUBSET Blocks
        /\ (\A u \in rest : block[u] \in Blocks) /\ (\A u \in rest \cup {t} : block[u] \in Blocks)
    <3>1. /\ Allocating \subseteq Threads /\ Freeing \subseteq Threads
          /\ \A u \in Allocating \cup Freeing : block[u] \in Blocks
          /\ due(c) \subseteq Allocating \cup Freeing
      BY Zenon, <1>1, CallFacts
    <3>2. rest \cup {t} \subseteq Allocating \cup Freeing
      BY SMTT(30), <1>2, <3>1
    <3>3. held \in SUBSET Blocks
      BY <1>1 DEF Typed
    <3>4. QED
      BY <3>1, <3>2, <3>3
  <2>2. /\ t \in Freeing => due(c) = rest \cup {t} /\ due(c)' = rest
        /\ t \notin Freeing => due(c) = rest /\ due(c)' = rest \cup {t}
    <3>1. due(c)' = (Allocating \ (ToAdd(c) \ {t})) \cup (ToTake(c) \ {t})
      BY Zenon, <1>2 DEF due
    <3>2. ToTake(c) \subseteq Freeing
      BY DEF ToTake
    <3>3. due(c) = (Allocating \ ToAdd(c)) \cup ToTake(c)
      BY Zenon DEF due
    <3>4. CASE t \in Freeing
      BY Zenon, <1>2, <3>1, <3>3, <3>4
    <3>5. CASE t \notin Freeing
      BY Zenon, <1>2, <3>1, <3>2, <3>3, <3>5
    <3>6. QED
      BY Zenon, <3>4, <3>5
  <2>3. t \notin rest
    OBVIOUS
  <2> HIDE DEF rest, amt
  <2>4. IsFiniteSet(rest) /\ HeldSum(c, held) \in Nat /\ CallSum(c, block, rest) \in Nat
    BY Zenon, <2>1, SumTypes
  <2>5. CallSum(c, block, rest \cup {t}) = CallSum(c, block, rest) + amt
    <3>1. CallSum(c, block, rest \cup {t}) = CallSum(c, block, rest) + Amount(c, block[t])
      BY ZenonT(30), <1>2, <2>1, <2>3, <2>4, CallSumAdd
    <3>2. QED
      BY Zenon, <3>1 DEF amt
  <2>6. /\ HeldSum(c, held) + CallSum(c, block, rest) < Modulus
        /\ HeldSum(c, held) + CallSum(c, block, rest \cup {t}) < Modulus
    BY Zenon, <1>8, <2>1, LiveBound
  <2>7. counter[c] = HeldSum(c, held) + CallSum(c, block, due(c))
    BY Zenon, <1>1, <1>8 DEF Sums, Exact
  <2>8. x = HeldSum(c, held) + CallSum(c, block, IF t \in Freeing THEN rest ELSE rest \cup {t})
    <3>1. CASE t \in Freeing
      <4>1. x = counter[c] - amt /\ counter[c] = HeldSum(c, held) + CallSum(c, block, rest \cup {t})
        BY ZenonT(30), <1>4, <1>8, <2>2, <2>7, <3>1
      <4>2. x = HeldSum(c, held) + CallSum(c, block, rest)
        BY SMTT(30), <1>3, <2>4, <2>5, <4>1
      <4>3. QED
        BY Zenon, <3>1, <4>2
    <3>2. CASE t \notin Freeing
      <4>1. x = counter[c] + amt /\ counter[c] = HeldSum(c, held) + CallSum(c, block, rest)
        BY Zenon, <1>4, <1>8, <2>2, <2>7, <3>2
      <4>2. x = HeldSum(c, held) + CallSum(c, block, rest \cup {t})
        BY <1>3, <2>4, <2>5, <4>1
      <4>3. QED
        BY Zenon, <3>2, <4>2
    <3>3. QED
      BY Zenon, <3>1, <3>2
  <2>9. x % Modulus = x
    <3>1. CASE t \in Freeing
      BY SMTT(30), <1>5, <2>4, <2>6, <2>8, <3>1
    <3>2. CASE t \notin Freeing
      BY SMTT(30), <1>3, <1>5, <2>4, <2>5, <2>6, <2>8, <3>2
    <3>3. QED
      BY Zenon, <3>1, <3>2
  <2>10. counter'[c] = HeldSum(c, held) + CallSum(c, block, due(c)')
    <3>1. due(c)' = IF t \in Freeing THEN rest ELSE rest \cup {t}
      BY Zenon, <2>2
    <3>2. QED
      BY Zenon, <1>6, <2>8, <2>9, <3>1
  <2>11. held' = held /\ block' = block
    BY Zenon DEF fetch
  <2>12. Exact(c)'
    BY Zenon, <2>10, <2>11 DEF Exact
  <2>13. QED
    BY Zenon, <1>4, <1>6, <1>8, <2>9, <2>12
<1>9. QED
  BY Zenon, <1>3, <1>6, <1>7, <1>8

(* An addition keeps a pair of totals in balance.                          *)
LEMMA FetchBalanced ==
    ASSUME IInv, NEW t \in Threads \cup Readers, NEW c \in Counter, fetch(t, c),
           NEW a \in Counter \ toFree, NEW f \in Counter \ toAllocate, NEW d \in Counter, a \notin Live, f \notin Live,
           \A b \in Blocks : Amount(a, b) = Amount(d, b) /\ Amount(f, b) = Amount(d, b),
           Balanced(a, f, d)
    PROVE  Balanced(a, f, d)'
<1> DEFINE amt == Amount(d, block[t])
<1>1. Typed /\ Calls
  BY Zenon DEF IInv
<1>2. PICK turns \in Int :
          counter[a] + CallSum(d, block, ToAdd(a))
              = counter[f] + CallSum(d, block, ToTake(f))
                + HeldSum(d, held) + CallSum(d, block, Allocating) + turns * Modulus
  BY Zenon DEF Balanced
<1>3. /\ t \in Allocating \cup Freeing /\ block[t] \in Blocks
      /\ t \in Allocating => c \in toAllocate /\ t \in ToAdd(c)
      /\ t \in Freeing => c \in toFree /\ t \in ToTake(c)
      /\ Allocating' = Allocating
      /\ ToAdd(c)' = ToAdd(c) \ {t} /\ ToTake(c)' = ToTake(c) \ {t}
      /\ \A e : e # c => ToAdd(e)' = ToAdd(e) /\ ToTake(e)' = ToTake(e)
  BY Zenon, FetchFrame
<1>4. /\ counter' \in [Counter -> Nat]
      /\ \A e \in Counter : e # c => counter'[e] = counter[e]
      /\ \E k \in Int : c \notin Live => counter'[c] = counter[c] + Amount(c, block[t]) - k * Modulus
  BY ZenonT(30), FetchValue
<1>5. held' = held /\ block' = block
  BY Zenon DEF fetch
<1>6. /\ ToAdd(a) \in SUBSET Threads /\ ToTake(f) \in SUBSET Threads /\ Allocating \in SUBSET Threads
      /\ held \in SUBSET Blocks
      /\ (\A u \in ToAdd(a) : block[u] \in Blocks) /\ (\A u \in ToTake(f) : block[u] \in Blocks)
      /\ (\A u \in Allocating : block[u] \in Blocks)
  <2>1. /\ Allocating \subseteq Threads /\ (\A u \in Allocating \cup Freeing : block[u] \in Blocks)
        /\ ToAdd(a) \subseteq Allocating /\ ToTake(f) \subseteq Freeing
        /\ ToAdd(a) \subseteq Threads /\ ToTake(f) \subseteq Threads
    BY Zenon, <1>1, CallFacts
  <2>2. QED
    BY <1>1, <2>1 DEF Typed
<1>7. /\ IsFiniteSet(ToAdd(a)) /\ CallSum(d, block, ToAdd(a)) \in Nat
      /\ IsFiniteSet(ToTake(f)) /\ CallSum(d, block, ToTake(f)) \in Nat
      /\ HeldSum(d, held) \in Nat /\ CallSum(d, block, Allocating) \in Nat
  BY Zenon, <1>6, SumTypes
<1>8. /\ counter[a] \in Nat /\ counter[f] \in Nat /\ counter'[a] \in Nat /\ counter'[f] \in Nat
      /\ amt \in Nat /\ Modulus \in Nat
  <2>1. counter \in [Counter -> Nat] /\ Modulus \in Nat
    BY Zenon, <1>1, SizeAssumption DEF Typed
  <2>2. QED
    BY Zenon, <1>3, <1>4, <2>1, AmountType
<1>9. CASE c # a /\ c # f
  <2>1. counter'[a] = counter[a] /\ counter'[f] = counter[f] /\ ToAdd(a)' = ToAdd(a) /\ ToTake(f)' = ToTake(f)
    BY Zenon, <1>3, <1>4, <1>9
  <2>2. QED
    BY Zenon, <1>2, <1>3, <1>5, <2>1 DEF Balanced
<1>10. CASE c = a
  <2>1. a # f /\ t \in ToAdd(a) /\ ToAdd(a)' = ToAdd(a) \ {t} /\ ToTake(f)' = ToTake(f) /\ counter'[f] = counter[f]
    <3>1. t \in Allocating
      BY Zenon, <1>3, <1>10
    <3>2. a # f
      BY Zenon, <1>3, <1>10, <3>1
    <3>3. QED
      BY Zenon, <1>3, <1>4, <1>10, <3>1, <3>2
  <2>2. PICK k \in Int : counter'[a] = counter[a] + amt - k * Modulus
    BY Zenon, <1>3, <1>4, <1>10
  <2>3. CallSum(d, block, ToAdd(a)) = CallSum(d, block, ToAdd(a) \ {t}) + amt
    <3>1. CallSum(d, block, ToAdd(a)) = CallSum(d, block, ToAdd(a) \ {t}) + Amount(d, block[t])
      BY SMTT(30), <1>6, <1>7, <2>1, CallSumRemove
    <3>2. QED
      BY ZenonT(30), <3>1
  <2>4. CallSum(d, block, ToAdd(a) \ {t}) \in Nat
    <3>1. ToAdd(a) \ {t} \in SUBSET Threads /\ (\A u \in ToAdd(a) \ {t} : block[u] \in Blocks)
      BY Zenon, <1>6
    <3>2. QED
      BY Zenon, <1>6, <3>1, SumTypes
  <2> HIDE DEF amt
  <2> DEFINE before == turns * Modulus
             more == k * Modulus
             after == (turns - k) * Modulus
  <2>5. after = before - more /\ before \in Int /\ more \in Int /\ turns - k \in Int
    BY <1>8
  <2>6. counter'[a] + CallSum(d, block, ToAdd(a) \ {t})
            = counter[f] + CallSum(d, block, ToTake(f))
              + HeldSum(d, held) + CallSum(d, block, Allocating) + (turns - k) * Modulus
    <3>1. /\ counter[a] + CallSum(d, block, ToAdd(a))
                 = counter[f] + CallSum(d, block, ToTake(f)) + HeldSum(d, held) + CallSum(d, block, Allocating) + before
          /\ counter'[a] = counter[a] + amt - more
      BY ZenonT(30), <1>2, <2>2
    <3> HIDE DEF before, more, after
    <3>2. counter'[a] + CallSum(d, block, ToAdd(a) \ {t})
              = counter[f] + CallSum(d, block, ToTake(f)) + HeldSum(d, held) + CallSum(d, block, Allocating) + after
      BY SMTT(30), <1>7, <1>8, <2>3, <2>4, <2>5, <3>1
    <3>3. QED
      BY Zenon, <3>2 DEF after
  <2>7. QED
    BY Zenon, <1>3, <1>5, <2>1, <2>5, <2>6 DEF Balanced
<1>11. CASE c = f
  <2>1. a # f /\ t \in ToTake(f) /\ ToTake(f)' = ToTake(f) \ {t} /\ ToAdd(a)' = ToAdd(a) /\ counter'[a] = counter[a]
    <3>1. t \in Freeing
      BY Zenon, <1>3, <1>11
    <3>2. a # f
      BY Zenon, <1>3, <1>11, <3>1
    <3>3. QED
      BY Zenon, <1>3, <1>4, <1>11, <3>1, <3>2
  <2>2. PICK k \in Int : counter'[f] = counter[f] + amt - k * Modulus
    BY Zenon, <1>3, <1>4, <1>11
  <2>3. CallSum(d, block, ToTake(f)) = CallSum(d, block, ToTake(f) \ {t}) + amt
    <3>1. CallSum(d, block, ToTake(f)) = CallSum(d, block, ToTake(f) \ {t}) + Amount(d, block[t])
      BY SMTT(30), <1>6, <1>7, <2>1, CallSumRemove
    <3>2. QED
      BY ZenonT(30), <3>1
  <2>4. CallSum(d, block, ToTake(f) \ {t}) \in Nat
    <3>1. ToTake(f) \ {t} \in SUBSET Threads /\ (\A u \in ToTake(f) \ {t} : block[u] \in Blocks)
      BY ZenonT(30), <1>6
    <3>2. QED
      BY Zenon, <1>6, <3>1, SumTypes
  <2> HIDE DEF amt
  <2> DEFINE before == turns * Modulus
             more == k * Modulus
             after == (turns + k) * Modulus
  <2>5. after = before + more /\ before \in Int /\ more \in Int /\ turns + k \in Int
    BY <1>8
  <2>6. counter[a] + CallSum(d, block, ToAdd(a))
            = counter'[f] + CallSum(d, block, ToTake(f) \ {t})
              + HeldSum(d, held) + CallSum(d, block, Allocating) + (turns + k) * Modulus
    <3>1. /\ counter[a] + CallSum(d, block, ToAdd(a))
                 = counter[f] + CallSum(d, block, ToTake(f)) + HeldSum(d, held) + CallSum(d, block, Allocating) + before
          /\ counter'[f] = counter[f] + amt - more
      BY ZenonT(30), <1>2, <2>2
    <3> HIDE DEF before, more, after
    <3>2. counter[a] + CallSum(d, block, ToAdd(a))
              = counter'[f] + CallSum(d, block, ToTake(f) \ {t}) + HeldSum(d, held) + CallSum(d, block, Allocating) + after
      BY SMTT(30), <1>7, <1>8, <2>3, <2>4, <2>5, <3>1
    <3>3. QED
      BY Zenon, <3>2 DEF after
  <2>7. QED
    BY Zenon, <1>3, <1>5, <2>1, <2>5, <2>6 DEF Balanced
<1>12. QED
  BY Zenon, <1>9, <1>10, <1>11

(* The peak after an addition: an allocation that adds to what is live has *)
(* its own turn at the peak to come, and a free lowers what is live.       *)
LEMMA FetchPeaks ==
    ASSUME IInv, NEW t \in Threads \cup Readers, NEW c \in Counter, fetch(t, c)
    PROVE  Peaks' /\ high' \in Nat
<1> DEFINE x == counter["liveRequested"]
           y == counter'["liveRequested"]
<1>1. Typed /\ Calls /\ Peaks
  BY Zenon DEF IInv
<1>2. /\ t \in Allocating \cup Freeing /\ c \in todo[t]
      /\ todo'[t] = todo[t] \ {c} /\ \A u \in Threads \cup Readers : u # t => todo'[u] = todo[u]
  BY Zenon, FetchFrame
<1>3. /\ Amount(c, block[t]) \in Nat /\ counter' \in [Counter -> Nat]
      /\ \A d \in Counter : d # c => counter'[d] = counter[d]
      /\ c \in Live => counter'[c] = IF t \in Freeing THEN counter[c] - Amount(c, block[t])
                                     ELSE counter[c] + Amount(c, block[t])
  BY Zenon, FetchValue
<1>4. pc' = pc /\ seen' = seen /\ peakUsage' = peakUsage /\ high' = IF y > high THEN y ELSE high
  BY Zenon DEF fetch
<1>5. "liveRequested" \in Counter /\ "liveRequested" \in Live /\ "current" \notin Counter /\ "exchange" \notin Counter
  BY DEF Counter, Live
<1>6. x \in Nat /\ y \in Nat /\ high \in Nat /\ peakUsage \in Nat
  BY Zenon, <1>1, <1>3, <1>5 DEF Typed
<1>7. /\ x <= high /\ peakUsage <= high
      /\ \A u \in Threads \cup Readers : seen[u]["liveRequested"] <= high /\ seen[u]["peakUsage"] <= peakUsage
      /\ x <= peakUsage \/ \E u \in Threads \cup Readers : WillRaise(u)
  BY Zenon, <1>1 DEF Peaks
<1>8. \A u \in Threads \cup Readers : seen[u]["liveRequested"] \in Nat
  BY <1>1 DEF Typed, Field, Counter
<1>9. y <= peakUsage \/ \E u \in Threads \cup Readers : WillRaise(u)'
  <2>1. CASE c = "liveRequested" /\ t \in Allocating
    <3>1. pc[t] = "recordAllocation" /\ Calling(t)
      BY Zenon, <1>1, <2>1 DEF Allocating, In, Calls
    <3>2. "exchange" \in todo[t] /\ "current" \in todo[t]
      BY Zenon, <1>2, <2>1, <3>1 DEF Calling
    <3>3. "exchange" \in todo'[t] /\ "current" \in todo'[t] /\ "liveRequested" \notin todo'[t]
      BY <1>2, <1>5, <2>1, <3>2
    <3>4. QED
      BY Zenon, <1>4, <3>1, <3>3 DEF WillRaise
  <2>2. CASE ~(c = "liveRequested" /\ t \in Allocating)
    <3>1. y <= x
      <4>1. CASE c = "liveRequested"
        <5>1. t \in Freeing
          BY Zenon, <1>2, <2>2, <4>1
        <5>2. y = x - Amount(c, block[t])
          BY Zenon, <1>3, <1>5, <4>1, <5>1
        <5> HIDE DEF x, y
        <5>3. QED
          BY <1>3, <1>6, <5>2
      <4>2. CASE c # "liveRequested"
        <5>1. y = x
          BY Zenon, <1>3, <1>5, <4>2
        <5> HIDE DEF x, y
        <5>2. QED
          BY <1>6, <5>1
      <4>3. QED
        BY Zenon, <4>1, <4>2
    <3>2. CASE x <= peakUsage
      <4> HIDE DEF x, y
      <4>1. QED
        BY <1>6, <3>1, <3>2
    <3>3. ASSUME NEW u \in Threads \cup Readers, WillRaise(u) PROVE WillRaise(u)'
      <4>1. /\ pc[u] = "recordAllocation" /\ "exchange" \in todo[u] /\ "liveRequested" \notin todo[u]
            /\ "current" \in todo[u] \/ x <= seen[u]["liveRequested"]
        BY Zenon, <3>3 DEF WillRaise
      <4>2. /\ "exchange" \in todo'[u] /\ "liveRequested" \notin todo'[u]
            /\ "current" \in todo[u] => "current" \in todo'[u]
        <5>1. todo'[u] = todo[u] \ {c} \/ todo'[u] = todo[u]
          BY Zenon, <1>2
        <5>2. QED
          BY <1>5, <4>1, <5>1
      <4>3. x <= seen[u]["liveRequested"] => y <= seen[u]["liveRequested"]
        <5> HIDE DEF x, y
        <5>1. seen[u]["liveRequested"] \in Nat
          BY Zenon, <1>8
        <5>2. QED
          BY <1>6, <3>1, <5>1
      <4>4. QED
        BY Zenon, <1>4, <4>1, <4>2, <4>3 DEF WillRaise
    <3>4. QED
      BY Zenon, <1>7, <3>2, <3>3
  <2>3. QED
    BY Zenon, <2>1, <2>2
<1>10. high' \in Nat /\ y <= high' /\ high <= high'
  <2> HIDE DEF x, y
  <2>1. QED
    BY SMTT(30), <1>4, <1>6
<1>11. peakUsage <= high' /\ \A u \in Threads \cup Readers : seen[u]["liveRequested"] <= high'
  <2> HIDE DEF x, y
  <2>1. QED
    BY <1>6, <1>7, <1>8, <1>10
<1>12. Peaks'
  BY Zenon, <1>4, <1>7, <1>9, <1>10, <1>11 DEF Peaks
<1>13. QED
  BY Zenon, <1>10, <1>12

(* A call adds to a counter, or takes from it.                             *)
LEMMA FetchInv ==
    ASSUME IInv, NEW t \in Threads \cup Readers, NEW c \in Counter, fetch(t, c)
    PROVE  IInv'
<1>1. Typed /\ Calls /\ Sums /\ Undisturbed
  BY Zenon DEF IInv
<1>2. /\ t \in Allocating \cup Freeing
      /\ todo'[t] = todo[t] \ {c} /\ \A u \in Threads \cup Readers : u # t => todo'[u] = todo[u]
      /\ Allocating' = Allocating /\ Freeing' = Freeing
      /\ \A d : d # c => ToAdd(d)' = ToAdd(d) /\ ToTake(d)' = ToTake(d)
  BY Zenon, FetchFrame
<1>3. /\ counter' \in [Counter -> Nat] /\ (\A d \in Counter : d # c => counter'[d] = counter[d])
      /\ c \in Live => Exact(c)'
  BY Zenon, FetchValue
<1>4. /\ pc' = pc /\ block' = block /\ held' = held /\ seen' = seen /\ peakUsage' = peakUsage /\ quiet' = quiet
      /\ todo' = [todo EXCEPT ![t] = @ \ {c}]
  BY Zenon DEF fetch, Done
<1>5. Peaks' /\ high' \in Nat
  BY Zenon, FetchPeaks
<1>6. Typed'
  <2>1. todo' \in [Threads \cup Readers -> SUBSET Access]
    BY <1>1, <1>4 DEF Typed
  <2>2. QED
    BY Zenon, <1>1, <1>3, <1>4, <1>5, <2>1 DEF Typed
<1>7. ASSUME NEW d \in Live PROVE Exact(d)'
  <2>1. CASE d = c
    BY Zenon, <1>3, <1>7, <2>1
  <2>2. CASE d # c
    <3>1. due(d)' = due(d)
      BY Zenon, <1>2, <2>2 DEF due
    <3>2. counter'[d] = counter[d]
      <4>1. d \in Counter
        BY DEF Live, Counter
      <4>2. QED
        BY Zenon, <1>3, <2>2, <4>1
    <3>3. QED
      BY Zenon, <1>1, <1>4, <1>7, <3>1, <3>2 DEF Exact, Sums
  <2>3. QED
    BY Zenon, <2>1, <2>2
<1>8. Sums'
  <2>1. /\ "allocationCount" \in Counter \ toFree /\ "allocatedBytes" \in Counter \ toFree
        /\ "freeCount" \in Counter \ toAllocate /\ "freedBytes" \in Counter \ toAllocate
        /\ "activeAllocations" \in Counter /\ "liveRequested" \in Counter
        /\ {"allocationCount", "allocatedBytes", "freeCount", "freedBytes"} \cap Live = {}
    BY DEF Counter, toFree, toAllocate, Live
  <2>2. \A b \in Blocks : /\ Amount("allocationCount", b) = Amount("activeAllocations", b)
                          /\ Amount("freeCount", b) = Amount("activeAllocations", b)
                          /\ Amount("allocatedBytes", b) = Amount("liveRequested", b)
                          /\ Amount("freedBytes", b) = Amount("liveRequested", b)
    BY DEF Amount
  <2>3. Balanced("allocationCount", "freeCount", "activeAllocations")'
    BY Zenon, <1>1, <2>1, <2>2, FetchBalanced DEF Sums
  <2>4. Balanced("allocatedBytes", "freedBytes", "liveRequested")'
    BY Zenon, <1>1, <2>1, <2>2, FetchBalanced DEF Sums
  <2>5. QED
    BY Zenon, <1>7, <2>3, <2>4 DEF Sums
<1>9. Calls'
  <2>1. ASSUME NEW u \in Threads \cup Readers PROVE Calling(u)'
    <3>1. Calling(u)
      BY Zenon, <1>1 DEF Calls
    <3>2. CASE u # t
      BY Zenon, <1>2, <1>4, <3>1, <3>2 DEF Calling
    <3>3. CASE u = t
      <4>1. todo'[u] = todo[u] \ {c} /\ c # "current" /\ c # "exchange"
        BY <1>2, <3>3 DEF Counter
      <4>2. QED
        BY Zenon, <1>4, <3>1, <4>1 DEF Calling
    <3>4. QED
      BY Zenon, <3>2, <3>3
  <2>2. \A u, v \in Allocating : block[u] = block[v] => u = v
    BY Zenon, <1>1 DEF Calls
  <2>3. \A u, v \in Allocating' : block'[u] = block'[v] => u = v
    BY Zenon, <1>2, <1>4, <2>2
  <2>4. QED
    BY Zenon, <2>1, <2>3 DEF Calls
<1>10. Undisturbed'
  <2>1. quiet' = {}
    BY <1>1, <1>2, <1>4 DEF Undisturbed
  <2>2. QED
    BY Zenon, <2>1 DEF Undisturbed
<1>11. QED
  BY Zenon, <1>5, <1>6, <1>8, <1>9, <1>10 DEF IInv

-----------------------------------------------------------------------------
(* Theorems                                                                *)

(* The counters start from nothing.                                        *)
LEMMA InitInv == Init => IInv
<1> SUFFICES ASSUME Init PROVE IInv
  OBVIOUS
<1>1. /\ counter = [c \in Counter |-> 0] /\ peakUsage = 0 /\ held = {} /\ high = 0 /\ quiet = {}
      /\ pc = [t \in Threads \cup Readers |-> "idle"] /\ block = [t \in Threads \cup Readers |-> none]
      /\ todo = [t \in Threads \cup Readers |-> {}] /\ seen = [t \in Threads \cup Readers |-> unseen]
  BY Zenon DEF Init
<1>2. Allocating = {} /\ Freeing = {}
  BY <1>1 DEF Allocating, Freeing, In
<1>3. \A c : ToAdd(c) = {} /\ ToTake(c) = {} /\ due(c) = {}
  BY <1>2 DEF ToAdd, ToTake, due
<1>4. unseen \in [Field -> Nat] /\ unseen["liveRequested"] = 0 /\ unseen["peakUsage"] = 0
  BY DEF unseen, Field, Counter
<1>5. counter \in [Counter -> Nat] /\ \A c \in Counter : counter[c] = 0
  BY Zenon, <1>1
<1>6. Typed
  BY Zenon, <1>1, <1>4, <1>5 DEF Typed
<1>7. Calls
  <2>1. \A t \in Threads \cup Readers : Calling(t)
    BY <1>1 DEF Calling
  <2>2. QED
    BY Zenon, <1>2, <2>1 DEF Calls
<1>8. \A c : HeldSum(c, held) = 0 /\ CallSum(c, block, {}) = 0
  <2>1. \A c : Units([b \in {} |-> Amount(c, b)]) = {} /\ Units([t \in {} |-> Amount(c, block[t])]) = {}
    BY DEF Units
  <2>2. Cardinality({}) = 0
    BY FS_EmptySet
  <2>3. QED
    BY Zenon, <1>1, <2>1, <2>2 DEF HeldSum, CallSum, Total
<1>9. Sums
  <2>1. ASSUME NEW c \in Live PROVE Exact(c)
    <3>1. c \in Counter
      BY DEF Live, Counter
    <3>2. CallSum(c, block, due(c)) = 0 /\ HeldSum(c, held) = 0 /\ counter[c] = 0
      BY Zenon, <1>3, <1>5, <1>8, <3>1
    <3>3. QED
      BY <3>2 DEF Exact
  <2>2. ASSUME NEW a \in Counter, NEW f \in Counter, NEW c PROVE Balanced(a, f, c)
    <3>1. /\ CallSum(c, block, ToAdd(a)) = 0 /\ CallSum(c, block, ToTake(f)) = 0
          /\ CallSum(c, block, Allocating) = 0 /\ HeldSum(c, held) = 0
      BY Zenon, <1>2, <1>3, <1>8
    <3>2. 0 + 0 = 0 + 0 + 0 + 0 + 0 * Modulus /\ 0 \in Int
      BY SizeAssumption
    <3>3. QED
      BY Zenon, <1>5, <3>1, <3>2 DEF Balanced
  <2>3. {"allocationCount", "freeCount", "allocatedBytes", "freedBytes"} \subseteq Counter
    BY DEF Counter
  <2>4. QED
    BY Zenon, <2>1, <2>2, <2>3 DEF Sums
<1>10. Peaks
  <2>1. counter["liveRequested"] = 0
    BY <1>5 DEF Counter
  <2>2. QED
    BY <1>1, <1>4, <2>1 DEF Peaks
<1>11. Undisturbed
  BY <1>1 DEF Undisturbed
<1>12. QED
  BY Zenon, <1>6, <1>7, <1>9, <1>10, <1>11 DEF IInv

(* Every step keeps the invariant.                                         *)
LEMMA StepInv == IInv /\ [Next]_vars => IInv'
<1> SUFFICES ASSUME IInv, [Next]_vars PROVE IInv'
  OBVIOUS
<1>1. CASE \E t \in Threads, b \in Blocks : recordAllocation(t, b) \/ recordFree(t, b)
  BY Zenon, <1>1, RecordAllocationInv, RecordFreeInv
<1>2. CASE \E t \in Readers : snapshot(t)
  BY Zenon, <1>2, SnapshotInv
<1>3. CASE \E t \in Threads \cup Readers : progress(t)
  <2>1. PICK t \in Threads \cup Readers : progress(t)
    BY Zenon, <1>3
  <2>2. CASE \E c \in Counter : fetch(t, c)
    BY Zenon, <2>2, FetchInv
  <2>3. CASE loadCurrent(t) \/ loadPeak(t) \/ updatePeak(t)
    BY Zenon, <2>3, LoadCurrentInv, LoadPeakInv, UpdatePeakInv
  <2>4. CASE return(t) \/ load(t)
    BY Zenon, <2>4, ReturnInv, LoadInv
  <2>5. QED
    BY Zenon, <2>1, <2>2, <2>3, <2>4 DEF progress
<1>4. CASE UNCHANGED vars
  <2>1. /\ counter' = counter /\ peakUsage' = peakUsage /\ pc' = pc /\ block' = block /\ todo' = todo
        /\ seen' = seen /\ held' = held /\ high' = high /\ quiet' = quiet
    BY Zenon, <1>4 DEF vars
  <2>2. Allocating' = Allocating /\ Freeing' = Freeing
    BY Zenon, <2>1 DEF Allocating, Freeing, In
  <2>3. \A c : ToAdd(c)' = ToAdd(c) /\ ToTake(c)' = ToTake(c)
    BY Zenon, <2>1, <2>2 DEF ToAdd, ToTake
  <2>4. Typed'
    BY Zenon, <2>1 DEF IInv, Typed
  <2>5. Calls'
    BY Zenon, <2>1, <2>2 DEF IInv, Calls, Calling
  <2>6. Sums'
    BY Zenon, <2>1, <2>2, <2>3, SumsFrame DEF IInv
  <2>7. Peaks'
    BY Zenon, <2>1 DEF IInv, Peaks, WillRaise
  <2>8. Undisturbed'
    BY ZenonT(30), <2>1, <2>2 DEF IInv, Undisturbed, value
  <2>9. QED
    BY Zenon, <2>4, <2>5, <2>6, <2>7, <2>8 DEF IInv
<1>5. QED
  BY Zenon, <1>1, <1>2, <1>3, <1>4 DEF Next

(* A value in range is what is left of it and whole turns.                 *)
LEMMA TurnsAway ==
    ASSUME NEW x \in Nat, x < Modulus, NEW turns \in Int
    PROVE  (x + turns * Modulus) % Modulus = x
<1> DEFINE y == x + turns * Modulus
           r == y % Modulus
<1>1. Modulus \in Nat /\ Modulus > 0
  BY SizeAssumption, FS_CardinalityType
<1>2. y \in Int
  BY <1>1
<1>3. r \in Nat /\ r < Modulus
  <2> HIDE DEF y
  <2>1. QED
    BY <1>1, <1>2
<1>4. PICK k \in Int : r = y - k * Modulus
  <2>1. \E k \in Int : y % Modulus = y - k * Modulus
    <3> HIDE DEF y
    <3>1. QED
      BY Zenon, <1>2, Wrapped
  <2>2. QED
    BY Zenon, <2>1
<1>5. r = x + (turns - k) * Modulus
  <2> HIDE DEF r
  <2>1. QED
    BY <1>1, <1>4
<1> DEFINE d == turns - k
<1>6. d \in Int /\ r = x + d * Modulus
  BY <1>5
<1> HIDE DEF d, r, y
<1>7. d = 0
  <2>1. d >= 1 => d * Modulus >= Modulus
    BY <1>1, <1>6
  <2>2. d <= -1 => d * Modulus <= -Modulus
    BY <1>1, <1>6
  <2>3. QED
    BY SMTT(30), <1>1, <1>3, <1>6, <2>1, <2>2
<1>8. r = x
  BY <1>1, <1>6, <1>7
<1>9. QED
  BY Zenon, <1>8 DEF r, y

(* The invariant behind the properties of the counters holds in every      *)
(* reachable state, whatever the number of threads, readers and calls.     *)
THEOREM Invariance == Spec => []IInv
<1>1. Init => IInv
  BY InitInv
<1>2. IInv /\ [Next]_vars => IInv'
  BY StepInv
<1>3. QED
  BY <1>1, <1>2, PTL DEF Spec

(* A live counter is at every moment exactly what callers hold and the     *)
(* calls in progress have counted: no fetch_add or fetch_sub of a          *)
(* concurrent call is lost, none wraps around, and the totals, which may   *)
(* wrap around, differ by what is live when no call is in progress.        *)
THEOREM LiveCorrect == Spec => []LiveExact
<1>1. IInv => LiveExact
  <2> SUFFICES ASSUME IInv PROVE LiveExact
    OBVIOUS
  <2>1. Typed /\ Calls /\ Sums
    BY Zenon DEF IInv
  <2>2. ASSUME NEW c \in Live
        PROVE  LET counted == {t \in In("recordAllocation") : c \notin todo[t]}
                   pending == {t \in In("recordFree") : c \in todo[t]}
               IN  counter[c] = Total([b \in held |-> Amount(c, b)])
                                + Total([t \in counted \cup pending |-> Amount(c, block[t])])
    <3> DEFINE counted == {t \in In("recordAllocation") : c \notin todo[t]}
               pending == {t \in In("recordFree") : c \in todo[t]}
    <3>1. due(c) = counted \cup pending
      BY DEF due, ToAdd, ToTake, Allocating, Freeing
    <3>2. counter[c] = HeldSum(c, held) + CallSum(c, block, due(c))
      BY Zenon, <2>1, <2>2 DEF Sums, Exact
    <3> HIDE DEF counted, pending
    <3>3. counter[c] = HeldSum(c, held) + CallSum(c, block, counted \cup pending)
      BY Zenon, <3>1, <3>2
    <3>4. counter[c] = Total([b \in held |-> Amount(c, b)])
                       + Total([t \in counted \cup pending |-> Amount(c, block[t])])
      BY Zenon, <3>3 DEF HeldSum, CallSum
    <3>5. QED
      BY Zenon, <3>4 DEF counted, pending
  <2>3. ASSUME Allocating \cup Freeing = {}, NEW a \in Counter, NEW f \in Counter, NEW c \in Live,
               Balanced(a, f, c)
        PROVE  counter[c] = (counter[a] - counter[f]) % Modulus
    <3> DEFINE x == counter[c]
    <3>1. c \in Counter
      BY Zenon DEF Live, Counter
    <3>2. Allocating = {} /\ ToAdd(a) = {} /\ ToTake(f) = {} /\ due(c) = {}
      BY Zenon, <2>3 DEF ToAdd, ToTake, due
    <3>3. held \in SUBSET Blocks /\ {} \in SUBSET Threads /\ \A u \in {} : block[u] \in Blocks
      BY <2>1 DEF Typed
    <3>4. HeldSum(c, held) \in Nat /\ CallSum(c, block, {}) \in Nat
      BY Zenon, <3>1, <3>3, SumTypes
    <3>5. HeldSum(c, held) + CallSum(c, block, {}) < Modulus
      BY Zenon, <2>3, <3>3, LiveBound
    <3>6. x = HeldSum(c, held) + CallSum(c, block, {})
      BY Zenon, <2>1, <2>3, <3>2 DEF Sums, Exact
    <3>7. PICK turns \in Int :
              counter[a] + CallSum(c, block, {})
                  = counter[f] + CallSum(c, block, {}) + HeldSum(c, held) + CallSum(c, block, {}) + turns * Modulus
      BY Zenon, <2>3, <3>2 DEF Balanced
    <3>8. counter[a] \in Nat /\ counter[f] \in Nat /\ x \in Nat /\ turns * Modulus \in Int
      BY <2>1, <3>1, SizeAssumption DEF Typed
    <3> HIDE DEF x
    <3>9. counter[a] - counter[f] = x + turns * Modulus
      <4> DEFINE more == turns * Modulus
      <4>1. /\ counter[a] + CallSum(c, block, {})
                   = counter[f] + CallSum(c, block, {}) + HeldSum(c, held) + CallSum(c, block, {}) + more
            /\ more \in Int
        BY Zenon, <3>7, <3>8
      <4> HIDE DEF more
      <4>2. counter[a] - counter[f] = x + more
        BY <3>4, <3>6, <3>8, <4>1
      <4>3. QED
        BY Zenon, <4>2 DEF more
    <3>10. x < Modulus
      BY Zenon, <3>5, <3>6
    <3>11. (x + turns * Modulus) % Modulus = x
      BY Zenon, <3>8, <3>10, TurnsAway
    <3>12. QED
      BY Zenon, <3>9, <3>11 DEF x
  <2>4. /\ {"allocationCount", "freeCount", "allocatedBytes", "freedBytes"} \subseteq Counter
        /\ "activeAllocations" \in Live /\ "liveRequested" \in Live
    BY DEF Counter, Live
  <2>5. In("recordAllocation") \cup In("recordFree") = {} =>
            /\ counter["activeAllocations"] = (counter["allocationCount"] - counter["freeCount"]) % Modulus
            /\ counter["liveRequested"] = (counter["allocatedBytes"] - counter["freedBytes"]) % Modulus
    BY Zenon, <2>1, <2>3, <2>4 DEF Sums, Allocating, Freeing
  <2>6. QED
    BY Zenon, <2>2, <2>5 DEF LiveExact
<1>2. QED
  BY <1>1, Invariance, PTL

(* However the compare-exchange loops of concurrent allocations overlap,   *)
(* the peak is no less than what is live once no allocation is being       *)
(* recorded, and never more than the most that was live.                   *)
THEOREM PeakCorrect == Spec => []PeakCovers
<1>1. IInv => PeakCovers
  <2> SUFFICES ASSUME IInv PROVE PeakCovers
    OBVIOUS
  <2>1. Peaks /\ Typed
    BY Zenon DEF IInv
  <2>2. In("recordAllocation") = {} => \A t \in Threads \cup Readers : ~WillRaise(t)
    BY DEF In, WillRaise
  <2>3. counter["liveRequested"] \in Nat /\ peakUsage \in Nat
    BY <2>1 DEF Typed, Counter
  <2>4. In("recordAllocation") = {} => counter["liveRequested"] <= peakUsage
    BY Zenon, <2>1, <2>2 DEF Peaks
  <2>5. In("recordAllocation") = {} => peakUsage >= counter["liveRequested"]
    BY <2>3, <2>4
  <2>6. QED
    BY Zenon, <2>1, <2>5 DEF PeakCovers, Peaks
<1>2. QED
  BY <1>1, Invariance, PTL

(* A snapshot that no recorded call overlaps reports exactly the blocks    *)
(* and bytes in callers' hands, although it loads one counter at a time,   *)
(* and a peak that covers them.                                            *)
THEOREM SnapshotCorrect == Spec => []QuietSnapshotExact
<1>1. IInv => QuietSnapshotExact
  <2> SUFFICES ASSUME IInv, NEW t \in quiet, todo[t] = {}
               PROVE  /\ seen[t]["activeAllocations"] = Cardinality(held)
                      /\ seen[t]["liveRequested"] = Total([b \in held |-> requested[b]])
                      /\ seen[t]["liveReserved"] = Total([b \in held |-> reserved[b]])
                      /\ seen[t]["peakUsage"] >= seen[t]["liveRequested"]
    BY Zenon DEF QuietSnapshotExact
  <2>1. Typed /\ Sums /\ Peaks /\ Undisturbed
    BY Zenon DEF IInv
  <2>2. Allocating = {} /\ Freeing = {} /\ \A f \in Field : seen[t][f] = value(f)
    BY <2>1 DEF Undisturbed
  <2>3. \A c \in Live : c \in Counter /\ c \in Field /\ value(c) = counter[c]
    BY DEF Live, Field, Counter, value
  <2>4. ASSUME NEW c \in Live PROVE seen[t][c] = HeldSum(c, held)
    <3>1. due(c) = {}
      BY <2>2 DEF due, ToTake
    <3>2. counter[c] = HeldSum(c, held) + CallSum(c, block, {})
      BY Zenon, <2>1, <2>4, <3>1 DEF Sums, Exact
    <3>3. Units([u \in {} |-> Amount(c, block[u])]) = {} /\ Cardinality({}) = 0
      BY FS_EmptySet DEF Units
    <3>4. CallSum(c, block, {}) = 0
      BY Zenon, <3>3 DEF CallSum, Total
    <3>5. held \in SUBSET Blocks /\ {} \in SUBSET Threads /\ \A u \in {} : block[u] \in Blocks
      BY <2>1 DEF Typed
    <3>6. HeldSum(c, held) \in Nat
      BY Zenon, <2>3, <3>5, SumTypes
    <3>7. counter[c] = HeldSum(c, held)
      BY <3>2, <3>4, <3>6
    <3>8. QED
      BY Zenon, <2>2, <2>3, <3>7
  <2>5. "activeAllocations" \in Live /\ "liveRequested" \in Live /\ "liveReserved" \in Live
    BY DEF Live
  <2>6. HeldSum("activeAllocations", held) = Cardinality(held)
    <3> DEFINE ones == [b \in held |-> Amount("activeAllocations", b)]
    <3>1. DOMAIN ones = held /\ \A b \in DOMAIN ones : ones[b] = 1
      BY Zenon DEF Amount
    <3>2. IsFiniteSet(held)
      BY <2>1, SizeAssumption, FS_Subset DEF Typed
    <3>3. HeldSum("activeAllocations", held) = Total(ones)
      BY Zenon DEF HeldSum
    <3> HIDE DEF ones
    <3>4. QED
      BY Zenon, <3>1, <3>2, <3>3, TotalOnes
  <2>7. /\ [b \in held |-> Amount("liveRequested", b)] = [b \in held |-> requested[b]]
        /\ [b \in held |-> Amount("liveReserved", b)] = [b \in held |-> reserved[b]]
    BY DEF Amount
  <2>8. /\ HeldSum("liveRequested", held) = Total([b \in held |-> requested[b]])
        /\ HeldSum("liveReserved", held) = Total([b \in held |-> reserved[b]])
    BY Zenon, <2>7 DEF HeldSum
  <2>9. seen[t]["peakUsage"] >= seen[t]["liveRequested"]
    <3>1. \A u \in Threads \cup Readers : ~WillRaise(u)
      BY <2>2 DEF Allocating, In, WillRaise
    <3>2. counter["liveRequested"] <= peakUsage
      BY Zenon, <2>1, <3>1 DEF Peaks
    <3>3. seen[t]["peakUsage"] = peakUsage /\ seen[t]["liveRequested"] = counter["liveRequested"]
      BY Zenon, <2>2, <2>3, <2>5 DEF Field, value
    <3>4. counter["liveRequested"] \in Nat /\ peakUsage \in Nat
      BY <2>1, <2>3, <2>5 DEF Typed
    <3>5. QED
      BY Zenon, <3>2, <3>3, <3>4
  <2>10. QED
    BY Zenon, <2>4, <2>5, <2>6, <2>8, <2>9
<1>2. QED
  BY <1>1, Invariance, PTL
=============================================================================
