------------------------- MODULE SegmentHeapProofs -------------------------
(***************************************************************************)
(* The properties of SegmentHeap, for every segment size, number of bins,  *)
(* set of mappings and set of requests.  The inductive invariant is Sound  *)
(* (SegmentHeapSteps) of the heap, with the two facts that tie the heap to *)
(* its callers and to the resident segment.                                *)
(***************************************************************************)
EXTENDS SegmentHeapSteps

Whole(h, b) == h[b].free /\ h[b].first /\ h[b].last

(* The allocated blocks are the callers', and each is large enough.        *)
Serves(h, l) ==
    /\ l \in [DOMAIN l -> Requests] /\ DOMAIN l = Used(h)
    /\ \A b \in DOMAIN l : h[b].size >= l[b] + 16

(* A wholly free segment is the only segment.                              *)
Resident(h, s) == \A b \in DOMAIN h : Whole(h, b) => s = {b}

IInv == Sound(Heap, segments) /\ Serves(hdr, live) /\ Resident(hdr, segments)

(* The blocks held across a step keep their sizes.                         *)
Keeps == \A b \in DOMAIN live \cap DOMAIN live' : hdr'[b].size = hdr[b].size

-----------------------------------------------------------------------------

(* Heap is the pair of the variables it is made of.                        *)
LEMMA HeapFields == Heap.hdr = hdr /\ Heap.bins = bins
BY ZenonT(30) DEF Heap

(* allocate rounds a request to whole units behind one header.             *)
LEMMA BlockTotal ==
    ASSUME NEW bytes \in Requests
    PROVE  /\ bytes \in Nat /\ blockTotal(bytes) \in Nat /\ blockTotal(bytes) >= 48
           /\ blockTotal(bytes) % 16 = 0 /\ blockTotal(bytes) >= bytes + 16
<1>1. bytes \in Nat
  BY ZenonT(30), RequestAssumption
<1>2. PICK q \in Nat : q = (bytes + 15) \div 16
  BY SMTT(30), <1>1
<1>3. q * 16 >= bytes /\ alignUp(bytes, 16) = q * 16
  BY SMTT(30), <1>1, <1>2 DEF alignUp
<1>4. QED
  BY SMTT(30), <1>1, <1>3 DEF blockTotal, kDefaultAlignment, kBlockHeaderSize, kMinBlockSize

(* The empty heap satisfies the invariant.                                 *)
LEMMA InitIInv == Init => IInv
<1> SUFFICES ASSUME Init PROVE IInv
  OBVIOUS
<1>1. DOMAIN hdr = {} /\ segments = {} /\ DOMAIN live = {} /\ bins = [i \in Bin |-> <<>>]
  BY Zenon DEF Init
<1>2. hdr \in [DOMAIN hdr -> Tags] /\ live \in [DOMAIN live -> Requests]
  BY ZenonT(30) DEF Init
<1>3. Tiles(hdr, segments) /\ Linked(hdr, {}) /\ NoFreePair(hdr)
  BY ZenonT(30), <1>1, <1>2 DEF Tiles, Typed, Sized, Apart, Inside, FirstTag, LastTag, RightOf, LeftOf,
                   Linked, NoFreePair
<1>4. Indexed(hdr, bins)
  <2>1. bins \in [Bin -> Seq(Nat)] /\ \A i \in Bin : bins[i] = <<>>
    BY SMTT(30), <1>1
  <2>2. Distinct(<<>>) /\ Range(<<>>) = {}
    BY DEF Distinct, Range
  <2>3. \A i \in Bin : FreeIn(hdr, i) = {}
    BY ZenonT(30), <1>1 DEF FreeIn
  <2>4. QED
    BY ZenonT(30), <2>1, <2>2, <2>3 DEF Indexed
<1>5. Serves(hdr, live) /\ Resident(hdr, segments)
  BY ZenonT(30), <1>1, <1>2 DEF Serves, Resident, Used
<1>6. QED
  BY ZenonT(30), <1>3, <1>4, <1>5, HeapFields DEF IInv, Sound

(* The state after a helper's result is stored.                            *)
LEMMA BecomesSound ==
    ASSUME NEW r, Becomes(r), Sound(r, segments')
    PROVE  Sound(Heap, segments)' /\ hdr' = r.hdr
BY ZenonT(30) DEF Becomes, Sound, Heap

(* What take leaves, from a heap m the callers' blocks are served in.      *)
LEMMA TakeServes ==
    ASSUME NEW m, NEW s, NEW b, NEW bytes \in Requests, NEW total, total = blockTotal(bytes),
           Takeable(m, s, b, total), Serves(m.hdr, live), NEW r,
           Taken(m, s, b, total, r),
           live' = [a \in DOMAIN live \cup {b} |-> IF a = b THEN bytes ELSE live[a]]
    PROVE  /\ Serves(r.hdr, live') /\ b \notin DOMAIN live /\ DOMAIN live' = DOMAIN live \cup {b}
           /\ \A a \in DOMAIN live : r.hdr[a].size = m.hdr[a].size
           /\ \A c \in DOMAIN r.hdr : Whole(r.hdr, c) =>
                 c \in DOMAIN m.hdr /\ c # b /\ Whole(m.hdr, c)
<1>1. /\ b \in DOMAIN m.hdr /\ m.hdr[b].free
  BY Zenon DEF Takeable
<1>2. /\ live \in [DOMAIN live -> Requests] /\ DOMAIN live = Used(m.hdr)
      /\ \A a \in DOMAIN live : m.hdr[a].size >= live[a] + 16
  BY Zenon DEF Serves
<1>3. /\ b \in DOMAIN r.hdr /\ r.hdr[b].size >= total
      /\ Used(r.hdr) = Used(m.hdr) \cup {b}
      /\ \A a \in DOMAIN m.hdr : a # b => Same(m.hdr, r.hdr, a)
      /\ \A a \in DOMAIN r.hdr : a \notin DOMAIN m.hdr => ~r.hdr[a].first
      /\ Typed(r.hdr)
  BY Zenon DEF Taken, Sound, Tiles
<1>4. b \notin DOMAIN live /\ DOMAIN live \subseteq DOMAIN m.hdr
  BY ZenonT(30), <1>1, <1>2 DEF Used
<1>5. DOMAIN live' = DOMAIN live \cup {b}
  OBVIOUS
<1>6. live' \in [DOMAIN live' -> Requests]
  BY ZenonT(30), <1>2, <1>5
<1>7. \A a \in DOMAIN live : a # b /\ r.hdr[a].size = m.hdr[a].size
  BY ZenonT(30), <1>3, <1>4 DEF Same
<1>8. \A a \in DOMAIN live' : r.hdr[a].size >= live'[a] + 16
  <2> SUFFICES ASSUME NEW a \in DOMAIN live' PROVE r.hdr[a].size >= live'[a] + 16
    BY ZenonT(60)
  <2>1. CASE a = b
    <3>1. live'[a] = bytes /\ r.hdr[b].size \in Nat
      BY ZenonT(30), <2>1, <1>3, <1>5 DEF Typed, Tags
    <3>2. QED
      BY SMTT(30), <3>1, <2>1, <1>3, BlockTotal
  <2>2. CASE a # b
    BY ZenonT(30), <2>2, <1>2, <1>5, <1>7
  <2>3. QED
    BY ZenonT(30), <2>1, <2>2
<1>9. b \in Used(r.hdr)
  BY ZenonT(30), <1>3
<1>10. \A c \in DOMAIN r.hdr : Whole(r.hdr, c) =>
           c \in DOMAIN m.hdr /\ c # b /\ Whole(m.hdr, c)
  BY ZenonT(30), <1>3, <1>9 DEF Whole, Used, Same
<1>11. QED
  BY ZenonT(30), <1>2, <1>3, <1>4, <1>5, <1>6, <1>7, <1>8, <1>10 DEF Serves

-----------------------------------------------------------------------------
(* The actions                                                             *)

(* One block more in callers' hands, the others as they were.              *)
Gives ==
    /\ IInv' /\ Keeps /\ segments \subseteq segments'
    /\ \E b : b \notin DOMAIN live /\ DOMAIN live' = DOMAIN live \cup {b}

(* allocate, whether it finds a fit or maps a segment first, hands out one *)
(* block and keeps the invariant.                                          *)
LEMMA AllocateInv ==
    ASSUME IInv, NEW bytes \in Requests, allocate(bytes)
    PROVE  Gives
<1> DEFINE total == blockTotal(bytes)
           fit == findFit(Heap, total)
<1>1. /\ Sound(Heap, segments) /\ Serves(hdr, live) /\ Resident(hdr, segments)
      /\ Typed(hdr) /\ Indexed(hdr, bins) /\ Tiles(hdr, segments)
  BY ZenonT(30), HeapFields DEF IInv, Sound, Tiles
<1>2. hdr \in [DOMAIN hdr -> Tags] /\ DOMAIN hdr \subseteq Nat
  BY Zenon, <1>1 DEF Typed
<1>3. total \in Nat /\ total >= 48 /\ total % 16 = 0 /\ total >= bytes + 16
  BY ZenonT(30), BlockTotal
<1>4. \/ /\ fit = nullptr
         /\ \A b \in DOMAIN hdr : hdr[b].free => hdr[b].size < total
      \/ fit # nullptr /\ fit \in DOMAIN hdr /\ hdr[fit].free /\ hdr[fit].size >= total
  BY ZenonT(30), <1>1, <1>2, <1>3, HeapFields, FindFit
<1>5. total <= kSegmentSize
  BY Zenon DEF allocate
<1>6. CASE fit # nullptr
  <2> DEFINE r == splitBlock(removeFree(Heap, fit), fit, total)
  <2>1. /\ Becomes(r) /\ segments' = segments
        /\ live' = [a \in DOMAIN live \cup {fit} |-> IF a = fit THEN bytes ELSE live[a]]
    BY ZenonT(30), <1>6 DEF allocate, take
  <2>2. Takeable(Heap, segments, fit, total)
    BY ZenonT(30), <1>1, <1>3, <1>4, <1>6, HeapFields DEF Takeable
  <2>3. Taken(Heap, segments, fit, total, r)
    BY ZenonT(30), <2>2, TakeStep
  <2> HIDE DEF r, fit, total
  <2>4. /\ Serves(r.hdr, live') /\ fit \notin DOMAIN live
        /\ DOMAIN live' = DOMAIN live \cup {fit}
        /\ \A a \in DOMAIN live : r.hdr[a].size = hdr[a].size
        /\ \A c \in DOMAIN r.hdr : Whole(r.hdr, c) =>
              c \in DOMAIN hdr /\ c # fit /\ Whole(hdr, c)
    BY SMTT(30), <2>1, <2>2, <2>3, <1>1, HeapFields, TakeServes DEF total
  <2>5. Sound(Heap, segments)' /\ hdr' = r.hdr
    BY ZenonT(30), <2>1, <2>3, BecomesSound DEF Taken
  <2>6. Resident(hdr', segments')
    BY ZenonT(30), <2>1, <2>4, <2>5, <1>1 DEF Resident
  <2>7. QED
    BY ZenonT(30), <2>1, <2>4, <2>5, <2>6 DEF Gives, IInv, Keeps
<1>7. CASE fit = nullptr
  <2>1. PICK base \in Bases \ segments :
           LET grown == addSegment(Heap, base)
               fresh == findFit(grown, total)
           IN  /\ segments' = segments \cup {base}
               /\ IF fresh = nullptr
                  THEN Becomes(grown) /\ UNCHANGED live
                  ELSE take(grown, fresh, bytes)
    BY ZenonT(30), <1>7 DEF allocate
  <2> DEFINE grown == addSegment(Heap, base)
             fresh == findFit(grown, total)
             g == grown.hdr
             S == segments \cup {base}
             r == splitBlock(removeFree(grown, fresh), fresh, total)
  <2>2. Grown(Heap, segments, base, grown)
    BY ZenonT(30), <1>1, AddSegmentStep
  <2>3. /\ Sound(grown, S) /\ base \notin DOMAIN hdr /\ DOMAIN g = DOMAIN hdr \cup {base}
        /\ g[base].free /\ g[base].size = kSegmentSize
        /\ \A a \in DOMAIN hdr : g[a] = hdr[a]
    BY ZenonT(30), <2>2, HeapFields DEF Grown
  <2>4. g \in [DOMAIN g -> Tags] /\ DOMAIN g \subseteq Nat /\ Indexed(g, grown.bins)
    BY ZenonT(30), <2>3 DEF Sound, Tiles, Typed
  <2>5. segments' = S /\ IF fresh = nullptr
                         THEN Becomes(grown) /\ UNCHANGED live
                         ELSE take(grown, fresh, bytes)
    BY ZenonT(30), <2>1
  <2> HIDE DEF grown, S
  <2>6. \/ /\ fresh = nullptr
           /\ \A b \in DOMAIN g : g[b].free => g[b].size < total
        \/ fresh # nullptr /\ fresh \in DOMAIN g /\ g[fresh].free /\ g[fresh].size >= total
    BY ZenonT(30), <2>4, <1>3, FindFit
  <2>7. \A b \in DOMAIN hdr : hdr[b].free => hdr[b].size \in Nat /\ hdr[b].size < total
    BY ZenonT(30), <1>2, <1>4, <1>7 DEF Tags
  <2> HIDE DEF fit, total, fresh
  <2>8. fresh # nullptr /\ fresh = base
    <3>1. fresh # nullptr
      BY SMTT(30), <2>3, <2>6, <1>3, <1>5, SegmentFacts DEF total
    <3>2. QED
      BY SMTT(30), <3>1, <2>3, <2>6, <2>7, <1>3
  <2>9. /\ Becomes(r) /\ live' = [a \in DOMAIN live \cup {base} |->
                                     IF a = base THEN bytes ELSE live[a]]
    BY ZenonT(30), <2>5, <2>8 DEF take, total
  <2>10. Takeable(grown, S, base, total)
    BY ZenonT(30), <2>3, <2>6, <2>8, <1>3 DEF Takeable
  <2>11. Taken(grown, S, base, total, r)
    BY ZenonT(30), <2>8, <2>10, TakeStep
  <2>12. Used(g) = Used(hdr)
    BY Zenon, <2>3 DEF Used
  <2>13. Serves(g, live)
    BY ZenonT(30), <2>3, <2>12, <1>1 DEF Serves, Used
  <2> HIDE DEF r
  <2>14. /\ Serves(r.hdr, live') /\ base \notin DOMAIN live
         /\ DOMAIN live' = DOMAIN live \cup {base}
         /\ \A a \in DOMAIN live : r.hdr[a].size = g[a].size
         /\ \A c \in DOMAIN r.hdr : Whole(r.hdr, c) =>
               c \in DOMAIN g /\ c # base /\ Whole(g, c)
    BY SMTT(30), <2>9, <2>10, <2>11, <2>13, TakeServes DEF total
  <2>15. Sound(Heap, segments)' /\ hdr' = r.hdr
    BY ZenonT(30), <2>5, <2>9, <2>11, BecomesSound DEF Taken
  <2>16. \A c \in DOMAIN r.hdr : ~Whole(r.hdr, c)
    <3> SUFFICES ASSUME NEW c \in DOMAIN r.hdr, Whole(r.hdr, c) PROVE FALSE
      OBVIOUS
    <3>1. c \in DOMAIN hdr /\ Whole(hdr, c)
      BY Zenon, <2>3, <2>14 DEF Whole
    <3>2. hdr[c].size = kSegmentSize /\ hdr[c].free
      BY ZenonT(30), <3>1, <1>1, WholeSegment DEF Whole
    <3>3. QED
      BY SMTT(30), <3>1, <3>2, <2>7, <1>3, <1>5, SegmentFacts DEF total
  <2>17. Resident(hdr', segments')
    BY ZenonT(30), <2>15, <2>16 DEF Resident
  <2>18. \A a \in DOMAIN live : hdr'[a].size = hdr[a].size
    BY ZenonT(30), <2>3, <2>14, <2>15, <1>1 DEF Serves, Used
  <2>19. QED
    BY ZenonT(30), <2>5, <2>14, <2>15, <2>17, <2>18 DEF Gives, IInv, Keeps, S
<1>8. QED
  BY ZenonT(30), <1>6, <1>7

(* Block b is no longer in a caller's hands, the others as they were.      *)
Takes(b) ==
    /\ IInv' /\ Keeps /\ segments' # {}
    /\ b \in DOMAIN live /\ DOMAIN live' = DOMAIN live \ {b}

(* deallocate, whichever neighbours it merges with and whether or not the  *)
(* segment is unmapped, takes one block back and keeps the invariant.      *)
LEMMA DeallocateInv ==
    ASSUME IInv, NEW b \in DOMAIN live, deallocate(b)
    PROVE  Takes(b)
<1> DEFINE right == mergeNext(Heap, b)
           block == IF mergesPrev(right, b) THEN prevBlock(right, b) ELSE b
           merged == tellNext(mergePrev(right, b), block)
           g == merged.hdr
<1>1. /\ Sound(Heap, segments) /\ Serves(hdr, live) /\ Resident(hdr, segments)
      /\ Tiles(hdr, segments) /\ live \in [DOMAIN live -> Requests] /\ DOMAIN live = Used(hdr)
      /\ \A a \in DOMAIN live : hdr[a].size >= live[a] + 16
  BY Zenon, HeapFields DEF IInv, Sound, Serves
<1>2. b \in DOMAIN hdr /\ ~hdr[b].free
  BY Zenon, <1>1 DEF Used
<1>3. /\ Sound(merged, segments) /\ block \in DOMAIN g /\ ~g[block].free
      /\ ClearOf(g, block)
      /\ \A a \in DOMAIN g : a # block => Same(hdr, g, a)
      /\ Used(g) \ {block} = Used(hdr) \ {b}
  <2>1. Allocated(Heap, segments, b)
    BY ZenonT(30), <1>1, <1>2, HeapFields DEF Allocated
  <2>2. Coalesces(Heap, segments, b, block, merged)
    BY Zenon, <2>1, MergeStep
  <2> HIDE DEF block, merged
  <2>3. QED
    BY Zenon, <2>2, HeapFields DEF Coalesces
<1>4. /\ live' = [a \in DOMAIN live \ {b} |-> live[a]]
      /\ IF g[block].first /\ g[block].last
         THEN releaseSegment(merged, block)
         ELSE Becomes(insertFree(merged, block)) /\ UNCHANGED segments
  BY Zenon DEF deallocate
<1> HIDE DEF merged, block
<1>5. Held(merged, segments, block)
  BY Zenon, <1>3 DEF Held
<1>6. /\ DOMAIN live' = DOMAIN live \ {b} /\ live' \in [DOMAIN live' -> Requests]
      /\ \A a \in DOMAIN live' : live'[a] = live[a]
  BY ZenonT(30), <1>1, <1>4
<1>7. \A a \in DOMAIN live' : a \in DOMAIN g /\ a # block /\ Same(hdr, g, a) /\ ~g[a].free
  BY ZenonT(30), <1>1, <1>3, <1>6 DEF Used
<1>8. \A a \in DOMAIN g : a # block /\ Whole(g, a) => segments = {a}
  BY ZenonT(30), <1>1, <1>3 DEF Resident, Whole, Same
<1>9. ASSUME NEW h, DOMAIN h \subseteq DOMAIN g, DOMAIN g \ {block} \subseteq DOMAIN h,
             block \in DOMAIN h => h[block].free,
             \A a \in DOMAIN h : a # block => h[a] = g[a]
      PROVE  Serves(h, live') /\ \A a \in DOMAIN live' : h[a].size = hdr[a].size
  <2>1. \A a \in DOMAIN live' : a \in DOMAIN h /\ h[a] = g[a] /\ h[a].size = hdr[a].size
    BY Zenon, <1>7, <1>9 DEF Same
  <2>2. Used(h) = Used(g) \ {block}
    BY Zenon, <1>9 DEF Used
  <2>3. DOMAIN live' = Used(h)
    BY ZenonT(30), <2>2, <1>1, <1>3, <1>6
  <2>4. \A a \in DOMAIN live' : h[a].size >= live'[a] + 16
    BY ZenonT(30), <2>1, <1>1, <1>6
  <2>5. QED
    BY SMTT(30), <2>1, <2>3, <2>4, <1>6 DEF Serves
<1>10. ASSUME NEW r, r = insertFree(merged, block)
       PROVE  /\ Sound(r, segments) /\ Serves(r.hdr, live')
              /\ \A a \in DOMAIN live' : r.hdr[a].size = hdr[a].size
              /\ DOMAIN r.hdr = DOMAIN g /\ r.hdr[block].free
              /\ r.hdr[block].first = g[block].first /\ r.hdr[block].last = g[block].last
              /\ \A a \in DOMAIN g : a # block => r.hdr[a] = g[a]
  <2>1. /\ Sound(r, segments) /\ DOMAIN r.hdr = DOMAIN g /\ r.hdr[block].free
        /\ r.hdr[block].first = g[block].first /\ r.hdr[block].last = g[block].last
        /\ \A a \in DOMAIN g : a # block => r.hdr[a] = g[a]
    BY SMTT(30), <1>3, <1>10, InsertFreeStep
  <2>2. Serves(r.hdr, live') /\ \A a \in DOMAIN live' : r.hdr[a].size = hdr[a].size
    BY Zenon, <2>1, <1>9
  <2>3. QED
    BY ZenonT(30), <2>1, <2>2
<1>11. IsFiniteSet(segments) /\ segments # {}
  <2>1. segments \subseteq Bases /\ Within(hdr, segments, b)
    BY ZenonT(30), <1>1, <1>2 DEF Tiles, Inside
  <2>2. QED
    BY ZenonT(30), <2>1, BaseAssumption, FS_Subset DEF Within
<1>12. CASE ~(g[block].first /\ g[block].last)
  <2> DEFINE r == insertFree(merged, block)
  <2>1. Becomes(r) /\ segments' = segments
    BY Zenon, <1>4, <1>12
  <2>2. /\ Sound(r, segments) /\ Serves(r.hdr, live')
        /\ \A a \in DOMAIN live' : r.hdr[a].size = hdr[a].size
        /\ DOMAIN r.hdr = DOMAIN g
        /\ r.hdr[block].first = g[block].first /\ r.hdr[block].last = g[block].last
        /\ \A a \in DOMAIN g : a # block => r.hdr[a] = g[a]
    BY Zenon, <1>10
  <2> HIDE DEF r
  <2>3. Sound(Heap, segments)' /\ hdr' = r.hdr
    BY ZenonT(30), <2>1, <2>2, BecomesSound
  <2>4. Resident(r.hdr, segments)
    BY ZenonT(30), <2>2, <1>8, <1>12 DEF Resident, Whole
  <2>5. QED
    BY ZenonT(30), <2>1, <2>2, <2>3, <2>4, <1>6, <1>11 DEF Takes, IInv, Keeps
<1>13. CASE g[block].first /\ g[block].last
  <2>1. releaseSegment(merged, block)
    BY Zenon, <1>4, <1>13
  <2>2. block \in segments /\ Tiles(g, segments)
    BY ZenonT(30), <1>3, <1>13, WholeSegment DEF Sound
  <2>3. CASE Cardinality(segments) <= 1
    <3> DEFINE r == insertFree(merged, block)
    <3>1. Becomes(r) /\ segments' = segments
      BY Zenon, <2>1, <2>3 DEF releaseSegment
    <3>2. /\ Sound(r, segments) /\ Serves(r.hdr, live')
          /\ \A a \in DOMAIN live' : r.hdr[a].size = hdr[a].size
      BY Zenon, <1>10
    <3> HIDE DEF r
    <3>3. segments = {block}
      BY SMTT(30), <2>2, <2>3, <1>11, FS_CardinalityType, FS_Singleton, FS_EmptySet
    <3>4. Sound(Heap, segments)' /\ hdr' = r.hdr
      BY ZenonT(30), <3>1, <3>2, BecomesSound
    <3>5. Resident(r.hdr, segments)
      BY ZenonT(30), <3>2, <3>3 DEF Resident, Whole, Sound, Tiles, FirstTag
    <3>6. QED
      BY ZenonT(30), <3>1, <3>2, <3>4, <3>5, <1>6, <1>11 DEF Takes, IInv, Keeps
  <2>4. CASE ~(Cardinality(segments) <= 1)
    <3> DEFINE r == unmapped(merged, block)
    <3>1. Becomes(r) /\ segments' = segments \ {block}
      BY ZenonT(30), <2>1, <2>2, <2>4 DEF releaseSegment
    <3>2. /\ Sound(r, segments \ {block}) /\ DOMAIN r.hdr = DOMAIN g \ {block}
          /\ \A a \in DOMAIN r.hdr : r.hdr[a] = g[a]
      <4>1. Shrunk(merged, segments, block, r)
        BY ZenonT(30), <1>5, <1>13, UnmapStep
      <4>2. QED
        BY Zenon, <4>1 DEF Shrunk
    <3> HIDE DEF r
    <3>3. Serves(r.hdr, live') /\ \A a \in DOMAIN live' : r.hdr[a].size = hdr[a].size
      BY ZenonT(30), <3>2, <1>9
    <3>4. segments # {block}
      <4>1. Cardinality({block}) = 1
        BY Zenon, FS_Singleton
      <4>2. QED
        BY SMTT(30), <4>1, <2>4
    <3>5. Sound(Heap, segments)' /\ hdr' = r.hdr
      BY ZenonT(30), <3>1, <3>2, BecomesSound
    <3>6. Resident(r.hdr, segments')
      BY ZenonT(30), <3>2, <2>2, <3>4, <1>8 DEF Resident, Whole
    <3>7. segments' # {}
      BY ZenonT(30), <3>1, <3>4, <2>2
    <3>8. QED
      BY ZenonT(30), <3>1, <3>3, <3>5, <3>6, <3>7, <1>6 DEF Takes, IInv, Keeps
  <2>5. QED
    BY Zenon, <2>3, <2>4
<1>14. QED
  BY ZenonT(30), <1>12, <1>13

-----------------------------------------------------------------------------
(* The theorems                                                            *)

(* Every step is a stutter, hands out one block or takes one back.         *)
LEMMA StepCases ==
    ASSUME IInv, [Next]_vars
    PROVE  \/ UNCHANGED vars
           \/ Gives
           \/ \E b \in DOMAIN live : Takes(b)
<1>1. ASSUME NEW bytes \in Requests, allocate(bytes) PROVE Gives
  BY Zenon, <1>1, AllocateInv
<1>2. ASSUME NEW bytes \in Requests, allocateFails(bytes) PROVE UNCHANGED vars
  BY Zenon, <1>2 DEF allocateFails
<1>3. ASSUME NEW b \in DOMAIN live, deallocate(b) PROVE Takes(b)
  BY ZenonT(30), <1>3, DeallocateInv
<1>4. QED
  BY ZenonT(30), <1>1, <1>2, <1>3 DEF Next

(* Every step keeps the invariant.                                         *)
LEMMA StepIInv == IInv /\ [Next]_vars => IInv'
<1> SUFFICES ASSUME IInv, [Next]_vars PROVE IInv'
  OBVIOUS
<1>1. CASE UNCHANGED vars
  BY Zenon, <1>1 DEF vars, IInv, Heap
<1>2. CASE Gives
  BY Zenon, <1>2 DEF Gives
<1>3. CASE \E b \in DOMAIN live : Takes(b)
  BY Zenon, <1>3 DEF Takes
<1>4. QED
  BY ZenonT(30), <1>1, <1>2, <1>3, StepCases

(* The inductive invariant holds in every reachable state of the heap.     *)
THEOREM Invariance == Spec => []IInv
<1>1. Init => IInv
  BY Zenon, InitIInv
<1>2. IInv /\ [Next]_vars => IInv'
  BY Zenon, StepIInv
<1>3. QED
  BY <1>1, <1>2, PTL DEF Spec

(* The parts of the invariant, spelled out for one state.                  *)
LEMMA IInvParts ==
    ASSUME IInv
    PROVE  /\ Typed(hdr) /\ Sized(hdr) /\ Apart(hdr) /\ Tiles(hdr, segments)
           /\ segments \subseteq Bases /\ segments \subseteq DOMAIN hdr
           /\ Inside(hdr, segments) /\ FirstTag(hdr, segments) /\ LastTag(hdr, segments)
           /\ RightOf(hdr) /\ LeftOf(hdr) /\ Linked(hdr, {}) /\ NoFreePair(hdr)
           /\ Indexed(hdr, bins) /\ Serves(hdr, live) /\ Resident(hdr, segments)
BY Zenon, HeapFields DEF IInv, Sound, Tiles

(* The invariant implies TypeOK.                                           *)
LEMMA TypeOKHolds == IInv => TypeOK
<1> SUFFICES ASSUME IInv PROVE TypeOK
  OBVIOUS
<1>1. /\ Typed(hdr) /\ segments \subseteq Bases /\ Indexed(hdr, bins) /\ Serves(hdr, live)
  BY Zenon, IInvParts
<1>2. bins \in [Bin -> Seq(Blocks)]
  <2> SUFFICES ASSUME NEW i \in Bin PROVE bins[i] \in Seq(Blocks)
    BY Zenon, <1>1 DEF Indexed
  <2>1. bins[i] \in Seq(Nat) /\ \A k \in DOMAIN bins[i] : bins[i][k] \in FreeIn(hdr, i)
    BY ZenonT(30), <1>1 DEF Indexed, Range
  <2>2. \A k \in 1 .. Len(bins[i]) : bins[i][k] \in Blocks
    BY <2>1 DEF FreeIn, Blocks
  <2>3. QED
    BY SMTT(30), <2>1, <2>2
<1>3. QED
  BY ZenonT(30), <1>1, <1>2 DEF TypeOK, Typed, Serves, Used, Blocks

(* Type correctness: no bin and no caller ever refers to an address that   *)
(* is not a current block of the heap.                                     *)
THEOREM TypeCorrect == Spec => []TypeOK
BY Invariance, TypeOKHolds, PTL

(* splitBlock, the merges of deallocate and addSegment keep the blocks     *)
(* disjoint and within their segments, also where segments touch.          *)
THEOREM Disjointness == Spec => []BlocksDisjoint
<1>1. IInv => BlocksDisjoint
  BY ZenonT(30), IInvParts DEF BlocksDisjoint, Apart, Inside, Within, Stop, Blocks, End
<1>2. QED
  BY <1>1, Invariance, PTL

(* The invariant implies BoundaryTags.                                     *)
LEMMA TagsHold == IInv => BoundaryTags
<1> SUFFICES ASSUME IInv, NEW b \in DOMAIN hdr
             PROVE  /\ hdr[b].size >= kMinBlockSize /\ hdr[b].size % kDefaultAlignment = 0
                    /\ hdr[b].first <=> b \in segments
                    /\ hdr[b].last <=> End(b) - kSegmentSize \in segments
                    /\ ~hdr[b].last => End(b) \in Blocks /\ hdr[End(b)].prevSize = hdr[b].size
                    /\ ~hdr[b].first => /\ b - hdr[b].prevSize \in Blocks
                                        /\ hdr[b - hdr[b].prevSize].size = hdr[b].prevSize
  BY Zenon DEF BoundaryTags, Blocks
<1>1. End(b) = Stop(hdr, b)
  BY Zenon DEF End, Stop
<1>2. hdr[b].size >= kMinBlockSize /\ hdr[b].size % kDefaultAlignment = 0
  BY ZenonT(30), IInvParts DEF Sized
<1>3. hdr[b].first <=> b \in segments
  BY ZenonT(30), IInvParts DEF FirstTag
<1>4. hdr[b].last <=> End(b) - kSegmentSize \in segments
  BY ZenonT(30), <1>1, IInvParts DEF LastTag
<1>5. ~hdr[b].last => End(b) \in Blocks /\ hdr[End(b)].prevSize = hdr[b].size
  BY ZenonT(30), <1>1, IInvParts DEF RightOf, Linked, Blocks
<1>6. ASSUME ~hdr[b].first
      PROVE  b - hdr[b].prevSize \in Blocks /\ hdr[b - hdr[b].prevSize].size = hdr[b].prevSize
  <2>1. PICK c \in DOMAIN hdr : Stop(hdr, c) = b /\ ~hdr[c].last
    BY ZenonT(30), <1>6, IInvParts DEF LeftOf
  <2>2. hdr[b].prevSize = hdr[c].size
    BY ZenonT(30), <2>1, IInvParts DEF Linked
  <2>3. c \in Nat /\ hdr[c].size \in Nat /\ c + hdr[c].size = b
    BY ZenonT(30), <2>1, IInvParts, Sizes DEF Stop
  <2>4. b - hdr[b].prevSize = c
    BY SMTT(30), <2>2, <2>3
  <2>5. QED
    BY ZenonT(30), <2>2, <2>4 DEF Blocks
<1>7. QED
  BY ZenonT(30), <1>2, <1>3, <1>4, <1>5, <1>6

(* The tags deallocate navigates by are right before each of its calls.    *)
THEOREM TagsCorrect == Spec => []BoundaryTags
BY Invariance, TagsHold, PTL

(* Coalescing is complete: no two free neighbours.                         *)
THEOREM CoalescingComplete == Spec => []Coalesced
<1>1. IInv => Coalesced
  BY Zenon, IInvParts DEF Coalesced, NoFreePair, Stop, Blocks, End
<1>2. QED
  BY <1>1, Invariance, PTL

(* The invariant implies BinsExact.                                        *)
LEMMA BinsHold == IInv => BinsExact
<1> SUFFICES ASSUME IInv PROVE BinsExact
  OBVIOUS
<1>1. /\ Typed(hdr)
      /\ \A i \in Bin : Distinct(bins[i])
      /\ \A i \in Bin : \A a : a \in Range(bins[i])
            <=> a \in DOMAIN hdr /\ hdr[a].free /\ binIndex(hdr[a].size) = i
  BY Zenon, IInvParts DEF Indexed, FreeIn
<1>2. ASSUME NEW i \in Bin, NEW k \in DOMAIN bins[i]
      PROVE  /\ bins[i][k] \in FreeBlocks
             /\ binIndex(hdr[bins[i][k]].size) = i
             /\ \A j \in DOMAIN bins[i] : bins[i][j] = bins[i][k] => j = k
  <2>1. bins[i][k] \in Range(bins[i])
    BY Zenon DEF Range
  <2>2. QED
    BY ZenonT(30), <2>1, <1>1 DEF FreeBlocks, Blocks, Distinct
<1>3. ASSUME NEW b \in FreeBlocks
      PROVE  \E k \in DOMAIN bins[binIndex(hdr[b].size)] : bins[binIndex(hdr[b].size)][k] = b
  <2>1. b \in DOMAIN hdr /\ hdr[b].free /\ hdr[b].size \in Nat
    BY Zenon, <1>1 DEF FreeBlocks, Blocks, Typed, Tags
  <2>2. PICK i \in Bin : i = binIndex(hdr[b].size)
    BY ZenonT(30), <2>1, BinOf
  <2>3. b \in Range(bins[i])
    BY ZenonT(30), <2>1, <2>2, <1>1
  <2>4. QED
    BY ZenonT(30), <2>2, <2>3 DEF Range
<1>4. QED
  BY ZenonT(30), <1>2, <1>3 DEF BinsExact

(* insertFree and removeFree keep the bins an exact index.                 *)
THEOREM BinsCorrect == Spec => []BinsExact
BY Invariance, BinsHold, PTL

(* The invariant implies FitComplete.                                      *)
LEMMA FitHolds == IInv => FitComplete
<1> SUFFICES ASSUME IInv, NEW bytes \in Requests,
                    findFit(Heap, blockTotal(bytes)) = nullptr,
                    NEW b \in FreeBlocks
             PROVE  hdr[b].size < blockTotal(bytes)
  BY Zenon DEF FitComplete
<1>1. Indexed(hdr, bins) /\ hdr \in [DOMAIN hdr -> Tags] /\ DOMAIN hdr \subseteq Nat
  BY Zenon, IInvParts DEF Typed
<1>2. blockTotal(bytes) \in Nat
  BY Zenon, BlockTotal
<1>3. \A a \in DOMAIN hdr : hdr[a].free => hdr[a].size < blockTotal(bytes)
  BY ZenonT(30), <1>1, <1>2, HeapFields, FindFit
<1>4. QED
  BY Zenon, <1>3 DEF FreeBlocks, Blocks

(* findFit misses no free block that is large enough.                      *)
THEOREM FitCorrect == Spec => []FitComplete
BY Invariance, FitHolds, PTL

(* Every caller holds an allocated block with room for its request.        *)
THEOREM CallersServed == Spec => []LiveServed
<1>1. IInv => LiveServed
  <2> SUFFICES ASSUME IInv PROVE LiveServed
    OBVIOUS
  <2>1. /\ Typed(hdr) /\ DOMAIN live = Used(hdr) /\ live \in [DOMAIN live -> Requests]
        /\ \A b \in DOMAIN live : hdr[b].size >= live[b] + 16
    BY Zenon, IInvParts DEF Serves
  <2>2. DOMAIN live = Blocks \ FreeBlocks
    BY ZenonT(30), <2>1 DEF Used, Blocks, FreeBlocks
  <2>3. \A b \in DOMAIN live : hdr[b].size \in Nat /\ live[b] \in Nat
    BY ZenonT(30), <2>1, RequestAssumption DEF Used, Typed, Tags
  <2>4. QED
    BY SMTT(30), <2>1, <2>2, <2>3 DEF LiveServed, payloadCapacity, kBlockHeaderSize
<1>2. QED
  BY <1>1, Invariance, PTL

(* releaseSegment keeps a wholly free segment only as the last one.        *)
THEOREM ResidentBounded == Spec => []ResidentBound
<1>1. IInv => ResidentBound
  BY Zenon, IInvParts DEF ResidentBound, Resident, Whole, FreeBlocks, Blocks
<1>2. QED
  BY <1>1, Invariance, PTL

(* The invariant implies DrainedHeap: with every block free and no two     *)
(* free neighbours, each block is a whole segment, and only one such       *)
(* segment stays.                                                          *)
LEMMA DrainedHolds == IInv => DrainedHeap
<1> SUFFICES ASSUME IInv, live = << >> PROVE Blocks = segments /\ Cardinality(segments) <= 1
  BY Zenon DEF DrainedHeap
<1>1. \A b \in DOMAIN hdr : hdr[b].free
  BY IInvParts DEF Serves, Used
<1>2. \A b \in DOMAIN hdr : hdr[b].last
  BY ZenonT(30), <1>1, IInvParts DEF NoFreePair, RightOf
<1>3. \A b \in DOMAIN hdr : hdr[b].first
  BY ZenonT(30), <1>2, IInvParts DEF LeftOf
<1>4. \A b \in DOMAIN hdr : segments = {b}
  BY ZenonT(30), <1>1, <1>2, <1>3, IInvParts DEF Resident, Whole
<1>5. Blocks = segments
  BY ZenonT(30), <1>3, IInvParts DEF Blocks, FirstTag
<1>6. Cardinality(segments) <= 1
  <2>1. CASE segments = {}
    BY SMTT(30), <2>1, FS_EmptySet
  <2>2. CASE segments # {}
    <3>1. PICK b : segments = {b}
      BY ZenonT(30), <2>2, <1>4, <1>5 DEF Blocks
    <3>2. Cardinality({b}) = 1
      BY ZenonT(30), FS_Singleton
    <3>3. QED
      BY SMTT(30), <3>1, <3>2
  <2>3. QED
    BY ZenonT(30), <2>1, <2>2
<1>7. QED
  BY ZenonT(30), <1>5, <1>6

(* When every block has been freed, in whatever order, the heap is at most *)
(* one segment, one free block.                                            *)
THEOREM Drains == Spec => []DrainedHeap
BY Invariance, DrainedHolds, PTL

-----------------------------------------------------------------------------
(* Fragmentation                                                           *)

(* The bytes of a block, of a set of blocks and of the segments.           *)
Extent(b) == b .. (b + hdr[b].size - 1)
BytesOf(S) == UNION {Extent(b) : b \in S}
Mapped == UNION {s .. (s + kSegmentSize - 1) : s \in segments}

(* A set of naturals with a bound that is not empty has a greatest one.    *)
LEMMA GreatestExists ==
    ASSUME NEW S, NEW k \in Nat, S \subseteq 0 .. k, S # {}
    PROVE  Max(S) \in S /\ \A y \in S : Max(S) >= y
<1> DEFINE T == {k - y : y \in S}
<1>1. T \subseteq Nat /\ T # {}
  <2>1. \A y \in S : k - y \in Nat
    OBVIOUS
  <2>2. QED
    BY Zenon, <2>1
<1>2. Min(T) \in T /\ \A z \in T : Min(T) <= z
  <2> HIDE DEF T
  <2>1. QED
    BY ZenonT(30), <1>1, LeastExists
<1>3. PICK x \in S : Min(T) = k - x
  BY Zenon, <1>2
<1>4. \A y \in S : k - x <= k - y
  BY ZenonT(30), <1>2, <1>3
<1>5. \A y \in S : x >= y
  BY <1>4
<1>6. QED
  BY Zenon, <1>5 DEF Max

(* No byte is in two blocks.                                               *)
LEMMA OneBlock ==
    ASSUME IInv, NEW b \in Blocks, NEW c \in Blocks, NEW x \in Extent(b), x \in Extent(c)
    PROVE  b = c
<1>1. Typed(hdr) /\ Sized(hdr) /\ Apart(hdr)
  BY Zenon, IInvParts
<1>2. b \in Nat /\ c \in Nat /\ hdr[b].size \in Nat /\ hdr[c].size \in Nat
  BY ZenonT(30), <1>1, Sizes DEF Blocks
<1>3. (b < c => b + hdr[b].size <= c) /\ (c < b => c + hdr[c].size <= b)
  BY Zenon, <1>1 DEF Apart, Blocks, Stop
<1>4. QED
  BY SMTT(30), <1>2, <1>3 DEF Extent

(* The blocks cover the segments: the last block that starts at or before  *)
(* a byte of a segment has that byte.                                      *)
LEMMA Covered ==
    ASSUME IInv
    PROVE  BytesOf(Blocks) = Mapped
<1>1. /\ Typed(hdr) /\ Sized(hdr) /\ Apart(hdr) /\ Tiles(hdr, segments)
      /\ segments \subseteq Bases /\ segments \subseteq DOMAIN hdr /\ Inside(hdr, segments)
  BY Zenon, IInvParts
<1>2. \A b \in Blocks : b \in Nat /\ hdr[b].size \in Nat /\ hdr[b].size >= 48
  BY ZenonT(30), <1>1, Sizes DEF Blocks
<1>3. kSegmentSize \in Nat /\ Bases \subseteq Nat /\ segments \subseteq Nat
  BY Zenon, <1>1, SegmentFacts
<1>4. ASSUME NEW b \in Blocks, NEW x \in Extent(b) PROVE x \in Mapped
  <2>1. PICK s \in segments : s <= b /\ Stop(hdr, b) <= s + kSegmentSize
    BY Zenon, <1>1 DEF Inside, Within, Blocks
  <2>2. s \in Nat /\ b \in Nat /\ hdr[b].size \in Nat /\ b + hdr[b].size <= s + kSegmentSize
    BY ZenonT(30), <1>2, <1>3, <2>1 DEF Stop
  <2>3. x \in s .. (s + kSegmentSize - 1)
    BY SMTT(30), <1>3, <1>4, <2>1, <2>2 DEF Extent
  <2>4. QED
    BY Zenon, <2>3 DEF Mapped
<1>5. ASSUME NEW s \in segments, NEW x \in s .. (s + kSegmentSize - 1)
      PROVE  \E b \in Blocks : x \in Extent(b)
  <2> DEFINE S == {b \in Blocks : s <= b /\ b <= x}
  <2>1. s \in Nat /\ x \in Nat /\ s <= x /\ x < s + kSegmentSize
    BY SMTT(30), <1>3, <1>5
  <2>2. S \subseteq 0 .. x /\ S # {}
    <3>1. S \subseteq 0 .. x
      BY SMTT(30), <1>2, <2>1
    <3>2. s \in S
      BY SMTT(30), <1>1, <2>1 DEF Blocks
    <3>3. QED
      BY SMTT(30), <3>1, <3>2
  <2>3. PICK b \in S : \A y \in S : b >= y
    <3> HIDE DEF S
    <3>1. QED
      BY ZenonT(30), <2>1, <2>2, GreatestExists
  <2>4. b \in Blocks /\ b \in Nat /\ hdr[b].size \in Nat /\ s <= b /\ b <= x
    BY ZenonT(30), <1>2
  <2>5. b + hdr[b].size > x
    <3> SUFFICES ASSUME ~(b + hdr[b].size > x) PROVE FALSE
      OBVIOUS
    <3>1. Stop(hdr, b) = b + hdr[b].size /\ Stop(hdr, b) \in Nat /\ Stop(hdr, b) <= x /\ Stop(hdr, b) > b
      BY SMTT(30), <1>2, <2>1, <2>4 DEF Stop
    <3>2. Stop(hdr, b) < s + kSegmentSize /\ s <= Stop(hdr, b)
      BY SMTT(30), <1>3, <2>1, <2>4, <3>1
    <3>3. ~hdr[b].last
      <4>1. Stop(hdr, b) - kSegmentSize \notin segments
        <5> SUFFICES ASSUME Stop(hdr, b) - kSegmentSize \in segments PROVE FALSE
          OBVIOUS
        <5>1. PICK r \in Bases : r = Stop(hdr, b) - kSegmentSize
          BY Zenon, <1>1
        <5>2. r \in Nat /\ r + kSegmentSize = Stop(hdr, b)
          BY SMTT(30), <1>3, <3>1, <5>1
        <5>3. s \in Bases /\ (r # s => r + kSegmentSize <= s \/ s + kSegmentSize <= r)
          BY ZenonT(30), <1>1, SegmentFacts
        <5>4. r = s \/ Stop(hdr, b) <= s
          BY SMTT(30), <1>3, <2>1, <3>1, <3>2, <5>2, <5>3
        <5>5. QED
          BY SMTT(30), <1>3, <2>1, <2>4, <3>1, <3>2, <5>2, <5>4
      <4>2. QED
        BY ZenonT(30), <2>4, <4>1, IInvParts DEF LastTag, Blocks
    <3>4. Stop(hdr, b) \in Blocks
      BY ZenonT(30), <2>4, <3>3, IInvParts DEF RightOf, Blocks
    <3>5. Stop(hdr, b) \in S
      BY ZenonT(30), <3>1, <3>2, <3>4
    <3>6. b >= Stop(hdr, b)
      BY ZenonT(30), <2>3, <3>5
    <3>7. QED
      BY SMTT(30), <2>4, <3>1, <3>6
  <2>6. x \in Extent(b)
    BY SMTT(30), <2>1, <2>4, <2>5 DEF Extent
  <2>7. QED
    BY Zenon, <2>4, <2>6
<1>6. QED
  BY SMTT(30), <1>4, <1>5 DEF BytesOf, Mapped

(* There are as many bytes mapped as segments times their size.            *)
LEMMA MappedBytes ==
    ASSUME IInv
    PROVE  /\ IsFiniteSet(Mapped) /\ IsFiniteSet(segments) /\ Cardinality(segments) \in Nat
           /\ Cardinality(Mapped) = kSegmentSize * Cardinality(segments)
<1> DEFINE K == 1 .. kSegmentSize
           P == segments \X K
           at == [u \in P |-> u[1] + u[2] - 1]
<1>1. kSegmentSize \in Nat /\ segments \subseteq Nat /\ IsFiniteSet(segments) /\ segments \subseteq Bases
  <2>1. segments \subseteq Bases
    BY Zenon, IInvParts
  <2>2. QED
    BY ZenonT(30), <2>1, SegmentFacts, BaseAssumption, FS_Subset
<1>2. IsFiniteSet(K) /\ Cardinality(K) = kSegmentSize /\ Cardinality(segments) \in Nat
  <2>1. kSegmentSize \in Int /\ 1 \in Int
    BY <1>1
  <2>2. IsFiniteSet(K) /\ Cardinality(K) = IF 1 > kSegmentSize THEN 0 ELSE kSegmentSize - 1 + 1
    BY Zenon, <2>1, FS_Interval
  <2>3. Cardinality(segments) \in Nat
    BY Zenon, <1>1, FS_CardinalityType
  <2> HIDE DEF K
  <2>4. QED
    BY SMTT(30), <1>1, <2>2, <2>3
<1>3. IsFiniteSet(P) /\ Cardinality(P) = Cardinality(segments) * Cardinality(K)
  <2> HIDE DEF K
  <2>1. QED
    BY Zenon, <1>1, <1>2, FS_Product
<1>4. at \in [P -> Mapped]
  <2> SUFFICES ASSUME NEW s \in segments, NEW j \in K PROVE s + j - 1 \in Mapped
    OBVIOUS
  <2>1. s + j - 1 \in s .. (s + kSegmentSize - 1)
    BY <1>1
  <2>2. QED
    BY Zenon, <2>1 DEF Mapped
<1>5. ASSUME NEW x \in Mapped PROVE \E u \in P : at[u] = x
  <2>1. PICK s \in segments : x \in s .. (s + kSegmentSize - 1)
    BY Zenon DEF Mapped
  <2>2. x - s + 1 \in K /\ s + (x - s + 1) - 1 = x
    BY SMTT(30), <1>1, <2>1
  <2>3. <<s, x - s + 1>> \in P /\ at[<<s, x - s + 1>>] = s + (x - s + 1) - 1
    BY <2>2
  <2>4. QED
    BY Zenon, <2>2, <2>3
<1>6. ASSUME NEW u \in P, NEW v \in P, at[u] = at[v] PROVE u = v
  <2>1. PICK s \in segments, j \in K, t \in segments, k \in K : u = <<s, j>> /\ v = <<t, k>>
    BY <1>6
  <2>2. s + j - 1 = t + k - 1
    BY SMTT(30), <1>6, <2>1
  <2>3. s # t => s + kSegmentSize <= t \/ t + kSegmentSize <= s
    BY ZenonT(30), <1>1, SegmentFacts
  <2>4. s = t /\ j = k
    BY SMTT(30), <1>1, <2>2, <2>3
  <2>5. QED
    BY Zenon, <2>1, <2>4
<1> HIDE DEF at, P, K
<1>7. at \in Injection(P, Mapped) /\ at \in Surjection(P, Mapped)
  BY ZenonT(30), <1>4, <1>5, <1>6 DEF Injection, Surjection, IsInjective
<1>8. IsFiniteSet(Mapped)
  BY Zenon, <1>3, <1>7, FS_Surjection
<1>9. Cardinality(P) = Cardinality(Mapped)
  BY ZenonT(30), <1>7, <1>8, FS_Injection
<1>10. QED
  BY SMTT(30), <1>1, <1>2, <1>3, <1>8, <1>9

(* The sum of the sizes of some blocks, each once, is their number of      *)
(* bytes.                                                                  *)
LEMMA TotalBytes ==
    ASSUME IInv, NEW f, NEW block \in [DOMAIN f -> Blocks],
           \A x, y \in DOMAIN f : block[x] = block[y] => x = y,
           \A x \in DOMAIN f : f[x] = hdr[block[x]].size,
           NEW S, S = {block[x] : x \in DOMAIN f}
    PROVE  IsFiniteSet(BytesOf(S)) /\ Total(f) = Cardinality(BytesOf(S))
<1> DEFINE U == Units(f)
           at == [u \in U |-> block[u[1]] + u[2] - 1]
<1>1. S \subseteq Blocks
  OBVIOUS
<1>2. IsFiniteSet(BytesOf(S))
  <2>1. BytesOf(S) \subseteq BytesOf(Blocks)
    BY Zenon, <1>1 DEF BytesOf
  <2>2. BytesOf(S) \subseteq Mapped
    BY Zenon, <2>1, Covered
  <2>3. QED
    BY SMTT(30), <2>2, MappedBytes, FS_Subset
<1>3. \A b \in Blocks : b \in Nat /\ hdr[b].size \in Nat
  BY Zenon, IInvParts, Sizes DEF Blocks
<1>4. \A u \in U : u[1] \in DOMAIN f /\ u[2] \in 1 .. hdr[block[u[1]]].size /\ u = <<u[1], u[2]>>
  BY DEF Units
<1>5. \A u \in U : at[u] \in Extent(block[u[1]]) /\ block[u[1]] \in Blocks /\ block[u[1]] \in S
  <2> SUFFICES ASSUME NEW u \in U
               PROVE  block[u[1]] + u[2] - 1 \in Extent(block[u[1]]) /\ block[u[1]] \in Blocks /\ block[u[1]] \in S
    OBVIOUS
  <2>1. u[1] \in DOMAIN f /\ u[2] \in 1 .. hdr[block[u[1]]].size
    BY Zenon, <1>4
  <2>2. block[u[1]] \in Blocks /\ block[u[1]] \in S
    BY <2>1
  <2>3. block[u[1]] \in Nat /\ hdr[block[u[1]]].size \in Nat
    BY ZenonT(30), <1>3, <2>2
  <2>4. block[u[1]] + u[2] - 1 \in Extent(block[u[1]])
    BY SMTT(30), <2>1, <2>3 DEF Extent
  <2>5. QED
    BY ZenonT(30), <2>2, <2>4
<1>6. at \in [U -> BytesOf(S)]
  <2>1. \A u \in U : at[u] \in BytesOf(S)
    BY Zenon, <1>5 DEF BytesOf
  <2>2. QED
    BY <2>1
<1>7. ASSUME NEW z \in BytesOf(S) PROVE \E u \in U : at[u] = z
  <2>1. PICK x \in DOMAIN f : z \in Extent(block[x])
    BY DEF BytesOf
  <2>2. block[x] \in Nat /\ hdr[block[x]].size \in Nat /\ f[x] = hdr[block[x]].size
    BY Zenon, <1>3
  <2> DEFINE j == z - block[x] + 1
  <2>3. j \in 1 .. f[x] /\ block[x] + j - 1 = z
    BY SMTT(30), <2>1, <2>2 DEF Extent
  <2> HIDE DEF j
  <2>4. <<x, j>> \in U
    BY SMTT(30), <2>3 DEF Units
  <2>5. at[<<x, j>>] = block[x] + j - 1
    BY <2>4
  <2>6. QED
    BY ZenonT(30), <2>3, <2>4, <2>5
<1>8. ASSUME NEW u \in U, NEW v \in U, at[u] = at[v] PROVE u = v
  <2>1. block[u[1]] = block[v[1]]
    BY ZenonT(30), <1>5, <1>8, OneBlock
  <2>2. u[1] \in DOMAIN f /\ v[1] \in DOMAIN f /\ u[1] = v[1]
    BY Zenon, <1>4, <2>1
  <2>3. block[u[1]] + u[2] - 1 = block[v[1]] + v[2] - 1
    BY Zenon, <1>8
  <2>4. block[u[1]] \in Nat /\ u[2] \in Int /\ v[2] \in Int
    BY SMTT(30), <1>3, <1>4, <2>2
  <2>5. u[2] = v[2]
    BY SMTT(30), <2>1, <2>3, <2>4
  <2>6. u = <<u[1], u[2]>> /\ v = <<v[1], v[2]>>
    BY Zenon, <1>4
  <2> HIDE DEF U, at
  <2>7. <<u[1], u[2]>> = <<v[1], v[2]>>
    BY Zenon, <2>2, <2>5
  <2>8. QED
    BY Zenon, <2>6, <2>7
<1> HIDE DEF at, U
<1>9. at \in Injection(U, BytesOf(S)) /\ at \in Surjection(U, BytesOf(S))
  BY ZenonT(30), <1>6, <1>7, <1>8 DEF Injection, Surjection, IsInjective
<1>10. Cardinality(U) = Cardinality(BytesOf(S))
  BY Zenon, <1>2, <1>9, FS_Injection
<1>11. QED
  BY Zenon, <1>2, <1>10 DEF Total, U

(* A set of blocks and the largest of them: it has all the bytes when      *)
(* there is no other.                                                      *)
LEMMA LargestBytes ==
    ASSUME IInv, NEW S \in SUBSET Blocks, NEW L, L = Max({hdr[b].size : b \in S} \cup {0})
    PROVE  L = Cardinality(BytesOf(S)) <=> Cardinality(S) <= 1
<1> DEFINE Z == {hdr[b].size : b \in S} \cup {0}
<1>1. \A b \in S : b \in Nat /\ hdr[b].size \in Nat /\ hdr[b].size >= 48 /\ hdr[b].size <= kSegmentSize
  <2> SUFFICES ASSUME NEW b \in S
               PROVE  b \in Nat /\ hdr[b].size \in Nat /\ hdr[b].size >= 48 /\ hdr[b].size <= kSegmentSize
    OBVIOUS
  <2>1. b \in Blocks /\ b \in Nat /\ hdr[b].size \in Nat /\ hdr[b].size >= 48
    BY Zenon, IInvParts, Sizes DEF Blocks
  <2>2. PICK s \in segments : s <= b /\ b + hdr[b].size <= s + kSegmentSize
    BY Zenon, <2>1, IInvParts DEF Inside, Within, Blocks, Stop
  <2>3. s \in Nat /\ kSegmentSize \in Nat
    BY Zenon, IInvParts, SegmentFacts
  <2>4. QED
    BY SMTT(30), <2>1, <2>2, <2>3
<1>2. L \in Z /\ \A z \in Z : L >= z
  <2>1. kSegmentSize \in Nat /\ Z \subseteq 0 .. kSegmentSize /\ Z # {}
    BY SMTT(30), <1>1, SegmentFacts
  <2> HIDE DEF Z
  <2>2. Max(Z) \in Z /\ \A z \in Z : Max(Z) >= z
    BY Zenon, <2>1, GreatestExists
  <2>3. QED
    BY Zenon, <2>2 DEF Z
<1>3. IsFiniteSet(BytesOf(S)) /\ IsFiniteSet(S)
  <2>1. BytesOf(S) \subseteq Mapped
    BY Zenon, Covered DEF BytesOf
  <2>2. S \subseteq BytesOf(S)
    <3>1. \A b \in S : b \in Extent(b)
      BY SMTT(30), <1>1 DEF Extent
    <3>2. QED
      BY Zenon, <3>1 DEF BytesOf
  <2>3. IsFiniteSet(Mapped)
    BY Zenon, MappedBytes
  <2>4. S \subseteq Mapped
    BY Zenon, <2>1, <2>2
  <2>5. QED
    BY SMTT(30), <2>1, <2>3, <2>4, FS_Subset
<1>4. CASE S = {}
  <2>1. BytesOf(S) = {} /\ Z = {0}
    BY SMTT(30), <1>4 DEF BytesOf
  <2>2. L = 0
    BY SMTT(30), <1>2, <2>1
  <2>3. QED
    BY SMTT(30), <1>4, <2>1, <2>2, FS_EmptySet
<1>5. CASE S # {}
  <2>1. PICK b \in S : L = hdr[b].size
    <3>1. PICK c \in S : TRUE
      BY Zenon, <1>5
    <3>2. L # 0
      <4>1. hdr[c].size \in Z
        OBVIOUS
      <4>2. L >= hdr[c].size
        BY Zenon, <1>2, <4>1
      <4>3. hdr[c].size \in Nat /\ hdr[c].size >= 48
        BY Zenon, <1>1
      <4>4. QED
        BY SMTT(30), <4>2, <4>3
    <3>3. QED
      BY Zenon, <1>2, <3>2
  <2>2. IsFiniteSet(Extent(b)) /\ Cardinality(Extent(b)) = L
    <3>1. b \in Int /\ b + hdr[b].size - 1 \in Int /\ ~(b > b + hdr[b].size - 1)
      BY SMTT(30), <1>1
    <3>2. (b + hdr[b].size - 1) - b + 1 = hdr[b].size
      BY SMTT(30), <1>1
    <3>3. QED
      BY SMTT(30), <2>1, <3>1, <3>2, FS_Interval DEF Extent
  <2>3. Extent(b) \in SUBSET BytesOf(S)
    BY Zenon DEF BytesOf
  <2>4. CASE S = {b}
    <3>1. BytesOf(S) = Extent(b)
      BY <2>4 DEF BytesOf
    <3>2. Cardinality(S) = 1
      BY Zenon, <2>4, FS_Singleton
    <3>3. QED
      BY SMTT(30), <2>2, <3>1, <3>2
  <2>5. CASE S # {b}
    <3>1. PICK c \in S : c # b
      BY SMTT(30), <2>5
    <3>2. c \in Extent(c)
      BY SMTT(30), <1>1 DEF Extent
    <3>3. c \notin Extent(b)
      BY Zenon, <3>1, <3>2, OneBlock
    <3>4. c \in BytesOf(S)
      BY Zenon, <3>2 DEF BytesOf
    <3>5. BytesOf(S) # Extent(b)
      BY ZenonT(30), <3>3, <3>4
    <3>6. L # Cardinality(BytesOf(S))
      BY ZenonT(30), <1>3, <2>2, <2>3, <3>5, FS_Subset
    <3>7. Cardinality({b}) = 1 /\ {b} \in SUBSET S
      BY Zenon, FS_Singleton
    <3>8. 1 <= Cardinality(S) /\ Cardinality(S) # 1 /\ Cardinality(S) \in Nat
      BY SMTT(30), <1>3, <2>5, <3>7, FS_Subset, FS_CardinalityType
    <3>9. QED
      BY SMTT(30), <3>6, <3>8
  <2>6. QED
    BY Zenon, <2>4, <2>5
<1>6. QED
  BY Zenon, <1>4, <1>5

(* The nodes of the bins by position, and the block each of them is.       *)
Nodes == UNION {{<<i, k>> : k \in DOMAIN bins[i]} : i \in Bin}
NodeBlock == [n \in Nodes |-> bins[n[1]][n[2]]]

(* The nodes are the free blocks, each once.                               *)
LEMMA NodesAreFree ==
    ASSUME IInv
    PROVE  /\ NodeBlock \in [Nodes -> Blocks]
           /\ \A m, n \in Nodes : NodeBlock[m] = NodeBlock[n] => m = n
           /\ {NodeBlock[n] : n \in Nodes} = FreeBlocks
<1>1. /\ \A i \in Bin : Distinct(bins[i]) /\ Range(bins[i]) = FreeIn(hdr, i)
      /\ Typed(hdr) /\ Sized(hdr)
  BY Zenon, IInvParts DEF Indexed
<1>2. \A n \in Nodes : n[1] \in Bin /\ n[2] \in DOMAIN bins[n[1]] /\ n = <<n[1], n[2]>>
  BY DEF Nodes
<1>3. \A n \in Nodes : NodeBlock[n] \in FreeIn(hdr, n[1])
  <2> SUFFICES ASSUME NEW n \in Nodes PROVE bins[n[1]][n[2]] \in FreeIn(hdr, n[1])
    BY Zenon DEF NodeBlock
  <2>1. n[1] \in Bin /\ n[2] \in DOMAIN bins[n[1]]
    BY Zenon, <1>2
  <2>2. bins[n[1]][n[2]] \in Range(bins[n[1]])
    BY Zenon, <2>1 DEF Range
  <2>3. QED
    BY ZenonT(30), <1>1, <2>1, <2>2
<1>4. \A n \in Nodes : NodeBlock[n] \in FreeBlocks /\ binIndex(hdr[NodeBlock[n]].size) = n[1]
  BY Zenon, <1>3 DEF FreeIn, FreeBlocks, Blocks
<1>5. NodeBlock \in [Nodes -> Blocks]
  <2>1. \A n \in Nodes : bins[n[1]][n[2]] \in Blocks
    BY Zenon, <1>4 DEF FreeBlocks, NodeBlock
  <2>2. QED
    BY Zenon, <2>1 DEF NodeBlock
<1>6. ASSUME NEW m \in Nodes, NEW n \in Nodes, NodeBlock[m] = NodeBlock[n] PROVE m = n
  <2>1. m[1] = n[1]
    <3>1. binIndex(hdr[NodeBlock[m]].size) = m[1]
      BY Zenon, <1>4
    <3>2. binIndex(hdr[NodeBlock[n]].size) = n[1]
      BY Zenon, <1>4
    <3>3. QED
      BY ZenonT(30), <1>6, <3>1, <3>2
  <2>2. bins[m[1]][m[2]] = bins[m[1]][n[2]]
    BY Zenon, <1>6, <2>1 DEF NodeBlock
  <2>3. m[1] \in Bin /\ m[2] \in DOMAIN bins[m[1]] /\ n[2] \in DOMAIN bins[m[1]]
    BY Zenon, <1>2, <2>1
  <2>4. m[2] = n[2]
    BY ZenonT(30), <1>1, <2>2, <2>3 DEF Distinct
  <2>5. m = <<m[1], m[2]>> /\ n = <<n[1], n[2]>>
    BY Zenon, <1>2
  <2>6. <<m[1], m[2]>> = <<n[1], n[2]>>
    BY Zenon, <2>1, <2>4
  <2>7. QED
    BY Zenon, <2>5, <2>6
<1>7. ASSUME NEW b \in FreeBlocks PROVE \E n \in Nodes : NodeBlock[n] = b
  <2> DEFINE i == binIndex(hdr[b].size)
  <2>1. hdr[b].size \in Nat /\ b \in DOMAIN hdr /\ hdr[b].free
    BY Zenon, <1>1, Sizes DEF FreeBlocks, Blocks
  <2>2. i \in Bin
    BY Zenon, <2>1, BinOf
  <2>3. b \in FreeIn(hdr, i)
    BY Zenon, <2>1 DEF FreeIn
  <2>4. PICK k \in DOMAIN bins[i] : bins[i][k] = b
    BY ZenonT(30), <1>1, <2>2, <2>3 DEF Range
  <2> HIDE DEF i
  <2>5. <<i, k>> \in Nodes
    BY SMTT(30), <2>2, <2>4 DEF Nodes
  <2>6. NodeBlock[<<i, k>>] = b
    BY SMTT(30), <2>4, <2>5 DEF NodeBlock
  <2>7. QED
    BY Zenon, <2>5, <2>6
<1>8. {NodeBlock[n] : n \in Nodes} = FreeBlocks
  <2>1. \A n \in Nodes : NodeBlock[n] \in FreeBlocks
    BY Zenon, <1>4
  <2>2. QED
    BY SMTT(30), <1>7, <2>1
<1>9. \A m, n \in Nodes : NodeBlock[m] = NodeBlock[n] => m = n
  BY Zenon, <1>6
<1>10. QED
  BY Zenon, <1>5, <1>8, <1>9

(* The invariant implies FragmentationExact: the free blocks and the held  *)
(* ones share out the bytes of the segments.                               *)
LEMMA FragmentationHolds == IInv => FragmentationExact
<1> SUFFICES ASSUME IInv PROVE FragmentationExact
  OBVIOUS
<1> DEFINE size == [n \in Nodes |-> hdr[bins[n[1]][n[2]]].size]
           held == [b \in DOMAIN live |-> hdr[b].size]
           same == [b \in DOMAIN live |-> b]
           F == BytesOf(FreeBlocks)
           H == BytesOf(Used(hdr))
           L == Max({size[n] : n \in Nodes} \cup {0})
<1>1. /\ NodeBlock \in [Nodes -> Blocks]
      /\ \A m, n \in Nodes : NodeBlock[m] = NodeBlock[n] => m = n
      /\ {NodeBlock[n] : n \in Nodes} = FreeBlocks
  BY Zenon, NodesAreFree
<1>2. DOMAIN size = Nodes /\ \A n \in Nodes : size[n] = hdr[NodeBlock[n]].size
  BY Zenon DEF NodeBlock
<1>3. IsFiniteSet(F) /\ Total(size) = Cardinality(F)
  <2>1. /\ NodeBlock \in [DOMAIN size -> Blocks]
        /\ \A m, n \in DOMAIN size : NodeBlock[m] = NodeBlock[n] => m = n
        /\ \A n \in DOMAIN size : size[n] = hdr[NodeBlock[n]].size
        /\ FreeBlocks = {NodeBlock[n] : n \in DOMAIN size}
    BY Zenon, <1>1, <1>2
  <2> HIDE DEF size
  <2>2. QED
    BY SMTT(30), <2>1, TotalBytes
<1>4. IsFiniteSet(H) /\ Total(held) = Cardinality(H)
  <2>1. DOMAIN live = Used(hdr)
    BY Zenon, IInvParts DEF Serves
  <2>2. /\ same \in [DOMAIN held -> Blocks]
        /\ \A m, n \in DOMAIN held : same[m] = same[n] => m = n
        /\ \A n \in DOMAIN held : held[n] = hdr[same[n]].size
        /\ Used(hdr) = {same[n] : n \in DOMAIN held}
    BY Zenon, <2>1 DEF Used, Blocks
  <2> HIDE DEF held, same
  <2>3. QED
    BY SMTT(30), <2>2, TotalBytes
<1>5. F \cup H = Mapped
  <2>1. FreeBlocks \cup Used(hdr) = Blocks
    BY DEF FreeBlocks, Used, Blocks
  <2>2. F \cup H = BytesOf(Blocks)
    BY <2>1 DEF BytesOf
  <2>3. QED
    BY ZenonT(30), <2>2, Covered
<1>6. F \cap H = {}
  <2> SUFFICES ASSUME NEW b \in FreeBlocks, NEW c \in Used(hdr), NEW x \in Extent(b), x \in Extent(c)
               PROVE  FALSE
    BY DEF BytesOf
  <2>1. b \in Blocks /\ c \in Blocks /\ hdr[b].free /\ ~hdr[c].free
    BY Zenon DEF FreeBlocks, Used, Blocks
  <2>2. b = c
    BY ZenonT(30), <2>1, OneBlock
  <2>3. QED
    BY Zenon, <2>1, <2>2
<1>7. Cardinality(F) + Cardinality(H) = Cardinality(Mapped)
  <2>1. Cardinality(F \cup H) = Cardinality(F) + Cardinality(H) - Cardinality(F \cap H)
    BY ZenonT(30), <1>3, <1>4, FS_Union
  <2>2. Cardinality(F) \in Nat /\ Cardinality(H) \in Nat
    BY Zenon, <1>3, <1>4, FS_CardinalityType
  <2>3. Cardinality(F \cap H) = 0
    BY Zenon, <1>6, FS_EmptySet
  <2>4. Cardinality(F) + Cardinality(H) - 0 = Cardinality(F) + Cardinality(H)
    BY <2>2
  <2>5. QED
    BY ZenonT(30), <1>5, <2>1, <2>3, <2>4
<1>8. Total(size) + Total(held) = kSegmentSize * Cardinality(segments)
  BY ZenonT(30), <1>3, <1>4, <1>7, MappedBytes
<1>9. L = Total(size) <=> Cardinality(FreeBlocks) <= 1
  <2>1. {size[n] : n \in Nodes} = {hdr[b].size : b \in FreeBlocks}
    BY SMTT(30), <1>1, <1>2
  <2>2. FreeBlocks \in SUBSET Blocks
    BY DEF FreeBlocks
  <2>3. L = Max({hdr[b].size : b \in FreeBlocks} \cup {0})
    BY Zenon, <2>1
  <2> HIDE DEF L
  <2>4. L = Cardinality(F) <=> Cardinality(FreeBlocks) <= 1
    BY Zenon, <2>2, <2>3, LargestBytes
  <2>5. QED
    BY Zenon, <1>3, <2>4
<1>10. externalFragmentation = [largestFree |-> L, totalFree |-> Total(size)]
  BY Zenon DEF externalFragmentation, Nodes
<1> HIDE DEF L, size, held
<1>11. externalFragmentation.largestFree = L /\ externalFragmentation.totalFree = Total(size)
  BY ZenonT(30), <1>10
<1>12. QED
  BY ZenonT(30), <1>8, <1>9, <1>11 DEF FragmentationExact, held

(* externalFragmentation accounts for every byte: what it adds up over the *)
(* bins and what callers hold is all that is mapped, and it reports no     *)
(* fragmentation exactly when at most one block is free.                   *)
THEOREM FragmentationCorrect == Spec => []FragmentationExact
BY Invariance, FragmentationHolds, PTL

-----------------------------------------------------------------------------
(* What a step may not do, and the abstract store                          *)

(* No operation changes the capacity of a block a caller holds.            *)
THEOREM CapacityStable == Spec => LiveStable
<1>1. IInv /\ IInv' /\ [Next]_vars =>
        [\A b \in DOMAIN live \cap DOMAIN live' :
            payloadCapacity(b)' = payloadCapacity(b)]_vars
  <2> SUFFICES ASSUME IInv, [Next]_vars, ~UNCHANGED vars, NEW b \in DOMAIN live \cap DOMAIN live'
               PROVE  payloadCapacity(b)' = payloadCapacity(b)
    OBVIOUS
  <2>1. Keeps
    BY Zenon, StepCases DEF Gives, Takes
  <2>2. QED
    BY Zenon, <2>1 DEF Keeps, payloadCapacity
<1>2. QED
  BY <1>1, Invariance, PTL DEF Spec, LiveStable

(* releaseSegment never unmaps the last segment.                           *)
THEOREM KeepsASegment == Spec => StaysResident
<1>1. IInv /\ IInv' /\ [Next]_vars => [segments # {} => segments' # {}]_vars
  <2> SUFFICES ASSUME IInv, [Next]_vars, ~UNCHANGED vars, segments # {}
               PROVE  segments' # {}
    OBVIOUS
  <2>1. QED
    BY Zenon, StepCases DEF Gives, Takes
<1>2. QED
  BY <1>1, Invariance, PTL DEF Spec, StaysResident

-----------------------------------------------------------------------------
(* The medium tier implements BlockStore                                   *)

(* The refinement mapping.                                                 *)
Owned == [b \in DOMAIN live |-> hdr[b].size]
Addrs == Aligned(UNION {s .. (s + kSegmentSize - 1) : s \in Bases})
Extents == Aligned(kMinBlockSize .. kSegmentSize)

(* A block in a caller's hands is one BlockStore may grant, and is clear   *)
(* of the others.                                                          *)
Grantable ==
    \A b \in DOMAIN live :
        /\ b \in Addrs /\ Owned[b] \in Extents
        /\ \A c \in DOMAIN live : c # b => Store!Disjoint(b, Owned[b], c, Owned[c])

(* The invariant makes every block in a caller's hands grantable.          *)
LEMMA OwnedFacts == IInv => Grantable
<1> SUFFICES ASSUME IInv, NEW b \in DOMAIN live
             PROVE  /\ b \in Addrs /\ Owned[b] \in Extents
                    /\ \A c \in DOMAIN live : c # b => Store!Disjoint(b, Owned[b], c, Owned[c])
  BY Zenon DEF Grantable
<1>1. b \in DOMAIN hdr /\ DOMAIN live \subseteq DOMAIN hdr
  BY Zenon, IInvParts DEF Serves, Used
<1>2. b \in Nat /\ hdr[b].size \in Nat /\ b % 16 = 0 /\ hdr[b].size % 16 = 0 /\ hdr[b].size >= 48
  BY Zenon, <1>1, IInvParts DEF Typed, Tags, Sized, kDefaultAlignment, kMinBlockSize
<1>3. PICK s \in Bases : s <= b /\ b + hdr[b].size <= s + kSegmentSize
  BY Zenon, <1>1, IInvParts DEF Inside, Within, Stop
<1>4. s \in Nat /\ kSegmentSize \in Nat
  BY Zenon, SegmentFacts
<1>5. b \in s .. (s + kSegmentSize - 1) /\ hdr[b].size <= kSegmentSize
  BY SMTT(30), <1>2, <1>3, <1>4
<1>6. b \in Addrs
  BY ZenonT(30), <1>2, <1>5 DEF Addrs, Aligned, kDefaultAlignment
<1>7. Owned[b] \in Extents
  BY SMTT(30), <1>2, <1>4, <1>5 DEF Owned, Extents, Aligned, kDefaultAlignment, kMinBlockSize
<1>8. ASSUME NEW c \in DOMAIN live, c # b
      PROVE  Store!Disjoint(b, Owned[b], c, Owned[c])
  <2>1. c \in Nat /\ c \in DOMAIN hdr
    BY ZenonT(30), <1>1, IInvParts DEF Typed
  <2>2. b + hdr[b].size <= c \/ c + hdr[c].size <= b
    BY SMTT(30), <1>1, <1>2, <1>8, <2>1, IInvParts DEF Apart, Stop
  <2>3. QED
    BY Zenon, <2>2 DEF Store!Disjoint, Owned
<1>9. QED
  BY ZenonT(30), <1>6, <1>7, <1>8

(* allocate is a Grant.                                                    *)
LEMMA GivesGrants ==
    ASSUME Gives, Grantable'
    PROVE  \E a \in Addrs, n \in Extents : Store!Grant(a, n)
<1>1. PICK b : b \notin DOMAIN live /\ DOMAIN live' = DOMAIN live \cup {b}
  BY Zenon DEF Gives
<1>2. \A c \in DOMAIN live : Owned'[c] = Owned[c]
  BY Zenon, <1>1 DEF Gives, Keeps, Owned
<1>3. /\ b \in Addrs /\ Owned'[b] \in Extents
      /\ \A c \in DOMAIN live : Store!Disjoint(b, Owned'[b], c, Owned[c])
  BY ZenonT(30), <1>1, <1>2 DEF Grantable, Addrs, Extents
<1>4. PICK n \in Extents : n = Owned'[b]
  BY Zenon, <1>3
<1>5. Owned' = [c \in DOMAIN Owned \cup {b} |-> IF c = b THEN n ELSE Owned[c]]
  BY ZenonT(30), <1>1, <1>2, <1>4 DEF Owned
<1>6. Store!Grant(b, n)
  BY ZenonT(30), <1>1, <1>3, <1>4, <1>5 DEF Store!Grant, Owned
<1>7. QED
  BY ZenonT(30), <1>3, <1>6

(* deallocate is a Return.                                                 *)
LEMMA TakesReturns ==
    ASSUME Grantable, NEW b \in DOMAIN live, Takes(b)
    PROVE  \E a \in Addrs : Store!Return(a)
<1>1. DOMAIN live' = DOMAIN live \ {b} /\ Keeps
  BY Zenon DEF Takes
<1>2. Owned' = [c \in DOMAIN Owned \ {b} |-> Owned[c]]
  BY Zenon, <1>1 DEF Keeps, Owned
<1>3. Store!Return(b)
  BY Zenon, <1>2 DEF Store!Return, Owned
<1>4. QED
  BY Zenon, <1>3 DEF Grantable

(* The medium tier implements BlockStore: allocate is a Grant or a         *)
(* stutter, deallocate a Return.                                           *)
THEOREM ImplementsStore == Spec => StoreSpec
<1>1. Init => Store!Init
  BY Zenon DEF Init, Store!Init
<1>2. IInv => Grantable
  BY SMTT(30), OwnedFacts
<1>3. IInv /\ Grantable /\ Grantable' /\ [Next]_vars
        => [Store!Next]_([b \in DOMAIN live |-> hdr[b].size])
  <2> SUFFICES ASSUME IInv, Grantable, Grantable', [Next]_vars, Owned' # Owned
               PROVE  \/ \E a \in Addrs, n \in Extents : Store!Grant(a, n)
                      \/ \E a \in Addrs : Store!Return(a)
    BY Zenon DEF Store!Next, Addrs, Extents, Owned
  <2>1. CASE UNCHANGED vars
    BY Zenon, <2>1 DEF vars, Owned
  <2>2. CASE Gives
    BY ZenonT(30), <2>2, GivesGrants
  <2>3. CASE \E b \in DOMAIN live : Takes(b)
    BY Zenon, <2>3, TakesReturns
  <2>4. QED
    BY ZenonT(30), <2>1, <2>2, <2>3, StepCases
<1>4. QED
  BY <1>1, <1>2, <1>3, Invariance, PTL DEF Spec, StoreSpec, Store!Spec
=============================================================================
