---------------------------- MODULE SegmentHeap ----------------------------
(***************************************************************************)
(* The medium tier (src/SegmentHeap.cpp): segments mapped from the OS, cut *)
(* into blocks with boundary tags, the free ones kept in power-of-two      *)
(* bins.  Every public operation holds mutex_ from its first read of the   *)
(* heap to its last write, so each is one action; callers on any thread    *)
(* interleave at that grain.                                               *)
(*                                                                         *)
(* Addresses and sizes are bytes.  A MediumBlock header exists in hdr at   *)
(* the address of each current block and nowhere else: what is left of a   *)
(* header inside a merged or user-owned block is payload, not a header.    *)
(* A bin is the sequence of its nodes from bins_[i] along next.            *)
(***************************************************************************)
EXTENDS Integers, Sequences, FiniteSets, FiniteSetsExt, Functions, Totals

CONSTANTS
    kSegmentSize,   \* bytes per segment (4 MiB in the code)
    kBinCount,      \* number of bins (18 in the code)
    Bases,          \* the addresses at which the OS may map a segment
    Requests        \* the byte counts callers ask for

kDefaultAlignment == 16
kBlockHeaderSize == 16
kMinBlockSize == 48
nullptr == -1

ASSUME SegmentAssumption ==
    /\ kSegmentSize \in Nat /\ kSegmentSize >= kMinBlockSize
    /\ kSegmentSize % kDefaultAlignment = 0

ASSUME BinAssumption == kBinCount \in Nat \ {0}

(* The OS hands out page-aligned, disjoint mappings; two of them may touch. *)
ASSUME BaseAssumption ==
    /\ IsFiniteSet(Bases)
    /\ \A s \in Bases : s \in Nat /\ s % kDefaultAlignment = 0
    /\ \A s, t \in Bases : s # t => s + kSegmentSize <= t \/ t + kSegmentSize <= s

ASSUME RequestAssumption == Requests \subseteq Nat \ {0}

VARIABLES
    hdr,        \* MediumBlock headers: block address -> tags
    bins,       \* bins_: bin index -> sequence of free blocks
    segments,   \* segments_: the bases of the mapped segments
    live        \* the blocks in callers' hands: block address -> bytes asked

vars == <<hdr, bins, segments, live>>

Tags == [size : Nat, prevSize : Nat, free : BOOLEAN, first : BOOLEAN, last : BOOLEAN]
Bin == 0 .. (kBinCount - 1)

(* The part of the state the private helpers rewrite, as one value.        *)
Heap == [hdr |-> hdr, bins |-> bins]
Becomes(m) == hdr' = m.hdr /\ bins' = m.bins

-----------------------------------------------------------------------------
(* Size arithmetic                                                         *)

alignUp(value, alignment) == ((value + alignment - 1) \div alignment) * alignment

(* std::bit_width for the block sizes that occur, all below 2^31.          *)
bit_width(n) == Cardinality({w \in 0..30 : 2^w <= n})

binIndex(size) ==
    LET width == bit_width(size)
        raw == IF width > 6 THEN width - 6 ELSE 0
    IN  IF raw <= kBinCount - 1 THEN raw ELSE kBinCount - 1

(* Mutation: room for the payload only.                                    *)
blockTotal_NoHeader(bytes) ==
    LET total == alignUp(bytes, kDefaultAlignment)
    IN  IF total >= kMinBlockSize THEN total ELSE kMinBlockSize

blockTotal(bytes) ==
    LET total == alignUp(bytes, kDefaultAlignment) + kBlockHeaderSize
    IN  IF total >= kMinBlockSize THEN total ELSE kMinBlockSize

-----------------------------------------------------------------------------
(* Free lists                                                              *)

insertFree(m, b) ==
    [hdr  |-> [m.hdr EXCEPT ![b].free = TRUE],
     bins |-> [m.bins EXCEPT ![binIndex(m.hdr[b].size)] = <<b>> \o @]]

(* The list without its k-th node.                                         *)
CutAt(list, k) == SubSeq(list, 1, k - 1) \o SubSeq(list, k + 1, Len(list))

unlink(list, b) == CutAt(list, CHOOSE k \in DOMAIN list : list[k] = b)

(* Mutation: the free flag is left set.                                    *)
removeFree_KeepsFlag(m, b) ==
    [m EXCEPT !.bins[binIndex(m.hdr[b].size)] = unlink(@, b)]

removeFree(m, b) ==
    [hdr  |-> [m.hdr EXCEPT ![b].free = FALSE],
     bins |-> [m.bins EXCEPT ![binIndex(m.hdr[b].size)] = unlink(@, b)]]

(* Mutation: only the head of each bin is looked at.                       *)
findFit_HeadOnly(m, totalSize) ==
    LET usable == {i \in binIndex(totalSize) .. (kBinCount - 1) :
                      m.bins[i] # <<>> /\ m.hdr[Head(m.bins[i])].size >= totalSize}
    IN  IF usable = {} THEN nullptr ELSE Head(m.bins[Min(usable)])

(* First fit: the lowest bin with a large enough block, the first such     *)
(* block on its list.                                                      *)
findFit(m, totalSize) ==
    LET fits(i) == {k \in DOMAIN m.bins[i] : m.hdr[m.bins[i][k]].size >= totalSize}
        usable == {i \in binIndex(totalSize) .. (kBinCount - 1) : fits(i) # {}}
    IN  IF usable = {}
        THEN nullptr
        ELSE LET i == Min(usable) IN m.bins[i][Min(fits(i))]

-----------------------------------------------------------------------------
(* Boundary tags                                                           *)

nextBlock(m, b) == b + m.hdr[b].size
prevBlock(m, b) == b - m.hdr[b].prevSize

(* The two calls that let b swallow its right neighbour n.                 *)
absorb(m, b, n) ==
    [hdr  |-> [a \in DOMAIN m.hdr \ {n} |->
                  IF a = b
                  THEN [m.hdr[b] EXCEPT !.size = @ + m.hdr[n].size, !.last = m.hdr[n].last]
                  ELSE m.hdr[a]],
     bins |-> m.bins]

(* Mutation: the right neighbour keeps its old prevSize.                   *)
tellNext_Skipped(m, b) == m

tellNext(m, b) ==
    IF m.hdr[b].last
    THEN m
    ELSE [hdr  |-> [m.hdr EXCEPT ![nextBlock(m, b)].prevSize = m.hdr[b].size],
          bins |-> m.bins]

(* Mutation: the remainder is never put in a bin.                          *)
splitBlock_DropsRest(m, b, totalSize) ==
    IF m.hdr[b].size - totalSize < kMinBlockSize
    THEN m
    ELSE [m EXCEPT !.hdr[b].size = totalSize, !.hdr[b].last = FALSE]

(* The stores of splitBlock up to the one in the next header.              *)
cut(m, b, totalSize) ==
    LET rest == [size |-> m.hdr[b].size - totalSize, prevSize |-> totalSize,
                 free |-> FALSE, first |-> FALSE, last |-> m.hdr[b].last]
    IN  [hdr  |-> [a \in DOMAIN m.hdr \cup {b + totalSize} |->
                      CASE a = b + totalSize -> rest
                        [] a = b -> [m.hdr[b] EXCEPT !.size = totalSize, !.last = FALSE]
                        [] OTHER -> m.hdr[a]],
         bins |-> m.bins]

splitBlock(m, b, totalSize) ==
    IF m.hdr[b].size - totalSize < kMinBlockSize
    THEN m
    ELSE insertFree(tellNext(cut(m, b, totalSize), b + totalSize), b + totalSize)

(* Mutation: the block reaches a header past the mapping.                  *)
newSegment_PastEnd(m, base) ==
    [hdr  |-> [a \in DOMAIN m.hdr \cup {base} |->
                  IF a = base
                  THEN [size |-> kSegmentSize + kBlockHeaderSize, prevSize |-> 0,
                        free |-> FALSE, first |-> TRUE, last |-> TRUE]
                  ELSE m.hdr[a]],
     bins |-> m.bins]

(* addSegment with the mapping the OS returned.                            *)
newSegment(m, base) ==
    [hdr  |-> [a \in DOMAIN m.hdr \cup {base} |->
                  IF a = base
                  THEN [size |-> kSegmentSize, prevSize |-> 0,
                        free |-> FALSE, first |-> TRUE, last |-> TRUE]
                  ELSE m.hdr[a]],
     bins |-> m.bins]

addSegment(m, base) == insertFree(newSegment(m, base), base)

-----------------------------------------------------------------------------
(* Operations                                                              *)

Init ==
    /\ hdr = [a \in {} |-> 0]
    /\ bins = [i \in Bin |-> <<>>]
    /\ segments = {}
    /\ live = [a \in {} |-> 0]

(* The end of allocate, from the block findFit chose in m.                 *)
take(m, b, bytes) ==
    /\ Becomes(splitBlock(removeFree(m, b), b, blockTotal(bytes)))
    /\ live' = [a \in DOMAIN live \cup {b} |-> IF a = b THEN bytes ELSE live[a]]

allocate(bytes) ==
    LET total == blockTotal(bytes)
        fit == findFit(Heap, total)
    IN  /\ total <= kSegmentSize
        /\ \/ /\ fit # nullptr
              /\ take(Heap, fit, bytes)
              /\ UNCHANGED segments
           \/ /\ fit = nullptr
              /\ \E base \in Bases \ segments :
                    LET grown == addSegment(Heap, base)
                        fresh == findFit(grown, total)
                    IN  /\ segments' = segments \cup {base}
                        /\ IF fresh = nullptr
                           THEN Becomes(grown) /\ UNCHANGED live
                           ELSE take(grown, fresh, bytes)

(* The early returns of nullptr: a request no segment can hold, or no fit   *)
(* and an OS that refuses another mapping.                                 *)
allocateFails(bytes) ==
    /\ \/ blockTotal(bytes) > kSegmentSize
       \/ findFit(Heap, blockTotal(bytes)) = nullptr
    /\ UNCHANGED vars

unmapped(m, b) == [hdr |-> [a \in DOMAIN m.hdr \ {b} |-> m.hdr[a]], bins |-> m.bins]

(* Mutation: two segments stay resident.                                   *)
releaseSegment_KeepsTwo(m, b) ==
    IF Cardinality(segments) <= 2
    THEN Becomes(insertFree(m, b)) /\ UNCHANGED segments
    ELSE /\ Becomes(unmapped(m, b))
         /\ segments' = segments \ {b}

(* Block b spans its whole segment.                                        *)
releaseSegment(m, b) ==
    IF Cardinality(segments) <= 1 \/ b \notin segments
    THEN Becomes(insertFree(m, b)) /\ UNCHANGED segments
    ELSE /\ Becomes(unmapped(m, b))
         /\ segments' = segments \ {b}

(* Mutation: only the last block of a segment is merged from the left.     *)
mergeNext_LastOnly(m, b) ==
    LET next == nextBlock(m, b)
    IN  IF ~m.hdr[b].last /\ m.hdr[next].free /\ m.hdr[next].last
        THEN absorb(removeFree(m, next), b, next)
        ELSE m

mergeNext(m, b) ==
    LET next == nextBlock(m, b)
    IN  IF ~m.hdr[b].last /\ m.hdr[next].free
        THEN absorb(removeFree(m, next), b, next)
        ELSE m

mergesPrev(m, b) == ~m.hdr[b].first /\ m.hdr[prevBlock(m, b)].free

mergePrev(m, b) ==
    LET prev == prevBlock(m, b)
    IN  IF mergesPrev(m, b) THEN absorb(removeFree(m, prev), prev, b) ELSE m

deallocate(b) ==
    LET right == mergeNext(Heap, b)
        block == IF mergesPrev(right, b) THEN prevBlock(right, b) ELSE b
        merged == tellNext(mergePrev(right, b), block)
    IN  /\ b \in DOMAIN live
        /\ live' = [a \in DOMAIN live \ {b} |-> live[a]]
        /\ IF merged.hdr[block].first /\ merged.hdr[block].last
           THEN releaseSegment(merged, block)
           ELSE Becomes(insertFree(merged, block)) /\ UNCHANGED segments

Next ==
    \/ \E bytes \in Requests : allocate(bytes)
    \/ \E bytes \in Requests : allocateFails(bytes)
    \/ \E b \in DOMAIN live : deallocate(b)

Spec == Init /\ [][Next]_vars

-----------------------------------------------------------------------------
(* Read-only operations                                                    *)

payloadCapacity(b) == hdr[b].size - kBlockHeaderSize

(* The walk over every bin: the largest free block and the bytes of all of *)
(* them.  The code returns 1 - largest/total, and 0 when total is 0.       *)
externalFragmentation ==
    LET nodes == UNION {{<<i, k>> : k \in DOMAIN bins[i]} : i \in Bin}
        size == [n \in nodes |-> hdr[bins[n[1]][n[2]]].size]
    IN  [largestFree |-> Max({size[n] : n \in nodes} \cup {0}), totalFree |-> Total(size)]

-----------------------------------------------------------------------------
(* Properties                                                              *)

Blocks == DOMAIN hdr
End(b) == b + hdr[b].size
FreeBlocks == {b \in Blocks : hdr[b].free}

(* Every node of a bin is a current block, and every live block has tags:  *)
(* splitting, merging and unmapping leave no dangling reference behind.    *)
TypeOK ==
    /\ hdr \in [Blocks -> Tags]
    /\ Blocks \subseteq Nat
    /\ bins \in [Bin -> Seq(Blocks)]
    /\ segments \subseteq Bases
    /\ DOMAIN live \subseteq Blocks
    /\ live \in [DOMAIN live -> Requests]

(* No two blocks share a byte and each lies within one mapped segment,     *)
(* also where the OS mapped two segments next to each other: splitBlock    *)
(* and the merges of deallocate never reach past a segment.                *)
BlocksDisjoint ==
    \A b \in Blocks :
        /\ \E s \in segments : s <= b /\ End(b) <= s + kSegmentSize
        /\ \A c \in Blocks : b < c => End(b) <= c

(* What deallocate relies on to find its neighbours: the first and last    *)
(* flags mark exactly the ends of a segment, and elsewhere the next block  *)
(* starts where this one ends and records this one's size in prevSize.     *)
BoundaryTags ==
    \A b \in Blocks :
        /\ hdr[b].size >= kMinBlockSize /\ hdr[b].size % kDefaultAlignment = 0
        /\ hdr[b].first <=> b \in segments
        /\ hdr[b].last <=> End(b) - kSegmentSize \in segments
        /\ ~hdr[b].last => End(b) \in Blocks /\ hdr[End(b)].prevSize = hdr[b].size
        /\ ~hdr[b].first => /\ b - hdr[b].prevSize \in Blocks
                            /\ hdr[b - hdr[b].prevSize].size = hdr[b].prevSize

(* Coalescing is complete: deallocate never leaves two free neighbours.    *)
Coalesced ==
    \A b \in Blocks : hdr[b].free /\ ~hdr[b].last => ~hdr[End(b)].free

(* The bins hold every free block exactly once, in the bin of its current  *)
(* size: a block changes size only while it is in no bin.                  *)
BinsExact ==
    /\ \A i \in Bin : \A k \in DOMAIN bins[i] :
          /\ bins[i][k] \in FreeBlocks
          /\ binIndex(hdr[bins[i][k]].size) = i
          /\ \A j \in DOMAIN bins[i] : bins[i][j] = bins[i][k] => j = k
    /\ \A b \in FreeBlocks : \E k \in DOMAIN bins[binIndex(hdr[b].size)] :
          bins[binIndex(hdr[b].size)][k] = b

(* findFit fails only when no free block anywhere is large enough, so      *)
(* allocate maps a segment, or fails, only when it has to.                 *)
FitComplete ==
    \A bytes \in Requests :
        findFit(Heap, blockTotal(bytes)) = nullptr
            => \A b \in FreeBlocks : hdr[b].size < blockTotal(bytes)

(* The allocated blocks are the live ones, and each holds what its caller  *)
(* asked for behind its header.                                            *)
LiveServed ==
    /\ DOMAIN live = Blocks \ FreeBlocks
    /\ \A b \in DOMAIN live : payloadCapacity(b) >= live[b]

(* A wholly free segment stays mapped only as the last one.                *)
ResidentBound ==
    \A b \in FreeBlocks : hdr[b].first /\ hdr[b].last => segments = {b}

(* What externalFragmentation adds up is all that callers do not have of   *)
(* the mapped segments, and it reports 0 exactly when the free memory is   *)
(* one block or none: no byte is lost between the bins and the callers.    *)
FragmentationExact ==
    LET f == externalFragmentation
    IN  /\ f.totalFree + Total([b \in DOMAIN live |-> hdr[b].size])
               = kSegmentSize * Cardinality(segments)
        /\ f.largestFree = f.totalFree <=> Cardinality(FreeBlocks) <= 1

(* When the last caller has freed its block, the heap is back to at most   *)
(* one segment that is one free block, whatever the order of the frees.    *)
DrainedHeap ==
    live = << >> => Blocks = segments /\ Cardinality(segments) <= 1

(* payloadCapacity of a live block never changes, whatever is allocated or *)
(* freed around it: AllocatorImpl reads it outside the lock of allocate.   *)
LiveStable ==
    [][\A b \in DOMAIN live \cap DOMAIN live' :
           payloadCapacity(b)' = payloadCapacity(b)]_vars

(* Once a segment is mapped the heap never goes back to none.              *)
StaysResident == [][segments # {} => segments' # {}]_vars

Aligned(S) == {a \in S : a % kDefaultAlignment = 0}

Store == INSTANCE BlockStore WITH
    Addrs <- Aligned(UNION {s .. (s + kSegmentSize - 1) : s \in Bases}),
    Extents <- Aligned(kMinBlockSize .. kSegmentSize),
    owned <- [b \in DOMAIN live |-> hdr[b].size]

(* The medium tier implements BlockStore.                                  *)
StoreSpec == Store!Spec
=============================================================================
