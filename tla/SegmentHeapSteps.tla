------------------------- MODULE SegmentHeapSteps --------------------------
(***************************************************************************)
(* What the helpers of allocate and deallocate do to a sound heap.  First  *)
(* the layout: each helper keeps the blocks tiling their segments.  Then   *)
(* the bins: insertFree, removeFree and the stores that touch no free      *)
(* block keep them an exact index of the free blocks, and findFit, given   *)
(* such an index, misses no block.  Last the compound helpers: splitBlock, *)
(* the two merges, insertFree at the end of deallocate, addSegment and the *)
(* unmapping of a segment.  The predicates are about a map of headers h    *)
(* and a set of segments s, so that they can be said of the heap between   *)
(* two stores of one operation.                                            *)
(***************************************************************************)
EXTENDS SegmentHeap, FiniteSetTheorems, SequenceTheorems, TLAPS

Stop(h, b) == b + h[b].size

Typed(h) == h \in [DOMAIN h -> Tags] /\ DOMAIN h \subseteq Nat

Sized(h) ==
    \A b \in DOMAIN h : /\ b % kDefaultAlignment = 0
                        /\ h[b].size >= kMinBlockSize
                        /\ h[b].size % kDefaultAlignment = 0

Within(h, s, b) == \E seg \in s : seg <= b /\ Stop(h, b) <= seg + kSegmentSize

Inside(h, s) == \A b \in DOMAIN h : Within(h, s, b)

FirstTag(h, s) == \A b \in DOMAIN h : h[b].first <=> b \in s

LastTag(h, s) == \A b \in DOMAIN h : h[b].last <=> Stop(h, b) - kSegmentSize \in s

RightOf(h) == \A b \in DOMAIN h : ~h[b].last => Stop(h, b) \in DOMAIN h

LeftOf(h) ==
    \A b \in DOMAIN h : ~h[b].first => \E c \in DOMAIN h : Stop(h, c) = b /\ ~h[c].last

Apart(h) == \A b, c \in DOMAIN h : b < c => Stop(h, b) <= c

(* The blocks of h tile the segments s.                                    *)
Tiles(h, s) ==
    /\ Typed(h) /\ Sized(h) /\ Apart(h)
    /\ s \subseteq Bases /\ s \subseteq DOMAIN h
    /\ Inside(h, s) /\ FirstTag(h, s) /\ LastTag(h, s)
    /\ RightOf(h) /\ LeftOf(h)

(* Every block but those of X is recorded in prevSize of its neighbour.    *)
Linked(h, X) ==
    \A b \in DOMAIN h \ X : ~h[b].last => h[Stop(h, b)].prevSize = h[b].size

(* No free block has a free right neighbour.                               *)
NoFreePair(h) == \A b \in DOMAIN h : h[b].free /\ ~h[b].last => ~h[Stop(h, b)].free

-----------------------------------------------------------------------------

(* Addresses and sizes of blocks are numbers, and a block has at least     *)
(* kMinBlockSize bytes.                                                    *)
LEMMA Sizes ==
    ASSUME NEW h, Typed(h), Sized(h)
    PROVE  \A b \in DOMAIN h : /\ b \in Nat /\ h[b].size \in Nat /\ h[b].size >= 48
                               /\ Stop(h, b) \in Nat /\ Stop(h, b) >= b + 48
BY DEF Typed, Sized, Tags, Stop, kMinBlockSize

(* The assumptions on the constants, in the form the proofs use them.      *)
LEMMA SegmentFacts ==
    /\ kSegmentSize \in Nat /\ kSegmentSize >= 48 /\ kSegmentSize % 16 = 0
    /\ Bases \subseteq Nat
    /\ \A x, y \in Bases : x # y => x + kSegmentSize <= y \/ y + kSegmentSize <= x
BY Zenon, SegmentAssumption, BaseAssumption DEF kMinBlockSize, kDefaultAlignment

(* Two blocks that end at one address are the same.                        *)
LEMMA OneStop ==
    ASSUME NEW h, Typed(h), Sized(h), Apart(h),
           NEW b \in DOMAIN h, NEW c \in DOMAIN h, Stop(h, b) = Stop(h, c)
    PROVE  b = c
BY Sizes DEF Apart

(* A block that is not last stops inside its segment, not at a base.       *)
LEMMA NextInside ==
    ASSUME NEW h, NEW s, Tiles(h, s), NEW b \in DOMAIN h, ~h[b].last,
           NEW seg \in s, seg <= b, Stop(h, b) <= seg + kSegmentSize
    PROVE  /\ Stop(h, b) < seg + kSegmentSize
           /\ Stop(h, b) \in DOMAIN h /\ Stop(h, b) \notin s
           /\ Stop(h, Stop(h, b)) <= seg + kSegmentSize
<1> DEFINE n == Stop(h, b)
<1>1. /\ Typed(h) /\ Sized(h) /\ s \subseteq Bases /\ Inside(h, s)
      /\ FirstTag(h, s) /\ LastTag(h, s) /\ RightOf(h)
  BY Zenon DEF Tiles
<1>2. b \in Nat /\ n \in Nat /\ n >= b + 48 /\ seg \in Bases /\ seg \in Nat
  BY ZenonT(30), <1>1, Sizes, SegmentFacts
<1>3. n < seg + kSegmentSize
  <2>1. n = seg + kSegmentSize => n - kSegmentSize = seg
    BY <1>2, SegmentFacts
  <2>2. n # seg + kSegmentSize
    BY Zenon, <2>1, <1>1 DEF LastTag
  <2>3. QED
    BY SMTT(30), <2>2, <1>2, SegmentFacts
<1>4. n \in DOMAIN h
  BY Zenon, <1>1 DEF RightOf
<1>5. n \notin s
  BY SMTT(30), <1>1, <1>2, <1>3, SegmentFacts
<1>6. PICK t \in s : t <= n /\ Stop(h, n) <= t + kSegmentSize
  BY Zenon, <1>1, <1>4 DEF Inside, Within
<1>7. t = seg
  <2>1. t \in Bases /\ t \in Nat /\ Stop(h, n) \in Nat /\ Stop(h, n) >= n + 48
    BY ZenonT(30), <1>1, <1>4, <1>6, Sizes, SegmentFacts
  <2> QED
    BY SMTT(30), <2>1, <1>2, <1>3, <1>5, <1>6, SegmentFacts
<1>8. QED
  BY Zenon, <1>3, <1>4, <1>5, <1>6, <1>7

(* Tiling is about sizes and the first and last flags alone.               *)
LEMMA TilesFrame ==
    ASSUME NEW h, NEW g, NEW s, Tiles(h, s), Typed(g), DOMAIN g = DOMAIN h,
           \A b \in DOMAIN h : /\ g[b].size = h[b].size
                               /\ g[b].first = h[b].first /\ g[b].last = h[b].last
    PROVE  Tiles(g, s)
BY SMTT(30) DEF Tiles, Sized, Apart, Inside, Within, FirstTag, LastTag, RightOf, LeftOf, Stop
-----------------------------------------------------------------------------
(* absorb                                                                  *)

(* What absorb writes: the right neighbour is gone, its size and last flag *)
(* are in b, and no other header changed.                                  *)
LEMMA AbsorbHeader ==
    ASSUME NEW m, NEW b \in DOMAIN m.hdr, NEW n \in DOMAIN m.hdr, n # b, Typed(m.hdr)
    PROVE  LET g == absorb(m, b, n).hdr
           IN  /\ DOMAIN g = DOMAIN m.hdr \ {n}
               /\ Typed(g)
               /\ \A a \in DOMAIN g : a # b => g[a] = m.hdr[a]
               /\ g[b].size = m.hdr[b].size + m.hdr[n].size
               /\ g[b].prevSize = m.hdr[b].prevSize
               /\ g[b].last = m.hdr[n].last
               /\ g[b].first = m.hdr[b].first
               /\ g[b].free = m.hdr[b].free
<1> DEFINE g == absorb(m, b, n).hdr
<1>1. g = [a \in DOMAIN m.hdr \ {n} |->
              IF a = b
              THEN [m.hdr[b] EXCEPT !.size = @ + m.hdr[n].size, !.last = m.hdr[n].last]
              ELSE m.hdr[a]]
  BY Zenon DEF absorb
<1>2. m.hdr[b] \in Tags /\ m.hdr[n] \in Tags
  BY Zenon DEF Typed
<1>3. g[b] = [m.hdr[b] EXCEPT !.size = @ + m.hdr[n].size, !.last = m.hdr[n].last]
  BY Zenon, <1>1
<1>4. g[b] \in Tags
  <2>1. m.hdr[b].size + m.hdr[n].size \in Nat
    BY <1>2 DEF Tags
  <2>2. [m.hdr[b] EXCEPT !.size = @ + m.hdr[n].size, !.last = m.hdr[n].last] \in Tags
    BY Zenon, <1>2, <2>1 DEF Tags
  <2>3. QED
    BY Zenon, <1>3, <2>2
<1>5. Typed(g)
  BY Zenon, <1>1, <1>4 DEF Typed
<1>6. QED
  BY Zenon, <1>1, <1>2, <1>3, <1>5 DEF Tags

(* A block that swallows its right neighbour leaves a tiling.              *)
LEMMA AbsorbTiles ==
    ASSUME NEW m, NEW s, NEW b \in DOMAIN m.hdr, NEW n, Tiles(m.hdr, s),
           ~m.hdr[b].last, n = Stop(m.hdr, b)
    PROVE  Tiles(absorb(m, b, n).hdr, s)
<1> DEFINE h == m.hdr
           g == absorb(m, b, n).hdr
<1>1. /\ Typed(h) /\ Sized(h) /\ Apart(h) /\ s \subseteq Bases /\ s \subseteq DOMAIN h
      /\ Inside(h, s) /\ FirstTag(h, s) /\ LastTag(h, s) /\ RightOf(h) /\ LeftOf(h)
  BY Zenon DEF Tiles
<1>2. PICK seg \in s : seg <= b /\ Stop(h, b) <= seg + kSegmentSize
  BY Zenon, <1>1 DEF Inside, Within
<1>3. /\ n \in DOMAIN h /\ n \notin s /\ Stop(h, n) <= seg + kSegmentSize
  BY Zenon, <1>2, NextInside
<1>4. \A a \in DOMAIN h : a \in Nat /\ h[a].size \in Nat /\ h[a].size >= 48
                          /\ Stop(h, a) \in Nat /\ Stop(h, a) >= a + 48
  BY Zenon, <1>1, Sizes
<1>5. n # b /\ n >= b + 48
  BY SMTT(30), <1>4
<1>6. /\ DOMAIN g = DOMAIN h \ {n} /\ Typed(g)
      /\ \A a \in DOMAIN g : a # b => g[a] = h[a]
      /\ g[b].size = h[b].size + h[n].size
      /\ g[b].last = h[n].last /\ g[b].first = h[b].first
  BY SMTT(30), <1>1, <1>3, <1>5, AbsorbHeader
<1> HIDE DEF g
<1>7. b \in DOMAIN g /\ Stop(g, b) = Stop(h, n)
  <2>1. b \in Nat /\ h[b].size \in Nat /\ h[n].size \in Nat /\ n = b + h[b].size
    BY ZenonT(30), <1>3, <1>4 DEF Stop
  <2>2. b + (h[b].size + h[n].size) = n + h[n].size
    BY <2>1
  <2>3. QED
    BY Zenon, <2>2, <1>5, <1>6 DEF Stop
<1>8. \A a \in DOMAIN g : a # b => Stop(g, a) = Stop(h, a)
  BY Zenon, <1>6 DEF Stop
<1>9. \A a \in DOMAIN h : a # b => Stop(h, a) # n
  BY ZenonT(30), <1>1, OneStop
<1>10. Sized(g)
  <2>1. h[b].size % 16 = 0 /\ h[n].size % 16 = 0
    BY ZenonT(30), <1>1, <1>3 DEF Sized, kDefaultAlignment
  <2>2. (h[b].size + h[n].size) % 16 = 0
    BY SMTT(30), <2>1, <1>3, <1>4
  <2>3. QED
    BY SMTT(30), <2>2, <1>1, <1>3, <1>4, <1>6 DEF Sized, kDefaultAlignment, kMinBlockSize
<1>11. Apart(g)
  BY SMTT(30), <1>1, <1>3, <1>4, <1>5, <1>6, <1>7, <1>8 DEF Apart
<1>12. Inside(g, s)
  BY ZenonT(30), <1>1, <1>2, <1>3, <1>6, <1>7, <1>8 DEF Inside, Within
<1>13. FirstTag(g, s) /\ LastTag(g, s)
  BY SMTT(30), <1>1, <1>3, <1>6, <1>7, <1>8 DEF FirstTag, LastTag
<1>14. RightOf(g)
  <2> SUFFICES ASSUME NEW a \in DOMAIN g, ~g[a].last PROVE Stop(g, a) \in DOMAIN g
    BY ZenonT(30) DEF RightOf
  <2>1. CASE a = b
    BY SMTT(30), <2>1, <1>1, <1>3, <1>4, <1>6, <1>7 DEF RightOf
  <2>2. CASE a # b
    BY ZenonT(30), <2>2, <1>1, <1>6, <1>8, <1>9 DEF RightOf
  <2>3. QED
    BY Zenon, <2>1, <2>2
<1>15. LeftOf(g)
  <2> SUFFICES ASSUME NEW a \in DOMAIN g, ~g[a].first
               PROVE  \E c \in DOMAIN g : Stop(g, c) = a /\ ~g[c].last
    BY Zenon DEF LeftOf
  <2>1. a \in DOMAIN h /\ ~h[a].first /\ a # n
    BY Zenon, <1>6
  <2>2. PICK c \in DOMAIN h : Stop(h, c) = a /\ ~h[c].last
    BY Zenon, <2>1, <1>1 DEF LeftOf
  <2>3. CASE c = n
    BY ZenonT(30), <2>2, <2>3, <1>6, <1>7
  <2>4. CASE c # n
    <3>1. c # b
      BY Zenon, <2>1, <2>2
    <3>2. QED
      BY ZenonT(30), <3>1, <2>2, <2>4, <1>6, <1>8
  <2>5. QED
    BY Zenon, <2>3, <2>4
<1>16. s \subseteq DOMAIN g
  BY Zenon, <1>1, <1>3, <1>6
<1>17. QED
  BY ZenonT(30), <1>1, <1>6, <1>10, <1>11, <1>12, <1>13, <1>14, <1>15, <1>16 DEF Tiles, g

(* Afterwards only the grown block may disagree with its new neighbour.    *)
LEMMA AbsorbLinked ==
    ASSUME NEW m, NEW s, NEW b \in DOMAIN m.hdr, NEW n, Tiles(m.hdr, s),
           ~m.hdr[b].last, n = Stop(m.hdr, b), Linked(m.hdr, {b, n})
    PROVE  Linked(absorb(m, b, n).hdr, {b})
<1> DEFINE h == m.hdr
           g == absorb(m, b, n).hdr
<1>1. Typed(h) /\ Sized(h) /\ Apart(h) /\ RightOf(h)
  BY Zenon DEF Tiles
<1>2. n \in DOMAIN h /\ n # b
  BY SMTT(30), <1>1, Sizes DEF RightOf
<1>3. /\ DOMAIN g = DOMAIN h \ {n}
      /\ \A a \in DOMAIN g : a # b => g[a] = h[a]
      /\ g[b].prevSize = h[b].prevSize
  BY SMTT(30), <1>1, <1>2, AbsorbHeader
<1> HIDE DEF g
<1>4. SUFFICES ASSUME NEW a \in DOMAIN g \ {b}, ~g[a].last
               PROVE  g[Stop(g, a)].prevSize = g[a].size
  BY Zenon DEF Linked, g
<1>5. a \in DOMAIN h /\ a # n /\ g[a] = h[a] /\ Stop(g, a) = Stop(h, a)
  BY Zenon, <1>3, <1>4 DEF Stop
<1>6. Stop(h, a) \in DOMAIN h /\ Stop(h, a) # n
  BY Zenon, <1>1, <1>4, <1>5, OneStop DEF RightOf
<1>7. h[Stop(h, a)].prevSize = h[a].size
  BY Zenon, <1>4, <1>5 DEF Linked
<1>8. g[Stop(h, a)].prevSize = h[Stop(h, a)].prevSize
  BY Zenon, <1>3, <1>6
<1>9. QED
  BY Zenon, <1>5, <1>7, <1>8
-----------------------------------------------------------------------------
(* tellNext                                                                *)

(* What tellNext writes: the prevSize of one header and nothing else.      *)
LEMMA TellNextHeader ==
    ASSUME NEW m, NEW b \in DOMAIN m.hdr, Typed(m.hdr), RightOf(m.hdr)
    PROVE  LET g == tellNext(m, b).hdr
           IN  /\ DOMAIN g = DOMAIN m.hdr
               /\ Typed(g)
               /\ \A a \in DOMAIN g : /\ g[a].size = m.hdr[a].size
                                      /\ g[a].first = m.hdr[a].first
                                      /\ g[a].last = m.hdr[a].last
                                      /\ g[a].free = m.hdr[a].free
               /\ ~m.hdr[b].last => g[Stop(m.hdr, b)].prevSize = m.hdr[b].size
               /\ \A a \in DOMAIN g : a # Stop(m.hdr, b) => g[a] = m.hdr[a]
               /\ m.hdr[b].last => g = m.hdr
<1> DEFINE h == m.hdr
           g == tellNext(m, b).hdr
           n == Stop(h, b)
<1>1. CASE h[b].last
  BY Zenon, <1>1 DEF tellNext
<1>2. CASE ~h[b].last
  <2>1. n \in DOMAIN h
    BY Zenon, <1>2 DEF RightOf
  <2>2. g = [h EXCEPT ![n].prevSize = h[b].size]
    BY Zenon, <1>2 DEF tellNext, nextBlock, Stop
  <2>3. h[n] \in Tags /\ h[b].size \in Nat
    BY Zenon, <2>1 DEF Typed, Tags
  <2> HIDE DEF g, n
  <2>4. g[n] = [h[n] EXCEPT !.prevSize = h[b].size]
    BY Zenon, <2>1, <2>2 DEF Typed
  <2>5. g[n] \in Tags
    <3>1. [h[n] EXCEPT !.prevSize = h[b].size] \in Tags
      BY Zenon, <2>3 DEF Tags
    <3>2. QED
      BY Zenon, <2>4, <3>1
  <2>6. DOMAIN g = DOMAIN h /\ \A a \in DOMAIN g : a # n => g[a] = h[a]
    BY Zenon, <2>2 DEF Typed
  <2>7. g = [a \in DOMAIN h |-> IF a = n THEN [h[n] EXCEPT !.prevSize = h[b].size] ELSE h[a]]
    BY Zenon, <2>1, <2>2 DEF Typed
  <2>8. Typed(g)
    BY Zenon, <2>5, <2>6, <2>7 DEF Typed
  <2>9. /\ g[n].size = h[n].size /\ g[n].first = h[n].first
        /\ g[n].last = h[n].last /\ g[n].free = h[n].free
        /\ g[n].prevSize = h[b].size
    BY ZenonT(30), <2>3, <2>4 DEF Tags
  <2>10. QED
    BY ZenonT(30), <1>2, <2>6, <2>8, <2>9 DEF g, n
<1>3. QED
  BY Zenon, <1>1, <1>2

(* The prevSize store of deallocate and splitBlock leaves the tiling       *)
(* alone.                                                                  *)
LEMMA TellNextTiles ==
    ASSUME NEW m, NEW s, NEW b \in DOMAIN m.hdr, Tiles(m.hdr, s)
    PROVE  Tiles(tellNext(m, b).hdr, s)
<1>1. Typed(m.hdr) /\ RightOf(m.hdr)
  BY Zenon DEF Tiles
<1>2. QED
  BY SMTT(30), <1>1, TellNextHeader, TilesFrame

(* g differs from h in prevSize fields only.                               *)
SameButLinks(h, g) ==
    /\ DOMAIN g = DOMAIN h
    /\ \A a \in DOMAIN g : /\ g[a].size = h[a].size /\ g[a].first = h[a].first
                           /\ g[a].last = h[a].last /\ g[a].free = h[a].free
                           /\ Stop(g, a) = Stop(h, a)

(* The prevSize store changes nothing else.                                *)
LEMMA TellNextSame ==
    ASSUME NEW m, NEW s, NEW b \in DOMAIN m.hdr, Tiles(m.hdr, s)
    PROVE  SameButLinks(m.hdr, tellNext(m, b).hdr)
<1> DEFINE h == m.hdr
           g == tellNext(m, b).hdr
<1>1. Typed(h) /\ RightOf(h)
  BY Zenon DEF Tiles
<1>2. /\ DOMAIN g = DOMAIN h
      /\ \A a \in DOMAIN g : /\ g[a].size = h[a].size /\ g[a].first = h[a].first
                             /\ g[a].last = h[a].last /\ g[a].free = h[a].free
  BY ZenonT(30), <1>1, TellNextHeader
<1> HIDE DEF g, h
<1>3. SameButLinks(h, g)
  BY Zenon, <1>2 DEF SameButLinks, Stop
<1>4. QED
  BY Zenon, <1>3 DEF g, h

(* The store in the neighbour's header restores the last missing link.     *)
LEMMA TellNextLinked ==
    ASSUME NEW m, NEW s, NEW b \in DOMAIN m.hdr, Tiles(m.hdr, s), Linked(m.hdr, {b})
    PROVE  Linked(tellNext(m, b).hdr, {})
<1> DEFINE h == m.hdr
           g == tellNext(m, b).hdr
<1>1. Typed(h) /\ Sized(h) /\ Apart(h) /\ RightOf(h)
  BY Zenon DEF Tiles
<1>2. /\ DOMAIN g = DOMAIN h
      /\ \A a \in DOMAIN g : g[a].size = h[a].size /\ g[a].last = h[a].last
      /\ ~h[b].last => g[Stop(h, b)].prevSize = h[b].size
      /\ \A a \in DOMAIN g : a # Stop(h, b) => g[a] = h[a]
  BY ZenonT(30), <1>1, TellNextHeader
<1> HIDE DEF g
<1>3. SUFFICES ASSUME NEW a \in DOMAIN g, ~g[a].last
               PROVE  g[Stop(g, a)].prevSize = g[a].size
  BY Zenon DEF Linked, g
<1>4. a \in DOMAIN h /\ ~h[a].last /\ g[a].size = h[a].size /\ Stop(g, a) = Stop(h, a)
  BY Zenon, <1>2, <1>3 DEF Stop
<1>5. CASE a = b
  BY Zenon, <1>2, <1>4, <1>5
<1>6. CASE a # b
  <2>1. Stop(h, a) \in DOMAIN g /\ Stop(h, a) # Stop(h, b)
    BY Zenon, <1>1, <1>2, <1>4, <1>6, OneStop DEF RightOf
  <2>2. h[Stop(h, a)].prevSize = h[a].size
    BY Zenon, <1>4, <1>6 DEF Linked
  <2>3. QED
    BY Zenon, <1>2, <1>4, <2>1, <2>2
<1>7. QED
  BY Zenon, <1>5, <1>6

-----------------------------------------------------------------------------
(* cut                                                                     *)

(* What the stores of splitBlock write: two headers where there was one,   *)
(* whose sizes add up to the old size.                                     *)
LEMMA CutHeader ==
    ASSUME NEW m, NEW b \in DOMAIN m.hdr, NEW total \in Nat, Typed(m.hdr),
           total > 0, total <= m.hdr[b].size
    PROVE  LET g == cut(m, b, total).hdr
               r == b + total
           IN  /\ DOMAIN g = DOMAIN m.hdr \cup {r} /\ r # b
               /\ Typed(g)
               /\ \A a \in DOMAIN g : a # b /\ a # r => g[a] = m.hdr[a]
               /\ g[r].size = m.hdr[b].size - total /\ g[r].prevSize = total
               /\ ~g[r].free
               /\ ~g[r].first /\ g[r].last = m.hdr[b].last
               /\ g[b].size = total /\ g[b].prevSize = m.hdr[b].prevSize
               /\ g[b].free = m.hdr[b].free
               /\ g[b].first = m.hdr[b].first /\ ~g[b].last
<1> DEFINE h == m.hdr
           g == cut(m, b, total).hdr
           r == b + total
           rest == [size |-> h[b].size - total, prevSize |-> total,
                    free |-> FALSE, first |-> FALSE, last |-> h[b].last]
           kept == [h[b] EXCEPT !.size = total, !.last = FALSE]
<1>1. b \in Nat /\ r \in Nat /\ r # b /\ h[b] \in Tags
  BY DEF Typed
<1>2. g = [a \in DOMAIN h \cup {r} |-> CASE a = r -> rest [] a = b -> kept [] OTHER -> h[a]]
  BY Zenon DEF cut
<1>3. rest \in Tags
  <2>1. h[b].size - total \in Nat /\ h[b].last \in BOOLEAN
    BY <1>1 DEF Tags
  <2>2. QED
    BY Zenon, <2>1 DEF Tags
<1>4. kept \in Tags
  BY Zenon, <1>1 DEF Tags
<1>5. kept.size = total /\ kept.prevSize = h[b].prevSize /\ kept.free = h[b].free
      /\ kept.first = h[b].first /\ ~kept.last
  BY Zenon, <1>1 DEF Tags
<1>5a. rest.size = h[b].size - total /\ rest.prevSize = total /\ ~rest.free
      /\ ~rest.first /\ rest.last = h[b].last
  OBVIOUS
<1> HIDE DEF rest, kept, g
<1>6. g[r] = rest /\ g[b] = kept /\ \A a \in DOMAIN g : a # b /\ a # r => g[a] = h[a]
  BY Zenon, <1>1, <1>2
<1>7. Typed(g)
  BY Zenon, <1>1, <1>2, <1>3, <1>4, <1>6 DEF Typed
<1>8. QED
  BY ZenonT(30), <1>1, <1>2, <1>5, <1>6, <1>7, <1>5a DEF g
(* A block cut in two leaves a tiling.                                     *)
LEMMA CutTiles ==
    ASSUME NEW m, NEW s, NEW b \in DOMAIN m.hdr, NEW total \in Nat, Tiles(m.hdr, s),
           total >= 48, total % 16 = 0, m.hdr[b].size - total >= 48
    PROVE  Tiles(cut(m, b, total).hdr, s) /\ b + total \notin DOMAIN m.hdr
<1> DEFINE h == m.hdr
           g == cut(m, b, total).hdr
           r == b + total
<1>1. /\ Typed(h) /\ Sized(h) /\ Apart(h) /\ s \subseteq Bases /\ s \subseteq DOMAIN h
      /\ Inside(h, s) /\ FirstTag(h, s) /\ LastTag(h, s) /\ RightOf(h) /\ LeftOf(h)
  BY Zenon DEF Tiles
<1>2. PICK seg \in s : seg <= b /\ Stop(h, b) <= seg + kSegmentSize
  BY Zenon, <1>1 DEF Inside, Within
<1>3. \A a \in DOMAIN h : a \in Nat /\ h[a].size \in Nat /\ h[a].size >= 48
                          /\ Stop(h, a) \in Nat /\ Stop(h, a) >= a + 48
  BY Zenon, <1>1, Sizes
<1>4. r \in Nat /\ r >= b + 48 /\ Stop(h, b) >= r + 48 /\ Stop(h, b) = r + (h[b].size - total)
  BY SMTT(30), <1>3 DEF Stop
<1>5. r \notin DOMAIN h
  BY SMTT(30), <1>1, <1>3, <1>4 DEF Apart
<1>6. /\ DOMAIN g = DOMAIN h \cup {r} /\ Typed(g)
      /\ \A a \in DOMAIN g : a # b /\ a # r => g[a] = h[a]
      /\ g[r].size = h[b].size - total /\ ~g[r].first /\ g[r].last = h[b].last
      /\ g[b].size = total /\ g[b].first = h[b].first /\ ~g[b].last
  <2>1. total > 0 /\ total <= h[b].size
    BY <1>3
  <2>2. QED
    BY SMTT(30), <1>1, <2>1, CutHeader
<1> HIDE DEF g
<1>7. Stop(g, b) = r /\ Stop(g, r) = Stop(h, b)
  BY Zenon, <1>4, <1>6 DEF Stop
<1>8. \A a \in DOMAIN h : a # b => g[a] = h[a] /\ Stop(g, a) = Stop(h, a)
  BY Zenon, <1>5, <1>6 DEF Stop
<1>9. r - kSegmentSize \notin s
  <2> SUFFICES ASSUME NEW t \in s, t = r - kSegmentSize PROVE FALSE
    OBVIOUS
  <2>0. t \in Bases /\ seg \in Bases /\ t \in Nat /\ seg \in Nat
    BY Zenon, <1>1, SegmentFacts
  <2>2. b \in Nat /\ Stop(h, b) \in Nat
    BY Zenon, <1>3
  <2>1. t \in Bases /\ seg \in Bases /\ t \in Nat /\ seg \in Nat /\ t + kSegmentSize = r
    BY <2>0, <2>2, SegmentFacts
  <2> HIDE DEF r
  <2>3. QED
    BY SMTT(30), <2>1, <2>2, <1>2, <1>4, SegmentFacts
<1>10. Sized(g)
  <2>1. b % 16 = 0 /\ h[b].size % 16 = 0
    BY Zenon, <1>1 DEF Sized, kDefaultAlignment
  <2>2. r % 16 = 0 /\ (h[b].size - total) % 16 = 0
    BY <2>1, <1>3
  <2>3. ASSUME NEW a \in DOMAIN g
        PROVE  a % 16 = 0 /\ g[a].size >= 48 /\ g[a].size % 16 = 0
    <3>1. CASE a = b
      BY Zenon, <3>1, <2>1, <1>6
    <3>2. CASE a = r
      BY Zenon, <3>2, <2>2, <1>6
    <3>3. CASE a # b /\ a # r
      BY Zenon, <3>3, <1>1, <1>6 DEF Sized, kDefaultAlignment, kMinBlockSize
    <3>4. QED
      BY Zenon, <3>1, <3>2, <3>3
  <2>4. QED
    BY Zenon, <2>3 DEF Sized, kDefaultAlignment, kMinBlockSize
<1> HIDE DEF r
<1>11. Apart(g)
  <2> SUFFICES ASSUME NEW x \in DOMAIN g, NEW y \in DOMAIN g, x < y PROVE Stop(g, x) <= y
    BY Zenon DEF Apart
  <2>1. CASE x = r
    BY SMTT(30), <2>1, <1>1, <1>3, <1>4, <1>6, <1>7 DEF Apart
  <2>2. CASE x = b
    BY SMTT(30), <2>2, <1>1, <1>3, <1>4, <1>6, <1>7 DEF Apart
  <2>3. CASE x # r /\ x # b /\ y = r
    BY SMTT(30), <2>3, <1>1, <1>3, <1>4, <1>6, <1>8 DEF Apart
  <2>4. CASE x # r /\ x # b /\ y # r
    BY ZenonT(30), <2>4, <1>1, <1>6, <1>8 DEF Apart
  <2>5. QED
    BY Zenon, <2>1, <2>2, <2>3, <2>4
<1>12. Inside(g, s)
  <2> SUFFICES ASSUME NEW a \in DOMAIN g PROVE Within(g, s, a)
    BY Zenon DEF Inside
  <2>1. CASE a = b \/ a = r
    <3>1. seg \in Nat /\ seg <= a /\ Stop(g, a) <= seg + kSegmentSize
      BY SMTT(30), <2>1, <1>1, <1>2, <1>3, <1>4, <1>7, SegmentFacts
    <3>2. QED
      BY Zenon, <3>1 DEF Within
  <2>2. CASE a # b /\ a # r
    BY Zenon, <2>2, <1>1, <1>6, <1>8 DEF Inside, Within
  <2>3. QED
    BY Zenon, <2>1, <2>2
<1>13. FirstTag(g, s)
  BY Zenon, <1>1, <1>5, <1>6 DEF FirstTag
<1>14. LastTag(g, s)
  BY Zenon, <1>1, <1>6, <1>7, <1>8, <1>9 DEF LastTag
<1>15. RightOf(g)
  BY Zenon, <1>1, <1>6, <1>7, <1>8 DEF RightOf
<1>16. LeftOf(g)
  <2> SUFFICES ASSUME NEW a \in DOMAIN g, ~g[a].first
               PROVE  \E c \in DOMAIN g : Stop(g, c) = a /\ ~g[c].last
    BY Zenon DEF LeftOf
  <2>1. CASE a = r
    BY Zenon, <2>1, <1>6, <1>7
  <2>2. CASE a # r
    <3>1. PICK c \in DOMAIN h : Stop(h, c) = a /\ ~h[c].last
      BY Zenon, <2>2, <1>1, <1>6 DEF LeftOf
    <3>2. CASE c = b
      BY Zenon, <3>1, <3>2, <1>6, <1>7
    <3>3. CASE c # b
      BY Zenon, <3>1, <3>3, <1>6, <1>8
    <3>4. QED
      BY Zenon, <3>2, <3>3
  <2>3. QED
    BY Zenon, <2>1, <2>2
<1>17. QED
  BY ZenonT(30), <1>1, <1>5, <1>6, <1>10, <1>11, <1>12, <1>13, <1>14, <1>15, <1>16 DEF Tiles, g, r

(* Afterwards only the remainder may disagree with its neighbour.          *)
LEMMA CutLinked ==
    ASSUME NEW m, NEW s, NEW b \in DOMAIN m.hdr, NEW total \in Nat, Tiles(m.hdr, s),
           total >= 48, total % 16 = 0, m.hdr[b].size - total >= 48, Linked(m.hdr, {})
    PROVE  Linked(cut(m, b, total).hdr, {b + total})
<1> DEFINE h == m.hdr
           g == cut(m, b, total).hdr
           r == b + total
<1>1. Typed(h) /\ Sized(h) /\ Apart(h) /\ RightOf(h) /\ total > 0 /\ total <= h[b].size
  BY Sizes DEF Tiles
<1>2. r \notin DOMAIN h
  BY Zenon, CutTiles
<1>3. /\ DOMAIN g = DOMAIN h \cup {r}
      /\ \A a \in DOMAIN g : a # b /\ a # r => g[a] = h[a]
      /\ g[r].prevSize = total
      /\ g[b].size = total /\ g[b].prevSize = h[b].prevSize
  BY <1>1, CutHeader
<1> HIDE DEF g, r
<1>4. SUFFICES ASSUME NEW a \in DOMAIN g \ {r}, ~g[a].last
               PROVE  g[Stop(g, a)].prevSize = g[a].size
  BY Zenon DEF Linked, g, r
<1>5. CASE a = b
  BY Zenon, <1>3, <1>5 DEF Stop, r
<1>6. CASE a # b
  <2>1. a \in DOMAIN h /\ g[a] = h[a] /\ Stop(g, a) = Stop(h, a)
    BY Zenon, <1>3, <1>6 DEF Stop
  <2>2. Stop(h, a) \in DOMAIN h /\ h[Stop(h, a)].prevSize = h[a].size
    BY Zenon, <2>1, <1>1, <1>4 DEF RightOf, Linked
  <2>3. g[Stop(h, a)].prevSize = h[Stop(h, a)].prevSize
    BY Zenon, <2>2, <1>2, <1>3
  <2>4. QED
    BY Zenon, <2>1, <2>2, <2>3
<1>7. QED
  BY Zenon, <1>5, <1>6
-----------------------------------------------------------------------------
(* newSegment and unmapped                                                 *)

(* What addSegment writes: the header of one block as large as the         *)
(* mapping.                                                                *)
LEMMA NewSegmentHeader ==
    ASSUME NEW m, NEW base \in Bases, Typed(m.hdr)
    PROVE  LET g == newSegment(m, base).hdr
           IN  /\ DOMAIN g = DOMAIN m.hdr \cup {base}
               /\ Typed(g)
               /\ \A a \in DOMAIN g : a # base => g[a] = m.hdr[a]
               /\ g[base].size = kSegmentSize
               /\ ~g[base].free /\ g[base].first /\ g[base].last
<1> DEFINE h == m.hdr
           g == newSegment(m, base).hdr
           whole == [size |-> kSegmentSize, prevSize |-> 0,
                     free |-> FALSE, first |-> TRUE, last |-> TRUE]
<1>1. g = [a \in DOMAIN h \cup {base} |-> IF a = base THEN whole ELSE h[a]]
  BY Zenon DEF newSegment
<1>2. whole \in Tags /\ base \in Nat
  BY Zenon, SegmentFacts DEF Tags
<1>3. whole.size = kSegmentSize /\ ~whole.free /\ whole.first /\ whole.last
  OBVIOUS
<1> HIDE DEF whole, g
<1>4. Typed(g)
  BY Zenon, <1>1, <1>2 DEF Typed
<1>5. QED
  BY Zenon, <1>1, <1>3, <1>4 DEF g

(* A fresh segment next to or apart from the others leaves a tiling.       *)
LEMMA NewSegmentTiles ==
    ASSUME NEW m, NEW s, NEW base \in Bases \ s, Tiles(m.hdr, s)
    PROVE  /\ Tiles(newSegment(m, base).hdr, s \cup {base})
           /\ base \notin DOMAIN m.hdr
<1> DEFINE h == m.hdr
           g == newSegment(m, base).hdr
           S == s \cup {base}
<1>1. /\ Typed(h) /\ Sized(h) /\ Apart(h) /\ s \subseteq Bases /\ s \subseteq DOMAIN h
      /\ Inside(h, s) /\ FirstTag(h, s) /\ LastTag(h, s) /\ RightOf(h) /\ LeftOf(h)
  BY Zenon DEF Tiles
<1>2. base \in Nat /\ base % 16 = 0 /\ kSegmentSize \in Nat /\ kSegmentSize >= 48
      /\ kSegmentSize % 16 = 0
  BY Zenon, SegmentFacts, BaseAssumption DEF kDefaultAlignment
<1>3. \A a \in DOMAIN h : a \in Nat /\ h[a].size \in Nat /\ h[a].size >= 48
                          /\ Stop(h, a) \in Nat /\ Stop(h, a) >= a + 48
  BY Zenon, <1>1, Sizes
<1>4. \A a \in DOMAIN h : Stop(h, a) <= base \/ base + kSegmentSize <= a
  <2> SUFFICES ASSUME NEW a \in DOMAIN h PROVE Stop(h, a) <= base \/ base + kSegmentSize <= a
    OBVIOUS
  <2>1. PICK seg \in s : seg <= a /\ Stop(h, a) <= seg + kSegmentSize
    BY Zenon, <1>1 DEF Inside, Within
  <2>2. seg \in Nat /\ (seg + kSegmentSize <= base \/ base + kSegmentSize <= seg)
    BY Zenon, <1>1, SegmentFacts
  <2>3. QED
    BY <2>1, <2>2, <1>2, <1>3
<1>5. base \notin DOMAIN h
  BY SMTT(30), <1>2, <1>3, <1>4
<1>6. /\ DOMAIN g = DOMAIN h \cup {base} /\ Typed(g)
      /\ \A a \in DOMAIN g : a # base => g[a] = h[a]
      /\ g[base].size = kSegmentSize /\ g[base].first /\ g[base].last
  BY <1>1, NewSegmentHeader
<1> HIDE DEF g
<1>7. /\ Stop(g, base) = base + kSegmentSize
      /\ \A a \in DOMAIN h : a # base /\ g[a] = h[a] /\ Stop(g, a) = Stop(h, a)
  BY Zenon, <1>5, <1>6 DEF Stop
<1>8. Sized(g)
  BY Zenon, <1>1, <1>2, <1>6 DEF Sized, kDefaultAlignment, kMinBlockSize
<1>9. Apart(g)
  BY SMTT(30), <1>1, <1>2, <1>3, <1>4, <1>6, <1>7 DEF Apart
<1>10. Inside(g, S)
  <2> SUFFICES ASSUME NEW a \in DOMAIN g PROVE Within(g, S, a)
    BY Zenon DEF Inside
  <2>1. CASE a = base
    <3>1. base <= base /\ base + kSegmentSize <= base + kSegmentSize
      BY <1>2
    <3>2. QED
      BY Zenon, <2>1, <3>1, <1>7 DEF Within
  <2>2. CASE a # base
    BY Zenon, <2>2, <1>1, <1>6, <1>7 DEF Inside, Within
  <2>3. QED
    BY Zenon, <2>1, <2>2
<1>11. FirstTag(g, S)
  BY Zenon, <1>1, <1>6 DEF FirstTag
<1>12. LastTag(g, S)
  <2> SUFFICES ASSUME NEW a \in DOMAIN g PROVE g[a].last <=> Stop(g, a) - kSegmentSize \in S
    BY Zenon DEF LastTag
  <2>1. CASE a = base
    <3>1. Stop(g, a) - kSegmentSize = base
      BY SMTT(30), <2>1, <1>2, <1>7
    <3>2. QED
      BY Zenon, <2>1, <3>1, <1>6
  <2>2. CASE a # base
    <3>1. a \in DOMAIN h /\ Stop(g, a) = Stop(h, a) /\ g[a].last = h[a].last
      BY Zenon, <2>2, <1>6, <1>7
    <3>2. Stop(h, a) - kSegmentSize # base
      BY SMTT(30), <3>1, <1>2, <1>3, <1>4
    <3>3. QED
      BY Zenon, <3>1, <3>2, <1>1 DEF LastTag
  <2>3. QED
    BY Zenon, <2>1, <2>2
<1>13. RightOf(g) /\ LeftOf(g)
  BY ZenonT(30), <1>1, <1>6, <1>7 DEF RightOf, LeftOf
<1>14. S \subseteq Bases /\ S \subseteq DOMAIN g
  BY Zenon, <1>1, <1>6
<1>15. QED
  BY ZenonT(30), <1>5, <1>6, <1>8, <1>9, <1>10, <1>11, <1>12, <1>13, <1>14 DEF Tiles, g

(* A first and last block covers its segment, and no other block touches   *)
(* the segment.                                                            *)
LEMMA WholeSegment ==
    ASSUME NEW h, NEW s, NEW b \in DOMAIN h, Tiles(h, s), h[b].first, h[b].last
    PROVE  /\ b \in s /\ h[b].size = kSegmentSize
           /\ \A a \in DOMAIN h \ {b} : Stop(h, a) <= b \/ Stop(h, b) <= a
<1>1. /\ Typed(h) /\ Sized(h) /\ Apart(h) /\ s \subseteq Bases
      /\ Inside(h, s) /\ FirstTag(h, s) /\ LastTag(h, s)
  BY Zenon DEF Tiles
<1>2. \A a \in DOMAIN h : a \in Nat /\ h[a].size \in Nat /\ h[a].size >= 48
                          /\ Stop(h, a) \in Nat /\ Stop(h, a) >= a + 48
  BY Zenon, <1>1, Sizes
<1>3. b \in s
  BY Zenon, <1>1 DEF FirstTag
<1>4. PICK seg \in s : seg <= b /\ Stop(h, b) <= seg + kSegmentSize
  BY Zenon, <1>1 DEF Inside, Within
<1>5. seg = b
  <2>1. seg \in Nat /\ (seg # b => seg + kSegmentSize <= b \/ b + kSegmentSize <= seg)
    BY Zenon, <1>1, <1>3, SegmentFacts
  <2>2. QED
    BY SMTT(30), <2>1, <1>2, <1>4, SegmentFacts
<1>6. PICK t \in s : t = Stop(h, b) - kSegmentSize
  BY Zenon, <1>1 DEF LastTag
<1>7. t = b
  <2>1. t \in Nat /\ (t # b => t + kSegmentSize <= b \/ b + kSegmentSize <= t)
    BY Zenon, <1>1, <1>3, SegmentFacts
  <2>2. QED
    BY SMTT(30), <2>1, <1>2, <1>4, <1>5, <1>6, SegmentFacts
<1>8. h[b].size = kSegmentSize
  BY SMTT(30), <1>2, <1>6, <1>7, SegmentFacts DEF Stop
<1>9. QED
  BY <1>1, <1>2, <1>3, <1>8 DEF Apart

(* What erasing a segment that is one block takes away: its header.        *)
LEMMA UnmappedHeader ==
    ASSUME NEW m, NEW b \in DOMAIN m.hdr, Typed(m.hdr)
    PROVE  LET g == unmapped(m, b).hdr
           IN  /\ DOMAIN g = DOMAIN m.hdr \ {b} /\ Typed(g)
               /\ \A a \in DOMAIN g : g[a] = m.hdr[a]
BY Zenon DEF unmapped, Typed

(* Unmapping a segment that is one block leaves a tiling of the others.    *)
LEMMA UnmappedTiles ==
    ASSUME NEW m, NEW s, NEW b \in DOMAIN m.hdr, Tiles(m.hdr, s),
           m.hdr[b].first, m.hdr[b].last
    PROVE  Tiles(unmapped(m, b).hdr, s \ {b})
<1> DEFINE h == m.hdr
           g == unmapped(m, b).hdr
           S == s \ {b}
<1>1. /\ Typed(h) /\ Sized(h) /\ Apart(h) /\ s \subseteq Bases /\ s \subseteq DOMAIN h
      /\ Inside(h, s) /\ FirstTag(h, s) /\ LastTag(h, s) /\ RightOf(h) /\ LeftOf(h)
  BY Zenon DEF Tiles
<1>2. \A a \in DOMAIN h : a \in Nat /\ Stop(h, a) \in Nat /\ Stop(h, a) >= a + 48
  BY Zenon, <1>1, Sizes
<1>3. /\ b \in s /\ Stop(h, b) = b + kSegmentSize
      /\ \A a \in DOMAIN h \ {b} : Stop(h, a) <= b \/ Stop(h, b) <= a
  BY Zenon, WholeSegment DEF Stop
<1>4. /\ DOMAIN g = DOMAIN h \ {b} /\ Typed(g)
      /\ \A a \in DOMAIN g : g[a] = h[a] /\ Stop(g, a) = Stop(h, a)
  BY Zenon, <1>1, UnmappedHeader DEF Stop
<1> HIDE DEF g
<1>5. Sized(g) /\ Apart(g)
  BY Zenon, <1>1, <1>4 DEF Sized, Apart
<1>6. Inside(g, S)
  <2> SUFFICES ASSUME NEW a \in DOMAIN g PROVE Within(g, S, a)
    BY Zenon DEF Inside
  <2>1. PICK seg \in s : seg <= a /\ Stop(h, a) <= seg + kSegmentSize
    BY Zenon, <1>1, <1>4 DEF Inside, Within
  <2>2. seg # b
    BY SMTT(30), <2>1, <1>2, <1>3, <1>4, SegmentFacts
  <2>3. QED
    BY Zenon, <2>1, <2>2, <1>4 DEF Within
<1>7. FirstTag(g, S)
  BY Zenon, <1>1, <1>4 DEF FirstTag
<1>8. LastTag(g, S)
  <2> SUFFICES ASSUME NEW a \in DOMAIN g PROVE g[a].last <=> Stop(g, a) - kSegmentSize \in S
    BY Zenon DEF LastTag
  <2>1. Stop(h, a) - kSegmentSize # b
    BY SMTT(30), <1>2, <1>3, <1>4, SegmentFacts
  <2>2. QED
    BY Zenon, <2>1, <1>1, <1>4 DEF LastTag
<1>9. RightOf(g)
  BY SMTT(30), <1>1, <1>2, <1>3, <1>4, NextInside DEF RightOf, Inside, Within
<1>10. LeftOf(g)
  BY ZenonT(30), <1>1, <1>4 DEF LeftOf
<1>11. QED
  BY ZenonT(30), <1>1, <1>4, <1>5, <1>6, <1>7, <1>8, <1>9, <1>10 DEF Tiles, g

-----------------------------------------------------------------------------
FreeIn(h, i) == {a \in DOMAIN h : h[a].free /\ binIndex(h[a].size) = i}

Distinct(list) == \A j, k \in DOMAIN list : list[j] = list[k] => j = k

(* The bins B list the free blocks of h, each once and in its own bin.     *)
Indexed(h, B) ==
    /\ B \in [Bin -> Seq(Nat)]
    /\ \A i \in Bin : Distinct(B[i]) /\ Range(B[i]) = FreeIn(h, i)

-----------------------------------------------------------------------------
(* The bin of a size                                                       *)

(* bit_width counts the powers of two up to its argument, so it grows with *)
(* its argument.                                                           *)
LEMMA WidthMonotone ==
    ASSUME NEW m \in Nat, NEW n \in Nat, m <= n
    PROVE  bit_width(m) \in Nat /\ bit_width(n) \in Nat /\ bit_width(m) <= bit_width(n)
<1> DEFINE S(x) == {w \in 0..30 : 2^w <= x}
<1>1. S(m) \in SUBSET Nat /\ S(n) \in SUBSET Nat /\ \A w \in S(m) \cup S(n) : w <= 30
  OBVIOUS
<1>2. IsFiniteSet(S(m)) /\ IsFiniteSet(S(n))
  <2> HIDE DEF S
  <2> QED
    BY Zenon, <1>1, FS_BoundedSetOfNaturals
<1>3. S(m) \subseteq S(n)
  <2> SUFFICES ASSUME NEW w \in 0..30, 2^w <= m PROVE 2^w <= n
    OBVIOUS
  <2>1. 2^w \in Int
    OBVIOUS
  <2>2. QED
    BY <2>1
<1>4. QED
  BY Zenon, <1>2, <1>3, FS_Subset, FS_CardinalityType DEF bit_width

(* Every size has a bin, and a larger size never has a lower one.          *)
LEMMA BinMonotone ==
    ASSUME NEW m \in Nat, NEW n \in Nat, m <= n
    PROVE  binIndex(m) \in Bin /\ binIndex(n) \in Bin /\ binIndex(m) <= binIndex(n)
<1>1. /\ bit_width(m) \in Nat /\ bit_width(n) \in Nat
      /\ bit_width(m) <= bit_width(n)
  BY Zenon, WidthMonotone
<1>2. kBinCount \in Nat /\ kBinCount >= 1
  BY BinAssumption
<1>3. QED
  BY <1>1, <1>2 DEF binIndex, Bin

(* binIndex always names one of the bins.                                  *)
LEMMA BinOf ==
    ASSUME NEW n \in Nat
    PROVE  binIndex(n) \in Bin
BY BinMonotone

-----------------------------------------------------------------------------
(* One list                                                                *)

(* A node linked in front of a list is one new element of it.              *)
LEMMA ConsList ==
    ASSUME NEW list \in Seq(Nat), Distinct(list), NEW b \in Nat, b \notin Range(list)
    PROVE  /\ (<<b>> \o list) \in Seq(Nat) /\ Distinct((<<b>> \o list))
           /\ Range((<<b>> \o list)) = Range(list) \cup {b}
<1> DEFINE l == (<<b>> \o list)
<1>1. /\ l \in Seq(Nat) /\ Len(list) \in Nat /\ Len(l) = Len(list) + 1
      /\ l[1] = b /\ \A k \in 1 .. Len(list) : l[k + 1] = list[k]
  OBVIOUS
<1>2. DOMAIN l = 1 .. Len(list) + 1 /\ DOMAIN list = 1 .. Len(list)
  BY <1>1
<1>3. \A k \in DOMAIN l : k = 1 \/ (k - 1 \in DOMAIN list /\ l[k] = list[k - 1])
  BY <1>1, <1>2
<1>4. \A k \in DOMAIN list : k + 1 \in DOMAIN l /\ l[k + 1] = list[k] /\ list[k] # b
  BY SMTT(30), <1>1, <1>2 DEF Range
<1> HIDE DEF l
<1>5. Distinct(l)
  <2> SUFFICES ASSUME NEW j \in DOMAIN l, NEW k \in DOMAIN l, l[j] = l[k] PROVE j = k
    BY Zenon DEF Distinct
  <2>1. CASE j = 1
    BY SMTT(30), <2>1, <1>1, <1>3, <1>4
  <2>2. CASE k = 1
    BY SMTT(30), <2>2, <1>1, <1>3, <1>4
  <2>3. CASE j # 1 /\ k # 1
    <3>1. /\ j - 1 \in DOMAIN list /\ k - 1 \in DOMAIN list
          /\ list[j - 1] = list[k - 1]
      BY Zenon, <2>3, <1>3
    <3>2. j - 1 = k - 1
      BY Zenon, <3>1 DEF Distinct
    <3>3. QED
      BY <3>2, <1>2
  <2>4. QED
    BY <2>1, <2>2, <2>3
<1>6. Range(l) = Range(list) \cup {b}
  <2>1. \A x \in Range(l) : x \in Range(list) \cup {b}
    BY SMTT(30), <1>1, <1>3 DEF Range
  <2>2. \A x \in Range(list) : x \in Range(l)
    BY <1>4 DEF Range
  <2>3. b \in Range(l)
    BY SMTT(30), <1>1, <1>2 DEF Range
  <2>4. QED
    BY Zenon, <2>1, <2>2, <2>3
<1>7. QED
  BY Zenon, <1>1, <1>5, <1>6 DEF l

(* CutAt closes the gap at p and moves nothing else.                    *)
LEMMA CutAtList ==
    ASSUME NEW list \in Seq(Nat), NEW p \in 1 .. Len(list)
    PROVE  /\ CutAt(list, p) \in Seq(Nat) /\ Len(CutAt(list, p)) = Len(list) - 1
           /\ \A k \in 1 .. p - 1 : CutAt(list, p)[k] = list[k]
           /\ \A k \in p .. Len(list) - 1 : CutAt(list, p)[k] = list[k + 1]
<1> DEFINE n == Len(list)
           l == SubSeq(list, 1, p - 1)
           r == SubSeq(list, p + 1, n)
<1>1. n \in Nat /\ p \in Nat /\ 1 <= p /\ p <= n /\ \A i \in 1 .. n : list[i] \in Nat
  OBVIOUS
<1>2. /\ l \in Seq(Nat) /\ Len(l) = p - 1
      /\ \A k \in 1 .. p - 1 : l[k] = list[k]
  <2>1. /\ l \in Seq(Nat) /\ Len(l) = IF 1 <= p - 1 THEN (p - 1) - 1 + 1 ELSE 0
        /\ \A k \in 1 .. (p - 1) - 1 + 1 : l[k] = list[1 + k - 1]
    <3>1. 1 \in Int /\ p - 1 \in Int /\ \A i \in 1 .. p - 1 : list[i] \in Nat
      BY <1>1
    <3>2. QED
      BY <3>1, SubSeqProperties
  <2> HIDE DEF l
  <2>2. QED
    BY <2>1, <1>1
<1>3. /\ r \in Seq(Nat) /\ Len(r) = n - p
      /\ \A k \in 1 .. n - p : r[k] = list[k + p]
  <2>1. /\ r \in Seq(Nat) /\ Len(r) = IF p + 1 <= n THEN n - (p + 1) + 1 ELSE 0
        /\ \A k \in 1 .. n - (p + 1) + 1 : r[k] = list[(p + 1) + k - 1]
    <3>1. p + 1 \in Int /\ n \in Int /\ \A i \in p + 1 .. n : list[i] \in Nat
      BY <1>1
    <3> HIDE DEF n
    <3>2. QED
      BY <3>1, SubSeqProperties
  <2> HIDE DEF r, n
  <2>2. QED
    BY <2>1, <1>1
<1> HIDE DEF l, r
<1>4. /\ l \o r \in Seq(Nat) /\ Len(l \o r) = n - 1
      /\ \A k \in 1 .. n - 1 : (l \o r)[k] = IF k <= p - 1 THEN l[k] ELSE r[k - (p - 1)]
  <2>1. /\ l \o r \in Seq(Nat) /\ Len(l \o r) = Len(l) + Len(r)
        /\ \A k \in 1 .. Len(l) + Len(r) :
              (l \o r)[k] = IF k <= Len(l) THEN l[k] ELSE r[k - Len(l)]
    BY Zenon, <1>2, <1>3, ConcatProperties
  <2>2. Len(l) + Len(r) = n - 1
    BY SMTT(30), <1>1, <1>2, <1>3
  <2>3. QED
    BY Zenon, <2>1, <2>2, <1>2
<1>5. CutAt(list, p) = l \o r
  BY Zenon DEF CutAt, l, r
<1> HIDE DEF n
<1>6. \A k \in 1 .. p - 1 : (l \o r)[k] = list[k]
  BY <1>1, <1>2, <1>4
<1>7. \A k \in p .. n - 1 : (l \o r)[k] = list[k + 1]
  <2> SUFFICES ASSUME NEW k \in p .. n - 1 PROVE (l \o r)[k] = list[k + 1]
    BY Zenon
  <2>0. k \in 1 .. n - 1 /\ ~(k <= p - 1)
    BY <1>1
  <2>1. (l \o r)[k] = r[k - (p - 1)]
    BY Zenon, <1>4, <2>0
  <2>2. k - (p - 1) \in 1 .. n - p /\ (k - (p - 1)) + p = k + 1
    BY <1>1
  <2>3. QED
    BY Zenon, <2>1, <2>2, <1>3
<1>8. QED
  BY Zenon, <1>4, <1>5, <1>6, <1>7 DEF n

(* unlink takes one element out.                                           *)
LEMMA UnlinkList ==
    ASSUME NEW list \in Seq(Nat), Distinct(list), NEW b \in Range(list)
    PROVE  /\ unlink(list, b) \in Seq(Nat) /\ Distinct(unlink(list, b))
           /\ Range(unlink(list, b)) = Range(list) \ {b}
<1>1. PICK p \in DOMAIN list : list[p] = b /\ p = CHOOSE k \in DOMAIN list : list[k] = b
  BY Zenon DEF Range
<1> DEFINE l == unlink(list, b)
           n == Len(list)
<1>2. n \in Nat /\ DOMAIN list = 1 .. n /\ l = CutAt(list, p)
  BY <1>1 DEF unlink
<1>3. /\ l \in Seq(Nat) /\ Len(l) = n - 1
      /\ \A k \in 1 .. p - 1 : l[k] = list[k]
      /\ \A k \in p .. n - 1 : l[k] = list[k + 1]
  <2> HIDE DEF l
  <2>1. p \in 1 .. n
    BY Zenon, <1>1, <1>2
  <2> QED
    BY Zenon, <2>1, <1>2, CutAtList
<1>5. DOMAIN l = 1 .. n - 1
  BY <1>3
<1>4. list[p] = b /\ p \in Nat /\ 1 <= p /\ p <= n
  BY SMTT(30), <1>1, <1>2
<1> HIDE DEF l, n
<1>6. \A k \in DOMAIN l : \E j \in DOMAIN list : /\ j # p /\ l[k] = list[j]
                                                 /\ j = IF k < p THEN k ELSE k + 1
  <2> SUFFICES ASSUME NEW k \in DOMAIN l, NEW j, j = IF k < p THEN k ELSE k + 1
               PROVE  j \in DOMAIN list /\ j # p /\ l[k] = list[j]
    OBVIOUS
  <2>0. k \in 1 .. n - 1
    BY Zenon, <1>5
  <2>1. CASE k < p
    <3>1. j = k /\ j \in 1 .. n /\ j # p /\ k \in 1 .. p - 1
      BY SMTT(30), <2>0, <2>1, <1>2, <1>4
    <3>2. QED
      BY Zenon, <3>1, <1>2, <1>3
  <2>2. CASE ~(k < p)
    <3>1. j = k + 1 /\ j \in 1 .. n /\ j # p /\ k \in p .. n - 1
      BY SMTT(30), <2>0, <2>2, <1>2, <1>4
    <3>2. QED
      BY Zenon, <3>1, <1>2, <1>3
  <2>3. QED
    BY Zenon, <2>1, <2>2
<1>7. \A j \in DOMAIN list : j # p => \E k \in DOMAIN l : l[k] = list[j]
  <2> SUFFICES ASSUME NEW j \in DOMAIN list, j # p PROVE \E k \in DOMAIN l : l[k] = list[j]
    OBVIOUS
  <2>1. CASE j < p
    <3>1. j \in 1 .. p - 1 /\ j \in DOMAIN l
      BY SMTT(30), <2>1, <1>4, <1>2, <1>5
    <3>2. QED
      BY Zenon, <3>1, <1>3
  <2>2. CASE j > p
    <3> HIDE DEF l, n
    <3>1. j - 1 \in p .. n - 1 /\ j - 1 \in DOMAIN l /\ (j - 1) + 1 = j
      BY SMTT(30), <2>2, <1>4, <1>2, <1>5
    <3>2. QED
      BY Zenon, <3>1, <1>3
  <2>3. QED
    BY SMTT(30), <2>1, <2>2, <1>4, <1>2
<1>8. Distinct(l)
  <2> SUFFICES ASSUME NEW j \in DOMAIN l, NEW k \in DOMAIN l, l[j] = l[k] PROVE j = k
    BY DEF Distinct
  <2>1. PICK i \in DOMAIN list : l[j] = list[i] /\ i = IF j < p THEN j ELSE j + 1
    BY Zenon, <1>6
  <2>2. PICK q \in DOMAIN list : l[k] = list[q] /\ q = IF k < p THEN k ELSE k + 1
    BY Zenon, <1>6
  <2>3. i = q
    BY Zenon, <2>1, <2>2 DEF Distinct
  <2>4. QED
    BY SMTT(30), <2>1, <2>2, <2>3, <1>4, <1>2, <1>3, <1>5
<1>9. Range(l) = Range(list) \ {b}
  <2>1. \A x \in Range(l) : x \in Range(list) /\ x # b
    BY <1>4, <1>6 DEF Range, Distinct
  <2>2. \A x \in Range(list) \ {b} : x \in Range(l)
    BY Zenon, <1>4, <1>7 DEF Range
  <2>3. QED
    BY ZenonT(30), <2>1, <2>2
<1>10. QED
  BY Zenon, <1>3, <1>8, <1>9 DEF l

-----------------------------------------------------------------------------
(* The index of the free blocks                                            *)

(* removeFree takes a free block out of the index.                         *)
LEMMA RemoveFreeIndexed ==
    ASSUME NEW m, m.hdr \in [DOMAIN m.hdr -> Tags], Indexed(m.hdr, m.bins),
           NEW b \in DOMAIN m.hdr, m.hdr[b].free
    PROVE  Indexed(removeFree(m, b).hdr, removeFree(m, b).bins)
<1> DEFINE h == m.hdr
           B == m.bins
           i == binIndex(h[b].size)
           g == removeFree(m, b).hdr
           C == removeFree(m, b).bins
<1>1. g = [h EXCEPT ![b].free = FALSE] /\ C = [B EXCEPT ![i] = unlink(B[i], b)]
  BY Zenon DEF removeFree
<1>2. /\ DOMAIN g = DOMAIN h /\ ~g[b].free
      /\ \A a \in DOMAIN h : g[a].size = h[a].size
      /\ \A a \in DOMAIN h \ {b} : g[a].free = h[a].free
  BY <1>1 DEF Tags
<1>3. i \in Bin
  BY Zenon, BinOf DEF Tags
<1>4. B \in [Bin -> Seq(Nat)] /\ \A j \in Bin : Distinct(B[j]) /\ Range(B[j]) = FreeIn(h, j)
  BY Zenon DEF Indexed
<1>5. b \in Range(B[i])
  BY Zenon, <1>3, <1>4 DEF FreeIn
<1>6. \A j \in Bin : FreeIn(g, j) = IF j = i THEN FreeIn(h, j) \ {b} ELSE FreeIn(h, j)
  BY Zenon, <1>2 DEF FreeIn
<1> HIDE DEF g, C, h, B, i
<1>7. /\ unlink(B[i], b) \in Seq(Nat) /\ Distinct(unlink(B[i], b))
      /\ Range(unlink(B[i], b)) = FreeIn(h, i) \ {b}
  BY Zenon, <1>3, <1>4, <1>5, UnlinkList
<1>8. /\ C \in [Bin -> Seq(Nat)]
      /\ \A j \in Bin : C[j] = IF j = i THEN unlink(B[i], b) ELSE B[j]
  BY Zenon, <1>1, <1>3, <1>4, <1>7
<1>9. Indexed(g, C)
  BY Zenon, <1>4, <1>6, <1>7, <1>8 DEF Indexed
<1>10. QED
  BY Zenon, <1>9 DEF g, C, h, B

(* insertFree puts an allocated block into the index.                      *)
LEMMA InsertFreeIndexed ==
    ASSUME NEW m, m.hdr \in [DOMAIN m.hdr -> Tags], DOMAIN m.hdr \subseteq Nat,
           Indexed(m.hdr, m.bins), NEW b \in DOMAIN m.hdr, ~m.hdr[b].free
    PROVE  Indexed(insertFree(m, b).hdr, insertFree(m, b).bins)
<1> DEFINE h == m.hdr
           B == m.bins
           i == binIndex(h[b].size)
           g == insertFree(m, b).hdr
           C == insertFree(m, b).bins
<1>1. g = [h EXCEPT ![b].free = TRUE] /\ C = [B EXCEPT ![i] = (<<b>> \o B[i])]
  BY ZenonT(30) DEF insertFree
<1>2. /\ DOMAIN g = DOMAIN h /\ g[b].free
      /\ \A a \in DOMAIN h : g[a].size = h[a].size
      /\ \A a \in DOMAIN h \ {b} : g[a].free = h[a].free
  BY SMTT(30), <1>1 DEF Tags
<1>3. i \in Bin
  BY Zenon, BinOf DEF Tags
<1>4. B \in [Bin -> Seq(Nat)] /\ \A j \in Bin : Distinct(B[j]) /\ Range(B[j]) = FreeIn(h, j)
  BY Zenon DEF Indexed
<1>5. b \in Nat /\ b \notin Range(B[i])
  BY Zenon, <1>3, <1>4 DEF FreeIn
<1>6. \A j \in Bin : FreeIn(g, j) = IF j = i THEN FreeIn(h, j) \cup {b} ELSE FreeIn(h, j)
  BY Zenon, <1>2 DEF FreeIn
<1> HIDE DEF g, C, h, B, i
<1>7. /\ (<<b>> \o B[i]) \in Seq(Nat) /\ Distinct((<<b>> \o B[i]))
      /\ Range((<<b>> \o B[i])) = FreeIn(h, i) \cup {b}
  BY Zenon, <1>3, <1>4, <1>5, ConsList
<1>8. /\ C \in [Bin -> Seq(Nat)]
      /\ \A j \in Bin : C[j] = IF j = i THEN (<<b>> \o B[i]) ELSE B[j]
  BY ZenonT(30), <1>1, <1>3, <1>4, <1>7
<1>9. Indexed(g, C)
  BY ZenonT(60), <1>4, <1>6, <1>7, <1>8 DEF Indexed
<1>10. QED
  BY Zenon, <1>9 DEF g, C, h, B

(* A store that leaves the free blocks alone leaves the index exact.       *)
LEMMA IndexedFrame ==
    ASSUME NEW h, NEW g, NEW B, Indexed(h, B),
           \A a \in DOMAIN h : h[a].free => a \in DOMAIN g /\ g[a].free /\ g[a].size = h[a].size,
           \A a \in DOMAIN g : g[a].free => a \in DOMAIN h /\ h[a].free
    PROVE  Indexed(g, B)
<1>1. \A i \in Bin : FreeIn(g, i) = FreeIn(h, i)
  BY Zenon DEF FreeIn
<1>2. QED
  BY Zenon, <1>1 DEF Indexed

(* A set of naturals that is not empty has a least element.                *)
LEMMA LeastExists ==
    ASSUME NEW S, S \subseteq Nat, S # {}
    PROVE  Min(S) \in S /\ \A y \in S : Min(S) <= y
<1> DEFINE R == {ss \in Nat \X Nat : ss[1] < ss[2]}
<1>1. IsWellFoundedOn(R, Nat)
  BY Zenon, NatLessThanWellFounded DEF OpToRel
<1>2. PICK x \in S : \A y \in S : ~(<<y, x>> \in R)
  <2> HIDE DEF R
  <2> QED
    BY Zenon, <1>1, WFMin
<1>3. \A y \in S : x <= y
  <2> SUFFICES ASSUME NEW y \in S, ~(x <= y) PROVE FALSE
    OBVIOUS
  <2>1. x \in Nat /\ y \in Nat /\ y < x
    OBVIOUS
  <2>2. <<y, x>> \in R
    BY Zenon, <2>1
  <2>3. QED
    BY Zenon, <2>2, <1>2
<1>4. QED
  BY Zenon, <1>3 DEF Min

(* findFit finds a free block that fits, or there is none.                 *)
LEMMA FindFit ==
    ASSUME NEW m, m.hdr \in [DOMAIN m.hdr -> Tags], DOMAIN m.hdr \subseteq Nat,
           Indexed(m.hdr, m.bins), NEW total \in Nat, NEW f, f = findFit(m, total)
    PROVE  \/ /\ f = nullptr
              /\ \A b \in DOMAIN m.hdr : m.hdr[b].free => m.hdr[b].size < total
           \/ f # nullptr /\ f \in DOMAIN m.hdr /\ m.hdr[f].free /\ m.hdr[f].size >= total
<1> DEFINE h == m.hdr
           B == m.bins
           fits(i) == {k \in DOMAIN B[i] : h[B[i][k]].size >= total}
           usable == {i \in binIndex(total) .. (kBinCount - 1) : fits(i) # {}}
<1>1. f = IF usable = {} THEN nullptr ELSE B[Min(usable)][Min(fits(Min(usable)))]
  BY Zenon DEF findFit
<1>2. /\ B \in [Bin -> Seq(Nat)]
      /\ \A i \in Bin : \A a : a \in Range(B[i])
            <=> a \in DOMAIN h /\ h[a].free /\ binIndex(h[a].size) = i
  BY Zenon DEF Indexed, FreeIn
<1>3. \A i \in Bin : DOMAIN B[i] \subseteq Nat /\ \A k \in DOMAIN B[i] :
          B[i][k] \in DOMAIN h /\ h[B[i][k]].free
  <2> SUFFICES ASSUME NEW i \in Bin
               PROVE  DOMAIN B[i] \subseteq Nat /\ \A k \in DOMAIN B[i] :
                         B[i][k] \in DOMAIN h /\ h[B[i][k]].free
    OBVIOUS
  <2>1. \A k \in DOMAIN B[i] : B[i][k] \in Range(B[i])
    BY Zenon DEF Range
  <2>2. B[i] \in Seq(Nat)
    BY ZenonT(30), <1>2
  <2>3. QED
    BY SMTT(30), <2>1, <2>2, <1>2
<1>4. binIndex(total) \in Bin /\ usable \subseteq Bin /\ usable \subseteq Nat
  BY SMTT(30), BinOf, BinAssumption DEF Bin
<1>5. CASE usable = {}
  <2>1. f = nullptr
    BY Zenon, <1>1, <1>5
  <2> SUFFICES ASSUME NEW b \in DOMAIN h, h[b].free, ~(h[b].size < total) PROVE FALSE
    BY Zenon, <2>1
  <2>2. h[b].size \in Nat /\ total <= h[b].size
    BY DEF Tags
  <2>3. PICK i \in Bin : i = binIndex(h[b].size) /\ binIndex(total) <= i
    BY ZenonT(30), <2>2, BinMonotone
  <2>4. PICK k \in DOMAIN B[i] : B[i][k] = b
    BY <2>3, <1>2 DEF Range
  <2>5. k \in fits(i)
    BY ZenonT(30), <2>2, <2>4
  <2>6. i \in binIndex(total) .. (kBinCount - 1)
    BY SMTT(30), <2>3, <1>4, BinAssumption DEF Bin
  <2>7. i \in usable
    BY Zenon, <2>5, <2>6
  <2>8. QED
    BY Zenon, <2>7, <1>5
<1>6. CASE usable # {}
  <2>1. PICK i \in usable : i = Min(usable)
    BY Zenon, <1>4, <1>6, LeastExists
  <2>2. i \in Bin /\ fits(i) # {} /\ fits(i) \subseteq Nat
    BY Zenon, <2>1, <1>3, <1>4
  <2>3. PICK k \in fits(i) : k = Min(fits(i))
    BY Zenon, <2>2, LeastExists
  <2>4. f = B[i][k]
    BY ZenonT(30), <1>1, <1>6, <2>1, <2>3
  <2>5. f \in DOMAIN h /\ h[f].free /\ h[f].size >= total
    BY ZenonT(30), <2>2, <2>3, <2>4, <1>3
  <2>6. f # nullptr
    BY <2>5 DEF nullptr
  <2>7. QED
    BY Zenon, <2>5, <2>6
<1>7. QED
  BY Zenon, <1>5, <1>6

-----------------------------------------------------------------------------

(* Blocks tile the segments s, the tags are consistent, coalescing is      *)
(* complete and the bins index the free blocks.                            *)
Sound(m, s) ==
    /\ Tiles(m.hdr, s) /\ Linked(m.hdr, {}) /\ NoFreePair(m.hdr)
    /\ Indexed(m.hdr, m.bins)

(* The neighbours of b are allocated.                                      *)
ClearOf(h, b) ==
    /\ ~h[b].last => ~h[Stop(h, b)].free
    /\ \A c \in DOMAIN h : Stop(h, c) = b /\ ~h[c].last => ~h[c].free

(* Block a has the same extent and flags in g as in h.                     *)
Same(h, g, a) ==
    /\ a \in DOMAIN h /\ a \in DOMAIN g
    /\ g[a].size = h[a].size /\ g[a].free = h[a].free
    /\ g[a].first = h[a].first /\ g[a].last = h[a].last

Used(h) == {a \in DOMAIN h : ~h[a].free}

-----------------------------------------------------------------------------
(* The free flag                                                           *)

(* g differs from h at most in the free flag of b.                         *)
Flagged(h, g, b) ==
    /\ Typed(g) /\ DOMAIN g = DOMAIN h
    /\ \A a \in DOMAIN h : a # b => g[a] = h[a]
    /\ \A a \in DOMAIN h : /\ g[a].size = h[a].size /\ Stop(g, a) = Stop(h, a)
                           /\ g[a].prevSize = h[a].prevSize
                           /\ g[a].first = h[a].first /\ g[a].last = h[a].last

(* What removeFree does to the headers: one free flag is cleared.          *)
LEMMA RemoveFreeHeader ==
    ASSUME NEW m, Typed(m.hdr), NEW b \in DOMAIN m.hdr
    PROVE  Flagged(m.hdr, removeFree(m, b).hdr, b) /\ ~removeFree(m, b).hdr[b].free
<1> DEFINE h == m.hdr
           g == removeFree(m, b).hdr
           t == [h[b] EXCEPT !.free = FALSE]
<1>1. g = [h EXCEPT ![b].free = FALSE]
  BY Zenon DEF removeFree
<1>2. DOMAIN g = DOMAIN h /\ \A a \in DOMAIN h : a # b => g[a] = h[a]
  BY Zenon, <1>1
<1>3. g[b] = t /\ h[b] \in Tags
  BY Zenon, <1>1 DEF Typed
<1>4. t \in Tags
  BY Zenon, <1>3 DEF Tags
<1>5. /\ ~t.free /\ t.size = h[b].size /\ t.prevSize = h[b].prevSize
      /\ t.first = h[b].first /\ t.last = h[b].last
  <2>1. ~t.free
    BY Zenon, <1>3 DEF Tags
  <2>2. t.size = h[b].size /\ t.prevSize = h[b].prevSize
    BY Zenon, <1>3 DEF Tags
  <2>3. t.first = h[b].first /\ t.last = h[b].last
    BY Zenon, <1>3 DEF Tags
  <2>4. QED
    BY Zenon, <2>1, <2>2, <2>3
<1> HIDE DEF g, t
<1>6. Typed(g)
  <2>1. g = [a \in DOMAIN h |-> g[a]]
    BY Zenon, <1>1, <1>2 DEF Typed
  <2>2. QED
    BY ZenonT(30), <2>1, <1>2, <1>3, <1>4 DEF Typed
<1>7. \A a \in DOMAIN h : /\ g[a].size = h[a].size /\ g[a].prevSize = h[a].prevSize
                           /\ g[a].first = h[a].first /\ g[a].last = h[a].last
  BY Zenon, <1>2, <1>3, <1>5
<1>8. QED
  BY ZenonT(30), <1>2, <1>3, <1>5, <1>6, <1>7 DEF Flagged, Stop, g

(* What insertFree does to the headers: one free flag is set.              *)
LEMMA InsertFreeHeader ==
    ASSUME NEW m, Typed(m.hdr), NEW b \in DOMAIN m.hdr
    PROVE  Flagged(m.hdr, insertFree(m, b).hdr, b) /\ insertFree(m, b).hdr[b].free
<1> DEFINE h == m.hdr
           g == insertFree(m, b).hdr
           t == [h[b] EXCEPT !.free = TRUE]
<1>1. g = [h EXCEPT ![b].free = TRUE]
  BY Zenon DEF insertFree
<1>2. DOMAIN g = DOMAIN h /\ \A a \in DOMAIN h : a # b => g[a] = h[a]
  BY Zenon, <1>1
<1>3. g[b] = t /\ h[b] \in Tags
  BY Zenon, <1>1 DEF Typed
<1>4. t \in Tags
  BY Zenon, <1>3 DEF Tags
<1>5. /\ t.free /\ t.size = h[b].size /\ t.prevSize = h[b].prevSize
      /\ t.first = h[b].first /\ t.last = h[b].last
  <2>1. t.free
    BY Zenon, <1>3 DEF Tags
  <2>2. t.size = h[b].size /\ t.prevSize = h[b].prevSize
    BY Zenon, <1>3 DEF Tags
  <2>3. t.first = h[b].first /\ t.last = h[b].last
    BY ZenonT(30), <1>3 DEF Tags
  <2>4. QED
    BY Zenon, <2>1, <2>2, <2>3
<1> HIDE DEF g, t
<1>6. Typed(g)
  <2>1. g = [a \in DOMAIN h |-> g[a]]
    BY Zenon, <1>1, <1>2 DEF Typed
  <2>2. QED
    BY Zenon, <2>1, <1>2, <1>3, <1>4 DEF Typed
<1>7. \A a \in DOMAIN h : /\ g[a].size = h[a].size /\ g[a].prevSize = h[a].prevSize
                           /\ g[a].first = h[a].first /\ g[a].last = h[a].last
  BY Zenon, <1>2, <1>3, <1>5
<1>8. QED
  BY ZenonT(30), <1>2, <1>3, <1>5, <1>6, <1>7 DEF Flagged, Stop, g

(* The tiling and the boundary tags do not depend on the free flags.       *)
LEMMA FlagTiles ==
    ASSUME NEW h, NEW s, NEW X, Tiles(h, s), Linked(h, X),
           NEW g, NEW b \in DOMAIN h, Flagged(h, g, b)
    PROVE  Tiles(g, s) /\ Linked(g, X)
<1>1. RightOf(h)
  BY Zenon DEF Tiles
<1>2. /\ Typed(g) /\ DOMAIN g = DOMAIN h
      /\ \A a \in DOMAIN h : /\ g[a].size = h[a].size /\ Stop(g, a) = Stop(h, a)
                             /\ g[a].prevSize = h[a].prevSize
                             /\ g[a].first = h[a].first /\ g[a].last = h[a].last
  BY Zenon DEF Flagged
<1>3. Tiles(g, s)
  BY Zenon, <1>2, TilesFrame
<1>4. Linked(g, X)
  <2> SUFFICES ASSUME NEW a \in DOMAIN g \ X, ~g[a].last
               PROVE  g[Stop(g, a)].prevSize = g[a].size
    BY Zenon DEF Linked
  <2>1. a \in DOMAIN h \ X /\ ~h[a].last /\ Stop(h, a) \in DOMAIN h
    BY Zenon, <1>1, <1>2 DEF RightOf
  <2>2. QED
    BY <2>1, <1>2 DEF Linked
<1>5. QED
  BY Zenon, <1>3, <1>4

(* b is a free block, and the links are right but for those of X.          *)
Removable(m, s, X, b) ==
    /\ Tiles(m.hdr, s) /\ Linked(m.hdr, X) /\ Indexed(m.hdr, m.bins) /\ NoFreePair(m.hdr)
    /\ b \in DOMAIN m.hdr /\ m.hdr[b].free

(* In r it is out of the bins.                                             *)
Removed(m, s, X, b, r) ==
    /\ Tiles(r.hdr, s) /\ Linked(r.hdr, X) /\ Indexed(r.hdr, r.bins) /\ NoFreePair(r.hdr)
    /\ ClearOf(r.hdr, b)
    /\ DOMAIN r.hdr = DOMAIN m.hdr /\ ~r.hdr[b].free
    /\ r.hdr[b].size = m.hdr[b].size /\ r.hdr[b].last = m.hdr[b].last
    /\ r.hdr[b].first = m.hdr[b].first
    /\ \A a \in DOMAIN m.hdr : a # b => r.hdr[a] = m.hdr[a]

(* removeFree of a free block.                                             *)
LEMMA RemoveFreeStep ==
    ASSUME NEW m, NEW s, NEW X, NEW b, Removable(m, s, X, b)
    PROVE  Removed(m, s, X, b, removeFree(m, b))
<1> DEFINE h == m.hdr
           r == removeFree(m, b)
           g == r.hdr
<1>0. /\ Tiles(h, s) /\ Linked(h, X) /\ Indexed(h, m.bins) /\ NoFreePair(h)
      /\ b \in DOMAIN h /\ h[b].free
  BY Zenon DEF Removable
<1>2. Typed(h) /\ RightOf(h) /\ Sized(h)
  BY Zenon, <1>0 DEF Tiles
<1>3. h \in [DOMAIN h -> Tags]
  BY Zenon, <1>2 DEF Typed
<1>4. Indexed(g, r.bins)
  BY Zenon, <1>0, <1>3, RemoveFreeIndexed
<1>1. Flagged(h, g, b) /\ ~g[b].free
  BY Zenon, <1>0, <1>2, RemoveFreeHeader
<1> HIDE DEF g, r
<1>5. Tiles(g, s) /\ Linked(g, X)
  BY Zenon, <1>0, <1>1, <1>2, FlagTiles
<1>6. /\ DOMAIN g = DOMAIN h /\ ~g[b].free
      /\ \A a \in DOMAIN h : a # b => g[a] = h[a]
      /\ \A a \in DOMAIN h : /\ g[a].size = h[a].size /\ Stop(g, a) = Stop(h, a)
                             /\ g[a].first = h[a].first /\ g[a].last = h[a].last
  BY Zenon, <1>1 DEF Flagged
<1>7. \A a \in DOMAIN h : g[a].free => h[a].free
  BY Zenon, <1>6
<1>8. NoFreePair(g)
  BY Zenon, <1>0, <1>2, <1>6, <1>7 DEF NoFreePair, RightOf
<1>9. ClearOf(g, b)
  BY SMTT(30), <1>0, <1>2, <1>6, <1>7 DEF NoFreePair, ClearOf, RightOf
<1>10. Removed(m, s, X, b, r)
  BY Zenon, <1>0, <1>4, <1>5, <1>6, <1>8, <1>9 DEF g, Removed
<1>11. QED
  BY Zenon, <1>10 DEF r

(* insertFree of an allocated block whose neighbours are allocated.        *)
LEMMA InsertFreeStep ==
    ASSUME NEW m, NEW s, Sound(m, s), NEW b \in DOMAIN m.hdr, ~m.hdr[b].free,
           ClearOf(m.hdr, b), NEW r, r = insertFree(m, b)
    PROVE  /\ Sound(r, s) /\ DOMAIN r.hdr = DOMAIN m.hdr /\ r.hdr[b].free
           /\ r.hdr[b].size = m.hdr[b].size
           /\ r.hdr[b].first = m.hdr[b].first /\ r.hdr[b].last = m.hdr[b].last
           /\ \A a \in DOMAIN m.hdr : a # b => r.hdr[a] = m.hdr[a]
<1> DEFINE h == m.hdr
           g == r.hdr
<1>2. /\ Tiles(h, s) /\ Linked(h, {}) /\ NoFreePair(h) /\ Indexed(h, m.bins)
      /\ Typed(h) /\ RightOf(h) /\ Sized(h)
  BY Zenon DEF Tiles, Sound
<1>3. h \in [DOMAIN h -> Tags] /\ DOMAIN h \subseteq Nat
  BY Zenon, <1>2 DEF Typed
<1>4. Indexed(g, r.bins)
  BY Zenon, <1>2, <1>3, InsertFreeIndexed
<1>1. Flagged(h, g, b) /\ g[b].free
  BY Zenon, <1>2, InsertFreeHeader
<1>5. Tiles(g, s) /\ Linked(g, {})
  BY Zenon, <1>1, <1>2, FlagTiles
<1>6. /\ DOMAIN g = DOMAIN h /\ g[b].free
      /\ \A a \in DOMAIN h : a # b => g[a] = h[a]
      /\ \A a \in DOMAIN h : /\ g[a].size = h[a].size /\ Stop(g, a) = Stop(h, a)
                             /\ g[a].first = h[a].first /\ g[a].last = h[a].last
  BY Zenon, <1>1 DEF Flagged
<1>7. \A a \in DOMAIN h : Stop(h, a) # a
  BY <1>2, Sizes
<1> HIDE DEF g
<1>8. NoFreePair(g)
  <2> SUFFICES ASSUME NEW a \in DOMAIN g, g[a].free, ~g[a].last PROVE ~g[Stop(g, a)].free
    BY Zenon DEF NoFreePair
  <2>1. Stop(g, a) = Stop(h, a) /\ Stop(h, a) \in DOMAIN h /\ Stop(h, a) # a /\ ~h[a].last
    BY Zenon, <1>2, <1>6, <1>7 DEF RightOf
  <2>2. CASE a = b
    BY ZenonT(30), <2>1, <2>2, <1>6 DEF ClearOf
  <2>3. CASE a # b /\ Stop(h, a) = b
    BY ZenonT(30), <2>1, <2>3, <1>6 DEF ClearOf
  <2>4. CASE a # b /\ Stop(h, a) # b
    BY ZenonT(30), <2>1, <2>4, <1>2, <1>6 DEF NoFreePair
  <2>5. QED
    BY Zenon, <2>2, <2>3, <2>4
<1>9. QED
  BY Zenon, <1>4, <1>5, <1>6, <1>8 DEF g, Sound
-----------------------------------------------------------------------------
(* The merges of deallocate                                                *)

(* Every block but n is recorded in prevSize of its neighbour.             *)
LinkedBut(h, n) == Linked(h, {n})

(* Block b is about to swallow n, its right neighbour; both are out of the *)
(* bins.                                                                   *)
Mergeable(m, s, b, n) ==
    /\ Tiles(m.hdr, s) /\ LinkedBut(m.hdr, n) /\ NoFreePair(m.hdr) /\ Indexed(m.hdr, m.bins)
    /\ b \in DOMAIN m.hdr /\ ~m.hdr[b].last /\ n = Stop(m.hdr, b)
    /\ ~m.hdr[b].free /\ ~m.hdr[n].free

(* In r it has.                                                            *)
Merged(m, s, b, n, r) ==
    /\ Tiles(r.hdr, s) /\ Linked(r.hdr, {b}) /\ NoFreePair(r.hdr) /\ Indexed(r.hdr, r.bins)
    /\ DOMAIN r.hdr = DOMAIN m.hdr \ {n} /\ n # b /\ ~r.hdr[b].free
    /\ r.hdr[b].last = m.hdr[n].last /\ Stop(r.hdr, b) = Stop(m.hdr, n)
    /\ \A a \in DOMAIN r.hdr : a # b => r.hdr[a] = m.hdr[a]

(* The merge of two neighbours that are in no bin keeps everything but the *)
(* link to the block after them.                                           *)
LEMMA AbsorbStep ==
    ASSUME NEW m, NEW s, NEW b, NEW n, Mergeable(m, s, b, n)
    PROVE  Merged(m, s, b, n, absorb(m, b, n))
<1> DEFINE h == m.hdr
           r == absorb(m, b, n)
           g == r.hdr
<1>0. /\ Tiles(h, s) /\ LinkedBut(h, n) /\ NoFreePair(h) /\ Indexed(h, m.bins)
      /\ b \in DOMAIN h /\ ~h[b].last /\ n = Stop(h, b) /\ ~h[b].free /\ ~h[n].free
  BY Zenon DEF Mergeable
<1>1. Typed(h) /\ Sized(h) /\ RightOf(h) /\ Apart(h)
  BY Zenon, <1>0 DEF Tiles
<1>2. n \in DOMAIN h /\ n # b /\ b \in Nat /\ n \in Nat /\ h[b].size \in Nat /\ h[n].size \in Nat
  BY SMTT(30), <1>0, <1>1, Sizes DEF RightOf
<1>3. /\ DOMAIN g = DOMAIN h \ {n}
      /\ \A a \in DOMAIN g : a # b => g[a] = h[a]
      /\ g[b].size = h[b].size + h[n].size
      /\ g[b].prevSize = h[b].prevSize /\ g[b].last = h[n].last
      /\ g[b].first = h[b].first /\ g[b].free = h[b].free
  BY SMTT(30), <1>0, <1>1, <1>2, AbsorbHeader
<1>4. Tiles(g, s) /\ Linked(g, {b})
  <2>1. Linked(h, {b, n})
    BY Zenon, <1>0 DEF Linked, LinkedBut
  <2>2. Tiles(g, s)
    BY Zenon, <1>0, AbsorbTiles
  <2>3. Linked(g, {b})
    BY Zenon, <2>1, <1>0, AbsorbLinked
  <2>4. QED
    BY Zenon, <2>2, <2>3
<1>5. r.bins = m.bins
  BY Zenon DEF absorb
<1> HIDE DEF g, r
<1>6. Indexed(g, m.bins)
  BY SMTT(30), <1>0, <1>2, <1>3, IndexedFrame
<1>7. Stop(g, b) = Stop(h, n) /\ \A a \in DOMAIN g : a # b => Stop(g, a) = Stop(h, a)
  BY SMTT(30), <1>0, <1>2, <1>3 DEF Stop
<1>8. NoFreePair(g)
  <2> SUFFICES ASSUME NEW a \in DOMAIN g, g[a].free, ~g[a].last PROVE ~g[Stop(g, a)].free
    BY Zenon DEF NoFreePair
  <2>1. a # b /\ g[a] = h[a] /\ Stop(g, a) = Stop(h, a) /\ a \in DOMAIN h
    BY Zenon, <1>0, <1>3, <1>7
  <2>2. ~h[Stop(h, a)].free /\ Stop(g, a) \in DOMAIN g
    BY Zenon, <2>1, <1>0, <1>4 DEF NoFreePair, Tiles, RightOf
  <2>3. QED
    BY Zenon, <2>1, <2>2, <1>3
<1>9. QED
  BY ZenonT(30), <1>0, <1>2, <1>3, <1>4, <1>5, <1>6, <1>7, <1>8 DEF g, r, Merged

(* The merge with a free right neighbour.                                  *)
LEMMA MergeNextStep ==
    ASSUME NEW m, NEW s, Sound(m, s), NEW b \in DOMAIN m.hdr, ~m.hdr[b].free,
           NEW r, r = mergeNext(m, b)
    PROVE  /\ Tiles(r.hdr, s) /\ Linked(r.hdr, {b}) /\ Indexed(r.hdr, r.bins)
           /\ NoFreePair(r.hdr)
           /\ b \in DOMAIN r.hdr /\ ~r.hdr[b].free /\ DOMAIN r.hdr \subseteq DOMAIN m.hdr
           /\ ~r.hdr[b].last => ~r.hdr[Stop(r.hdr, b)].free
           /\ \A a \in DOMAIN r.hdr : a # b => r.hdr[a] = m.hdr[a]
           /\ \A a \in DOMAIN m.hdr : ~m.hdr[a].free => a \in DOMAIN r.hdr
<1> DEFINE h == m.hdr
           n == Stop(h, b)
<1>1. /\ Tiles(h, s) /\ Linked(h, {}) /\ NoFreePair(h) /\ Indexed(h, m.bins)
      /\ Typed(h) /\ RightOf(h)
  BY Zenon DEF Sound, Tiles
<1>2. nextBlock(m, b) = n
  BY Zenon DEF nextBlock, Stop
<1>3. CASE ~h[b].last /\ h[n].free
  <2> DEFINE k == removeFree(m, n)
  <2>1. r = absorb(k, b, n)
    BY Zenon, <1>2, <1>3 DEF mergeNext
  <2>2. n \in DOMAIN h /\ n # b
    BY Zenon, <1>1, <1>3 DEF RightOf
  <2>4. /\ Tiles(k.hdr, s) /\ Linked(k.hdr, {}) /\ Indexed(k.hdr, k.bins)
        /\ NoFreePair(k.hdr) /\ ClearOf(k.hdr, n)
        /\ DOMAIN k.hdr = DOMAIN h /\ ~k.hdr[n].free
        /\ \A a \in DOMAIN h : a # n => k.hdr[a] = h[a]
    <3>1. Removable(m, s, {}, n)
      BY Zenon, <1>1, <1>3, <2>2 DEF Removable
    <3>2. Removed(m, s, {}, n, k)
      BY Zenon, <3>1, RemoveFreeStep
    <3>3. QED
      BY Zenon, <3>2 DEF Removed
  <2> HIDE DEF k
  <2>5. b \in DOMAIN k.hdr /\ ~k.hdr[b].last /\ ~k.hdr[b].free /\ n = Stop(k.hdr, b)
    BY Zenon, <1>3, <2>2, <2>4 DEF Stop
  <2> HIDE DEF n
  <2>6. /\ Tiles(r.hdr, s) /\ Linked(r.hdr, {b}) /\ Indexed(r.hdr, r.bins)
        /\ NoFreePair(r.hdr)
        /\ DOMAIN r.hdr = DOMAIN k.hdr \ {n} /\ ~r.hdr[b].free
        /\ r.hdr[b].last = k.hdr[n].last /\ Stop(r.hdr, b) = Stop(k.hdr, n)
        /\ \A a \in DOMAIN r.hdr : a # b => r.hdr[a] = k.hdr[a]
    <3>1. LinkedBut(k.hdr, n)
      BY Zenon, <2>4 DEF Linked, LinkedBut
    <3>2. Mergeable(k, s, b, n)
      BY Zenon, <3>1, <2>4, <2>5 DEF Mergeable
    <3>3. Merged(k, s, b, n, r)
      BY Zenon, <3>2, <2>1, AbsorbStep
    <3>4. QED
      BY Zenon, <3>3 DEF Merged
  <2>7. ASSUME ~r.hdr[b].last PROVE ~r.hdr[Stop(r.hdr, b)].free
    <3>1. ~k.hdr[Stop(k.hdr, n)].free
      BY Zenon, <2>4, <2>6, <2>7 DEF ClearOf
    <3>2. Stop(r.hdr, b) \in DOMAIN r.hdr
      BY Zenon, <2>2, <2>4, <2>6, <2>7 DEF Tiles, RightOf
    <3>3. QED
      BY Zenon, <3>1, <3>2, <2>6
  <2>8. QED
    BY ZenonT(30), <1>3, <2>2, <2>4, <2>6, <2>7
<1>4. CASE ~(~h[b].last /\ h[n].free)
  <2>1. r = m
    BY Zenon, <1>2, <1>4 DEF mergeNext
  <2>2. Linked(h, {b})
    BY Zenon, <1>1 DEF Linked
  <2>3. QED
    BY ZenonT(30), <2>1, <2>2, <1>1, <1>4
<1>5. QED
  BY Zenon, <1>3, <1>4

(* The heap after the merge to the right of b.                             *)
HalfMerged(m, s, b) ==
    /\ Tiles(m.hdr, s) /\ Linked(m.hdr, {b}) /\ NoFreePair(m.hdr) /\ Indexed(m.hdr, m.bins)
    /\ b \in DOMAIN m.hdr /\ ~m.hdr[b].free
    /\ ~m.hdr[b].last => ~m.hdr[Stop(m.hdr, b)].free

(* The merge with a free left neighbour c.                                 *)
LEMMA MergePrevStep ==
    ASSUME NEW m, NEW s, NEW b, HalfMerged(m, s, b),
           NEW c \in DOMAIN m.hdr, Stop(m.hdr, c) = b, ~m.hdr[c].last, m.hdr[c].free,
           NEW left, left = absorb(removeFree(m, c), c, b)
    PROVE  /\ Tiles(left.hdr, s) /\ Linked(left.hdr, {c})
           /\ Indexed(left.hdr, left.bins) /\ NoFreePair(left.hdr)
           /\ c \in DOMAIN left.hdr /\ ~left.hdr[c].free /\ ClearOf(left.hdr, c)
           /\ DOMAIN left.hdr = DOMAIN m.hdr \ {b}
           /\ \A a \in DOMAIN left.hdr : a # c => left.hdr[a] = m.hdr[a]
<1> DEFINE g == m.hdr
           k == removeFree(m, c)
<1>0. /\ Tiles(g, s) /\ Linked(g, {b}) /\ NoFreePair(g) /\ Indexed(g, m.bins)
      /\ b \in DOMAIN g /\ ~g[b].free /\ (~g[b].last => ~g[Stop(g, b)].free)
  BY Zenon DEF HalfMerged
<1>1. Typed(g) /\ Sized(g) /\ RightOf(g)
  BY Zenon, <1>0 DEF Tiles
<1>2. c # b /\ Stop(g, b) # c
  BY SMTT(30), <1>0, <1>1, Sizes
<1>3. left = absorb(k, c, b)
  OBVIOUS
<1>4. /\ Tiles(k.hdr, s) /\ Linked(k.hdr, {b}) /\ Indexed(k.hdr, k.bins)
      /\ NoFreePair(k.hdr) /\ ClearOf(k.hdr, c)
      /\ DOMAIN k.hdr = DOMAIN g /\ ~k.hdr[c].free
      /\ k.hdr[c].size = g[c].size /\ k.hdr[c].last = g[c].last
      /\ \A a \in DOMAIN g : a # c => k.hdr[a] = g[a]
  <2>1. Removable(m, s, {b}, c)
    BY Zenon, <1>0 DEF Removable
  <2>2. Removed(m, s, {b}, c, k)
    BY Zenon, <2>1, RemoveFreeStep
  <2>3. QED
    BY Zenon, <2>2 DEF Removed
<1> HIDE DEF k
<1>5. /\ c \in DOMAIN k.hdr /\ b = Stop(k.hdr, c) /\ ~k.hdr[c].last /\ ~k.hdr[b].free
      /\ k.hdr[b] = g[b]
  BY Zenon, <1>0, <1>2, <1>4 DEF Stop
<1>6. LinkedBut(k.hdr, b)
  BY Zenon, <1>4 DEF LinkedBut
<1>7. /\ Tiles(left.hdr, s) /\ Linked(left.hdr, {c}) /\ Indexed(left.hdr, left.bins)
      /\ NoFreePair(left.hdr)
      /\ DOMAIN left.hdr = DOMAIN k.hdr \ {b} /\ ~left.hdr[c].free
      /\ left.hdr[c].last = k.hdr[b].last /\ Stop(left.hdr, c) = Stop(k.hdr, b)
      /\ \A a \in DOMAIN left.hdr : a # c => left.hdr[a] = k.hdr[a]
  <2>1. Mergeable(k, s, c, b)
    BY Zenon, <1>4, <1>5, <1>6 DEF Mergeable
  <2>2. Merged(k, s, c, b, left)
    BY Zenon, <2>1, <1>3, AbsorbStep
  <2>3. QED
    BY Zenon, <2>2 DEF Merged
<1>8. ASSUME ~left.hdr[c].last PROVE ~left.hdr[Stop(left.hdr, c)].free
  <2>1. ~g[b].last /\ Stop(left.hdr, c) = Stop(g, b)
    BY Zenon, <1>5, <1>7, <1>8 DEF Stop
  <2>2. ~g[Stop(g, b)].free /\ Stop(g, b) \in DOMAIN left.hdr
    BY ZenonT(30), <2>1, <1>0, <1>2, <1>4, <1>5, <1>7, <1>8 DEF Tiles, RightOf
  <2>3. QED
    BY ZenonT(30), <2>1, <2>2, <1>2, <1>4, <1>7
<1>9. ASSUME NEW d \in DOMAIN left.hdr, Stop(left.hdr, d) = c, ~left.hdr[d].last
      PROVE  ~left.hdr[d].free
  <2>1. d # c
    BY SMTT(30), <1>7, <1>9, Sizes DEF Tiles
  <2>2. d \in DOMAIN k.hdr /\ left.hdr[d] = k.hdr[d] /\ Stop(k.hdr, d) = c
    BY Zenon, <2>1, <1>7, <1>9 DEF Stop
  <2>3. QED
    BY ZenonT(30), <2>2, <1>4, <1>9 DEF ClearOf
<1>10. QED
  BY ZenonT(30), <1>2, <1>4, <1>5, <1>7, <1>8, <1>9 DEF ClearOf

Allocated(m, s, b) == Sound(m, s) /\ b \in DOMAIN m.hdr /\ ~m.hdr[b].free

(* In r, block b has grown to block, which is still out of the bins.       *)
Coalesces(m, s, b, block, r) ==
    /\ Sound(r, s) /\ block \in DOMAIN r.hdr /\ ~r.hdr[block].free /\ ClearOf(r.hdr, block)
    /\ \A a \in DOMAIN r.hdr : a # block => Same(m.hdr, r.hdr, a)
    /\ Used(r.hdr) \ {block} = Used(m.hdr) \ {b}

(* Both merges and the store in the next header: what is left for          *)
(* deallocate to do is to put block in a bin or to unmap its segment.      *)
LEMMA MergeStep ==
    ASSUME NEW m, NEW s, NEW b, Allocated(m, s, b),
           NEW right, right = mergeNext(m, b),
           NEW block, block = IF mergesPrev(right, b) THEN prevBlock(right, b) ELSE b,
           NEW r, r = tellNext(mergePrev(right, b), block)
    PROVE  Coalesces(m, s, b, block, r)
<1> DEFINE h == m.hdr
           g == right.hdr
           left == mergePrev(right, b)
<1>1. /\ Tiles(g, s) /\ Linked(g, {b}) /\ Indexed(g, right.bins) /\ NoFreePair(g)
      /\ b \in DOMAIN g /\ ~g[b].free /\ DOMAIN g \subseteq DOMAIN h
      /\ ~g[b].last => ~g[Stop(g, b)].free
      /\ \A a \in DOMAIN g : a # b => g[a] = h[a]
      /\ \A a \in DOMAIN h : ~h[a].free => a \in DOMAIN g
  BY SMTT(30), MergeNextStep DEF Allocated
<1>2. Typed(g) /\ Sized(g) /\ RightOf(g) /\ LeftOf(g) /\ Apart(g)
  BY Zenon, <1>1 DEF Tiles
<1> HIDE DEF g
<1>3. ASSUME NEW c \in DOMAIN g, Stop(g, c) = b, ~g[c].last
      PROVE  c # b /\ ~g[b].first /\ prevBlock(right, b) = c
  <2>1. c \in Nat /\ b \in Nat /\ g[c].size \in Nat /\ c + g[c].size = b /\ c # b
    BY SMTT(30), <1>1, <1>2, <1>3, Sizes DEF Stop
  <2>2. g[b].prevSize = g[c].size
    BY ZenonT(30), <2>1, <1>1, <1>3 DEF Linked
  <2>3. prevBlock(right, b) = c
    BY <2>1, <2>2 DEF prevBlock, g
  <2>4. PICK t \in s : t <= c /\ Stop(g, c) <= t + kSegmentSize
    BY Zenon, <1>1 DEF Tiles, Inside, Within
  <2>5. b \notin s
    BY Zenon, <1>1, <1>3, <2>4, NextInside
  <2>6. QED
    BY ZenonT(30), <2>1, <2>3, <2>5, <1>1 DEF Tiles, FirstTag
<1>4. /\ Tiles(left.hdr, s) /\ Linked(left.hdr, {block})
      /\ Indexed(left.hdr, left.bins) /\ NoFreePair(left.hdr)
      /\ block \in DOMAIN left.hdr /\ ~left.hdr[block].free /\ ClearOf(left.hdr, block)
      /\ \A a \in DOMAIN left.hdr : a # block => a \in DOMAIN h /\ left.hdr[a] = h[a]
      /\ Used(left.hdr) \ {block} = Used(h) \ {b}
  <2>1. CASE ~mergesPrev(right, b)
    <3>1. block = b /\ left = right
      BY Zenon, <2>1 DEF mergePrev
    <3>2. ASSUME NEW c \in DOMAIN g, Stop(g, c) = b, ~g[c].last PROVE ~g[c].free
      BY Zenon, <2>1, <3>2, <1>3 DEF mergesPrev, g
    <3>3. ClearOf(g, b)
      BY Zenon, <3>2, <1>1 DEF ClearOf
    <3>4. Used(g) \ {b} = Used(h) \ {b}
      BY Zenon, <1>1 DEF Used
    <3> HIDE DEF left
    <3>5. QED
      BY Zenon, <3>1, <3>3, <3>4, <1>1 DEF g
  <2>2. CASE mergesPrev(right, b)
    <3>1. ~g[b].first /\ g[prevBlock(right, b)].free /\ block = prevBlock(right, b)
      BY Zenon, <2>2 DEF mergesPrev, g
    <3>2. PICK c \in DOMAIN g : Stop(g, c) = b /\ ~g[c].last
      BY Zenon, <3>1, <1>1, <1>2 DEF LeftOf
    <3>3. c = block /\ c # b /\ g[c].free
      BY Zenon, <3>1, <3>2, <1>3
    <3>4. left = absorb(removeFree(right, c), c, b)
      BY ZenonT(30), <2>2, <3>1, <3>3 DEF mergePrev
    <3> HIDE DEF left
    <3>8. /\ Tiles(left.hdr, s) /\ Linked(left.hdr, {c}) /\ Indexed(left.hdr, left.bins)
          /\ NoFreePair(left.hdr)
          /\ c \in DOMAIN left.hdr /\ ~left.hdr[c].free /\ ClearOf(left.hdr, c)
          /\ DOMAIN left.hdr = DOMAIN g \ {b}
          /\ \A a \in DOMAIN left.hdr : a # c => left.hdr[a] = g[a]
      <4>1. HalfMerged(right, s, b)
        BY Zenon, <1>1 DEF HalfMerged, g
      <4>2. QED
        BY SMTT(30), <4>1, <3>2, <3>3, <3>4, MergePrevStep DEF g
    <3>10. \A a \in DOMAIN left.hdr : a # c => a \in DOMAIN h /\ left.hdr[a] = h[a]
      BY Zenon, <3>8, <1>1
    <3>11. Used(left.hdr) \ {c} = Used(h) \ {b}
      <4>1. \A a \in DOMAIN h : ~h[a].free /\ a # b => a # c
        BY Zenon, <3>3, <1>1
      <4>2. QED
        BY ZenonT(30), <4>1, <3>3, <3>8, <3>10, <1>1 DEF Used
    <3>12. QED
      BY ZenonT(30), <3>3, <3>8, <3>10, <3>11
  <2>3. QED
    BY Zenon, <2>1, <2>2
<1> DEFINE l == left.hdr
           q == r.hdr
<1>5. /\ DOMAIN q = DOMAIN l
      /\ \A a \in DOMAIN q : /\ q[a].size = l[a].size /\ q[a].first = l[a].first
                             /\ q[a].last = l[a].last /\ q[a].free = l[a].free
                             /\ Stop(q, a) = Stop(l, a)
  <2>1. SameButLinks(l, q)
    BY Zenon, <1>4, TellNextSame
  <2>2. QED
    BY Zenon, <2>1 DEF SameButLinks
<1>6. Tiles(q, s) /\ Linked(q, {})
  BY Zenon, <1>4, TellNextTiles, TellNextLinked
<1>7. r.bins = left.bins
  BY Zenon DEF tellNext
<1> HIDE DEF left, l, q
<1>8. Indexed(q, left.bins)
  BY ZenonT(30), <1>4, <1>5, IndexedFrame DEF l
<1>9. NoFreePair(q) /\ ClearOf(q, block)
  <2>1. RightOf(q)
    BY Zenon, <1>6 DEF Tiles
  <2>2. QED
    BY SMTT(30), <2>1, <1>4, <1>5 DEF NoFreePair, ClearOf, RightOf, l
<1>10. \A a \in DOMAIN q : a # block => Same(h, q, a)
  BY Zenon, <1>4, <1>5 DEF Same, l
<1>11. Used(q) = Used(l)
  BY Zenon, <1>5 DEF Used
<1>12. QED
  BY ZenonT(30), <1>4, <1>5, <1>6, <1>7, <1>8, <1>9, <1>10, <1>11 DEF Coalesces, Sound, l, q

-----------------------------------------------------------------------------
(* removeFree and splitBlock of allocate                                   *)

(* A free block large enough for totalSize bytes.                          *)
Takeable(m, s, b, totalSize) ==
    /\ Sound(m, s) /\ b \in DOMAIN m.hdr /\ m.hdr[b].free
    /\ totalSize \in Nat /\ totalSize >= 48 /\ totalSize % 16 = 0
    /\ m.hdr[b].size >= totalSize

(* In r it is allocated, and what it was cut to is still large enough.     *)
Taken(m, s, b, totalSize, r) ==
    /\ Sound(r, s) /\ b \in DOMAIN r.hdr /\ r.hdr[b].size >= totalSize
    /\ Used(r.hdr) = Used(m.hdr) \cup {b}
    /\ \A a \in DOMAIN m.hdr : a # b => Same(m.hdr, r.hdr, a)
    /\ \A a \in DOMAIN r.hdr : a \notin DOMAIN m.hdr => ~r.hdr[a].first

(* b is out of the bins, and its neighbours are allocated.                 *)
Held(m, s, b) ==
    /\ Sound(m, s) /\ b \in DOMAIN m.hdr /\ ~m.hdr[b].free /\ ClearOf(m.hdr, b)

(* In r a block b of m was cut to total bytes; x is the rest of it.        *)
WasCut(m, s, b, total, x, r) ==
    /\ Held(r, s, x) /\ x \notin DOMAIN m.hdr /\ DOMAIN r.hdr = DOMAIN m.hdr \cup {x}
    /\ ~r.hdr[b].free /\ r.hdr[b].size = total /\ ~r.hdr[x].first
    /\ \A a \in DOMAIN m.hdr : a # b => Same(m.hdr, r.hdr, a)

(* The remainder x of a cut block is ready for its bin.                    *)
LEMMA CutStep ==
    ASSUME NEW m, NEW s, NEW b, Held(m, s, b), NEW total \in Nat, total >= 48,
           total % 16 = 0, m.hdr[b].size - total >= 48,
           NEW x, x = b + total, NEW r, r = tellNext(cut(m, b, total), x)
    PROVE  WasCut(m, s, b, total, x, r)
<1> DEFINE k == m.hdr
           c == cut(m, b, total)
           u == c.hdr
           v == r.hdr
<1>1. /\ Tiles(k, s) /\ Linked(k, {}) /\ NoFreePair(k) /\ Indexed(k, m.bins)
      /\ b \in DOMAIN k /\ ~k[b].free /\ ClearOf(k, b)
      /\ Typed(k) /\ Sized(k) /\ RightOf(k)
  BY Zenon DEF Held, Sound, Tiles
<1>2. /\ b \in Nat /\ k[b].size \in Nat /\ total > 0 /\ total <= k[b].size
      /\ Stop(k, b) \in DOMAIN k => Stop(k, b) # b
  BY SMTT(30), <1>1, Sizes
<1>3. /\ DOMAIN u = DOMAIN k \cup {x} /\ x # b
      /\ \A a \in DOMAIN u : a # b /\ a # x => u[a] = k[a]
      /\ u[x].size = k[b].size - total /\ ~u[x].free /\ ~u[x].first /\ u[x].last = k[b].last
      /\ u[b].size = total /\ u[b].free = k[b].free
      /\ u[b].first = k[b].first /\ ~u[b].last
  <2>1. total > 0 /\ total <= k[b].size /\ b \in DOMAIN k /\ Typed(k)
    BY Zenon, <1>1, <1>2
  <2>2. QED
    BY SMTT(30), <2>1, CutHeader
<1>4. Tiles(u, s) /\ x \notin DOMAIN k /\ Linked(u, {x})
  BY Zenon, <1>1, CutTiles, CutLinked
<1>5. c.bins = m.bins /\ r.bins = c.bins /\ r = tellNext(c, x)
  BY ZenonT(30) DEF cut, tellNext
<1>6. /\ Stop(u, b) = x /\ Stop(u, x) = Stop(k, b)
      /\ \A a \in DOMAIN k : a # b => u[a] = k[a] /\ Stop(u, a) = Stop(k, a)
  <2> HIDE DEF c
  <2>1. QED
    BY SMTT(30), <1>2, <1>3, <1>4 DEF Stop
<1>7. /\ DOMAIN v = DOMAIN u
      /\ \A a \in DOMAIN v : /\ v[a].size = u[a].size /\ v[a].first = u[a].first
                             /\ v[a].last = u[a].last /\ v[a].free = u[a].free
                             /\ Stop(v, a) = Stop(u, a)
  <2> HIDE DEF c
  <2>1. x \in DOMAIN u
    BY Zenon, <1>3
  <2>2. SameButLinks(u, v)
    BY ZenonT(30), <2>1, <1>4, <1>5, TellNextSame
  <2>3. QED
    BY Zenon, <2>2 DEF SameButLinks
<1>8. Tiles(v, s) /\ Linked(v, {})
  <2>1. x \in DOMAIN u
    BY ZenonT(30), <1>3
  <2> HIDE DEF c
  <2>2. QED
    BY ZenonT(30), <2>1, <1>4, <1>5, TellNextTiles, TellNextLinked
<1> HIDE DEF c, u, v, k
<1>9. Indexed(v, m.bins)
  BY SMTT(30), <1>1, <1>3, <1>6, <1>7, IndexedFrame
<1>10. NoFreePair(v)
  <2> SUFFICES ASSUME NEW a \in DOMAIN v, v[a].free, ~v[a].last PROVE ~v[Stop(v, a)].free
    BY Zenon DEF NoFreePair
  <2>1. a # b /\ a # x /\ a \in DOMAIN k
    BY ZenonT(30), <1>1, <1>3, <1>7
  <2>2. k[a].free /\ ~k[a].last /\ Stop(v, a) = Stop(k, a)
    BY ZenonT(30), <2>1, <1>3, <1>6, <1>7
  <2>3. Stop(k, a) \in DOMAIN k /\ ~k[Stop(k, a)].free
    BY Zenon, <2>1, <2>2, <1>1 DEF NoFreePair, RightOf
  <2>4. QED
    BY SMTT(30), <2>2, <2>3, <1>1, <1>3, <1>6, <1>7
<1>11. ClearOf(v, x)
  <2>1. ASSUME ~v[x].last PROVE ~v[Stop(v, x)].free
    <3>1. ~k[b].last /\ Stop(v, x) = Stop(k, b)
      BY Zenon, <2>1, <1>3, <1>6, <1>7
    <3>2. Stop(k, b) \in DOMAIN k /\ ~k[Stop(k, b)].free /\ Stop(k, b) # b
      BY Zenon, <3>1, <1>1, <1>2 DEF ClearOf, RightOf
    <3>3. QED
      BY SMTT(30), <3>1, <3>2, <1>3, <1>6, <1>7
  <2>2. ASSUME NEW a \in DOMAIN v, Stop(v, a) = x, ~v[a].last PROVE ~v[a].free
    <3>a. Typed(v) /\ Sized(v) /\ Apart(v)
      BY Zenon, <1>8 DEF Tiles
    <3>b. b \in DOMAIN v /\ Stop(v, b) = x
      BY ZenonT(30), <1>1, <1>3, <1>6, <1>7
    <3>1. Typed(v) /\ Sized(v) /\ Apart(v) /\ b \in DOMAIN v /\ Stop(v, b) = x
      BY Zenon, <3>a, <3>b
    <3>2. a = b
      BY ZenonT(30), <3>1, <2>2, OneStop
    <3>3. QED
      BY ZenonT(30), <3>1, <3>2, <1>1, <1>3, <1>7
  <2>3. QED
    BY ZenonT(30), <2>1, <2>2 DEF ClearOf
<1>12. \A a \in DOMAIN k : a # b => Same(k, v, a)
  BY Zenon, <1>3, <1>6, <1>7 DEF Same
<1>13. QED
  BY ZenonT(30), <1>1, <1>3, <1>4, <1>5, <1>7, <1>8, <1>9, <1>10, <1>11, <1>12
     DEF Held, Sound, WasCut, k, v

(* The end of allocate.                                                    *)
LEMMA TakeStep ==
    ASSUME NEW m, NEW s, NEW b, NEW total, Takeable(m, s, b, total)
    PROVE  Taken(m, s, b, total, splitBlock(removeFree(m, b), b, total))
<1> DEFINE h == m.hdr
           k == removeFree(m, b)
           r == splitBlock(k, b, total)
<1> SUFFICES Taken(m, s, b, total, r)
  OBVIOUS
<1>1. /\ Tiles(h, s) /\ Linked(h, {}) /\ NoFreePair(h) /\ Indexed(h, m.bins)
      /\ b \in DOMAIN h /\ h[b].free /\ Typed(h) /\ Sized(h)
      /\ total \in Nat /\ total >= 48 /\ total % 16 = 0 /\ h[b].size >= total
  BY Zenon DEF Takeable, Sound, Tiles
<1>2. /\ Tiles(k.hdr, s) /\ Linked(k.hdr, {}) /\ Indexed(k.hdr, k.bins)
      /\ NoFreePair(k.hdr) /\ ClearOf(k.hdr, b)
      /\ DOMAIN k.hdr = DOMAIN h /\ ~k.hdr[b].free /\ k.hdr[b].size = h[b].size
      /\ \A a \in DOMAIN h : a # b => k.hdr[a] = h[a]
  <2>1. Removable(m, s, {}, b)
    BY Zenon, <1>1 DEF Removable
  <2>2. Removed(m, s, {}, b, k)
    BY Zenon, <2>1, RemoveFreeStep
  <2>3. QED
    BY Zenon, <2>2 DEF Removed
<1> HIDE DEF k
<1>3. Held(k, s, b)
  BY Zenon, <1>1, <1>2 DEF Held, Sound
<1>4. h[b].size \in Nat
  BY Zenon, <1>1, Sizes
<1>5. CASE k.hdr[b].size - total < kMinBlockSize
  <2>1. r = k
    BY Zenon, <1>5 DEF splitBlock
  <2> HIDE DEF r
  <2>2. Used(k.hdr) = Used(h) \cup {b}
    BY Zenon, <1>1, <1>2 DEF Used
  <2>3. \A a \in DOMAIN h : a # b => Same(h, k.hdr, a)
    BY ZenonT(30), <1>2 DEF Same
  <2>4. QED
    BY ZenonT(30), <2>1, <2>2, <2>3, <1>1, <1>2, <1>3 DEF Taken, Held
<1>6. CASE ~(k.hdr[b].size - total < kMinBlockSize)
  <2> DEFINE x == b + total
             v == tellNext(cut(k, b, total), x)
  <2>1. r = insertFree(v, x)
    BY Zenon, <1>6 DEF splitBlock
  <2>2. k.hdr[b].size - total >= 48
    BY SMTT(30), <1>1, <1>2, <1>4, <1>6 DEF kMinBlockSize
  <2>3. /\ Held(v, s, x) /\ x \notin DOMAIN h /\ DOMAIN v.hdr = DOMAIN h \cup {x}
        /\ ~v.hdr[b].free /\ v.hdr[b].size = total /\ ~v.hdr[x].first
        /\ \A a \in DOMAIN h : a # b => Same(k.hdr, v.hdr, a)
    <3>1. WasCut(k, s, b, total, x, v)
      BY Zenon, <2>2, <1>1, <1>3, CutStep
    <3>2. QED
      BY Zenon, <3>1, <1>2 DEF WasCut
  <2> HIDE DEF v, x, r
  <2>4. /\ Sound(v, s) /\ x \in DOMAIN v.hdr /\ ~v.hdr[x].free /\ ClearOf(v.hdr, x)
    BY ZenonT(30), <2>3 DEF Held
  <2>5. /\ Sound(r, s) /\ DOMAIN r.hdr = DOMAIN v.hdr /\ r.hdr[x].free
        /\ r.hdr[x].first = v.hdr[x].first
        /\ \A a \in DOMAIN v.hdr : a # x => r.hdr[a] = v.hdr[a]
    BY SMTT(30), <2>1, <2>4, InsertFreeStep
  <2>6. \A a \in DOMAIN h : a # b => Same(h, r.hdr, a)
    <3> SUFFICES ASSUME NEW a \in DOMAIN h, a # b PROVE Same(h, r.hdr, a)
      OBVIOUS
    <3>1. a # x /\ a \in DOMAIN v.hdr /\ Same(k.hdr, v.hdr, a)
      BY Zenon, <2>3
    <3>2. r.hdr[a] = v.hdr[a] /\ k.hdr[a] = h[a]
      BY ZenonT(30), <3>1, <2>5, <1>2
    <3>3. QED
      BY ZenonT(30), <3>1, <3>2, <2>3, <2>5, <1>2 DEF Same
  <2>7. b \in DOMAIN r.hdr /\ ~r.hdr[b].free /\ r.hdr[b].size = total
    <3>1. b # x /\ b \in DOMAIN v.hdr
      BY Zenon, <2>3, <1>1
    <3>2. QED
      BY Zenon, <3>1, <2>3, <2>5
  <2>8. Used(r.hdr) = Used(h) \cup {b}
    BY ZenonT(60), <2>3, <2>5, <2>6, <2>7, <1>1 DEF Used, Same
  <2>9. \A a \in DOMAIN r.hdr : a \notin DOMAIN h => ~r.hdr[a].first
    BY Zenon, <2>3, <2>5
  <2>10. QED
    BY SMTT(30), <2>5, <2>6, <2>7, <2>8, <2>9, <1>1 DEF Taken
<1>7. QED
  BY Zenon, <1>5, <1>6

-----------------------------------------------------------------------------
(* addSegment and the end of releaseSegment                                *)

(* The heap r is m and one more segment, one free block.                   *)
Grown(m, s, base, r) ==
    /\ Sound(r, s \cup {base}) /\ base \notin DOMAIN m.hdr
    /\ DOMAIN r.hdr = DOMAIN m.hdr \cup {base}
    /\ r.hdr[base].free /\ r.hdr[base].size = kSegmentSize
    /\ \A a \in DOMAIN m.hdr : r.hdr[a] = m.hdr[a]

(* addSegment adds one free block that is a whole segment.                 *)
LEMMA AddSegmentStep ==
    ASSUME NEW m, NEW s, Sound(m, s), NEW base \in Bases \ s
    PROVE  Grown(m, s, base, addSegment(m, base))
<1> DEFINE h == m.hdr
           n == newSegment(m, base)
           g == n.hdr
           S == s \cup {base}
           r == insertFree(n, base)
<1> SUFFICES Grown(m, s, base, r)
  BY Zenon DEF addSegment
<1>1. /\ Tiles(h, s) /\ Linked(h, {}) /\ NoFreePair(h) /\ Indexed(h, m.bins)
      /\ Typed(h) /\ RightOf(h)
  BY Zenon DEF Sound, Tiles
<1>2. Tiles(g, S) /\ base \notin DOMAIN h
  BY ZenonT(30), <1>1, NewSegmentTiles
<1>3. /\ DOMAIN g = DOMAIN h \cup {base}
      /\ \A a \in DOMAIN g : a # base => g[a] = h[a]
      /\ g[base].size = kSegmentSize /\ ~g[base].free /\ g[base].last
  BY SMTT(30), <1>1, NewSegmentHeader
<1>4. n.bins = m.bins
  BY Zenon DEF newSegment
<1> HIDE DEF n, S
<1>5. \A a \in DOMAIN h : a # base /\ g[a] = h[a] /\ Stop(g, a) = Stop(h, a)
  BY Zenon, <1>2, <1>3 DEF Stop
<1>6. Linked(g, {})
  BY Zenon, <1>1, <1>3, <1>5 DEF Linked, RightOf
<1>7. NoFreePair(g)
  BY ZenonT(30), <1>1, <1>3, <1>5 DEF NoFreePair, RightOf
<1>8. Indexed(g, m.bins)
  BY SMTT(30), <1>1, <1>3, <1>5, IndexedFrame
<1>9. ClearOf(g, base)
  BY ZenonT(30), <1>1, <1>2, <1>3, <1>5 DEF ClearOf, RightOf
<1>10. Sound(n, S) /\ base \in DOMAIN g
  BY ZenonT(30), <1>2, <1>3, <1>4, <1>6, <1>7, <1>8 DEF Sound
<1>11. /\ Sound(r, S) /\ DOMAIN r.hdr = DOMAIN g /\ r.hdr[base].free
       /\ r.hdr[base].size = g[base].size
       /\ \A a \in DOMAIN g : a # base => r.hdr[a] = g[a]
  BY SMTT(30), <1>3, <1>9, <1>10, InsertFreeStep
<1> HIDE DEF r
<1>12. QED
  BY ZenonT(30), <1>2, <1>3, <1>5, <1>11 DEF Grown, S

(* The heap r is m without the segment at b.                               *)
Shrunk(m, s, b, r) ==
    /\ Sound(r, s \ {b}) /\ DOMAIN r.hdr = DOMAIN m.hdr \ {b}
    /\ \A a \in DOMAIN r.hdr : r.hdr[a] = m.hdr[a]

(* A segment that is one block outside the bins can be unmapped.           *)
LEMMA UnmapStep ==
    ASSUME NEW m, NEW s, NEW b, Held(m, s, b), m.hdr[b].first /\ m.hdr[b].last
    PROVE  Shrunk(m, s, b, unmapped(m, b))
<1> DEFINE h == m.hdr
           r == unmapped(m, b)
           g == r.hdr
<1> SUFFICES Shrunk(m, s, b, r)
  OBVIOUS
<1>1. /\ Tiles(h, s) /\ Linked(h, {}) /\ NoFreePair(h) /\ Indexed(h, m.bins)
      /\ b \in DOMAIN h /\ ~h[b].free /\ Typed(h)
  BY Zenon DEF Held, Sound, Tiles
<1>2. Tiles(g, s \ {b})
  BY Zenon, <1>1, UnmappedTiles
<1>3. DOMAIN g = DOMAIN h \ {b} /\ \A a \in DOMAIN g : g[a] = h[a] /\ Stop(g, a) = Stop(h, a)
  BY Zenon, <1>1, UnmappedHeader DEF Stop
<1>4. r.bins = m.bins
  BY Zenon DEF unmapped
<1> HIDE DEF g, r
<1>5. RightOf(g)
  BY Zenon, <1>2 DEF Tiles
<1>6. Linked(g, {}) /\ NoFreePair(g)
  BY ZenonT(30), <1>1, <1>3, <1>5 DEF Linked, NoFreePair, RightOf
<1>7. Indexed(g, m.bins)
  BY Zenon, <1>1, <1>3, IndexedFrame
<1>8. QED
  BY ZenonT(30), <1>2, <1>3, <1>4, <1>6, <1>7 DEF Shrunk, Sound, g
=============================================================================
