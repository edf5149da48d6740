------------------------- MODULE ThreadCacheProofs -------------------------
(***************************************************************************)
(* Proofs about ThreadCache and PoolAllocator, for any number of threads,  *)
(* classes and runs, any strides and any cache and batch sizes.            *)
(***************************************************************************)
EXTENDS ThreadCache, SequenceTheorems, TLAPS

-----------------------------------------------------------------------------
(* Sequences of blocks and their sets                                      *)

(* Blocks are sequences of addresses with no address twice.                *)
Pile(s) == s \in Seq(Nat) /\ IsInjective(s)

(* The members of a sequence are its elements.                             *)
LEMMA Members ==
    ASSUME NEW s \in Seq(Nat)
    PROVE  /\ Len(s) \in Nat
           /\ \A x : x \in Range(s) <=> \E i \in 1 .. Len(s) : x = s[i]
           /\ \A i \in 1 .. Len(s) : s[i] \in Range(s) /\ s[i] \in Nat
           /\ IsInjective(s) <=> \A i, j \in 1 .. Len(s) : s[i] = s[j] => i = j
<1>1. Len(s) \in Nat /\ DOMAIN s = 1 .. Len(s) /\ \A i \in 1 .. Len(s) : s[i] \in Nat
  OBVIOUS
<1>2. \A x : x \in Range(s) <=> \E i \in 1 .. Len(s) : x = s[i]
  BY SMTT(30), <1>1 DEF Range
<1>3. IsInjective(s) <=> \A i, j \in 1 .. Len(s) : s[i] = s[j] => i = j
  BY <1>1 DEF IsInjective
<1>4. QED
  BY <1>1, <1>2, <1>3

(* A pile is empty when it has no members.                                 *)
LEMMA EmptyPile ==
    ASSUME NEW s \in Seq(Nat)
    PROVE  /\ s = <<>> <=> Range(s) = {}
           /\ s = <<>> <=> Len(s) = 0
           /\ Pile(<<>>) /\ Range(<<>>) = {}
<1>1. s = <<>> <=> Len(s) = 0
  BY EmptySeq
<1>2. <<>> \in Seq(Nat) /\ Len(<<>>) = 0
  BY EmptySeq
<1>3. Pile(<<>>) /\ Range(<<>>) = {}
  <2>1. \A i : i \notin 1 .. Len(<<>>)
    BY <1>2
  <2>2. Pile(<<>>) /\ \A x : x \notin Range(<<>>)
    BY <1>2, <2>1, Members, Zenon DEF Pile
  <2>3. QED
    BY <2>2
<1>4. s # <<>> => s[1] \in Range(s)
  BY <1>1, Members
<1>5. QED
  BY <1>1, <1>3, <1>4

(* A stretch of a pile is a pile of the elements in the stretch.           *)
LEMMA Stretch ==
    ASSUME NEW s, Pile(s), NEW r \in Seq(Nat), NEW o \in Nat, o + Len(r) <= Len(s),
           \A i \in 1 .. Len(r) : r[i] = s[o + i]
    PROVE  /\ Pile(r)
           /\ \A x : x \in Range(r) <=> \E j \in (o + 1) .. (o + Len(r)) : x = s[j]
<1>1. /\ s \in Seq(Nat) /\ Len(s) \in Nat /\ Len(r) \in Nat
      /\ \A i, j \in 1 .. Len(s) : s[i] = s[j] => i = j
  BY Members, Zenon DEF Pile
<1>2. \A i \in 1 .. Len(r) : o + i \in 1 .. Len(s) /\ o + i \in (o + 1) .. (o + Len(r))
  BY <1>1
<1>3. ASSUME NEW i \in 1 .. Len(r), NEW j \in 1 .. Len(r), r[i] = r[j] PROVE i = j
  <2>1. s[o + i] = s[o + j] /\ o + i \in 1 .. Len(s) /\ o + j \in 1 .. Len(s)
    BY <1>2, <1>3
  <2>2. o + i = o + j
    BY <1>1, <2>1
  <2>3. QED
    BY <2>2
<1>4. Pile(r)
  BY <1>3, Members, Zenon DEF Pile
<1>5. ASSUME NEW x PROVE x \in Range(r) <=> \E j \in (o + 1) .. (o + Len(r)) : x = s[j]
  <2>1. \A y : y \in Range(r) <=> \E i \in 1 .. Len(r) : y = r[i]
    BY Members, Zenon
  <2>2. ASSUME NEW i \in 1 .. Len(r), x = r[i] PROVE \E j \in (o + 1) .. (o + Len(r)) : x = s[j]
    <3>1. o + i \in (o + 1) .. (o + Len(r)) /\ x = s[o + i]
      BY <1>2, <2>2
    <3>2. QED
      BY <3>1
  <2>3. ASSUME NEW j \in (o + 1) .. (o + Len(r)), x = s[j] PROVE \E i \in 1 .. Len(r) : x = r[i]
    <3>1. j - o \in 1 .. Len(r) /\ o + (j - o) = j
      BY <1>1
    <3>2. r[j - o] = s[o + (j - o)]
      BY <3>1
    <3>3. QED
      BY SMTT(30), <2>3, <3>1, <3>2
  <2>4. QED
    BY Zenon, <2>1, <2>2, <2>3
<1>6. QED
  BY <1>4, <1>5

(* Popping a free list takes its head out of the set and nothing else.     *)
LEMMA Popped ==
    ASSUME NEW s, Pile(s), s # <<>>
    PROVE  /\ Pile(Tail(s)) /\ Head(s) \in Range(s) /\ Head(s) \in Nat
           /\ Range(Tail(s)) = Range(s) \ {Head(s)}
<1> DEFINE r == Tail(s)
<1>1. /\ s \in Seq(Nat) /\ Len(s) \in Nat /\ \A i, j \in 1 .. Len(s) : s[i] = s[j] => i = j
      /\ \A x : x \in Range(s) <=> \E i \in 1 .. Len(s) : x = s[i]
  BY Members, Zenon DEF Pile
<1>2. /\ r \in Seq(Nat) /\ Len(r) = Len(s) - 1 /\ Head(s) = s[1] /\ Len(s) >= 1
      /\ \A i \in 1 .. Len(r) : r[i] = s[i + 1]
  BY <1>1, HeadTailProperties
<1> HIDE DEF r
<1>3. Head(s) \in Range(s) /\ Head(s) \in Nat
  BY <1>1, <1>2
<1>4. 1 \in Nat /\ 1 + Len(r) <= Len(s) /\ \A i \in 1 .. Len(r) : r[i] = s[1 + i]
  BY <1>1, <1>2
<1>5. Pile(r) /\ \A x : x \in Range(r) <=> \E j \in (1 + 1) .. (1 + Len(r)) : x = s[j]
  BY <1>2, <1>4, Stretch, ZenonT(30)
<1>6. ASSUME NEW x PROVE x \in Range(r) <=> x \in Range(s) \ {Head(s)}
  <2>1. /\ \A j \in (1 + 1) .. (1 + Len(r)) : j \in 1 .. Len(s) /\ j # 1
        /\ \A j \in 1 .. Len(s) : j # 1 => j \in (1 + 1) .. (1 + Len(r))
    BY <1>1, <1>2
  <2>2. 1 \in 1 .. Len(s)
    BY <1>1, <1>2
  <2>3. QED
    BY SMTT(30), <1>1, <1>2, <1>5, <2>1, <2>2
<1>7. QED
  BY <1>3, <1>5, <1>6 DEF r

(* A slice of a pile is a pile, and two slices that meet share nothing.    *)
LEMMA Slice ==
    ASSUME NEW s, Pile(s), NEW k \in 0 .. Len(s)
    PROVE  /\ Pile(SubSeq(s, 1, k)) /\ Len(SubSeq(s, 1, k)) = k
           /\ Pile(SubSeq(s, k + 1, Len(s)))
           /\ Range(SubSeq(s, 1, k)) \cup Range(SubSeq(s, k + 1, Len(s))) = Range(s)
           /\ Range(SubSeq(s, 1, k)) \cap Range(SubSeq(s, k + 1, Len(s))) = {}
<1> DEFINE front == SubSeq(s, 1, k)
           back == SubSeq(s, k + 1, Len(s))
<1>1. /\ s \in Seq(Nat) /\ Len(s) \in Nat /\ \A i \in 1 .. Len(s) : s[i] \in Nat
      /\ \A i, j \in 1 .. Len(s) : s[i] = s[j] => i = j
  BY Members DEF Pile
<1>2. /\ front \in Seq(Nat) /\ Len(front) = k
      /\ \A i \in 1 .. k : front[i] = s[i]
  <2>1. \A i \in 1 .. k : s[i] \in Nat
    BY <1>1
  <2>2. QED
    BY <1>1, <2>1, SubSeqProperties
<1>3. /\ back \in Seq(Nat) /\ Len(back) = Len(s) - k
      /\ \A i \in 1 .. (Len(s) - k) : back[i] = s[k + i]
  <2>1. \A i \in (k + 1) .. Len(s) : s[i] \in Nat
    BY <1>1
  <2>2. /\ back \in Seq(Nat) /\ Len(back) = IF k + 1 <= Len(s) THEN Len(s) - (k + 1) + 1 ELSE 0
        /\ \A i \in 1 .. (Len(s) - (k + 1) + 1) : back[i] = s[(k + 1) + i - 1]
    BY <1>1, <2>1, SubSeqProperties
  <2>3. QED
    BY <1>1, <2>2
<1> HIDE DEF front, back
<1>4. /\ \A x : x \in Range(front) <=> \E j \in (0 + 1) .. (0 + Len(front)) : x = s[j]
      /\ Pile(front)
  <2>1. 0 \in Nat /\ 0 + Len(front) <= Len(s) /\ \A i \in 1 .. Len(front) : front[i] = s[0 + i]
    BY <1>1, <1>2
  <2>2. QED
    BY <1>2, <2>1, Stretch, Zenon
<1>5. /\ \A x : x \in Range(back) <=> \E j \in (k + 1) .. (k + Len(back)) : x = s[j]
      /\ Pile(back)
  <2>1. k \in Nat /\ k + Len(back) <= Len(s) /\ \A i \in 1 .. Len(back) : back[i] = s[k + i]
    BY <1>1, <1>3
  <2>2. QED
    BY <1>3, <2>1, Stretch, ZenonT(30)
<1>6. /\ \A j \in (0 + 1) .. (0 + Len(front)) : j \in 1 .. Len(s)
      /\ \A j \in (k + 1) .. (k + Len(back)) : j \in 1 .. Len(s)
      /\ \A j \in 1 .. Len(s) : j \in (0 + 1) .. (0 + Len(front)) \/ j \in (k + 1) .. (k + Len(back))
      /\ \A i \in (0 + 1) .. (0 + Len(front)), j \in (k + 1) .. (k + Len(back)) : i # j
  BY <1>1, <1>2, <1>3
<1>7. \A x : x \in Range(s) <=> \E i \in 1 .. Len(s) : x = s[i]
  BY <1>1, Members, Zenon
<1>8. \A x : x \in Range(s) <=> x \in Range(front) \/ x \in Range(back)
  BY <1>4, <1>5, <1>6, <1>7
<1>9. ASSUME NEW x \in Range(front), x \in Range(back) PROVE FALSE
  <2>1. PICK i \in (0 + 1) .. (0 + Len(front)) : x = s[i]
    BY <1>4
  <2>2. PICK j \in (k + 1) .. (k + Len(back)) : x = s[j]
    BY <1>5, <1>9
  <2>3. i = j
    BY Zenon, <1>1, <1>6, <2>1, <2>2
  <2>4. QED
    BY <1>6, <2>3
<1>10. QED
  BY <1>2, <1>4, <1>5, <1>8, <1>9 DEF front, back

(* allocateBlock takes the last slot out of the set and nothing else.      *)
LEMMA Shortened ==
    ASSUME NEW s, Pile(s), s # <<>>
    PROVE  /\ Pile(BelowTop(s)) /\ Top(s) \in Range(s) /\ Top(s) \in Nat
           /\ Range(BelowTop(s)) = Range(s) \ {Top(s)} /\ Len(BelowTop(s)) = Len(s) - 1
<1>1. s \in Seq(Nat) /\ Len(s) \in Nat \ {0}
  BY EmptySeq DEF Pile
<1>2. Len(s) - 1 \in 0 .. Len(s) /\ (Len(s) - 1) + 1 = Len(s)
  BY <1>1
<1>3. /\ Pile(BelowTop(s)) /\ Len(BelowTop(s)) = Len(s) - 1
      /\ Range(BelowTop(s)) \cup Range(SubSeq(s, Len(s), Len(s))) = Range(s)
      /\ Range(BelowTop(s)) \cap Range(SubSeq(s, Len(s), Len(s))) = {}
  BY <1>2, Slice DEF BelowTop
<1>4. Range(SubSeq(s, Len(s), Len(s))) = {s[Len(s)]}
  <2>1. /\ SubSeq(s, Len(s), Len(s)) \in Seq(Nat) /\ Len(SubSeq(s, Len(s), Len(s))) = 1
        /\ SubSeq(s, Len(s), Len(s))[1] = s[Len(s)]
    <3>1. \A i \in Len(s) .. Len(s) : s[i] \in Nat
      BY <1>1
    <3>2. QED
      BY <1>1, <3>1, SubSeqProperties
  <2>2. \A i : i \in 1 .. Len(SubSeq(s, Len(s), Len(s))) <=> i = 1
    BY <2>1
  <2>3. \A x : x \in Range(SubSeq(s, Len(s), Len(s)))
                <=> \E i \in 1 .. Len(SubSeq(s, Len(s), Len(s))) : x = SubSeq(s, Len(s), Len(s))[i]
    BY <2>1, Members, Zenon
  <2>4. \A x : x \in Range(SubSeq(s, Len(s), Len(s))) <=> x = s[Len(s)]
    BY <2>1, <2>2, <2>3, Zenon
  <2>5. QED
    BY <2>4
<1>5. s[Len(s)] \in Range(s) /\ s[Len(s)] \in Nat
  BY <1>1, <1>3, <1>4
<1>6. QED
  BY <1>1, <1>3, <1>4, <1>5 DEF Top

(* Storing a block that is not there.                                      *)
LEMMA Stored ==
    ASSUME NEW s, Pile(s), NEW x \in Nat, x \notin Range(s)
    PROVE  /\ Pile(Append(s, x)) /\ Len(Append(s, x)) = Len(s) + 1
           /\ Range(Append(s, x)) = Range(s) \cup {x}
<1> DEFINE r == Append(s, x)
<1>1. /\ s \in Seq(Nat) /\ Len(s) \in Nat
      /\ \A i, j \in 1 .. Len(s) : s[i] = s[j] => i = j
      /\ \A y : y \in Range(s) <=> \E i \in 1 .. Len(s) : y = s[i]
  BY Members, Zenon DEF Pile
<1>2. /\ r \in Seq(Nat) /\ Len(r) = Len(s) + 1
      /\ \A i \in 1 .. Len(s) : r[i] = s[i]
      /\ r[Len(s) + 1] = x
  BY <1>1, AppendProperties
<1> HIDE DEF r
<1>3. /\ \A i \in 1 .. Len(r) : i \in 1 .. Len(s) \/ i = Len(s) + 1
      /\ \A i \in 1 .. Len(s) : i \in 1 .. Len(r)
      /\ Len(s) + 1 \in 1 .. Len(r)
  BY <1>1, <1>2
<1>4. \A i, j \in 1 .. Len(r) : r[i] = r[j] => i = j
  BY Zenon, <1>1, <1>2, <1>3
<1>5. Pile(r) /\ \A y : y \in Range(r) <=> \E i \in 1 .. Len(r) : y = r[i]
  BY <1>2, <1>4, Members, Zenon DEF Pile
<1>6. \A y : y \in Range(r) <=> y \in Range(s) \/ y = x
  <2>1. \A y : y \in Range(r) => y \in Range(s) \/ y = x
    BY SMTT(30), <1>1, <1>2, <1>3, <1>5
  <2>2. \A i \in 1 .. Len(s) : s[i] \in Range(r)
    BY SMTT(30), <1>2, <1>3, <1>5
  <2>3. \A y : y \in Range(s) => y \in Range(r)
    BY <1>1, <2>2
  <2>4. x \in Range(r)
    BY <1>2, <1>3, <1>5
  <2>5. QED
    BY <2>1, <2>3, <2>4
<1>7. QED
  BY <1>2, <1>5, <1>6 DEF r

(* Pushing blocks one by one puts the last in front, and loses none.       *)
LEMMA PushedAll ==
    ASSUME NEW s, Pile(s), NEW l, Pile(l), Range(s) \cap Range(l) = {}
    PROVE  /\ Pile(Reversed(s) \o l)
           /\ Range(Reversed(s) \o l) = Range(s) \cup Range(l)
<1> DEFINE n == Len(s)
           r == Reversed(s)
           w == r \o l
<1>1. /\ s \in Seq(Nat) /\ n \in Nat /\ \A i, j \in 1 .. n : s[i] = s[j] => i = j
      /\ \A x : x \in Range(s) <=> \E i \in 1 .. n : x = s[i]
  BY Members, Zenon DEF Pile
<1>2. /\ l \in Seq(Nat) /\ Len(l) \in Nat /\ \A i, j \in 1 .. Len(l) : l[i] = l[j] => i = j
      /\ \A x : x \in Range(l) <=> \E i \in 1 .. Len(l) : x = l[i]
  BY Members, Zenon DEF Pile
<1>3. \A i \in 1 .. n : (n - i) + 1 \in 1 .. n /\ s[(n - i) + 1] \in Nat
  BY <1>1
<1>4. /\ r \in Seq(Nat) /\ Len(r) = n
      /\ \A i \in 1 .. n : r[i] = s[(n - i) + 1]
  BY <1>1, <1>3 DEF Reversed
<1> HIDE DEF r
<1>5. /\ w \in Seq(Nat) /\ Len(w) = n + Len(l)
      /\ \A i \in 1 .. Len(w) : w[i] = IF i <= n THEN s[(n - i) + 1] ELSE l[i - n]
  BY SMTT(30), <1>1, <1>2, <1>4, ConcatProperties
<1> HIDE DEF w, n
<1>6. ASSUME NEW i \in 1 .. Len(w)
      PROVE  \/ i <= n /\ (n - i) + 1 \in 1 .. n /\ w[i] = s[(n - i) + 1] /\ w[i] \in Range(s)
             \/ ~(i <= n) /\ i - n \in 1 .. Len(l) /\ w[i] = l[i - n] /\ w[i] \in Range(l)
  <2>1. CASE i <= n
    <3>1. (n - i) + 1 \in 1 .. n /\ w[i] = s[(n - i) + 1]
      BY <1>1, <1>5, <2>1
    <3>2. QED
      BY <1>1, <2>1, <3>1
  <2>2. CASE ~(i <= n)
    <3>1. i - n \in 1 .. Len(l) /\ w[i] = l[i - n]
      BY <1>1, <1>2, <1>5, <2>2
    <3>2. QED
      BY <1>2, <2>2, <3>1
  <2>3. QED
    BY <2>1, <2>2
<1>7. ASSUME NEW i \in 1 .. Len(w), NEW j \in 1 .. Len(w), w[i] = w[j] PROVE i = j
  <2>1. CASE i <= n /\ j <= n
    <3>1. (n - i) + 1 = (n - j) + 1
      BY <1>1, <1>6, <1>7, <2>1
    <3>2. QED
      BY <1>1, <3>1
  <2>2. CASE ~(i <= n) /\ ~(j <= n)
    <3>1. i - n = j - n
      BY Zenon, <1>2, <1>6, <1>7, <2>2
    <3>2. QED
      BY <1>1, <3>1
  <2>3. QED
    BY <1>6, <1>7, <2>1, <2>2
<1>8. Pile(w) /\ \A x : x \in Range(w) <=> \E i \in 1 .. Len(w) : x = w[i]
  BY <1>5, <1>7, Members, Zenon DEF Pile
<1>9. \A x : x \in Range(w) => x \in Range(s) \/ x \in Range(l)
  BY <1>6, <1>8
<1>10. \A x : x \in Range(s) => x \in Range(w)
  <2>1. ASSUME NEW i \in 1 .. n PROVE s[i] \in Range(w)
    <3>1. /\ (n - i) + 1 \in 1 .. Len(w) /\ (n - i) + 1 <= n /\ (n - ((n - i) + 1)) + 1 = i
      BY <1>1, <1>2, <1>5
    <3>2. w[(n - i) + 1] = s[i]
      BY <1>5, <3>1
    <3>3. QED
      BY <1>8, <3>1, <3>2
  <2>2. QED
    BY <1>1, <2>1
<1>11. \A x : x \in Range(l) => x \in Range(w)
  <2>1. ASSUME NEW i \in 1 .. Len(l) PROVE l[i] \in Range(w)
    <3>1. n + i \in 1 .. Len(w) /\ ~(n + i <= n) /\ (n + i) - n = i
      BY <1>1, <1>2, <1>5
    <3>2. w[n + i] = l[i]
      BY SMTT(30), <1>5, <3>1
    <3>3. QED
      BY <1>8, <3>1, <3>2
  <2>2. QED
    BY <1>2, <2>1
<1>12. QED
  BY <1>8, <1>9, <1>10, <1>11 DEF r, w

-----------------------------------------------------------------------------
(* Carving runs into blocks                                                *)

(* Carved(c) and the state of the bump cursor, of a shard by itself: the   *)
(* cursor is at a multiple of the stride in the run mapped last.           *)
CarvedOf(shard, c) ==
    {a \in UNION {Slots(run, c) : run \in shard.runs} :
        shard.bumpCursor <= a => shard.bumpEnd <= a}

Carving(shard, c) ==
    \/ shard.bumpCursor = nullptr /\ shard.runs = {}
    \/ \E run \in shard.runs, k \in Nat :
          /\ shard.bumpCursor = run + k * blockStride[c]
          /\ shard.bumpCursor <= run + kRunSize
          /\ shard.bumpEnd = run + kRunSize

(* One stride more.                                                        *)
LEMMA Times ==
    ASSUME NEW k \in Nat, NEW n \in Nat
    PROVE  k * n \in Nat /\ (k + 1) * n = k * n + n
OBVIOUS

(* A shard with another free list or another cursor is a shard.            *)
LEMMA ShardFields ==
    ASSUME NEW shard \in Shard
    PROVE  /\ \A l \in Seq(Nat) : [shard EXCEPT !.freeList = l] \in Shard
           /\ \A m \in BOOLEAN : [shard EXCEPT !.mutex = m] \in Shard
           /\ \A cur \in Nat : [shard EXCEPT !.bumpCursor = cur] \in Shard
           /\ \A cur, end \in Nat, rs \in SUBSET Runs :
                 [shard EXCEPT !.bumpCursor = cur, !.bumpEnd = end, !.runs = rs] \in Shard
BY Zenon DEF Shard

(* A multiple of the stride is a slot when the block that starts there     *)
(* ends within the run.                                                    *)
LEMMA SlotOfRun ==
    ASSUME NEW c \in Class, NEW run \in Nat
    PROVE  \A a : a \in Slots(run, c) <=>
               \E k \in Nat : a = run + k * blockStride[c] /\ (k + 1) * blockStride[c] <= kRunSize
<1> DEFINE n == blockStride[c]
           q == kRunSize \div n
<1>1. n \in Nat \ {0} /\ kRunSize \in Nat
  BY StrideAssumption
<1>2. q \in Nat /\ q * n <= kRunSize /\ kRunSize < (q + 1) * n
  BY <1>1
<1>3. ASSUME NEW k \in Nat PROVE k \in 0 .. (q - 1) <=> (k + 1) * n <= kRunSize
  <2>1. k + 1 <= q => (k + 1) * n <= q * n
    BY <1>1, <1>2
  <2>2. q + 1 <= k + 1 => (q + 1) * n <= (k + 1) * n
    BY <1>1, <1>2
  <2>3. (k + 1) * n \in Nat /\ q * n \in Nat /\ (q + 1) * n \in Nat
    BY <1>1, <1>2
  <2>4. QED
    BY <1>1, <1>2, <2>1, <2>2, <2>3
<1>4. QED
  BY <1>2, <1>3 DEF Slots

(* A block lies within its run.                                            *)
LEMMA SlotBounds ==
    ASSUME NEW c \in Class, NEW run \in Nat, NEW a \in Slots(run, c)
    PROVE  /\ blockStride[c] \in Nat \ {0} /\ kRunSize \in Nat
           /\ a \in Nat /\ run <= a /\ a + blockStride[c] <= run + kRunSize
<1>1. blockStride[c] \in Nat \ {0} /\ kRunSize \in Nat
  BY StrideAssumption
<1>2. PICK k \in Nat : a = run + k * blockStride[c] /\ (k + 1) * blockStride[c] <= kRunSize
  BY SlotOfRun
<1>3. k * blockStride[c] \in Nat /\ (k + 1) * blockStride[c] = k * blockStride[c] + blockStride[c]
  BY Zenon, <1>1, Times
<1>4. QED
  BY <1>1, <1>2, <1>3

(* Two blocks of one run do not overlap.                                   *)
LEMMA SlotsApart ==
    ASSUME NEW c \in Class, NEW run \in Nat, NEW a \in Slots(run, c), NEW b \in Slots(run, c)
    PROVE  a = b \/ a + blockStride[c] <= b \/ b + blockStride[c] <= a
<1> DEFINE n == blockStride[c]
<1>1. n \in Nat \ {0}
  BY StrideAssumption
<1>2. PICK k \in Nat : a = run + k * n
  BY SlotOfRun
<1>3. PICK j \in Nat : b = run + j * n
  BY SlotOfRun
<1>4. k < j => (k + 1) * n <= j * n
  BY <1>1
<1>5. j < k => (j + 1) * n <= k * n
  BY <1>1
<1>6. /\ k * n \in Nat /\ j * n \in Nat
      /\ (k + 1) * n = k * n + n /\ (j + 1) * n = j * n + n
  BY <1>1
<1> HIDE DEF n
<1>7. a = b \/ a + n <= b \/ b + n <= a
  BY SMTT(30), <1>1, <1>2, <1>3, <1>4, <1>5, <1>6
<1>8. QED
  BY <1>7 DEF n

(* Two blocks of two runs do not overlap, whatever their classes.          *)
LEMMA RunsHoldApart ==
    ASSUME NEW c \in Class, NEW d \in Class, NEW r \in Runs, NEW s \in Runs, r # s,
           NEW a \in Slots(r, c), NEW b \in Slots(s, d)
    PROVE  a + blockStride[c] <= b \/ b + blockStride[d] <= a
<1>1. r \in Nat /\ s \in Nat /\ (r + kRunSize <= s \/ s + kRunSize <= r)
  BY RunAssumption
<1>2. QED
  BY <1>1, SlotBounds

(* takeBlock at the cursor: the block was not carved before, and is now.   *)
LEMMA Bumped ==
    ASSUME NEW c \in Class, NEW shard \in Shard, Carving(shard, c), ~exhausted(shard, c)
    PROVE  LET s == bump(shard, c).shard
               block == bump(shard, c).block
           IN  /\ block \in Nat /\ block \notin CarvedOf(shard, c)
               /\ s \in Shard /\ Carving(s, c)
               /\ CarvedOf(s, c) = CarvedOf(shard, c) \cup {block}
               /\ s.mutex = shard.mutex /\ s.freeList = shard.freeList /\ s.runs = shard.runs
<1> DEFINE s == bump(shard, c).shard
           cur == shard.bumpCursor
           end == shard.bumpEnd
           n == blockStride[c]
<1>1. /\ n \in Nat \ {0} /\ kRunSize \in Nat /\ Runs \subseteq Nat
      /\ shard.runs \subseteq Runs
  BY StrideAssumption, RunAssumption DEF Shard
<1>2. PICK r \in shard.runs, k \in Nat : cur = r + k * n /\ end = r + kRunSize
  BY DEF Carving, exhausted
<1>3. /\ r \in Nat /\ k * n \in Nat /\ (k + 1) * n = k * n + n /\ cur \in Nat /\ end \in Nat
      /\ cur + n <= end
  <2>1. r \in Nat /\ k * n \in Nat /\ (k + 1) * n = k * n + n
    BY Zenon, <1>1, Times
  <2>2. cur # nullptr /\ ~(end - cur < n)
    BY DEF exhausted
  <2>3. QED
    BY <1>1, <1>2, <2>1, <2>2
<1>4. /\ s = [shard EXCEPT !.bumpCursor = cur + n] /\ bump(shard, c).block = cur
  BY DEF bump
<1>5. /\ s \in Shard /\ s.bumpCursor = cur + n /\ s.bumpEnd = end
      /\ s.mutex = shard.mutex /\ s.freeList = shard.freeList /\ s.runs = shard.runs
  <2>1. cur + n \in Nat
    BY <1>1, <1>3
  <2>2. s \in Shard
    BY <1>4, <2>1, ShardFields, Zenon
  <2>3. QED
    BY Zenon, <1>4, <2>2 DEF Shard
<1> HIDE DEF s
<1>6. Carving(s, c)
  <2>1. cur + n = r + (k + 1) * n /\ cur + n <= r + kRunSize /\ k + 1 \in Nat
    BY SMTT(30), <1>1, <1>2, <1>3
  <2>2. QED
    BY SMTT(30), <1>2, <1>5, <2>1 DEF Carving
<1>7. cur \in Slots(r, c)
  BY <1>1, <1>2, <1>3, SlotOfRun
<1>8. cur \notin CarvedOf(shard, c)
  BY <1>1, <1>3 DEF CarvedOf
<1>9. ASSUME NEW run \in shard.runs, NEW a \in Slots(run, c)
      PROVE  (cur + n <= a => end <= a) <=> ((cur <= a => end <= a) \/ a = cur)
  <2>1. /\ run \in Nat /\ a \in Nat /\ run <= a /\ a + n <= run + kRunSize
    BY Zenon, <1>1, SlotBounds
  <2>2. CASE run = r
    <3>1. a = cur \/ a + n <= cur \/ cur + n <= a
      BY <1>3, <1>7, <2>2, SlotsApart
    <3>2. QED
      BY SMTT(30), <1>1, <1>2, <1>3, <2>1, <2>2, <3>1
  <2>3. CASE run # r
    <3>1. run + kRunSize <= r \/ r + kRunSize <= run
      BY Zenon, <1>1, <2>3, RunAssumption
    <3>2. QED
      BY <1>1, <1>2, <1>3, <2>1, <3>1
  <2>4. QED
    BY <2>2, <2>3
<1>10. CarvedOf(s, c) = CarvedOf(shard, c) \cup {cur}
  <2>1. \A a : a \in CarvedOf(s, c) => a \in CarvedOf(shard, c) \/ a = cur
    BY <1>5, <1>9 DEF CarvedOf
  <2>2. \A a : a \in CarvedOf(shard, c) => a \in CarvedOf(s, c)
    BY <1>5, <1>9 DEF CarvedOf
  <2>3. cur \in CarvedOf(s, c)
    BY SMTT(30), <1>2, <1>5, <1>7, <1>9 DEF CarvedOf
  <2>4. QED
    BY SMTT(30), <2>1, <2>2, <2>3
<1>11. QED
  BY SMTT(30), <1>3, <1>4, <1>5, <1>6, <1>8, <1>10 DEF s

(* refill comes when every block of every run has been carved, and carves  *)
(* none by itself.                                                         *)
LEMMA Refilled ==
    ASSUME NEW c \in Class, NEW shard \in Shard, Carving(shard, c), exhausted(shard, c),
           NEW run \in Runs \ shard.runs
    PROVE  LET s == refill(shard, run)
           IN  /\ s \in Shard /\ Carving(s, c) /\ ~exhausted(s, c)
               /\ CarvedOf(s, c) = CarvedOf(shard, c)
               /\ s.mutex = shard.mutex /\ s.freeList = shard.freeList
               /\ s.runs = shard.runs \cup {run}
               /\ \A r \in shard.runs : Slots(r, c) \subseteq CarvedOf(shard, c)
<1> DEFINE s == refill(shard, run)
           n == blockStride[c]
<1>1. /\ n \in 1 .. kRunSize /\ kRunSize \in Nat /\ Runs \subseteq Nat
      /\ shard.runs \subseteq Runs /\ run \in Nat
  BY StrideAssumption, RunAssumption DEF Shard
<1>2. /\ s \in Shard /\ s.bumpCursor = run /\ s.bumpEnd = run + kRunSize
      /\ s.mutex = shard.mutex /\ s.freeList = shard.freeList
      /\ s.runs = shard.runs \cup {run}
  <2>1. s = [shard EXCEPT !.bumpCursor = run, !.bumpEnd = run + kRunSize, !.runs = shard.runs \cup {run}]
    BY DEF refill
  <2>2. run + kRunSize \in Nat /\ shard.runs \cup {run} \in SUBSET Runs
    BY <1>1
  <2>3. \A e \in Nat, rs \in SUBSET Runs :
           [shard EXCEPT !.bumpCursor = run, !.bumpEnd = e, !.runs = rs] \in Shard
    BY <1>1, ShardFields, Zenon
  <2>4. s \in Shard
    BY <2>1, <2>2, <2>3, ZenonT(60)
  <2>5. QED
    BY <2>1, <2>4 DEF Shard
<1> HIDE DEF s
<1>3. Carving(s, c)
  <2>1. run = run + 0 * n /\ run <= run + kRunSize
    BY <1>1
  <2>2. QED
    BY <1>2, <2>1 DEF Carving
<1>4. ~exhausted(s, c)
  BY <1>1, <1>2 DEF exhausted, nullptr
<1>5. ASSUME NEW r \in shard.runs, NEW a \in Slots(r, c)
      PROVE  shard.bumpCursor <= a => shard.bumpEnd <= a
  <2>1. PICK r0 \in shard.runs, k \in Nat :
           /\ shard.bumpCursor = r0 + k * n /\ shard.bumpEnd = r0 + kRunSize
    BY DEF Carving
  <2>2. /\ r0 \in Nat /\ r \in Nat /\ k * n \in Nat
        /\ shard.bumpEnd - shard.bumpCursor < n
    <3>1. r0 \in Nat /\ r \in Nat /\ k * n \in Nat
      <4>1. r0 \in Nat /\ r \in Nat
        BY Zenon, <1>1, <1>5, <2>1
      <4>2. n \in Nat
        BY <1>1
      <4>3. QED
        BY <4>1, <4>2, Times
    <3>2. shard.bumpCursor # nullptr
      BY <2>1, <3>1 DEF nullptr
    <3>3. QED
      BY <3>1, <3>2 DEF exhausted
  <2>3. a \in Nat /\ r <= a /\ a + n <= r + kRunSize
    BY Zenon, <1>1, SlotBounds
  <2>4. r # r0 => r + kRunSize <= r0 \/ r0 + kRunSize <= r
    BY Zenon, <1>1, RunAssumption
  <2>5. QED
    BY <1>1, <2>1, <2>2, <2>3, <2>4
<1>6. ASSUME NEW r \in shard.runs, NEW a \in Slots(r, c) PROVE run <= a => run + kRunSize <= a
  <2>1. r \in Nat /\ (r + kRunSize <= run \/ run + kRunSize <= r)
    BY Zenon, <1>1, RunAssumption
  <2>2. QED
    BY <1>1, <2>1, SlotBounds
<1>7. ASSUME NEW a \in Slots(run, c) PROVE ~(run <= a => run + kRunSize <= a)
  BY <1>1, SlotBounds
<1>8. CarvedOf(s, c) = CarvedOf(shard, c)
  <2>1. \A a : a \in CarvedOf(s, c) => a \in CarvedOf(shard, c)
    BY SMTT(30), <1>2, <1>5, <1>7 DEF CarvedOf
  <2>2. \A a : a \in CarvedOf(shard, c) => a \in CarvedOf(s, c)
    BY <1>2, <1>6 DEF CarvedOf
  <2>3. QED
    BY Zenon, <2>1, <2>2
<1>9. \A r \in shard.runs : Slots(r, c) \subseteq CarvedOf(shard, c)
  BY <1>5 DEF CarvedOf
<1>10. QED
  BY SMTT(30), <1>2, <1>3, <1>4, <1>8, <1>9 DEF s

-----------------------------------------------------------------------------
(* The inductive invariant                                                 *)

(* The blocks of a class: each in one place, and those places hold what    *)
(* has been carved.                                                        *)
Places(c) ==
    /\ Pile(shards[c].freeList)
    /\ \A t \in Threads : Pile(slots[t][c])
    /\ InList(c) \cap owned[c] = {}
    /\ \A t \in Threads : InCache(t, c) \cap InList(c) = {} /\ InCache(t, c) \cap owned[c] = {}
    /\ \A t, u \in Threads : t # u => InCache(t, c) \cap InCache(u, c) = {}
    /\ \A a : a \in CarvedOf(shards[c], c) <=>
                 a \in InList(c) \/ a \in owned[c] \/ \E t \in Threads : a \in InCache(t, c)
    /\ Carving(shards[c], c)

RunsOfOneClass ==
    \A c, d \in Class : c # d => shards[c].runs \cap shards[d].runs = {}

(* A shard is locked by the one thread in its allocateBatch.               *)
Locks ==
    /\ \A t \in Threads : pc[t] = "batch" => shards[at[t]].mutex
    /\ \A t, u \in Threads : pc[t] = "batch" /\ pc[u] = "batch" /\ at[t] = at[u] => t = u
    /\ \A c \in Class : shards[c].mutex => \E t \in Threads : pc[t] = "batch" /\ at[t] = c

(* ~ThreadCache has emptied the classes it has passed.                     *)
Emptied ==
    \A t \in Threads, c \in Class :
        pc[t] = "gone" \/ (pc[t] = "exit" /\ c < at[t]) => slots[t][c] = <<>>

IInv ==
    /\ TypeOK
    /\ \A c \in Class : Places(c)
    /\ RunsOfOneClass /\ Locks /\ Emptied /\ CacheBound

(* The invariant holds before the first call.                              *)
LEMMA InitInv == Init => IInv
<1> SUFFICES ASSUME Init PROVE IInv
  OBVIOUS
<1>1. 0 \in Class /\ kCapacity \in Nat
  BY ClassAssumption, CacheAssumption DEF Class
<1>2. <<>> \in Seq(Nat) /\ Len(<<>>) = 0 /\ Pile(<<>>) /\ Range(<<>>) = {}
  BY Zenon, EmptyPile, EmptySeq
<1>3. \A c \in Class : /\ shards[c].freeList = <<>> /\ shards[c].runs = {} /\ ~shards[c].mutex
                       /\ shards[c].bumpCursor = nullptr
  BY DEF Init, InitShards
<1>4. /\ \A c \in Class, t \in Threads : slots[t][c] = <<>>
      /\ \A c \in Class : owned[c] = {}
      /\ \A t \in Threads : pc[t] = "idle"
  BY DEF Init
<1>5. shards \in [Class -> Shard]
  <2>1. [mutex |-> FALSE, freeList |-> <<>>, bumpCursor |-> nullptr,
         bumpEnd |-> nullptr, runs |-> {}] \in Shard
    BY <1>2 DEF Shard
  <2>2. QED
    BY <2>1 DEF Init, InitShards
<1>6. TypeOK
  BY SMTT(30), <1>1, <1>2, <1>5 DEF Init, TypeOK
<1>7. ASSUME NEW c \in Class PROVE Places(c)
  <2>1. InList(c) = {} /\ \A t \in Threads : InCache(t, c) = {}
    BY <1>2, <1>3, <1>4 DEF InList, InCache
  <2>2. \A a : a \notin CarvedOf(shards[c], c)
    BY <1>3 DEF CarvedOf
  <2>3. Carving(shards[c], c)
    BY <1>3 DEF Carving
  <2>4. QED
    BY SMTT(30), <1>2, <1>3, <1>4, <2>1, <2>2, <2>3 DEF Places
<1>8. RunsOfOneClass /\ Locks /\ Emptied /\ CacheBound
  BY <1>1, <1>2, <1>3, <1>4 DEF RunsOfOneClass, Locks, Emptied, CacheBound
<1>9. QED
  BY <1>6, <1>7, <1>8 DEF IInv

-----------------------------------------------------------------------------
(* What a step of thread t on class c leaves alone                         *)

Elsewhere(t, c) ==
    /\ shards' \in [Class -> Shard] /\ \A d \in Class : d # c => shards'[d] = shards[d]
    /\ slots' \in [Threads -> [Class -> Seq(Nat)]]
    /\ \A u \in Threads, d \in Class : u # t \/ d # c => slots'[u][d] = slots[u][d]
    /\ owned' \in [Class -> SUBSET Nat] /\ \A d \in Class : d # c => owned'[d] = owned[d]
    /\ shards'[c].runs \subseteq shards[c].runs \cup Unmapped

(* The other classes keep their blocks, and no two classes share a run.    *)
LEMMA ElsewhereInv ==
    ASSUME IInv, NEW t \in Threads, NEW c \in Class, Elsewhere(t, c)
    PROVE  /\ \A d \in Class : d # c => Places(d)'
           /\ RunsOfOneClass'
           /\ \A u \in Threads : u # t => InCache(u, c)' = InCache(u, c)
<1>1. ASSUME NEW d \in Class, d # c PROVE Places(d)'
  <2>1. /\ shards'[d] = shards[d] /\ owned'[d] = owned[d]
        /\ \A u \in Threads : slots'[u][d] = slots[u][d]
    BY <1>1 DEF Elsewhere
  <2>2. InList(d)' = InList(d) /\ \A u \in Threads : InCache(u, d)' = InCache(u, d)
    BY <2>1 DEF InList, InCache
  <2>3. QED
    BY <2>1, <2>2 DEF IInv, Places
<1>2. RunsOfOneClass'
  <2>1. ASSUME NEW d \in Class, d # c PROVE shards'[c].runs \cap shards'[d].runs = {}
    <3>1. shards[c].runs \cap shards[d].runs = {} /\ Unmapped \cap shards[d].runs = {}
      BY <2>1 DEF IInv, RunsOfOneClass, Unmapped
    <3>2. QED
      BY Zenon, <2>1, <3>1 DEF Elsewhere
  <2>2. \A d, e \in Class : d # c /\ e # c /\ d # e => shards'[d].runs \cap shards'[e].runs = {}
    BY Zenon DEF IInv, RunsOfOneClass, Elsewhere
  <2>3. QED
    BY <2>1, <2>2 DEF RunsOfOneClass
<1>3. \A u \in Threads : u # t => InCache(u, c)' = InCache(u, c)
  BY DEF Elsewhere, InCache
<1>4. QED
  BY SMTT(30), <1>1, <1>2, <1>3

(* Steps that leave every mutex and every thread where it is.              *)
LEMMA StillLocks ==
    ASSUME IInv, UNCHANGED <<pc, at>>, \A c \in Class : shards'[c].mutex = shards[c].mutex
    PROVE  Locks'
BY Zenon DEF IInv, TypeOK, Locks

(* An update of a shard.                                                   *)
LEMMA UpdateShard ==
    ASSUME TypeOK, NEW c \in Class, NEW s \in Shard, shards' = [shards EXCEPT ![c] = s]
    PROVE  /\ shards' \in [Class -> Shard] /\ shards'[c] = s
           /\ \A d \in Class : d # c => shards'[d] = shards[d]
BY DEF TypeOK

(* An update of a class's blocks in callers' hands.                        *)
LEMMA UpdateOwned ==
    ASSUME TypeOK, NEW c \in Class, NEW v \in SUBSET Nat, owned' = [owned EXCEPT ![c] = v]
    PROVE  /\ owned' \in [Class -> SUBSET Nat] /\ owned'[c] = v
           /\ \A d \in Class : d # c => owned'[d] = owned[d]
BY ZenonT(30) DEF TypeOK

(* takeBlock gives a block that nobody has: from the free list, or carved  *)
(* just now; it maps a run only when no block is left.                     *)
LEMMA Taken ==
    ASSUME IInv, NEW c \in Class, NEW taken \in takeBlock(c)
    PROVE  \/ taken.block = nullptr /\ taken.shard = shards[c]
           \/ /\ taken.block \in Nat /\ taken.shard \in Shard /\ Carving(taken.shard, c)
              /\ taken.shard.mutex = shards[c].mutex
              /\ Pile(taken.shard.freeList)
              /\ Range(taken.shard.freeList) = InList(c) \ {taken.block}
              /\ CarvedOf(taken.shard, c) = CarvedOf(shards[c], c) \cup {taken.block}
              /\ taken.block \in InList(c) \/ taken.block \notin CarvedOf(shards[c], c)
              /\ taken.shard.runs \subseteq shards[c].runs \cup Unmapped
              /\ taken.shard.runs # shards[c].runs
                    => /\ InList(c) = {}
                       /\ \A run \in shards[c].runs : Slots(run, c) \subseteq CarvedOf(shards[c], c)
<1> DEFINE shard == shards[c]
<1>1. shard \in Shard /\ Pile(shard.freeList) /\ Carving(shard, c) /\ shard.freeList \in Seq(Nat)
  BY DEF IInv, TypeOK, Places, Pile
<1>2. InList(c) \subseteq CarvedOf(shard, c)
  BY SMTT(30) DEF IInv, Places
<1>3. CASE shard.freeList # <<>>
  <2>1. /\ taken.block = Head(shard.freeList)
        /\ taken.shard = [shard EXCEPT !.freeList = Tail(shard.freeList)]
    BY <1>3 DEF takeBlock
  <2>2. /\ Pile(Tail(shard.freeList)) /\ taken.block \in InList(c) /\ taken.block \in Nat
        /\ Range(Tail(shard.freeList)) = InList(c) \ {taken.block}
    BY <1>1, <1>3, <2>1, Popped DEF InList
  <2>3. taken.shard \in Shard
    <3>1. Tail(shard.freeList) \in Seq(Nat)
      BY <2>2 DEF Pile
    <3>2. QED
      BY <1>1, <2>1, <3>1, ShardFields, Zenon
  <2>4. /\ taken.shard.freeList = Tail(shard.freeList) /\ taken.shard.mutex = shard.mutex
        /\ taken.shard.runs = shard.runs /\ taken.shard.bumpCursor = shard.bumpCursor
        /\ taken.shard.bumpEnd = shard.bumpEnd
    BY <1>1, <2>1 DEF Shard
  <2>5. CarvedOf(taken.shard, c) = CarvedOf(shard, c) /\ Carving(taken.shard, c)
    BY ZenonT(30), <1>1, <2>4 DEF CarvedOf, Carving
  <2>6. QED
    BY SMTT(30), <1>2, <2>2, <2>3, <2>4, <2>5
<1>4. CASE shard.freeList = <<>> /\ ~exhausted(shard, c)
  <2>1. taken = bump(shard, c)
    BY <1>4 DEF takeBlock
  <2>2. InList(c) = {}
    BY ZenonT(30), <1>1, <1>4, EmptyPile DEF InList
  <2>3. QED
    BY <1>1, <1>4, <2>1, <2>2, Bumped DEF InList
<1>5. CASE shard.freeList = <<>> /\ exhausted(shard, c)
  <2>1. InList(c) = {}
    BY ZenonT(60), <1>1, <1>5, EmptyPile DEF InList
  <2>2. CASE taken = [block |-> nullptr, shard |-> shard]
    BY ZenonT(30), <2>2
  <2>3. ASSUME NEW run \in Unmapped, taken = bump(refill(shard, run), c)
        PROVE  /\ taken.block \in Nat /\ taken.shard \in Shard /\ Carving(taken.shard, c)
               /\ taken.shard.mutex = shard.mutex
               /\ taken.shard.freeList = shard.freeList
               /\ CarvedOf(taken.shard, c) = CarvedOf(shard, c) \cup {taken.block}
               /\ taken.block \notin CarvedOf(shard, c)
               /\ taken.shard.runs = shard.runs \cup {run}
               /\ \A r \in shard.runs : Slots(r, c) \subseteq CarvedOf(shard, c)
    <3> DEFINE s == refill(shard, run)
    <3>1. run \in Runs \ shard.runs
      BY DEF Unmapped
    <3>2. /\ s \in Shard /\ Carving(s, c) /\ ~exhausted(s, c)
          /\ CarvedOf(s, c) = CarvedOf(shard, c)
          /\ s.mutex = shard.mutex /\ s.freeList = shard.freeList
          /\ s.runs = shard.runs \cup {run}
          /\ \A r \in shard.runs : Slots(r, c) \subseteq CarvedOf(shard, c)
      BY ZenonT(30), <1>1, <1>5, <3>1, Refilled
    <3> HIDE DEF s
    <3>3. /\ bump(s, c).block \in Nat /\ bump(s, c).block \notin CarvedOf(s, c)
          /\ bump(s, c).shard \in Shard /\ Carving(bump(s, c).shard, c)
          /\ CarvedOf(bump(s, c).shard, c) = CarvedOf(s, c) \cup {bump(s, c).block}
          /\ bump(s, c).shard.mutex = s.mutex /\ bump(s, c).shard.freeList = s.freeList
          /\ bump(s, c).shard.runs = s.runs
      BY <3>2, Bumped
    <3>4. taken = bump(s, c)
      BY <2>3 DEF s
    <3>5. QED
      BY SMTT(30), <3>2, <3>3, <3>4
  <2>4. taken = [block |-> nullptr, shard |-> shard]
        \/ \E run \in Unmapped : taken = bump(refill(shard, run), c)
    BY Zenon, <1>5 DEF takeBlock
  <2>5. QED
    BY <1>1, <2>1, <2>2, <2>3, <2>4 DEF InList
<1>6. QED
  BY SMTT(30), <1>3, <1>4, <1>5

(* The rest of the invariant, after a step of thread t on class c that     *)
(* does not exit.                                                          *)
LEMMA Settled ==
    ASSUME IInv, NEW t \in Threads, NEW c \in Class, Elsewhere(t, c), Places(c)', Locks',
           cached' \subseteq Threads,
           pc' \in [Threads -> {"idle", "batch", "exit", "gone"}], at' \in [Threads -> Class],
           \A u \in Threads : u # t => pc'[u] = pc[u] /\ at'[u] = at[u],
           pc'[t] \in {"idle", "batch"}, pc'[t] = "batch" => at'[t] = c,
           Len(slots'[t][c]) <= kCapacity,
           pc'[t] = "batch" => Len(slots'[t][c]) <= kBatchSize
    PROVE  IInv'
<1>1. TypeOK'
  BY SMTT(30) DEF TypeOK, Elsewhere
<1>2. (\A d \in Class : Places(d)') /\ RunsOfOneClass'
  BY ElsewhereInv
<1>3. \A u \in Threads, d \in Class : u # t \/ d # c => slots'[u][d] = slots[u][d]
  BY DEF Elsewhere
<1>4. Emptied'
  BY SMTT(30), <1>3 DEF IInv, Emptied
<1>5. CacheBound'
  BY <1>3 DEF IInv, CacheBound
<1>6. QED
  BY SMTT(30), <1>1, <1>2, <1>4, <1>5 DEF IInv

(* A stuttering step keeps the invariant.                                  *)
LEMMA NoStep ==
    ASSUME IInv, UNCHANGED vars
    PROVE  IInv'
BY ZenonT(60) DEF vars, IInv, TypeOK, Places, RunsOfOneClass, Locks, Emptied, CacheBound, InList, InCache

(* PoolAllocator::allocateBlock.                                           *)
LEMMA AllocateBlockInv ==
    ASSUME IInv, NEW t \in Threads, NEW c \in Class, allocateBlock(t, c)
    PROVE  IInv'
<1>1. PICK taken \in takeBlock(c) :
         /\ shards' = [shards EXCEPT ![c] = taken.shard]
         /\ IF taken.block = nullptr THEN UNCHANGED owned ELSE HandOut(c, taken.block)
  BY Zenon DEF allocateBlock
<1>2. pc[t] = "idle" /\ UNCHANGED <<cached, slots, pc, at>>
  BY DEF allocateBlock
<1>3. TypeOK /\ Places(c)
  BY DEF IInv
<1>4. CASE taken.block = nullptr /\ taken.shard = shards[c]
  <2>1. shards' = shards
    BY <1>1, <1>3, <1>4 DEF TypeOK
  <2>2. QED
    BY <1>1, <1>2, <1>4, <2>1, NoStep DEF vars
<1>5. CASE /\ taken.block \in Nat /\ taken.shard \in Shard /\ Carving(taken.shard, c)
           /\ taken.shard.mutex = shards[c].mutex
           /\ Pile(taken.shard.freeList)
           /\ Range(taken.shard.freeList) = InList(c) \ {taken.block}
           /\ CarvedOf(taken.shard, c) = CarvedOf(shards[c], c) \cup {taken.block}
           /\ taken.block \in InList(c) \/ taken.block \notin CarvedOf(shards[c], c)
           /\ taken.shard.runs \subseteq shards[c].runs \cup Unmapped
  <2>1. owned' = [owned EXCEPT ![c] = owned[c] \cup {taken.block}]
    BY <1>1, <1>5 DEF HandOut, nullptr
  <2>2. /\ shards' \in [Class -> Shard] /\ shards'[c] = taken.shard
        /\ \A d \in Class : d # c => shards'[d] = shards[d]
    BY ZenonT(60), <1>1, <1>3, <1>5, UpdateShard
  <2>3. /\ owned' \in [Class -> SUBSET Nat] /\ owned'[c] = owned[c] \cup {taken.block}
        /\ \A d \in Class : d # c => owned'[d] = owned[d]
    <3>1. owned[c] \cup {taken.block} \in SUBSET Nat
      BY Zenon, <1>3, <1>5 DEF TypeOK
    <3>2. QED
      BY <1>3, <2>1, <3>1, UpdateOwned, Zenon
  <2>4. Elsewhere(t, c)
    BY Zenon, <1>2, <1>3, <1>5, <2>2, <2>3 DEF Elsewhere, TypeOK
  <2>5. /\ InList(c)' = InList(c) \ {taken.block}
        /\ \A u \in Threads : InCache(u, c)' = InCache(u, c)
    BY Zenon, <1>2, <1>5, <2>2 DEF InList, InCache
  <2>6. /\ taken.block \notin owned[c]
        /\ \A u \in Threads : taken.block \notin InCache(u, c)
    BY ZenonT(30), <1>3, <1>5 DEF Places
  <2>7. Places(c)'
    BY SMTT(30), <1>2, <1>3, <1>5, <2>2, <2>3, <2>5, <2>6 DEF Places
  <2>8. Locks'
    BY SMTT(30), <1>2, <1>5, <2>2, StillLocks
  <2>9. /\ Len(slots'[t][c]) <= kCapacity /\ pc'[t] = "idle" /\ cached' \subseteq Threads
        /\ pc' \in [Threads -> {"idle", "batch", "exit", "gone"}] /\ at' \in [Threads -> Class]
        /\ \A u \in Threads : u # t => pc'[u] = pc[u] /\ at'[u] = at[u]
    BY <1>2 DEF IInv, CacheBound, TypeOK
  <2>10. QED
    BY ZenonT(30), <2>4, <2>7, <2>8, <2>9, Settled
<1>6. QED
  BY <1>4, <1>5, Taken

(* The last slot goes to the caller.                                       *)
LEMMA PopSlotPlaces ==
    ASSUME IInv, NEW t \in Threads, NEW c \in Class, slots[t][c] # <<>>, PopSlot(t, c),
           shards' \in [Class -> Shard], \A d \in Class : d # c => shards'[d] = shards[d],
           \/ shards'[c] = shards[c]
           \/ shards'[c] = [shards[c] EXCEPT !.mutex = FALSE]
    PROVE  Elsewhere(t, c) /\ Places(c)' /\ Len(slots'[t][c]) <= kCapacity
<1> DEFINE block == Top(slots[t][c])
<1>1. TypeOK /\ Places(c) /\ Pile(slots[t][c]) /\ slots[t][c] \in Seq(Nat)
  BY DEF IInv, Places, TypeOK
<1>2. /\ Pile(BelowTop(slots[t][c])) /\ block \in InCache(t, c) /\ block \in Nat
      /\ Range(BelowTop(slots[t][c])) = InCache(t, c) \ {block}
      /\ Len(BelowTop(slots[t][c])) = Len(slots[t][c]) - 1
  BY <1>1, Shortened DEF InCache
<1>3. /\ slots' \in [Threads -> [Class -> Seq(Nat)]] /\ slots'[t][c] = BelowTop(slots[t][c])
      /\ \A u \in Threads, d \in Class : u # t \/ d # c => slots'[u][d] = slots[u][d]
  <2>1. BelowTop(slots[t][c]) \in Seq(Nat) /\ slots' = [slots EXCEPT ![t][c] = BelowTop(slots[t][c])]
    BY <1>1, <1>2 DEF Pile, PopSlot, TypeOK
  <2>2. QED
    BY <1>1, <2>1 DEF TypeOK
<1> HIDE DEF block
<1>4. /\ owned' \in [Class -> SUBSET Nat] /\ owned'[c] = owned[c] \cup {block}
      /\ \A d \in Class : d # c => owned'[d] = owned[d]
  <2>1. /\ owned[c] \cup {block} \in SUBSET Nat
        /\ owned' = [owned EXCEPT ![c] = owned[c] \cup {block}]
    BY <1>1, <1>2 DEF PopSlot, HandOut, TypeOK, block
  <2>2. QED
    BY <1>1, <2>1, UpdateOwned, Zenon
<1>5. /\ shards'[c].freeList = shards[c].freeList /\ shards'[c].runs = shards[c].runs
      /\ shards'[c].bumpCursor = shards[c].bumpCursor /\ shards'[c].bumpEnd = shards[c].bumpEnd
  BY <1>1 DEF TypeOK, Shard
<1>6. Elsewhere(t, c)
  BY <1>3, <1>4, <1>5 DEF Elsewhere
<1>7. CarvedOf(shards[c], c)' = CarvedOf(shards[c], c) /\ Carving(shards[c], c)'
  BY <1>1, <1>5 DEF CarvedOf, Carving, Places
<1>8. /\ InList(c)' = InList(c) /\ InCache(t, c)' = InCache(t, c) \ {block}
      /\ \A u \in Threads : u # t => InCache(u, c)' = InCache(u, c)
  BY <1>2, <1>3, <1>5 DEF InList, InCache
<1>9. Places(c)'
  <2>1. \A u \in Threads : Pile(slots'[u][c])
    BY ZenonT(60), <1>1, <1>2, <1>3 DEF Places
  <2>2. QED
    BY SMTT(30), <1>1, <1>2, <1>4, <1>5, <1>7, <1>8, <2>1 DEF Places
<1>10. Len(slots'[t][c]) <= kCapacity
  <2>1. Len(slots[t][c]) \in Nat /\ Len(slots[t][c]) <= kCapacity /\ kCapacity \in Nat
    BY <1>1, CacheAssumption DEF IInv, CacheBound
  <2>2. QED
    BY <1>2, <1>3, <2>1
<1>11. QED
  BY <1>6, <1>9, <1>10

(* A shard whose mutex or free list changed has carved what it had.        *)
LEMMA SameCarving ==
    ASSUME NEW c \in Class, NEW s, NEW r, Carving(s, c), r.runs = s.runs,
           r.bumpCursor = s.bumpCursor, r.bumpEnd = s.bumpEnd
    PROVE  CarvedOf(r, c) = CarvedOf(s, c) /\ Carving(r, c)
BY DEF CarvedOf, Carving

(* ThreadCache::allocateBlock with a cached block.                         *)
LEMMA AllocateHitInv ==
    ASSUME IInv, NEW t \in Threads, NEW c \in Class, allocateHit(t, c)
    PROVE  IInv'
<1>1. /\ pc[t] = "idle" /\ slots[t][c] # <<>> /\ PopSlot(t, c)
      /\ UNCHANGED <<shards, cached, pc, at>>
  BY DEF allocateHit
<1>2. Elsewhere(t, c) /\ Places(c)' /\ Len(slots'[t][c]) <= kCapacity
  BY <1>1, PopSlotPlaces DEF IInv, TypeOK
<1>3. Locks'
  BY <1>1, StillLocks
<1>4. /\ pc'[t] = "idle" /\ cached' \subseteq Threads
      /\ pc' \in [Threads -> {"idle", "batch", "exit", "gone"}] /\ at' \in [Threads -> Class]
      /\ \A u \in Threads : u # t => pc'[u] = pc[u] /\ at'[u] = at[u]
  BY SMTT(30), <1>1 DEF IInv, TypeOK
<1>5. QED
  BY <1>2, <1>3, <1>4, Settled

(* allocateBatch takes the mutex of a shard that nobody has locked.        *)
LEMMA AllocateMissInv ==
    ASSUME IInv, NEW t \in Threads, NEW c \in Class, allocateMiss(t, c)
    PROVE  IInv'
<1>1. /\ pc[t] = "idle" /\ slots[t][c] = <<>> /\ ~shards[c].mutex
      /\ shards' = [shards EXCEPT ![c] = [shards[c] EXCEPT !.mutex = TRUE]]
      /\ cached' = cached \cup {t} /\ pc' = [pc EXCEPT ![t] = "batch"]
      /\ at' = [at EXCEPT ![t] = c] /\ UNCHANGED <<slots, owned>>
  BY DEF allocateMiss, Unlocked
<1>2. TypeOK /\ Places(c) /\ shards[c] \in Shard
  BY DEF IInv, TypeOK
<1>3. /\ shards' \in [Class -> Shard] /\ shards'[c] = [shards[c] EXCEPT !.mutex = TRUE]
      /\ \A d \in Class : d # c => shards'[d] = shards[d]
  <2>1. [shards[c] EXCEPT !.mutex = TRUE] \in Shard
    BY <1>2, ShardFields, Zenon
  <2>2. QED
    BY <1>1, <1>2, <2>1, UpdateShard, Zenon
<1>4. /\ shards'[c].freeList = shards[c].freeList /\ shards'[c].runs = shards[c].runs
      /\ shards'[c].bumpCursor = shards[c].bumpCursor /\ shards'[c].bumpEnd = shards[c].bumpEnd
      /\ shards'[c].mutex
  BY <1>2, <1>3 DEF Shard
<1>5. Elsewhere(t, c)
  BY ZenonT(30), <1>1, <1>2, <1>3, <1>4 DEF Elsewhere, TypeOK
<1>6. CarvedOf(shards[c], c)' = CarvedOf(shards[c], c) /\ Carving(shards[c], c)'
  BY <1>2, <1>4, SameCarving DEF Places
<1>7. InList(c)' = InList(c) /\ \A u \in Threads : InCache(u, c)' = InCache(u, c)
  BY <1>1, <1>4 DEF InList, InCache
<1>8. Places(c)'
  BY <1>1, <1>2, <1>4, <1>6, <1>7 DEF Places
<1>9. /\ pc'[t] = "batch" /\ at'[t] = c /\ cached' \subseteq Threads
      /\ pc' \in [Threads -> {"idle", "batch", "exit", "gone"}] /\ at' \in [Threads -> Class]
      /\ \A u \in Threads : u # t => pc'[u] = pc[u] /\ at'[u] = at[u]
  BY <1>1, <1>2 DEF TypeOK
<1>10. Locks'
  <2>1. \A u \in Threads : pc[u] = "batch" => at[u] # c
    BY SMTT(30), <1>1 DEF IInv, Locks
  <2>2. \A u \in Threads : pc'[u] = "batch" => shards'[at'[u]].mutex
    <3>1. ASSUME NEW u \in Threads, u # t, pc'[u] = "batch" PROVE shards'[at'[u]].mutex
      BY SMTT(30), <1>2, <1>3, <1>9, <2>1, <3>1 DEF IInv, Locks, TypeOK
    <3>2. QED
      BY <1>4, <1>9, <3>1
  <2>3. \A u, v \in Threads : pc'[u] = "batch" /\ pc'[v] = "batch" /\ at'[u] = at'[v] => u = v
    BY <1>9, <2>1 DEF IInv, Locks
  <2>4. \A d \in Class : shards'[d].mutex => \E u \in Threads : pc'[u] = "batch" /\ at'[u] = d
    BY <1>1, <1>3, <1>9 DEF IInv, Locks
  <2>5. QED
    BY <2>2, <2>3, <2>4 DEF Locks
<1>11. Len(slots'[t][c]) <= kCapacity /\ Len(slots'[t][c]) <= kBatchSize
  BY <1>1, EmptySeq, CacheAssumption
<1>12. QED
  BY <1>5, <1>8, <1>9, <1>10, <1>11, Settled

(* One turn of allocateBatch.                                              *)
LEMMA BatchTakeInv ==
    ASSUME IInv, NEW t \in Threads, batchTake(t)
    PROVE  IInv'
<1>0. PICK c \in Class : c = at[t]
  BY DEF IInv, TypeOK
<1> DEFINE mine == slots[t][c]
<1>1. /\ pc[t] = "batch" /\ ~(Len(mine) >= kBatchSize) /\ UNCHANGED <<cached, pc, at, owned>>
  BY ZenonT(30), <1>0 DEF batchTake, BatchFull
<1>2. TypeOK /\ Places(c) /\ mine \in Seq(Nat) /\ Pile(mine)
  BY DEF IInv, TypeOK, Places
<1>3. PICK taken \in takeBlock(c) :
         /\ taken.block # nullptr
         /\ shards' = [shards EXCEPT ![c] = taken.shard]
         /\ slots' = [slots EXCEPT ![t][c] = Append(mine, taken.block)]
  BY Zenon, <1>0, <1>2 DEF batchTake, TypeOK
<1>4. /\ taken.block \in Nat /\ taken.shard \in Shard /\ Carving(taken.shard, c)
      /\ taken.shard.mutex = shards[c].mutex
      /\ Pile(taken.shard.freeList)
      /\ Range(taken.shard.freeList) = InList(c) \ {taken.block}
      /\ CarvedOf(taken.shard, c) = CarvedOf(shards[c], c) \cup {taken.block}
      /\ taken.block \in InList(c) \/ taken.block \notin CarvedOf(shards[c], c)
      /\ taken.shard.runs \subseteq shards[c].runs \cup Unmapped
  BY ZenonT(30), <1>2, <1>3, Taken
<1>5. /\ taken.block \notin owned[c]
      /\ \A u \in Threads : taken.block \notin InCache(u, c)
  BY <1>2, <1>4 DEF Places
<1>6. /\ shards' \in [Class -> Shard] /\ shards'[c] = taken.shard
      /\ \A d \in Class : d # c => shards'[d] = shards[d]
  BY <1>2, <1>3, <1>4, UpdateShard, ZenonT(30)
<1>7. /\ Pile(Append(mine, taken.block)) /\ Len(Append(mine, taken.block)) = Len(mine) + 1
      /\ Range(Append(mine, taken.block)) = InCache(t, c) \cup {taken.block}
  BY SMTT(30), <1>2, <1>4, <1>5, Stored DEF InCache
<1>8. /\ slots' \in [Threads -> [Class -> Seq(Nat)]] /\ slots'[t][c] = Append(mine, taken.block)
      /\ \A u \in Threads, d \in Class : u # t \/ d # c => slots'[u][d] = slots[u][d]
  <2>1. Append(mine, taken.block) \in Seq(Nat)
    BY Zenon, <1>7 DEF Pile
  <2>2. QED
    BY <1>2, <1>3, <2>1 DEF TypeOK
<1>9. Elsewhere(t, c)
  BY Zenon, <1>1, <1>2, <1>4, <1>6, <1>8 DEF Elsewhere, TypeOK
<1>10. /\ InList(c)' = InList(c) \ {taken.block} /\ InCache(t, c)' = InCache(t, c) \cup {taken.block}
       /\ \A u \in Threads : u # t => InCache(u, c)' = InCache(u, c)
  BY ZenonT(30), <1>2, <1>4, <1>6, <1>7, <1>8 DEF InList, InCache
<1>11. Places(c)'
  <2>1. \A u \in Threads : Pile(slots'[u][c])
    BY Zenon, <1>2, <1>7, <1>8 DEF Places
  <2>2. InList(c)' \cap owned'[c] = {}
    BY Zenon, <1>1, <1>2, <1>10 DEF Places
  <2>3. ASSUME NEW u \in Threads
        PROVE  InCache(u, c)' \cap InList(c)' = {} /\ InCache(u, c)' \cap owned'[c] = {}
    <3>1. InCache(u, c) \cap InList(c) = {} /\ InCache(u, c) \cap owned[c] = {}
      BY Zenon, <1>2 DEF Places
    <3>2. InCache(u, c)' \subseteq InCache(u, c) \cup {taken.block}
      BY Zenon, <1>10
    <3>3. QED
      BY Zenon, <1>1, <1>5, <1>10, <3>1, <3>2
  <2>4. ASSUME NEW u \in Threads, NEW w \in Threads, u # w
        PROVE  InCache(u, c)' \cap InCache(w, c)' = {}
    <3>1. InCache(u, c) \cap InCache(w, c) = {}
      BY Zenon, <1>2, <2>4 DEF Places
    <3>2. QED
      BY Zenon, <1>5, <1>10, <2>4, <3>1
  <2>5. ASSUME NEW a
        PROVE  a \in CarvedOf(shards[c], c)' <=>
                a \in InList(c)' \/ a \in owned'[c] \/ \E u \in Threads : a \in InCache(u, c)'
    <3>1. (\E u \in Threads : a \in InCache(u, c)')
            <=> a = taken.block \/ \E u \in Threads : a \in InCache(u, c)
      BY Zenon, <1>10
    <3>2. a \in CarvedOf(shards[c], c) <=>
            a \in InList(c) \/ a \in owned[c] \/ \E u \in Threads : a \in InCache(u, c)
      BY ZenonT(30), <1>2 DEF Places
    <3>3. a \in CarvedOf(shards[c], c)' <=> a \in CarvedOf(shards[c], c) \/ a = taken.block
      BY <1>4, <1>6 DEF CarvedOf
    <3>4. QED
      BY Zenon, <1>1, <1>10, <3>1, <3>2, <3>3
  <2>6. Pile(shards[c].freeList)' /\ Carving(shards[c], c)'
    BY ZenonT(30), <1>4, <1>6 DEF Carving, Pile
  <2>7. QED
    BY Zenon, <2>1, <2>2, <2>3, <2>4, <2>5, <2>6 DEF Places
<1>12. Locks'
  BY SMTT(30), <1>1, <1>4, <1>6, StillLocks
<1>13. /\ pc'[t] = "batch" /\ at'[t] = c /\ cached' \subseteq Threads
       /\ pc' \in [Threads -> {"idle", "batch", "exit", "gone"}] /\ at' \in [Threads -> Class]
       /\ \A u \in Threads : u # t => pc'[u] = pc[u] /\ at'[u] = at[u]
  BY SMTT(30), <1>0, <1>1, <1>2 DEF TypeOK
<1>14. Len(slots'[t][c]) <= kBatchSize /\ Len(slots'[t][c]) <= kCapacity
  <2>1. Len(mine) \in Nat
    BY <1>2
  <2>2. QED
    BY SMTT(30), <1>1, <1>7, <1>8, <2>1, CacheAssumption
<1>15. QED
  BY Zenon, <1>2, <1>9, <1>11, <1>12, <1>13, <1>14, Settled

(* allocateBatch releases the mutex; allocateBlock returns a block if the  *)
(* batch got one.                                                          *)
LEMMA BatchEndInv ==
    ASSUME IInv, NEW t \in Threads, batchEnd(t)
    PROVE  IInv'
<1>1. PICK c \in Class : c = at[t]
  BY DEF IInv, TypeOK
<1>2. /\ pc[t] = "batch" /\ pc' = [pc EXCEPT ![t] = "idle"]
      /\ shards' = [shards EXCEPT ![c] = [shards[c] EXCEPT !.mutex = FALSE]]
      /\ IF slots[t][c] = <<>> THEN UNCHANGED <<slots, owned>> ELSE PopSlot(t, c)
      /\ UNCHANGED <<cached, at>>
  BY <1>1 DEF batchEnd
<1>3. TypeOK /\ Places(c) /\ shards[c] \in Shard
  BY DEF IInv, TypeOK
<1>4. /\ shards' \in [Class -> Shard] /\ shards'[c] = [shards[c] EXCEPT !.mutex = FALSE]
      /\ \A d \in Class : d # c => shards'[d] = shards[d]
  <2>1. [shards[c] EXCEPT !.mutex = FALSE] \in Shard
    BY <1>3, ShardFields, Zenon
  <2>2. QED
    BY <1>2, <1>3, <2>1, UpdateShard, Zenon
<1>5. /\ shards'[c].freeList = shards[c].freeList /\ shards'[c].runs = shards[c].runs
      /\ shards'[c].bumpCursor = shards[c].bumpCursor /\ shards'[c].bumpEnd = shards[c].bumpEnd
      /\ ~shards'[c].mutex
  BY <1>3, <1>4 DEF Shard
<1>6. Elsewhere(t, c) /\ Places(c)' /\ Len(slots'[t][c]) <= kCapacity
  <2>1. CASE slots[t][c] = <<>>
    <3>1. UNCHANGED <<slots, owned>>
      BY <1>2, <2>1
    <3>2. Elsewhere(t, c)
      BY Zenon, <1>3, <1>4, <1>5, <3>1 DEF Elsewhere, TypeOK
    <3>3. CarvedOf(shards[c], c)' = CarvedOf(shards[c], c) /\ Carving(shards[c], c)'
      BY Zenon, <1>3, <1>5, SameCarving DEF Places
    <3>4. InList(c)' = InList(c) /\ \A u \in Threads : InCache(u, c)' = InCache(u, c)
      BY SMTT(30), <1>5, <3>1 DEF InList, InCache
    <3>5. Places(c)'
      BY SMTT(30), <1>3, <1>5, <3>1, <3>3, <3>4 DEF Places
    <3>6. Len(slots'[t][c]) <= kCapacity
      BY Zenon, <3>1 DEF IInv, CacheBound
    <3>7. QED
      BY Zenon, <3>2, <3>5, <3>6
  <2>2. CASE slots[t][c] # <<>>
    BY Zenon, <1>2, <1>4, <2>2, PopSlotPlaces
  <2>3. QED
    BY Zenon, <2>1, <2>2
<1>7. /\ pc'[t] = "idle" /\ cached' \subseteq Threads
      /\ pc' \in [Threads -> {"idle", "batch", "exit", "gone"}] /\ at' \in [Threads -> Class]
      /\ \A u \in Threads : u # t => pc'[u] = pc[u] /\ at'[u] = at[u]
  BY <1>2, <1>3 DEF TypeOK
<1>8. Locks'
  <2>1. \A u \in Threads : u # t /\ pc[u] = "batch" => at[u] # c
    BY <1>1, <1>2 DEF IInv, Locks
  <2>2. \A u \in Threads : pc'[u] = "batch" => shards'[at'[u]].mutex
    <3>1. ASSUME NEW u \in Threads, u # t, pc'[u] = "batch" PROVE shards'[at'[u]].mutex
      BY SMTT(30), <1>3, <1>4, <1>7, <2>1, <3>1 DEF IInv, Locks, TypeOK
    <3>2. QED
      BY <1>7, <3>1
  <2>3. \A u, v \in Threads : pc'[u] = "batch" /\ pc'[v] = "batch" /\ at'[u] = at'[v] => u = v
    BY <1>7 DEF IInv, Locks
  <2>4. ASSUME NEW d \in Class, shards'[d].mutex
        PROVE  \E u \in Threads : pc'[u] = "batch" /\ at'[u] = d
    <3>1. d # c /\ shards[d].mutex
      BY Zenon, <1>4, <1>5, <2>4
    <3>2. PICK u \in Threads : pc[u] = "batch" /\ at[u] = d
      BY <3>1 DEF IInv, Locks
    <3>3. u # t
      BY <1>1, <3>1, <3>2
    <3>4. QED
      BY <1>7, <3>2, <3>3
  <2>5. QED
    BY <2>2, <2>3, <2>4 DEF Locks
<1>9. QED
  BY <1>6, <1>7, <1>8, Settled

(* Blocks that are not in the list go back to their shard.                 *)
LEMMA Pushed ==
    ASSUME TypeOK, NEW c \in Class, Places(c), NEW blocks, Pile(blocks),
           Range(blocks) \cap InList(c) = {}, freeBatch(c, blocks)
    PROVE  /\ shards' \in [Class -> Shard]
           /\ \A d \in Class : d # c => shards'[d] = shards[d]
           /\ \A d \in Class : shards'[d].mutex = shards[d].mutex
           /\ shards'[c].runs = shards[c].runs
           /\ Pile(shards'[c].freeList) /\ InList(c)' = InList(c) \cup Range(blocks)
           /\ CarvedOf(shards[c], c)' = CarvedOf(shards[c], c) /\ Carving(shards[c], c)'
<1> DEFINE l == Reversed(blocks) \o shards[c].freeList
<1>1. shards[c] \in Shard /\ shards' = [shards EXCEPT ![c] = [shards[c] EXCEPT !.freeList = l]]
  BY ZenonT(30) DEF freeBatch, pushAll, TypeOK
<1>2. Pile(l) /\ Range(l) = Range(blocks) \cup InList(c)
  BY PushedAll DEF Places, InList
<1> HIDE DEF l
<1>3. /\ shards' \in [Class -> Shard] /\ shards'[c] = [shards[c] EXCEPT !.freeList = l]
      /\ \A d \in Class : d # c => shards'[d] = shards[d]
  <2>1. l \in Seq(Nat)
    BY <1>2 DEF Pile
  <2>2. [shards[c] EXCEPT !.freeList = l] \in Shard
    BY <1>1, <2>1, ShardFields, Zenon
  <2>3. QED
    BY <1>1, <2>2, UpdateShard, Zenon
<1>4. /\ shards'[c].freeList = l /\ shards'[c].runs = shards[c].runs
      /\ shards'[c].bumpCursor = shards[c].bumpCursor /\ shards'[c].bumpEnd = shards[c].bumpEnd
      /\ shards'[c].mutex = shards[c].mutex
  BY Zenon, <1>1, <1>3 DEF Shard
<1>5. CarvedOf(shards[c], c)' = CarvedOf(shards[c], c) /\ Carving(shards[c], c)'
  BY ZenonT(30), <1>4, SameCarving DEF Places
<1>6. InList(c)' = InList(c) \cup Range(blocks)
  BY <1>2, <1>4 DEF InList
<1>7. QED
  BY Zenon, <1>2, <1>3, <1>4, <1>5, <1>6

(* A pile of one block.                                                    *)
LEMMA OneBlock ==
    ASSUME NEW b \in Nat
    PROVE  Pile(<<b>>) /\ Range(<<b>>) = {b}
<1>1. <<b>> \in Seq(Nat) /\ DOMAIN <<b>> = {1} /\ <<b>>[1] = b
  OBVIOUS
<1>2. IsInjective(<<b>>)
  BY <1>1 DEF IsInjective
<1>3. Range(<<b>>) = {b}
  BY <1>1 DEF Range
<1>4. QED
  BY <1>1, <1>2, <1>3 DEF Pile

(* The caller's block leaves its hands.                                    *)
LEMMA TakenBack ==
    ASSUME TypeOK, NEW c \in Class, NEW block, TakeBack(c, block)
    PROVE  /\ block \in owned[c] /\ block \in Nat
           /\ owned' \in [Class -> SUBSET Nat] /\ owned'[c] = owned[c] \ {block}
           /\ \A d \in Class : d # c => owned'[d] = owned[d]
<1>1. block \in owned[c] /\ owned' = [owned EXCEPT ![c] = owned[c] \ {block}]
  BY DEF TakeBack
<1>2. block \in Nat /\ owned[c] \ {block} \in SUBSET Nat
  BY SMTT(30), <1>1 DEF TypeOK
<1>3. QED
  BY <1>1, <1>2, UpdateOwned, ZenonT(30)

(* PoolAllocator::freeBlock.                                               *)
LEMMA FreeBlockInv ==
    ASSUME IInv, NEW t \in Threads, NEW c \in Class, NEW block, freeBlock(t, c, block)
    PROVE  IInv'
<1>1. /\ pc[t] = "idle" /\ TakeBack(c, block) /\ freeBatch(c, <<block>>)
      /\ UNCHANGED <<cached, slots, pc, at>>
  BY DEF freeBlock
<1>2. TypeOK /\ Places(c)
  BY DEF IInv
<1>3. /\ block \in owned[c] /\ block \in Nat
      /\ owned' \in [Class -> SUBSET Nat] /\ owned'[c] = owned[c] \ {block}
      /\ \A d \in Class : d # c => owned'[d] = owned[d]
  BY ZenonT(30), <1>1, <1>2, TakenBack
<1>4. Pile(<<block>>) /\ Range(<<block>>) = {block} /\ Range(<<block>>) \cap InList(c) = {}
  BY SMTT(30), <1>2, <1>3, OneBlock DEF Places
<1>5. /\ shards' \in [Class -> Shard]
      /\ \A d \in Class : d # c => shards'[d] = shards[d]
      /\ \A d \in Class : shards'[d].mutex = shards[d].mutex
      /\ shards'[c].runs = shards[c].runs
      /\ Pile(shards'[c].freeList) /\ InList(c)' = InList(c) \cup Range(<<block>>)
      /\ CarvedOf(shards[c], c)' = CarvedOf(shards[c], c) /\ Carving(shards[c], c)'
  BY Zenon, <1>1, <1>2, <1>4, Pushed
<1>6. \A u \in Threads : slots'[u][c] = slots[u][c] /\ InCache(u, c)' = InCache(u, c)
  BY Zenon, <1>1 DEF InCache
<1>7. Elsewhere(t, c)
  BY Zenon, <1>1, <1>2, <1>3, <1>5 DEF Elsewhere, TypeOK
<1>8. Places(c)'
  <2>1. InList(c)' = InList(c) \cup {block}
    BY <1>4, <1>5
  <2>2. InList(c)' \cap owned'[c] = {}
    BY Zenon, <1>2, <1>3, <2>1 DEF Places
  <2>3. \A u \in Threads : InCache(u, c)' \cap InList(c)' = {} /\ InCache(u, c)' \cap owned'[c] = {}
    <3> SUFFICES ASSUME NEW u \in Threads
                 PROVE  InCache(u, c)' \cap InList(c)' = {} /\ InCache(u, c)' \cap owned'[c] = {}
      BY Zenon
    <3>1. InCache(u, c) \cap InList(c) = {} /\ InCache(u, c) \cap owned[c] = {}
      BY Zenon, <1>2 DEF Places
    <3>2. InCache(u, c)' = InCache(u, c)
      BY Zenon, <1>6
    <3>3. QED
      BY Zenon, <1>3, <2>1, <3>1, <3>2
  <2>4. ASSUME NEW a
        PROVE  a \in CarvedOf(shards[c], c)' <=>
                a \in InList(c)' \/ a \in owned'[c] \/ \E u \in Threads : a \in InCache(u, c)'
    <3>1. (\E u \in Threads : a \in InCache(u, c)') <=> \E u \in Threads : a \in InCache(u, c)
      BY Zenon, <1>6
    <3>2. a \in CarvedOf(shards[c], c) <=>
            a \in InList(c) \/ a \in owned[c] \/ \E u \in Threads : a \in InCache(u, c)
      BY Zenon, <1>2 DEF Places
    <3>3. QED
      BY Zenon, <1>3, <1>5, <2>1, <3>1, <3>2
  <2>5. /\ \A u \in Threads : Pile(slots'[u][c])
        /\ \A u, w \in Threads : u # w => InCache(u, c)' \cap InCache(w, c)' = {}
    BY Zenon, <1>2, <1>6 DEF Places
  <2>6. QED
    BY ZenonT(30), <1>5, <2>2, <2>3, <2>4, <2>5 DEF Places
<1>9. Locks'
  BY <1>1, <1>5, StillLocks
<1>10. /\ Len(slots'[t][c]) <= kCapacity /\ pc'[t] = "idle" /\ cached' \subseteq Threads
       /\ pc' \in [Threads -> {"idle", "batch", "exit", "gone"}] /\ at' \in [Threads -> Class]
       /\ \A u \in Threads : u # t => pc'[u] = pc[u] /\ at'[u] = at[u]
  BY ZenonT(30), <1>1 DEF IInv, CacheBound, TypeOK
<1>11. QED
  BY SMTT(30), <1>7, <1>8, <1>9, <1>10, Settled

(* ThreadCache::freeBlock with a free slot.                                *)
LEMMA FreeKeepInv ==
    ASSUME IInv, NEW t \in Threads, NEW c \in Class, NEW block, freeKeep(t, c, block)
    PROVE  IInv'
<1> DEFINE mine == slots[t][c]
<1>1. /\ pc[t] = "idle" /\ TakeBack(c, block) /\ Len(mine) # kCapacity
      /\ cached' = cached \cup {t} /\ UNCHANGED <<shards, pc, at>>
  BY ZenonT(30) DEF freeKeep
<1>2. TypeOK /\ Places(c) /\ Pile(mine) /\ mine \in Seq(Nat)
  BY DEF IInv, Places, TypeOK
<1>3. /\ block \in owned[c] /\ block \in Nat
      /\ owned' \in [Class -> SUBSET Nat] /\ owned'[c] = owned[c] \ {block}
      /\ \A d \in Class : d # c => owned'[d] = owned[d]
  BY Zenon, <1>1, <1>2, TakenBack
<1>4. block \notin InList(c) /\ \A u \in Threads : block \notin InCache(u, c)
  BY ZenonT(30), <1>2, <1>3 DEF Places
<1>5. /\ Pile(Append(mine, block)) /\ Len(Append(mine, block)) = Len(mine) + 1
      /\ Range(Append(mine, block)) = InCache(t, c) \cup {block}
  BY SMTT(30), <1>2, <1>3, <1>4, Stored DEF InCache
<1>6. /\ slots' \in [Threads -> [Class -> Seq(Nat)]] /\ slots'[t][c] = Append(mine, block)
      /\ \A u \in Threads, d \in Class : u # t \/ d # c => slots'[u][d] = slots[u][d]
  <2>1. Append(mine, block) \in Seq(Nat) /\ slots' = [slots EXCEPT ![t][c] = Append(mine, block)]
    BY Zenon, <1>2, <1>5 DEF Pile, freeKeep, TypeOK
  <2>2. QED
    BY <1>2, <2>1 DEF TypeOK
<1>7. Elsewhere(t, c)
  BY Zenon, <1>1, <1>2, <1>3, <1>6 DEF Elsewhere, TypeOK
<1>8. /\ InList(c)' = InList(c) /\ InCache(t, c)' = InCache(t, c) \cup {block}
      /\ \A u \in Threads : u # t => InCache(u, c)' = InCache(u, c)
  BY ZenonT(30), <1>1, <1>5, <1>6 DEF InList, InCache
<1>9. Places(c)'
  <2>1. \A u \in Threads : Pile(slots'[u][c])
    BY Zenon, <1>2, <1>5, <1>6 DEF Places
  <2>2. shards' = shards
    BY Zenon, <1>1
  <2>3. Pile(shards[c].freeList)' /\ Carving(shards[c], c)' /\ CarvedOf(shards[c], c)' = CarvedOf(shards[c], c)
    BY <1>2, <2>2 DEF Places, Carving, CarvedOf
  <2>4. InList(c)' \cap owned'[c] = {}
    <3>1. InList(c) \cap owned[c] = {}
      BY Zenon, <1>2 DEF Places
    <3>2. QED
      BY ZenonT(30), <1>3, <1>8, <3>1
  <2>5. ASSUME NEW u \in Threads
        PROVE  InCache(u, c)' \cap InList(c)' = {} /\ InCache(u, c)' \cap owned'[c] = {}
    <3>1. InCache(u, c) \cap InList(c) = {} /\ InCache(u, c) \cap owned[c] = {}
      BY Zenon, <1>2 DEF Places
    <3>2. QED
      BY ZenonT(30), <1>3, <1>4, <1>8, <3>1
  <2>6. ASSUME NEW u \in Threads, NEW w \in Threads, u # w
        PROVE  InCache(u, c)' \cap InCache(w, c)' = {}
    <3>1. InCache(u, c) \cap InCache(w, c) = {}
      BY Zenon, <1>2, <2>6 DEF Places
    <3>2. QED
      BY ZenonT(30), <1>4, <1>8, <2>6, <3>1
  <2>7. ASSUME NEW a
        PROVE  a \in CarvedOf(shards[c], c)' <=>
                 a \in InList(c)' \/ a \in owned'[c] \/ \E u \in Threads : a \in InCache(u, c)'
    <3>1. a \in CarvedOf(shards[c], c) <=>
            a \in InList(c) \/ a \in owned[c] \/ \E u \in Threads : a \in InCache(u, c)
      BY ZenonT(30), <1>2 DEF Places
    <3>2. a = block => a \in owned[c] /\ a \in InCache(t, c)'
      BY Zenon, <1>3, <1>8
    <3>3. a # block =>
             /\ a \in owned'[c] <=> a \in owned[c]
             /\ \A u \in Threads : a \in InCache(u, c)' <=> a \in InCache(u, c)
      BY ZenonT(30), <1>3, <1>8
    <3>4. QED
      BY ZenonT(30), <1>8, <2>3, <3>1, <3>2, <3>3
  <2>8. QED
    BY Zenon, <2>1, <2>3, <2>4, <2>5, <2>6, <2>7 DEF Places
<1>10. Locks'
  BY <1>1, StillLocks
<1>11. /\ pc'[t] = "idle" /\ cached' \subseteq Threads
       /\ pc' \in [Threads -> {"idle", "batch", "exit", "gone"}] /\ at' \in [Threads -> Class]
       /\ \A u \in Threads : u # t => pc'[u] = pc[u] /\ at'[u] = at[u]
  BY Zenon, <1>1, <1>2 DEF TypeOK
<1>12. Len(slots'[t][c]) <= kCapacity
  <2>1. Len(mine) \in Nat /\ Len(mine) <= kCapacity /\ kCapacity \in Nat
    BY SMTT(30), <1>2, CacheAssumption DEF IInv, CacheBound
  <2>2. QED
    BY SMTT(30), <1>1, <1>5, <1>6, <2>1
<1>13. QED
  BY SMTT(30), <1>7, <1>9, <1>10, <1>11, <1>12, Settled

(* ThreadCache::freeBlock with a full cache.                               *)
LEMMA FreeSpillInv ==
    ASSUME IInv, NEW t \in Threads, NEW c \in Class, NEW block, freeSpill(t, c, block)
    PROVE  IInv'
<1> DEFINE mine == slots[t][c]
           keep == kCapacity - kBatchSize
           kept == SubSeq(mine, 1, keep)
           spilled == SubSeq(mine, keep + 1, Len(mine))
<1>1. /\ pc[t] = "idle" /\ TakeBack(c, block) /\ Len(mine) = kCapacity
      /\ freeBatch(c, spilled) /\ UNCHANGED <<cached, pc, at>>
  BY SMTT(30) DEF freeSpill
<1>2. TypeOK /\ Places(c) /\ Pile(mine) /\ mine \in Seq(Nat)
  BY DEF IInv, Places, TypeOK
<1>3. /\ block \in owned[c] /\ block \in Nat
      /\ owned' \in [Class -> SUBSET Nat] /\ owned'[c] = owned[c] \ {block}
      /\ \A d \in Class : d # c => owned'[d] = owned[d]
  BY SMTT(30), <1>1, <1>2, TakenBack
<1>4. block \notin InList(c) /\ \A u \in Threads : block \notin InCache(u, c)
  BY <1>2, <1>3 DEF Places
<1>5. keep \in 0 .. Len(mine) /\ keep \in Nat /\ keep + 1 <= kCapacity
  BY SMTT(30), <1>1, CacheAssumption
<1>6. slots' = [slots EXCEPT ![t][c] = Append(kept, block)]
  BY <1>2 DEF freeSpill, TypeOK
<1>7. /\ Pile(kept) /\ Len(kept) = keep /\ Pile(spilled)
      /\ Range(kept) \cup Range(spilled) = InCache(t, c)
      /\ Range(kept) \cap Range(spilled) = {}
  BY ZenonT(30), <1>2, <1>5, Slice DEF InCache
<1> HIDE DEF kept, spilled, keep
<1>8. /\ Pile(Append(kept, block)) /\ Len(Append(kept, block)) = keep + 1
      /\ Range(Append(kept, block)) = Range(kept) \cup {block}
  <2>1. block \notin Range(kept)
    BY <1>4, <1>7
  <2>2. QED
    BY SMTT(30), <1>3, <1>7, <2>1, Stored
<1>9. /\ slots' \in [Threads -> [Class -> Seq(Nat)]] /\ slots'[t][c] = Append(kept, block)
      /\ \A u \in Threads, d \in Class : u # t \/ d # c => slots'[u][d] = slots[u][d]
  <2>1. Append(kept, block) \in Seq(Nat)
    BY SMTT(30), <1>8 DEF Pile
  <2>2. QED
    BY <1>2, <1>6, <2>1 DEF TypeOK
<1>10. /\ shards' \in [Class -> Shard]
       /\ \A d \in Class : d # c => shards'[d] = shards[d]
       /\ \A d \in Class : shards'[d].mutex = shards[d].mutex
       /\ shards'[c].runs = shards[c].runs
       /\ Pile(shards'[c].freeList) /\ InList(c)' = InList(c) \cup Range(spilled)
       /\ CarvedOf(shards[c], c)' = CarvedOf(shards[c], c) /\ Carving(shards[c], c)'
  <2>1. Range(spilled) \cap InList(c) = {}
    BY SMTT(30), <1>2, <1>7 DEF Places
  <2>2. QED
    BY ZenonT(60), <1>1, <1>2, <1>7, <2>1, Pushed
<1>11. Elsewhere(t, c)
  BY ZenonT(30), <1>3, <1>9, <1>10 DEF Elsewhere
<1>12. /\ InCache(t, c)' = Range(kept) \cup {block}
       /\ \A u \in Threads : u # t => InCache(u, c)' = InCache(u, c)
  BY SMTT(30), <1>8, <1>9 DEF InCache
<1>13. Places(c)'
  <2>1. \A u \in Threads : Pile(slots'[u][c])
    BY ZenonT(60), <1>2, <1>8, <1>9 DEF Places
  <2>2. \A u \in Threads : u # t => InCache(u, c) \cap (Range(kept) \cup Range(spilled)) = {}
    BY Zenon, <1>2, <1>7 DEF Places
  <2>3. /\ (Range(kept) \cup Range(spilled)) \cap InList(c) = {}
        /\ (Range(kept) \cup Range(spilled)) \cap owned[c] = {}
    BY Zenon, <1>2, <1>7 DEF Places
  <2>4. /\ InList(c)' \cap owned'[c] = {}
        /\ \A u \in Threads : InCache(u, c)' \cap InList(c)' = {} /\ InCache(u, c)' \cap owned'[c] = {}
    <3>1. InList(c) \cap owned[c] = {}
      BY Zenon, <1>2 DEF Places
    <3>2. InList(c)' \cap owned'[c] = {}
      BY ZenonT(30), <1>3, <1>10, <2>3, <3>1
    <3>3. InCache(t, c)' \cap InList(c)' = {} /\ InCache(t, c)' \cap owned'[c] = {}
      <4>1. block \notin InList(c) \cup Range(spilled)
        BY Zenon, <1>4, <1>7
      <4>2. QED
        BY SMTT(30), <1>3, <1>7, <1>10, <1>12, <2>3, <4>1
    <3>4. ASSUME NEW u \in Threads, u # t
          PROVE  InCache(u, c)' \cap InList(c)' = {} /\ InCache(u, c)' \cap owned'[c] = {}
      <4>1. InCache(u, c) \cap InList(c) = {} /\ InCache(u, c) \cap owned[c] = {}
        BY Zenon, <1>2 DEF Places
      <4>2. InCache(u, c)' = InCache(u, c)
        BY Zenon, <1>12, <3>4
      <4>3. InCache(u, c) \cap Range(spilled) = {}
        BY Zenon, <2>2, <3>4
      <4>4. QED
        BY Zenon, <1>3, <1>10, <4>1, <4>2, <4>3
    <3>5. QED
      BY Zenon, <3>2, <3>3, <3>4
  <2>5. ASSUME NEW u \in Threads, NEW v \in Threads, u # v
        PROVE  InCache(u, c)' \cap InCache(v, c)' = {}
    <3>1. \A w \in Threads : w # t => InCache(w, c) \cap (Range(kept) \cup {block}) = {}
      BY Zenon, <1>4, <2>2
    <3>2. InCache(u, c) \cap InCache(v, c) = {}
      BY ZenonT(30), <1>2, <2>5 DEF Places
    <3>3. QED
      BY <1>12, <2>5, <3>1, <3>2
  <2>6. ASSUME NEW a
        PROVE  (a \in InList(c) \/ a \in owned[c] \/ \E u \in Threads : a \in InCache(u, c))
               <=> (a \in InList(c)' \/ a \in owned'[c] \/ \E u \in Threads : a \in InCache(u, c)')
    BY SMTT(30), <1>3, <1>7, <1>10, <1>12
  <2>7. QED
    BY ZenonT(60), <1>2, <1>10, <2>1, <2>4, <2>5, <2>6 DEF Places
<1>14. Locks'
  BY Zenon, <1>1, <1>10, StillLocks
<1>15. /\ pc'[t] = "idle" /\ cached' \subseteq Threads
       /\ pc' \in [Threads -> {"idle", "batch", "exit", "gone"}] /\ at' \in [Threads -> Class]
       /\ \A u \in Threads : u # t => pc'[u] = pc[u] /\ at'[u] = at[u]
  BY <1>1, <1>2 DEF TypeOK
<1>16. Len(slots'[t][c]) <= kCapacity
  BY <1>5, <1>8, <1>9
<1>17. QED
  BY <1>11, <1>13, <1>14, <1>15, <1>16, Settled

-----------------------------------------------------------------------------
(* A thread exits                                                          *)

(* The thread turns to its thread_local destructors.                       *)
LEMMA ExitInv ==
    ASSUME IInv, NEW t \in Threads, exit(t)
    PROVE  IInv'
<1>1. /\ pc[t] = "idle" /\ pc' = [pc EXCEPT ![t] = "exit"] /\ at' = [at EXCEPT ![t] = 0]
      /\ UNCHANGED <<shards, cached, slots, owned>>
  BY DEF exit
<1>2. 0 \in Class
  BY ClassAssumption DEF Class
<1>3. TypeOK'
  BY <1>1, <1>2 DEF IInv, TypeOK
<1>4. /\ pc'[t] = "exit" /\ at'[t] = 0
      /\ \A u \in Threads : u # t => pc'[u] = pc[u] /\ at'[u] = at[u]
  BY <1>1 DEF IInv, TypeOK
<1>5. \A c \in Class : Places(c)'
  BY Zenon, <1>1 DEF IInv, Places, InList, InCache
<1>6. RunsOfOneClass'
  BY SMTT(30), <1>1 DEF IInv, RunsOfOneClass
<1>7. Locks'
  BY SMTT(30), <1>1, <1>4 DEF IInv, Locks
<1>8. Emptied'
  BY SMTT(30), <1>1, <1>4 DEF IInv, Emptied, Class
<1>9. CacheBound'
  BY SMTT(30), <1>1, <1>4 DEF IInv, CacheBound
<1>10. QED
  BY SMTT(30), <1>3, <1>5, <1>6, <1>7, <1>8, <1>9 DEF IInv

(* After class c of an exiting thread has been dealt with, the destructor  *)
(* turns to the next class or is done.                                     *)
LEMMA AdvanceInv ==
    ASSUME IInv, NEW t \in Threads, NEW c \in Class, c = at[t], pc[t] = "exit", Advance(t),
           Elsewhere(t, c), Places(c)', slots'[t][c] = <<>>,
           \A d \in Class : shards'[d].mutex = shards[d].mutex
    PROVE  IInv'
<1>1. TypeOK
  BY Zenon DEF IInv
<1>2. /\ pc'[t] \in {"exit", "gone"} /\ cached' \subseteq Threads
      /\ pc' \in [Threads -> {"idle", "batch", "exit", "gone"}] /\ at' \in [Threads -> Class]
      /\ \A u \in Threads : u # t => pc'[u] = pc[u] /\ at'[u] = at[u]
      /\ pc'[t] = "exit" => at'[t] = c + 1
      /\ pc'[t] = "gone" => c + 1 \notin Class
  <2>1. CASE c + 1 \in Class
    BY ZenonT(60), <1>1, <2>1 DEF Advance, TypeOK
  <2>2. CASE c + 1 \notin Class
    BY ZenonT(60), <1>1, <2>2 DEF Advance, TypeOK
  <2>3. QED
    BY <2>1, <2>2
<1>3. TypeOK'
  BY Zenon, <1>2 DEF TypeOK, Elsewhere
<1>4. (\A d \in Class : Places(d)') /\ RunsOfOneClass'
  BY Zenon, ElsewhereInv
<1>5. \A u \in Threads, d \in Class : u # t \/ d # c => slots'[u][d] = slots[u][d]
  BY Zenon DEF Elsewhere
<1>6. Locks'
  <2>1. \A u \in Threads : pc'[u] = "batch" <=> pc[u] = "batch"
    BY SMTT(30), <1>2
  <2>2. \A u \in Threads : pc[u] = "batch" => at'[u] = at[u]
    BY <1>2
  <2>3. \A u \in Threads : pc'[u] = "batch" => shards'[at'[u]].mutex
    BY ZenonT(60), <1>1, <2>1, <2>2 DEF IInv, Locks, TypeOK
  <2>4. \A u, v \in Threads : pc'[u] = "batch" /\ pc'[v] = "batch" /\ at'[u] = at'[v] => u = v
    BY SMTT(30), <2>1, <2>2 DEF IInv, Locks
  <2>5. \A d \in Class : shards'[d].mutex => \E u \in Threads : pc'[u] = "batch" /\ at'[u] = d
    BY SMTT(30), <2>1, <2>2 DEF IInv, Locks
  <2>6. QED
    BY Zenon, <2>3, <2>4, <2>5 DEF Locks
<1>7. Emptied'
  <2>1. ASSUME NEW d \in Class, pc'[t] = "gone" \/ (pc'[t] = "exit" /\ d < at'[t])
        PROVE  slots'[t][d] = <<>>
    <3>1. d < c \/ d = c
      BY SMTT(30), <1>2, <2>1, ClassAssumption DEF Class
    <3>2. QED
      BY SMTT(30), <1>5, <3>1 DEF IInv, Emptied
  <2>2. QED
    BY SMTT(30), <1>2, <1>5, <2>1 DEF IInv, Emptied
<1>8. CacheBound'
  <2>1. Len(slots'[t][c]) = 0 /\ kCapacity \in Nat
    BY SMTT(30), EmptySeq, CacheAssumption
  <2>2. QED
    BY SMTT(30), <1>2, <1>5, <2>1 DEF IInv, CacheBound
<1>9. QED
  BY SMTT(30), <1>3, <1>4, <1>6, <1>7, <1>8 DEF IInv

(* A class with cached blocks: freeBatch gives them back.                  *)
LEMMA ExitFlushInv ==
    ASSUME IInv, NEW t \in Threads, exitFlush(t)
    PROVE  IInv'
<1>1. PICK c \in Class : c = at[t]
  BY DEF IInv, TypeOK
<1>2. /\ pc[t] = "exit" /\ freeBatch(c, slots[t][c]) /\ slots' = [slots EXCEPT ![t][c] = <<>>]
      /\ Advance(t) /\ UNCHANGED owned
  BY SMTT(30), <1>1 DEF exitFlush
<1>3. TypeOK /\ Places(c) /\ Pile(slots[t][c]) /\ InCache(t, c) \cap InList(c) = {}
  BY ZenonT(60) DEF IInv, Places
<1>4. /\ shards' \in [Class -> Shard]
      /\ \A d \in Class : d # c => shards'[d] = shards[d]
      /\ \A d \in Class : shards'[d].mutex = shards[d].mutex
      /\ shards'[c].runs = shards[c].runs
      /\ Pile(shards'[c].freeList) /\ InList(c)' = InList(c) \cup InCache(t, c)
      /\ CarvedOf(shards[c], c)' = CarvedOf(shards[c], c) /\ Carving(shards[c], c)'
  BY <1>2, <1>3, Pushed DEF InCache
<1>5. Pile(<<>>) /\ Range(<<>>) = {} /\ <<>> \in Seq(Nat)
  BY ZenonT(60), EmptyPile, EmptySeq
<1>6. /\ slots' \in [Threads -> [Class -> Seq(Nat)]] /\ slots'[t][c] = <<>>
      /\ \A u \in Threads, d \in Class : u # t \/ d # c => slots'[u][d] = slots[u][d]
  BY <1>2, <1>3, <1>5 DEF TypeOK
<1>7. Elsewhere(t, c)
  BY Zenon, <1>2, <1>3, <1>4, <1>6 DEF Elsewhere, TypeOK
<1>8. /\ InCache(t, c)' = {} /\ \A u \in Threads : u # t => InCache(u, c)' = InCache(u, c)
  BY SMTT(30), <1>5, <1>6 DEF InCache
<1>9. Places(c)'
  <2>1. \A u \in Threads : Pile(slots'[u][c])
    BY Zenon, <1>3, <1>5, <1>6 DEF Places
  <2>2. owned'[c] = owned[c]
    BY <1>2
  <2>3. InList(c)' \cap owned'[c] = {}
    BY Zenon, <1>3, <1>4, <2>2 DEF Places
  <2>4. \A u \in Threads : InCache(u, c)' \cap InList(c)' = {} /\ InCache(u, c)' \cap owned'[c] = {}
    <3> SUFFICES ASSUME NEW u \in Threads
                 PROVE  InCache(u, c)' \cap InList(c)' = {} /\ InCache(u, c)' \cap owned'[c] = {}
      BY Zenon
    <3>1. CASE u = t
      BY Zenon, <1>8, <3>1
    <3>2. CASE u # t
      <4>1. /\ InCache(u, c) \cap InList(c) = {} /\ InCache(u, c) \cap owned[c] = {}
            /\ InCache(u, c) \cap InCache(t, c) = {}
        BY Zenon, <1>3, <3>2 DEF Places
      <4>2. InCache(u, c)' = InCache(u, c)
        BY Zenon, <1>8, <3>2
      <4>3. QED
        BY Zenon, <1>4, <2>2, <4>1, <4>2
    <3>3. QED
      BY Zenon, <3>1, <3>2
  <2>5. \A u, w \in Threads : u # w => InCache(u, c)' \cap InCache(w, c)' = {}
    BY Zenon, <1>3, <1>8 DEF Places
  <2>6. ASSUME NEW a
        PROVE  a \in CarvedOf(shards[c], c)' <=>
                a \in InList(c)' \/ a \in owned'[c] \/ \E u \in Threads : a \in InCache(u, c)'
    <3>1. (\E u \in Threads : a \in InCache(u, c))
            <=> a \in InCache(t, c) \/ \E u \in Threads : a \in InCache(u, c)'
      BY Zenon, <1>8
    <3>2. a \in CarvedOf(shards[c], c) <=>
            a \in InList(c) \/ a \in owned[c] \/ \E u \in Threads : a \in InCache(u, c)
      BY Zenon, <1>3 DEF Places
    <3>3. QED
      BY Zenon, <1>4, <2>2, <3>1, <3>2
  <2>7. QED
    BY Zenon, <1>4, <2>1, <2>3, <2>4, <2>5, <2>6 DEF Places
<1>10. QED
  BY ZenonT(60), <1>1, <1>2, <1>4, <1>6, <1>7, <1>9, AdvanceInv

(* A class with none.                                                      *)
LEMMA ExitSkipInv ==
    ASSUME IInv, NEW t \in Threads, exitSkip(t)
    PROVE  IInv'
<1>1. PICK c \in Class : c = at[t]
  BY DEF IInv, TypeOK
<1>2. /\ pc[t] = "exit" /\ slots[t][c] = <<>> /\ Advance(t) /\ UNCHANGED <<shards, slots, owned>>
  BY Zenon, <1>1 DEF exitSkip
<1>3. Elsewhere(t, c)
  BY <1>2 DEF Elsewhere, IInv, TypeOK
<1>4. InList(c)' = InList(c) /\ \A u \in Threads : InCache(u, c)' = InCache(u, c)
  BY ZenonT(30), <1>2 DEF InList, InCache
<1>5. Places(c)'
  <2>1. Places(c)
    BY DEF IInv
  <2>2. QED
    BY SMTT(30), <1>2, <1>4, <2>1 DEF Places
<1>6. QED
  BY Zenon, <1>1, <1>2, <1>3, <1>5, AdvanceInv

(* Every step keeps the invariant.                                         *)
LEMMA NextInv == IInv /\ [Next]_vars => IInv'
<1> SUFFICES ASSUME IInv, [Next]_vars PROVE IInv'
  OBVIOUS
<1>1. CASE UNCHANGED vars \/ Finished
  BY <1>1, NoStep DEF Finished
<1>2. ASSUME NEW t \in Threads, allocate(t) PROVE IInv'
  BY SMTT(30), <1>2, AllocateBlockInv, AllocateHitInv, AllocateMissInv DEF allocate
<1>3. ASSUME NEW t \in Threads, free(t) PROVE IInv'
  BY <1>3, FreeBlockInv, FreeKeepInv, FreeSpillInv DEF free
<1>4. ASSUME NEW t \in Threads, batch(t) PROVE IInv'
  BY <1>4, BatchTakeInv, BatchEndInv DEF batch
<1>5. ASSUME NEW t \in Threads, destroy(t) PROVE IInv'
  BY <1>5, ExitInv, ExitFlushInv, ExitSkipInv DEF destroy
<1>6. QED
  BY <1>1, <1>2, <1>3, <1>4, <1>5 DEF Next

-----------------------------------------------------------------------------
(* The inductive invariant of the small tier.                              *)
THEOREM Invariance == Spec => []IInv
BY InitInv, NextInv, PTL DEF Spec

(* TypeOK.                                                                 *)
THEOREM TypeCorrect == Spec => []TypeOK
<1>1. IInv => TypeOK
  BY ZenonT(30) DEF IInv
<1>2. QED
  BY <1>1, Invariance, PTL

(* ExclusiveBlocks: no refill, spill, batch or flush of any threads puts a *)
(* block in two places.                                                    *)
THEOREM ExclusionCorrect == Spec => []ExclusiveBlocks
<1>1. IInv => ExclusiveBlocks
  BY DEF IInv, Places, Pile, ExclusiveBlocks
<1>2. QED
  BY <1>1, Invariance, PTL

(* NoBlockLost: every block carved so far is in a list, in the cache of a  *)
(* thread that is not gone, or in a caller's hands.                        *)
THEOREM NothingLost == Spec => []NoBlockLost
<1>1. ASSUME IInv, NEW c \in Class
      PROVE  Carved(c) = InList(c) \cup owned[c]
                         \cup UNION {InCache(t, c) : t \in {u \in Threads : pc[u] # "gone"}}
  <2>1. \A t \in Threads : pc[t] = "gone" => InCache(t, c) = {}
    <3>1. \A t \in Threads : pc[t] = "gone" => slots[t][c] = <<>>
      BY <1>1 DEF IInv, Emptied
    <3>2. Range(<<>>) = {}
      BY ZenonT(30), EmptyPile, EmptySeq
    <3>3. QED
      BY <3>1, <3>2 DEF InCache
  <2>2. \A a : a \in Carved(c) <=>
            a \in InList(c) \/ a \in owned[c] \/ \E t \in Threads : a \in InCache(t, c)
    BY <1>1 DEF IInv, Places, Carved, CarvedOf
  <2>3. \A a : (\E t \in Threads : a \in InCache(t, c))
               <=> a \in UNION {InCache(t, c) : t \in {u \in Threads : pc[u] # "gone"}}
    BY Zenon, <2>1
  <2>4. QED
    BY <2>2, <2>3
<1>2. IInv => NoBlockLost
  BY <1>1 DEF NoBlockLost
<1>3. QED
  BY <1>2, Invariance, PTL

(* CacheBound: count stays within the slots array and a batch within its   *)
(* span.                                                                   *)
THEOREM BoundCorrect == Spec => []CacheBound
<1>1. IInv => CacheBound
  BY DEF IInv
<1>2. QED
  BY <1>1, Invariance, PTL

(* NoEarlyRefill: takeBlock maps a run only when the list is empty and     *)
(* every block of the class's runs has been carved.                        *)
THEOREM RefillCorrect == Spec => NoEarlyRefill
<1> DEFINE Spent(c) == /\ InList(c) = {}
                       /\ \A run \in shards[c].runs : Slots(run, c) \subseteq Carved(c)
<1>1. ASSUME IInv, NEW c \in Class, NEW taken \in takeBlock(c), taken.shard.runs # shards[c].runs
      PROVE  Spent(c)
  <2>1. Carved(c) = CarvedOf(shards[c], c)
    BY DEF Carved, CarvedOf
  <2>2. QED
    BY <1>1, <2>1, Taken
<1>2. ASSUME IInv, Next, NEW c \in Class, shards'[c].runs # shards[c].runs PROVE Spent(c)
  <2>1. TypeOK
    BY Zenon, <1>2 DEF IInv
  <2>2. ASSUME NEW d \in Class, NEW taken \in takeBlock(d), shards' = [shards EXCEPT ![d] = taken.shard]
        PROVE  Spent(c)
    <3>1. d = c /\ taken.shard.runs # shards[c].runs
      BY <1>2, <2>1, <2>2 DEF TypeOK
    <3>2. QED
      BY <1>1, <1>2, <2>2, <3>1
  <2>3. ASSUME NEW d \in Class, NEW m \in BOOLEAN, shards' = [shards EXCEPT ![d].mutex = m] PROVE FALSE
    BY <1>2, <2>1, <2>3 DEF TypeOK, Shard
  <2>4. ASSUME NEW d \in Class, NEW blocks, freeBatch(d, blocks) PROVE FALSE
    BY <1>2, <2>1, <2>4 DEF TypeOK, Shard, freeBatch, pushAll
  <2>5. \A t \in Threads : at[t] \in Class
    BY ZenonT(30), <2>1 DEF TypeOK
  <2>6. ASSUME NEW t \in Threads, allocate(t) PROVE Spent(c)
    <3>1. PICK d \in Class : allocateBlock(t, d) \/ allocateHit(t, d) \/ allocateMiss(t, d)
      BY <2>6 DEF allocate
    <3>2. CASE allocateBlock(t, d)
      BY ZenonT(30), <2>2, <3>2 DEF allocateBlock
    <3>3. CASE allocateHit(t, d)
      BY <1>2, <3>3 DEF allocateHit
    <3>4. CASE allocateMiss(t, d)
      BY Zenon, <2>3, <3>4 DEF allocateMiss
    <3>5. QED
      BY <3>1, <3>2, <3>3, <3>4
  <2>7. ASSUME NEW t \in Threads, free(t) PROVE FALSE
    BY <1>2, <2>4, <2>7 DEF free, freeBlock, freeKeep, freeSpill
  <2>8. ASSUME NEW t \in Threads, batch(t) PROVE Spent(c)
    BY Zenon, <2>2, <2>3, <2>5, <2>8 DEF batch, batchTake, batchEnd
  <2>9. ASSUME NEW t \in Threads, destroy(t) PROVE FALSE
    BY <1>2, <2>4, <2>5, <2>9 DEF destroy, exit, exitFlush, exitSkip
  <2>10. ~Finished
    BY <1>2 DEF Finished, vars
  <2>11. QED
    BY Zenon, <1>2, <2>6, <2>7, <2>8, <2>9, <2>10 DEF Next
<1>3. IInv /\ [Next]_vars
        => [\A c \in Class :
               shards'[c].runs # shards[c].runs
                   => InList(c) = {}
                      /\ \A run \in shards[c].runs : Slots(run, c) \subseteq Carved(c)]_vars
  BY <1>2
<1>4. QED
  BY <1>3, Invariance, PTL DEF Spec, NoEarlyRefill

-----------------------------------------------------------------------------
(* The small tier implements BlockStore                                    *)

(* What Store sees: the blocks in callers' hands with their strides.       *)
Addresses == UNION {Slots(run, c) : run \in Runs, c \in Class}
Given == [a \in UNION {owned[c] : c \in Class} |-> blockStride[CHOOSE c \in Class : a \in owned[c]]]

(* Carved blocks of shards that share no run do not overlap, and are slots *)
(* of a run.                                                               *)
LEMMA CarvedApart ==
    ASSUME NEW c \in Class, NEW d \in Class, NEW x \in Shard, NEW y \in Shard,
           c # d => x.runs \cap y.runs = {},
           NEW a \in CarvedOf(x, c), NEW b \in CarvedOf(y, d)
    PROVE  /\ a \in Nat /\ a \in Addresses
           /\ a = b => c = d
           /\ a = b \/ a + blockStride[c] <= b \/ b + blockStride[d] <= a
<1>1. PICK r \in x.runs : a \in Slots(r, c)
  BY DEF CarvedOf
<1>2. PICK s \in y.runs : b \in Slots(s, d)
  BY DEF CarvedOf
<1>3. r \in Runs /\ s \in Runs /\ r \in Nat /\ s \in Nat
  BY Zenon, <1>1, <1>2, RunAssumption DEF Shard
<1>4. /\ a \in Nat /\ b \in Nat /\ a \in Addresses
      /\ blockStride[c] \in Nat \ {0} /\ blockStride[d] \in Nat \ {0}
  BY <1>1, <1>2, <1>3, SlotBounds DEF Addresses
<1>5. CASE r = s
  <2>1. c = d
    BY SMTT(30), <1>1, <1>2, <1>5
  <2>2. QED
    BY ZenonT(30), <1>1, <1>2, <1>3, <1>4, <1>5, <2>1, SlotsApart
<1>6. CASE r # s
  <2>1. a + blockStride[c] <= b \/ b + blockStride[d] <= a
    BY Zenon, <1>1, <1>2, <1>3, <1>6, RunsHoldApart
  <2>2. QED
    BY <1>4, <2>1
<1>7. QED
  BY <1>5, <1>6

(* The class of a block in a caller's hands is the one CHOOSE finds.       *)
GivenIs ==
    /\ \A a : a \in DOMAIN Given <=> \E c \in Class : a \in owned[c]
    /\ \A c \in Class : \A a \in owned[c] :
          Given[a] = blockStride[c] /\ a \in Addresses /\ a \in CarvedOf(shards[c], c)
    /\ \A c, d \in Class : c # d => owned[c] \cap owned[d] = {}

(* The mapping is what it is meant to be.                                  *)
LEMMA GivenStride == IInv => GivenIs
<1> SUFFICES ASSUME IInv PROVE GivenIs
  OBVIOUS
<1>1. \A a : a \in DOMAIN Given <=> \E c \in Class : a \in owned[c]
  BY Zenon DEF Given
<1>2. /\ \A c \in Class : shards[c] \in Shard
      /\ \A c \in Class : owned[c] \subseteq CarvedOf(shards[c], c)
      /\ \A c, d \in Class : c # d => shards[c].runs \cap shards[d].runs = {}
  BY SMTT(30) DEF IInv, TypeOK, Places, RunsOfOneClass
<1>3. ASSUME NEW c \in Class, NEW d \in Class, NEW a \in owned[c], a \in owned[d] PROVE c = d
  <2>1. a \in CarvedOf(shards[c], c) /\ a \in CarvedOf(shards[d], d)
    BY Zenon, <1>2, <1>3
  <2>2. QED
    BY <1>2, <2>1, CarvedApart
<1>4. ASSUME NEW c \in Class, NEW a \in owned[c]
      PROVE  Given[a] = blockStride[c] /\ a \in Addresses /\ a \in CarvedOf(shards[c], c)
  <2>1. (CHOOSE d \in Class : a \in owned[d]) = c
    BY <1>3
  <2>2. a \in UNION {owned[d] : d \in Class}
    OBVIOUS
  <2>3. a \in Addresses /\ a \in CarvedOf(shards[c], c)
    BY <1>2, CarvedApart
  <2>4. QED
    BY Zenon, <2>1, <2>2, <2>3 DEF Given
<1>5. QED
  BY <1>1, <1>3, <1>4 DEF GivenIs

(* A step hands out a block nobody had, takes one back, or neither.        *)
LEMMA OwnedStep ==
    ASSUME IInv, Next, owned' # owned
    PROVE  \E c \in Class, b \in Nat :
               \/ b \notin owned[c] /\ owned' = [owned EXCEPT ![c] = owned[c] \cup {b}]
               \/ b \in owned[c] /\ owned' = [owned EXCEPT ![c] = owned[c] \ {b}]
<1>1. TypeOK /\ \A t \in Threads : at[t] \in Class
  BY DEF IInv, TypeOK
<1>2. ASSUME NEW t \in Threads, NEW c \in Class, slots[t][c] # <<>>, PopSlot(t, c)
      PROVE  \E b \in Nat : b \notin owned[c] /\ owned' = [owned EXCEPT ![c] = owned[c] \cup {b}]
  <2>1. Top(slots[t][c]) \in InCache(t, c) /\ Top(slots[t][c]) \in Nat
    BY ZenonT(30), <1>2, Shortened DEF IInv, Places, InCache
  <2>2. Top(slots[t][c]) \notin owned[c]
    BY <2>1 DEF IInv, Places
  <2>3. QED
    BY Zenon, <1>2, <2>1, <2>2 DEF PopSlot, HandOut
<1>3. ASSUME NEW t \in Threads, NEW c \in Class, allocateBlock(t, c)
      PROVE  \E b \in Nat : b \notin owned[c] /\ owned' = [owned EXCEPT ![c] = owned[c] \cup {b}]
  <2>1. PICK taken \in takeBlock(c) : taken.block # nullptr /\ HandOut(c, taken.block)
    BY Zenon, <1>3 DEF allocateBlock
  <2>2. /\ taken.block \in Nat
        /\ taken.block \in InList(c) \/ taken.block \notin CarvedOf(shards[c], c)
    BY ZenonT(30), <2>1, Taken
  <2>3. taken.block \notin owned[c]
    BY <2>2 DEF IInv, Places
  <2>4. QED
    BY Zenon, <2>1, <2>2, <2>3 DEF HandOut
<1>4. ASSUME NEW c \in Class, NEW b, TakeBack(c, b)
      PROVE  b \in Nat /\ b \in owned[c] /\ owned' = [owned EXCEPT ![c] = owned[c] \ {b}]
  BY <1>1, <1>4 DEF TakeBack, TypeOK
<1>5. ASSUME NEW t \in Threads, allocate(t)
      PROVE  \E c \in Class, b \in Nat :
                 b \notin owned[c] /\ owned' = [owned EXCEPT ![c] = owned[c] \cup {b}]
  <2>1. PICK c \in Class : allocateBlock(t, c) \/ allocateHit(t, c) \/ allocateMiss(t, c)
    BY <1>5 DEF allocate
  <2>2. QED
    BY <1>2, <1>3, <2>1 DEF allocateHit, allocateMiss
<1>6. ASSUME NEW t \in Threads, free(t)
      PROVE  \E c \in Class, b \in Nat :
                 b \in owned[c] /\ owned' = [owned EXCEPT ![c] = owned[c] \ {b}]
  <2>1. PICK c \in Class : \E b \in owned[c] : TakeBack(c, b)
    BY <1>6 DEF free, freeBlock, freeKeep, freeSpill
  <2>2. QED
    BY SMTT(30), <1>4, <2>1
<1>7. ASSUME NEW t \in Threads, batch(t)
      PROVE  \E c \in Class, b \in Nat :
                 b \notin owned[c] /\ owned' = [owned EXCEPT ![c] = owned[c] \cup {b}]
  BY <1>1, <1>2, <1>7 DEF batch, batchTake, batchEnd
<1>8. ASSUME NEW t \in Threads PROVE ~destroy(t)
  BY DEF destroy, exit, exitFlush, exitSkip
<1>9. ~Finished
  BY DEF Finished, vars
<1>10. QED
  BY SMTT(30), <1>5, <1>6, <1>7, <1>8, <1>9 DEF Next

(* StoreSpec: the end of allocateBlock grants a block clear of all others, *)
(* freeBlock returns one, and everything between cache and shard is a      *)
(* stutter.                                                                *)
THEOREM ImplementsStore == Spec => StoreSpec
<1>1. Init => Store!Init
  <2> SUFFICES ASSUME Init PROVE Given = [a \in {} |-> 0]
    BY DEF Store!Init, Given
  <2>1. UNION {owned[c] : c \in Class} = {}
    BY DEF Init
  <2>2. QED
    BY <2>1 DEF Given
<1>2. IInv' => GivenIs'
  BY GivenStride, PTL
<1>3. ASSUME IInv, Next, owned' # owned PROVE Store!Next
  <2>1. IInv' /\ TypeOK /\ \A d \in Class : shards'[d] \in Shard
    BY <1>3, NextInv DEF IInv, TypeOK
  <2>2. PICK c \in Class, b \in Nat :
           \/ b \notin owned[c] /\ owned' = [owned EXCEPT ![c] = owned[c] \cup {b}]
           \/ b \in owned[c] /\ owned' = [owned EXCEPT ![c] = owned[c] \ {b}]
    BY SMTT(30), <1>3, OwnedStep
  <2>3. /\ \A a : a \in DOMAIN Given <=> \E d \in Class : a \in owned[d]
        /\ \A d \in Class : \A a \in owned[d] : Given[a] = blockStride[d] /\ a \in Addresses
        /\ \A d, e \in Class : d # e => owned[d] \cap owned[e] = {}
    BY SMTT(30), <1>3, GivenStride DEF GivenIs
  <2>4. /\ \A a : a \in DOMAIN Given' <=> \E d \in Class : a \in owned'[d]
        /\ \A d \in Class : \A a \in owned'[d] :
              /\ Given'[a] = blockStride[d] /\ a \in Addresses
              /\ a \in CarvedOf(shards'[d], d)
    BY <1>2, <2>1 DEF GivenIs
  <2>5. \A d, e \in Class : d # e => shards'[d].runs \cap shards'[e].runs = {}
    BY <2>1 DEF IInv, RunsOfOneClass
  <2>6. CASE b \notin owned[c] /\ owned' = [owned EXCEPT ![c] = owned[c] \cup {b}]
    <3>1. /\ owned'[c] = owned[c] \cup {b} /\ \A d \in Class : d # c => owned'[d] = owned[d]
          /\ \A d \in Class : owned[d] \subseteq owned'[d]
      BY <2>1, <2>6 DEF TypeOK
    <3>2. ASSUME NEW d \in Class, NEW a \in owned[d]
          PROVE  a # b /\ (b + blockStride[c] <= a \/ a + blockStride[d] <= b)
      <4>1. b \in CarvedOf(shards'[c], c) /\ a \in CarvedOf(shards'[d], d)
        BY <2>4, <3>1
      <4>2. /\ shards'[c] \in Shard /\ shards'[d] \in Shard
            /\ c # d => shards'[c].runs \cap shards'[d].runs = {}
        BY Zenon, <2>1, <2>5
      <4>3. /\ b = a => c = d
            /\ b = a \/ b + blockStride[c] <= a \/ a + blockStride[d] <= b
        BY SMTT(30), <4>1, <4>2, CarvedApart
      <4>4. QED
        BY Zenon, <2>6, <4>3
    <3>3. b \notin DOMAIN Given /\ b \in Addresses
      BY Zenon, <2>3, <2>4, <3>1, <3>2
    <3>4. \A a \in DOMAIN Given : Store!Disjoint(b, blockStride[c], a, Given[a])
      BY SMTT(30), <2>3, <3>2 DEF Store!Disjoint
    <3>5. Given' = [a \in DOMAIN Given \cup {b} |-> IF a = b THEN blockStride[c] ELSE Given[a]]
      <4>1. DOMAIN Given' = DOMAIN Given \cup {b}
        <5>1. \A a : (\E d \in Class : a \in owned'[d]) <=> (\E d \in Class : a \in owned[d]) \/ a = b
          BY SMTT(30), <3>1
        <5>2. QED
          BY ZenonT(60), <2>3, <2>4, <5>1
      <4>2. \A a \in DOMAIN Given \cup {b} : Given'[a] = IF a = b THEN blockStride[c] ELSE Given[a]
        BY SMTT(30), <2>3, <2>4, <3>1
      <4>3. Given' = [a \in DOMAIN Given' |-> Given'[a]]
        BY DEF Given
      <4>4. QED
        BY <4>1, <4>2, <4>3
    <3>6. Store!Grant(b, blockStride[c])
      BY Zenon, <3>3, <3>4, <3>5 DEF Store!Grant, Given
    <3>7. QED
      BY <3>3, <3>6 DEF Store!Next, Addresses
  <2>7. CASE b \in owned[c] /\ owned' = [owned EXCEPT ![c] = owned[c] \ {b}]
    <3>1. /\ owned'[c] = owned[c] \ {b} /\ \A d \in Class : d # c => owned'[d] = owned[d]
          /\ \A d \in Class : owned'[d] \subseteq owned[d]
      BY <2>1, <2>7 DEF TypeOK
    <3>2. \A d \in Class : d # c => b \notin owned[d]
      BY <2>3, <2>7
    <3>3. b \in DOMAIN Given /\ b \in Addresses
      BY <2>3, <2>7
    <3>4. Given' = [a \in DOMAIN Given \ {b} |-> Given[a]]
      <4>1. DOMAIN Given' = DOMAIN Given \ {b}
        <5>1. \A a : (\E d \in Class : a \in owned'[d]) <=> (\E d \in Class : a \in owned[d]) /\ a # b
          BY <3>1, <3>2
        <5>2. \A a : a \in DOMAIN Given' <=> a \in DOMAIN Given /\ a # b
          BY <2>3, <2>4, <5>1, Zenon
        <5>3. QED
          BY <5>2
      <4>2. \A a \in DOMAIN Given \ {b} : Given'[a] = Given[a]
        BY <2>3, <2>4, <3>1
      <4>3. Given' = [a \in DOMAIN Given' |-> Given'[a]]
        BY DEF Given
      <4>4. QED
        BY <4>1, <4>2, <4>3
    <3>5. Store!Return(b)
      BY Zenon, <3>3, <3>4 DEF Store!Return, Given
    <3>6. QED
      BY <3>3, <3>5 DEF Store!Next, Addresses
  <2>8. QED
    BY Zenon, <2>2, <2>6, <2>7
<1>4. IInv /\ [Next]_vars => [Store!Next]_Given
  <2>1. owned' = owned => Given' = Given
    BY DEF Given
  <2>2. QED
    BY Zenon, <1>3, <2>1 DEF vars
<1>5. QED
  BY <1>1, <1>4, Invariance, PTL DEF Spec, StoreSpec, Store!Spec, Given
=============================================================================
