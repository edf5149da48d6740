----------------------------- MODULE FreeNodes -----------------------------
(***************************************************************************)
(* The free lists as they are in memory, where PoolAllocator and           *)
(* SegmentHeap have sequences: the singly linked FreeList of               *)
(* src/FreeList.hpp and the doubly linked bins of src/SegmentHeap.cpp.     *)
(* The links are words inside the free blocks; while a block is in a       *)
(* caller's hands the caller writes what it likes there.  Callers of both  *)
(* hold the mutex of the list.                                             *)
(***************************************************************************)
EXTENDS Integers, Sequences, FiniteSets, SequencesExt

CONSTANTS
    Blocks,
    Bins,
    nullptr,
    junk            \* what a caller wrote, which is no pointer to anything

ASSUME NullAssumption == {nullptr, junk} \cap Blocks = {} /\ nullptr # junk

Pointer == Blocks \cup {nullptr}

VARIABLES
    head_,      \* FreeList: its first node
    size_,      \* FreeList: its counter
    bins_,      \* bin -> its first node
    next,       \* block -> the word a node has its next pointer in
    prev,       \* block -> the word a FreeNode has its prev pointer in
    binIndex,   \* block -> the bin its size selects
    where       \* block -> whose it is: the caller, the FreeList, the bins

vars == <<head_, size_, bins_, next, prev, binIndex, where>>

Init ==
    /\ head_ = nullptr /\ size_ = 0
    /\ bins_ = [i \in Bins |-> nullptr]
    /\ next = [b \in Blocks |-> junk] /\ prev = [b \in Blocks |-> junk]
    /\ binIndex \in [Blocks -> Bins]
    /\ where = [b \in Blocks |-> "caller"]

Moves(b, place) == where' = [where EXCEPT ![b] = place]

-----------------------------------------------------------------------------
(* FreeList                                                                *)

(* The n nodes from p along next, or as many as there are.                 *)
Walk(p, n) ==
    LET node[k \in 1 .. n] ==
            IF k = 1 THEN p ELSE IF node[k - 1] = nullptr THEN nullptr ELSE next[node[k - 1]]
    IN  SelectSeq([k \in 1 .. n |-> node[k]], LAMBDA x : x # nullptr)

(* Mutation: a block goes to the end of the list.                          *)
push_AtEnd(b) ==
    LET chain == Walk(head_, Cardinality(Blocks))
    IN  /\ where[b] = "caller" /\ Moves(b, "FreeList")
        /\ next' = [c \in Blocks |->
                       IF c = b THEN nullptr ELSE IF chain # <<>> /\ c = Last(chain) THEN b ELSE next[c]]
        /\ head_' = IF chain = <<>> THEN b ELSE head_
        /\ size_' = size_ + 1
        /\ UNCHANGED <<bins_, prev, binIndex>>

push(b) ==
    /\ where[b] = "caller" /\ Moves(b, "FreeList")
    /\ next' = [next EXCEPT ![b] = head_]
    /\ head_' = b
    /\ size_' = size_ + 1
    /\ UNCHANGED <<bins_, prev, binIndex>>

pop ==
    /\ head_ # nullptr
    /\ head_' = next[head_]
    /\ size_' = size_ - 1
    /\ Moves(head_, "caller")
    /\ UNCHANGED <<bins_, next, prev, binIndex>>

(* popBatch into a span of n, which stops early at the end of the list.    *)
popBatch(n) ==
    LET batch == Walk(head_, n)
    IN  /\ batch # <<>>
        /\ head_' = next[Last(batch)]
        /\ size_' = size_ - Len(batch)
        /\ where' = [b \in Blocks |-> IF b \in ToSet(batch) THEN "caller" ELSE where[b]]
        /\ UNCHANGED <<bins_, next, prev, binIndex>>

-----------------------------------------------------------------------------
(* The bins of SegmentHeap                                                 *)

(* Mutation: the old first node is not told about the new one.             *)
insertFree_OneWay(b) ==
    LET i == binIndex[b]
    IN  /\ where[b] = "caller" /\ Moves(b, "bins")
        /\ next' = [next EXCEPT ![b] = bins_[i]]
        /\ prev' = [prev EXCEPT ![b] = nullptr]
        /\ bins_' = [bins_ EXCEPT ![i] = b]
        /\ UNCHANGED <<head_, size_, binIndex>>

insertFree(b) ==
    LET i == binIndex[b]
    IN  /\ where[b] = "caller" /\ Moves(b, "bins")
        /\ next' = [next EXCEPT ![b] = bins_[i]]
        /\ prev' = [c \in Blocks |->
                       IF c = b THEN nullptr ELSE IF c = bins_[i] THEN b ELSE prev[c]]
        /\ bins_' = [bins_ EXCEPT ![i] = b]
        /\ UNCHANGED <<head_, size_, binIndex>>

removeFree(b) ==
    /\ where[b] = "bins" /\ Moves(b, "caller")
    /\ next' = [c \in Blocks |-> IF c = prev[b] THEN next[b] ELSE next[c]]
    /\ bins_' = IF prev[b] = nullptr THEN [bins_ EXCEPT ![binIndex[b]] = next[b]] ELSE bins_
    /\ prev' = [c \in Blocks |-> IF c = next[b] THEN prev[b] ELSE prev[c]]
    /\ UNCHANGED <<head_, size_, binIndex>>

-----------------------------------------------------------------------------
(* A block off the lists is written by its caller, or split or merged so   *)
(* that its size selects another bin.                                      *)
scribble(b) ==
    /\ where[b] = "caller"
    /\ next' = [next EXCEPT ![b] = junk]
    /\ prev' = [prev EXCEPT ![b] = junk]
    /\ \E i \in Bins : binIndex' = [binIndex EXCEPT ![b] = i]
    /\ UNCHANGED <<head_, size_, bins_, where>>

Next ==
    \/ \E b \in Blocks : push(b) \/ insertFree(b) \/ removeFree(b) \/ scribble(b)
    \/ pop \/ \E n \in 2 .. Cardinality(Blocks) : popBatch(n)

Spec == Init /\ [][Next]_vars

-----------------------------------------------------------------------------
(* Properties                                                              *)

Chain(p) == Walk(p, Cardinality(Blocks))
InPlace(place) == {b \in Blocks : where[b] = place}

(* Following next from a bin visits the free blocks of that size, and prev *)
(* leads back along the same nodes: removal from the middle of a bin finds *)
(* the right neighbours whatever callers wrote into the words before.  The *)
(* free list visits the blocks pushed and not popped, and size_ is their   *)
(* number.                                                                 *)
LinksAgree ==
    /\ size_ = Len(Chain(head_)) /\ ToSet(Chain(head_)) = InPlace("FreeList")
    /\ \A i \in Bins : bins_[i] # nullptr => prev[bins_[i]] = nullptr
    /\ \A b \in InPlace("bins") : next[b] # nullptr => prev[next[b]] = b
    /\ \A i \in Bins :
          ToSet(Chain(bins_[i])) = {b \in InPlace("bins") : binIndex[b] = i}

Lists == Bins \cup {"FreeList"}

Abstract == INSTANCE NodeLists WITH
    list <- [i \in Lists |-> IF i = "FreeList" THEN Chain(head_) ELSE Chain(bins_[i])]

(* The linked lists implement the sequences of PoolAllocator and of        *)
(* SegmentHeap.                                                            *)
ListSpec == Abstract!Spec
=============================================================================
