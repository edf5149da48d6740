--------------------------- MODULE PoolAllocator ---------------------------
(***************************************************************************)
(* The shards of the small tier (src/PoolAllocator.cpp, src/FreeList.hpp). *)
(* A size class owns one shard: a mutex, a LIFO free list and a bump       *)
(* cursor into the run mapped last.  This module has the state of the      *)
(* shards and what each operation does to a shard under its mutex; the     *)
(* module ThreadCache has the threads that call them.                      *)
(*                                                                         *)
(* Addresses and sizes are bytes.  A free list is the sequence of its      *)
(* nodes from head_ along next.                                            *)
(***************************************************************************)
EXTENDS Integers, Sequences, FiniteSets, Functions

CONSTANTS
    kClassCount,    \* number of size classes (30 in the code)
    blockStride,    \* class -> bytes from one block to the next
    kRunSize,       \* bytes per run (64 KiB in the code)
    Runs            \* the addresses at which the OS may map a run

nullptr == -1
Class == 0 .. (kClassCount - 1)

ASSUME ClassAssumption == kClassCount \in Nat \ {0}

ASSUME StrideAssumption ==
    /\ kRunSize \in Nat
    /\ blockStride \in [Class -> 1 .. kRunSize]

(* The OS hands out disjoint mappings; two of them may touch.              *)
ASSUME RunAssumption ==
    /\ Runs \subseteq Nat
    /\ \A r, s \in Runs : r # s => r + kRunSize <= s \/ s + kRunSize <= r

VARIABLE shards     \* shards_: class -> Shard

Shard == [mutex : BOOLEAN, freeList : Seq(Nat),
          bumpCursor : Nat \cup {nullptr}, bumpEnd : Nat \cup {nullptr},
          runs : SUBSET Runs]

InitShards ==
    shards = [c \in Class |-> [mutex |-> FALSE, freeList |-> <<>>, bumpCursor |-> nullptr,
                               bumpEnd |-> nullptr, runs |-> {}]]

Unmapped == Runs \ UNION {shards[c].runs : c \in Class}

refill(shard, run) ==
    [shard EXCEPT !.bumpCursor = run, !.bumpEnd = run + kRunSize, !.runs = @ \cup {run}]

(* Mutation: any byte left counts as room for a block.                     *)
exhausted_Partial(shard, c) ==
    shard.bumpCursor = nullptr \/ shard.bumpEnd = shard.bumpCursor

exhausted(shard, c) ==
    shard.bumpCursor = nullptr \/ shard.bumpEnd - shard.bumpCursor < blockStride[c]

bump(shard, c) ==
    [block |-> shard.bumpCursor,
     shard |-> [shard EXCEPT !.bumpCursor = @ + blockStride[c]]]

(* Mutation: the free list is looked at only when no run can be mapped.    *)
takeBlock_RefillFirst(c) ==
    LET shard == shards[c]
    IN  IF ~exhausted(shard, c)
        THEN {bump(shard, c)}
        ELSE IF shard.freeList # <<>> /\ Unmapped = {}
             THEN {[block |-> Head(shard.freeList),
                    shard |-> [shard EXCEPT !.freeList = Tail(@)]]}
             ELSE {[block |-> nullptr, shard |-> shard]}
                  \cup {bump(refill(shard, run), c) : run \in Unmapped}

(* Mutation: the popped block stays at the head of the list.               *)
takeBlock_Peek(c) ==
    LET shard == shards[c]
    IN  IF shard.freeList # <<>>
        THEN {[block |-> Head(shard.freeList), shard |-> shard]}
        ELSE IF exhausted(shard, c)
             THEN {[block |-> nullptr, shard |-> shard]}
                  \cup {bump(refill(shard, run), c) : run \in Unmapped}
             ELSE {bump(shard, c)}

(* The outcomes of takeBlock: where a run must be mapped, the OS chooses   *)
(* its address or refuses.                                                 *)
takeBlock(c) ==
    LET shard == shards[c]
    IN  IF shard.freeList # <<>>
        THEN {[block |-> Head(shard.freeList),
               shard |-> [shard EXCEPT !.freeList = Tail(@)]]}
        ELSE IF exhausted(shard, c)
             THEN {[block |-> nullptr, shard |-> shard]}
                  \cup {bump(refill(shard, run), c) : run \in Unmapped}
             ELSE {bump(shard, c)}

(* FreeList::push of each block of a sequence in turn.                     *)
Reversed(blocks) == [i \in 1 .. Len(blocks) |-> blocks[(Len(blocks) - i) + 1]]

pushAll(shard, blocks) == [shard EXCEPT !.freeList = Reversed(blocks) \o @]

Unlocked(c) == ~shards[c].mutex

freeBatch(c, blocks) ==
    /\ Unlocked(c)
    /\ shards' = [shards EXCEPT ![c] = pushAll(@, blocks)]

(* The addresses a class has carved out of its runs so far.                *)
Slots(run, c) == {run + k * blockStride[c] : k \in 0 .. ((kRunSize \div blockStride[c]) - 1)}

Carved(c) ==
    {a \in UNION {Slots(run, c) : run \in shards[c].runs} :
        shards[c].bumpCursor <= a => shards[c].bumpEnd <= a}
=============================================================================
