---------------------------- MODULE ThreadCache ----------------------------
(***************************************************************************)
(* The small tier as threads use it: per-thread caches of free blocks      *)
(* (src/ThreadCache.cpp) over the shards of PoolAllocator, with the choice *)
(* between cache and shard that AllocatorImpl::threadCache makes, blocks   *)
(* freed by another thread than the one that allocated them, and threads   *)
(* that exit while others work.                                            *)
(*                                                                         *)
(* A thread touches its own cache without a lock.  allocateBatch holds the *)
(* shard's mutex while it writes block after block into the cache, and     *)
(* each block is a step here; every other operation is one critical        *)
(* section, or none, and is one step.  The allocator outlives the threads. *)
(***************************************************************************)
EXTENDS PoolAllocator

CONSTANTS
    Threads,
    kCapacity,      \* slots per class in a cache (64 in the code)
    kBatchSize      \* blocks moved at once (16 in the code)

ASSUME CacheAssumption ==
    /\ kCapacity \in Nat /\ kBatchSize \in Nat
    /\ 0 < kBatchSize /\ kBatchSize <= kCapacity

VARIABLES
    cached,     \* the threads that have a ThreadCache
    slots,      \* thread -> class -> slots[0 .. count - 1] of its ClassCache
    pc,         \* thread -> what it is in the middle of
    at,         \* thread -> the class it is working on
    owned       \* class -> the blocks in callers' hands

vars == <<shards, cached, slots, pc, at, owned>>

Init ==
    /\ InitShards
    /\ cached = {}
    /\ slots = [t \in Threads |-> [c \in Class |-> <<>>]]
    /\ pc = [t \in Threads |-> "idle"]
    /\ at = [t \in Threads |-> 0]
    /\ owned = [c \in Class |-> {}]

HandOut(c, block) == owned' = [owned EXCEPT ![c] = @ \cup {block}]
TakeBack(c, block) == block \in owned[c] /\ owned' = [owned EXCEPT ![c] = @ \ {block}]

-----------------------------------------------------------------------------
(* PoolAllocator called directly: caching is disabled, or threadCache()    *)
(* could not create the cache and fell back to nullptr.                    *)

allocateBlock(t, c) ==
    /\ pc[t] = "idle" /\ t \notin cached
    /\ Unlocked(c)
    /\ \E taken \in takeBlock(c) :
          /\ shards' = [shards EXCEPT ![c] = taken.shard]
          /\ IF taken.block = nullptr THEN UNCHANGED owned ELSE HandOut(c, taken.block)
    /\ UNCHANGED <<cached, slots, pc, at>>

freeBlock(t, c, block) ==
    /\ pc[t] = "idle" /\ t \notin cached
    /\ TakeBack(c, block)
    /\ freeBatch(c, <<block>>)
    /\ UNCHANGED <<cached, slots, pc, at>>

-----------------------------------------------------------------------------
(* ThreadCache::allocateBlock                                              *)

BelowTop(list) == SubSeq(list, 1, Len(list) - 1)

Top(list) == list[Len(list)]

(* The end of allocateBlock: --count, return slots[count].                 *)
PopSlot(t, c) ==
    /\ slots' = [slots EXCEPT ![t][c] = BelowTop(@)]
    /\ HandOut(c, Top(slots[t][c]))

allocateHit(t, c) ==
    /\ pc[t] = "idle" /\ t \in cached
    /\ slots[t][c] # <<>>
    /\ PopSlot(t, c)
    /\ UNCHANGED <<shards, cached, pc, at>>

(* The cache is empty, or not created yet: allocateBatch locks the shard.  *)
allocateMiss(t, c) ==
    /\ pc[t] = "idle"
    /\ slots[t][c] = <<>>
    /\ Unlocked(c)
    /\ shards' = [shards EXCEPT ![c].mutex = TRUE]
    /\ cached' = cached \cup {t}
    /\ pc' = [pc EXCEPT ![t] = "batch"]
    /\ at' = [at EXCEPT ![t] = c]
    /\ UNCHANGED <<slots, owned>>

BatchFull(t) == Len(slots[t][at[t]]) >= kBatchSize

(* One turn of the loop of allocateBatch that gets a block.                *)
batchTake(t) ==
    /\ pc[t] = "batch" /\ ~BatchFull(t)
    /\ \E taken \in takeBlock(at[t]) :
          /\ taken.block # nullptr
          /\ shards' = [shards EXCEPT ![at[t]] = taken.shard]
          /\ slots' = [slots EXCEPT ![t][at[t]] = Append(@, taken.block)]
    /\ UNCHANGED <<cached, pc, at, owned>>

(* Mutation: the loop goes round again when takeBlock returned nullptr.    *)
batchEnd_Retries(t) ==
    /\ pc[t] = "batch"
    /\ IF BatchFull(t)
       THEN /\ shards' = [shards EXCEPT ![at[t]].mutex = FALSE]
            /\ pc' = [pc EXCEPT ![t] = "idle"]
            /\ PopSlot(t, at[t])
            /\ UNCHANGED <<cached, at>>
       ELSE /\ \E taken \in takeBlock(at[t]) : taken.block = nullptr
            /\ UNCHANGED vars

(* The loop ends, full or because takeBlock returned nullptr; the mutex is *)
(* released, and allocateBlock returns a block unless it got none.         *)
batchEnd(t) ==
    /\ pc[t] = "batch"
    /\ BatchFull(t) \/ \E taken \in takeBlock(at[t]) : taken.block = nullptr
    /\ shards' = [shards EXCEPT ![at[t]].mutex = FALSE]
    /\ pc' = [pc EXCEPT ![t] = "idle"]
    /\ IF slots[t][at[t]] = <<>>
       THEN UNCHANGED <<slots, owned>>
       ELSE PopSlot(t, at[t])
    /\ UNCHANGED <<cached, at>>

-----------------------------------------------------------------------------
(* ThreadCache::freeBlock                                                  *)

(* Mutation: count is not compared with kCapacity.                         *)
freeKeep_NoBound(t, c, block) ==
    /\ pc[t] = "idle"
    /\ TakeBack(c, block)
    /\ slots' = [slots EXCEPT ![t][c] = Append(@, block)]
    /\ cached' = cached \cup {t}
    /\ UNCHANGED <<shards, pc, at>>

freeKeep(t, c, block) ==
    /\ pc[t] = "idle"
    /\ TakeBack(c, block)
    /\ Len(slots[t][c]) # kCapacity
    /\ slots' = [slots EXCEPT ![t][c] = Append(@, block)]
    /\ cached' = cached \cup {t}
    /\ UNCHANGED <<shards, pc, at>>

(* A full cache first gives its last kBatchSize slots back to the shard.   *)
freeSpill(t, c, block) ==
    LET keep == kCapacity - kBatchSize
        mine == slots[t][c]
    IN  /\ pc[t] = "idle" /\ t \in cached
        /\ TakeBack(c, block)
        /\ Len(mine) = kCapacity
        /\ freeBatch(c, SubSeq(mine, keep + 1, kCapacity))
        /\ slots' = [slots EXCEPT ![t][c] = Append(SubSeq(mine, 1, keep), block)]
        /\ UNCHANGED <<cached, pc, at>>

-----------------------------------------------------------------------------
(* ~ThreadCache, when its thread exits                                     *)

exit(t) ==
    /\ pc[t] = "idle"
    /\ pc' = [pc EXCEPT ![t] = "exit"]
    /\ at' = [at EXCEPT ![t] = 0]
    /\ UNCHANGED <<shards, cached, slots, owned>>

Advance(t) ==
    IF at[t] + 1 \in Class
    THEN at' = [at EXCEPT ![t] = @ + 1] /\ UNCHANGED <<pc, cached>>
    ELSE pc' = [pc EXCEPT ![t] = "gone"] /\ cached' = cached \ {t} /\ UNCHANGED at

(* Mutation: the slots are dropped.                                        *)
exitFlush_Drops(t) ==
    /\ pc[t] = "exit" /\ slots[t][at[t]] # <<>>
    /\ slots' = [slots EXCEPT ![t][at[t]] = <<>>]
    /\ Advance(t)
    /\ UNCHANGED <<shards, owned>>

exitFlush(t) ==
    /\ pc[t] = "exit" /\ slots[t][at[t]] # <<>>
    /\ freeBatch(at[t], slots[t][at[t]])
    /\ slots' = [slots EXCEPT ![t][at[t]] = <<>>]
    /\ Advance(t)
    /\ UNCHANGED owned

exitSkip(t) ==
    /\ pc[t] = "exit" /\ slots[t][at[t]] = <<>>
    /\ Advance(t)
    /\ UNCHANGED <<shards, slots, owned>>

-----------------------------------------------------------------------------

allocate(t) == \E c \in Class : allocateBlock(t, c) \/ allocateHit(t, c) \/ allocateMiss(t, c)

free(t) ==
    \E c \in Class : \E block \in owned[c] :
        freeBlock(t, c, block) \/ freeKeep(t, c, block) \/ freeSpill(t, c, block)

batch(t) == batchTake(t) \/ batchEnd(t)

destroy(t) == exit(t) \/ exitFlush(t) \/ exitSkip(t)

(* Every thread has exited; the process goes on without the small tier.    *)
Finished == (\A t \in Threads : pc[t] = "gone") /\ UNCHANGED vars

Next == (\E t \in Threads : allocate(t) \/ free(t) \/ batch(t) \/ destroy(t)) \/ Finished

(* A thread inside allocateBatch keeps running: it holds the mutex, waits  *)
(* for nothing and calls nothing that blocks.                              *)
Spec == Init /\ [][Next]_vars /\ \A t \in Threads : WF_vars(batch(t))
-----------------------------------------------------------------------------
(* Properties                                                              *)

InList(c) == Range(shards[c].freeList)
InCache(t, c) == Range(slots[t][c])

TypeOK ==
    /\ shards \in [Class -> Shard]
    /\ cached \subseteq Threads
    /\ slots \in [Threads -> [Class -> Seq(Nat)]]
    /\ pc \in [Threads -> {"idle", "batch", "exit", "gone"}]
    /\ at \in [Threads -> Class]
    /\ owned \in [Class -> SUBSET Nat]

(* A block is in one place: once in the free list of its shard, once in    *)
(* one thread's cache, or in a caller's hands.  No step of any two threads *)
(* makes takeBlock, a cache or a batch hand the same block out twice.      *)
ExclusiveBlocks ==
    \A c \in Class :
        /\ IsInjective(shards[c].freeList)
        /\ InList(c) \cap owned[c] = {}
        /\ \A t \in Threads :
              /\ IsInjective(slots[t][c])
              /\ InCache(t, c) \cap (InList(c) \cup owned[c]) = {}
              /\ \A u \in Threads \ {t} : InCache(t, c) \cap InCache(u, c) = {}

(* Every block carved out of a run stays reachable: refills, spills,       *)
(* partial batches and the flush of an exiting thread lose none, and a     *)
(* thread that is gone holds none.                                         *)
NoBlockLost ==
    \A c \in Class :
        Carved(c) = InList(c) \cup owned[c]
                    \cup UNION {InCache(t, c) : t \in {u \in Threads : pc[u] # "gone"}}

(* count stays within the slots array, and a batch within its span.        *)
CacheBound ==
    \A t \in Threads, c \in Class :
        /\ Len(slots[t][c]) <= kCapacity
        /\ pc[t] = "batch" /\ at[t] = c => Len(slots[t][c]) <= kBatchSize

(* A run is mapped only when every block of the class is in a caller's     *)
(* hands or in some cache: free blocks are used before memory is mapped.   *)
NoEarlyRefill ==
    [][\A c \in Class :
           shards'[c].runs # shards[c].runs
               => InList(c) = {}
                  /\ \A run \in shards[c].runs : Slots(run, c) \subseteq Carved(c)]_vars

(* Every allocateBatch ends, so the shard's mutex is released.             *)
BatchEnds == \A t \in Threads : pc[t] = "batch" ~> pc[t] = "idle"

Store == INSTANCE BlockStore WITH
    Addrs <- UNION {Slots(run, c) : run \in Runs, c \in Class},
    Extents <- {blockStride[c] : c \in Class},
    owned <- [a \in UNION {owned[c] : c \in Class} |->
                 blockStride[CHOOSE c \in Class : a \in owned[c]]]

(* The small tier implements BlockStore, for all classes together.         *)
StoreSpec == Store!Spec
=============================================================================
