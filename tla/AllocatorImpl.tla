--------------------------- MODULE AllocatorImpl ---------------------------
(***************************************************************************)
(* The front end (src/AllocatorImpl.cpp) with the registry of DebugLayer   *)
(* and the header in front of every user pointer, called by threads that   *)
(* interleave between the critical sections of the parts it calls.         *)
(*                                                                         *)
(* A tier is what BlockStore says of it: it hands out a block it has not   *)
(* handed out, or fails, and takes it back; `out` is the set of blocks     *)
(* handed out.  A user pointer is a block and an offset behind its raw     *)
(* header: 0 for a plain allocation, and the place after a shim header for *)
(* a guarded or an aligned one.  A step is one critical section, together  *)
(* with the thread's accesses to memory that is its own at that point.     *)
(* Sizes, poison and guard bytes are left out; the counters are one step   *)
(* here and the subject of StatisticsCollector.  Blocks keep their extent; *)
(* what the cutting and merging of the medium heap does to the headers of  *)
(* a free block is the action Neighbour.                                   *)
(***************************************************************************)
EXTENDS Integers, FiniteSets

CONSTANTS
    Threads,
    Blocks,                 \* the blocks of all tiers
    tier,                   \* block -> the tier it belongs to
    alignedOffset,          \* block -> offset alignUp gives an aligned allocation in it
    enableGuardBytes,       \* the configuration
    enableLeakTracking,
    callersDoubleFree       \* whether callers free a pointer twice

kFrontGuardSize == 32
Offset == {0, 16, kFrontGuardSize}
Pointer == Blocks \X Offset
nullptr == <<>>

ASSUME OffsetAssumption == alignedOffset \in [Blocks -> Offset \ {0}]
ASSUME TierAssumption == tier \in [Blocks -> {"Small", "Medium", "Large"}]
ASSUME ConfigAssumption ==
    /\ enableGuardBytes \in BOOLEAN /\ enableLeakTracking \in BOOLEAN
    /\ callersDoubleFree \in BOOLEAN

VARIABLES
    out,        \* the blocks the tiers have handed out
    state,      \* pointer -> state field of the header in front of it
    live_,      \* DebugLayer's registry of live pointers
    freed_,     \* DebugLayer's tombstones
    exhausted,  \* whether a container of the registry has run out of memory
    active,     \* stats: allocations recorded less frees recorded
    pc,         \* thread -> the step it takes next
    op,         \* thread -> the operation it runs, or ran last
    fresh,      \* thread -> the pointer it is allocating
    victim,     \* thread -> the pointer it is freeing
    result,     \* thread -> what its last operation returned
    held,       \* the pointers callers may use
    stale       \* the pointers callers have freed

memory == <<out, state>>
registry == <<live_, freed_, exhausted>>
client == <<held, stale>>
vars == <<out, state, live_, freed_, exhausted, active, pc, op, fresh, victim, result,
          held, stale>>

BlockOf(p) == p[1]
RawOf(p) == <<p[1], 0>>

Init ==
    /\ out = {}
    /\ state = [p \in Pointer |-> "garbage"]
    /\ live_ = {} /\ freed_ = {} /\ exhausted = FALSE
    /\ active = 0
    /\ pc = [t \in Threads |-> "idle"]
    /\ op = [t \in Threads |-> "none"]
    /\ fresh = [t \in Threads |-> nullptr]
    /\ victim = [t \in Threads |-> nullptr]
    /\ result = [t \in Threads |-> "ok"]
    /\ held = {} /\ stale = {}

Goto(t, label) == pc' = [pc EXCEPT ![t] = label]
Return(t, value) == Goto(t, "idle") /\ result' = [result EXCEPT ![t] = value]

-----------------------------------------------------------------------------
(* allocate and alignedAllocate                                            *)

(* The calls that start here: allocate and alignedAllocate by an idle      *)
(* thread, or allocate inside reallocate.                                  *)
Starts(t, call) ==
    \/ /\ pc[t] = "idle"
       /\ op' = [op EXCEPT ![t] = call]
       /\ victim' = [victim EXCEPT ![t] = nullptr]
    \/ pc[t] = "grow" /\ call = "allocate" /\ UNCHANGED <<op, victim>>

userOffset(block, call) ==
    IF call = "alignedAllocate"
    THEN alignedOffset[block]
    ELSE IF enableGuardBytes THEN kFrontGuardSize ELSE 0

(* The headers of a block that has just been handed out as user; what a    *)
(* former shim holds is left alone or overwritten by the new owner.        *)
headersOf(user, written) ==
    {[p \in Pointer |->
         IF BlockOf(p) # BlockOf(user) THEN state[p]
         ELSE IF p \in written THEN "allocated"
         ELSE IF overwritten \/ state[p] = "unmapped" THEN "garbage"
         ELSE state[p]] : overwritten \in BOOLEAN}

(* rawAllocate writes the raw header, applyGuards or alignedAllocate the   *)
(* shim.                                                                   *)
rawAllocate(t, call) ==
    /\ Starts(t, call)
    /\ \E block \in Blocks \ out :
          LET user == <<block, userOffset(block, call)>>
          IN  /\ out' = out \cup {block}
              /\ fresh' = [fresh EXCEPT ![t] = user]
              /\ state' \in headersOf(user, {user, RawOf(user)})
    /\ Goto(t, "record")
    /\ UNCHANGED <<registry, active, result, client>>

(* Mutation: a failed reallocate gives the old block back to its tier.     *)
rawAllocateFails_FreesOld(t, call) ==
    /\ Starts(t, call)
    /\ Return(t, "OutOfMemory")
    /\ held' = IF pc[t] = "grow" THEN held \cup {victim[t]} ELSE held
    /\ out' = IF pc[t] = "grow" THEN out \ {BlockOf(victim[t])} ELSE out
    /\ UNCHANGED <<state, registry, active, fresh, stale>>

(* Mutation: the statistics are told before the tier is asked.             *)
rawAllocateFails_Counted(t, call) ==
    /\ Starts(t, call)
    /\ Return(t, "OutOfMemory")
    /\ held' = IF pc[t] = "grow" THEN held \cup {victim[t]} ELSE held
    /\ active' = active + 1
    /\ UNCHANGED <<memory, registry, fresh, stale>>

(* Mutation: a failed reallocate has already dropped the caller's block.   *)
rawAllocateFails_DropsOld(t, call) ==
    /\ Starts(t, call)
    /\ Return(t, "OutOfMemory")
    /\ UNCHANGED <<memory, registry, active, fresh, client>>

(* The tier has no block: report OutOfMemory.  In reallocate the caller    *)
(* keeps the pointer it passed.                                            *)
rawAllocateFails(t, call) ==
    /\ Starts(t, call)
    /\ Return(t, "OutOfMemory")
    /\ held' = IF pc[t] = "grow" THEN held \cup {victim[t]} ELSE held
    /\ UNCHANGED <<memory, registry, active, fresh, stale>>

(* After allocate: its caller gets the pointer, or reallocate frees the    *)
(* old one.                                                                *)
Allocated(t) ==
    IF op[t] = "reallocate"
    THEN /\ Goto(t, IF enableLeakTracking THEN "isTracked" ELSE "header")
         /\ UNCHANGED <<result, held>>
    ELSE Return(t, "ok") /\ held' = held \cup {fresh[t]}

recordAllocation(t) ==
    /\ pc[t] = "record"
    /\ active' = active + 1
    /\ IF enableLeakTracking
       THEN Goto(t, "track") /\ UNCHANGED <<result, held>>
       ELSE Allocated(t)
    /\ UNCHANGED <<memory, registry, op, fresh, victim, stale>>

track(t) ==
    /\ pc[t] = "track"
    /\ live_' = live_ \cup {fresh[t]}
    /\ freed_' = freed_ \ {fresh[t]}
    /\ Allocated(t)
    /\ UNCHANGED <<memory, exhausted, active, op, fresh, victim, stale>>

(* live_ cannot grow: the exception is swallowed, before the tombstone of  *)
(* the address is erased.                                                  *)
trackThrows(t) ==
    /\ pc[t] = "track" /\ exhausted' = TRUE
    /\ Allocated(t)
    /\ UNCHANGED <<memory, live_, freed_, active, op, fresh, victim, stale>>

-----------------------------------------------------------------------------
(* deallocate                                                              *)

Begin(t, call, p) ==
    /\ pc[t] = "idle"
    /\ op' = [op EXCEPT ![t] = call]
    /\ victim' = [victim EXCEPT ![t] = p]
    /\ fresh' = [fresh EXCEPT ![t] = nullptr]

(* A caller frees a pointer it holds, on any thread.                       *)
deallocate(t, p) ==
    /\ Begin(t, "deallocate", p)
    /\ p \in held /\ held' = held \ {p}
    /\ Goto(t, IF enableLeakTracking THEN "isTracked" ELSE "header")
    /\ UNCHANGED <<memory, registry, active, result, stale>>

(* A caller frees a pointer a second time while its block is in the tier.  *)
(* Reading the header of an unmapped block is a fault; only the registry   *)
(* lets deallocate do without.                                             *)
StaleFree(t, p) ==
    /\ callersDoubleFree
    /\ Begin(t, "stale", p)
    /\ BlockOf(p) \notin out
    /\ enableLeakTracking \/ state[p] # "unmapped"
    /\ Goto(t, IF enableLeakTracking THEN "isTracked" ELSE "header")
    /\ UNCHANGED <<memory, registry, active, result, client>>

isTracked(t) ==
    /\ pc[t] = "isTracked"
    /\ Goto(t, IF victim[t] \in live_ THEN "header" ELSE "wasFreed")
    /\ UNCHANGED <<memory, registry, active, op, fresh, victim, result, client>>

wasFreed(t) ==
    /\ pc[t] = "wasFreed"
    /\ Return(t, IF victim[t] \in freed_ THEN "DoubleFree" ELSE "InvalidPointer")
    /\ UNCHANGED <<memory, registry, active, op, fresh, victim, client>>

(* The checks on the header's tier and state.                              *)
header(t) ==
    /\ pc[t] = "header"
    /\ CASE state[victim[t]] = "allocated" -> Goto(t, "release") /\ UNCHANGED result
         [] state[victim[t]] = "freed" -> Return(t, "DoubleFree")
         [] OTHER -> Return(t, "InvalidPointer")
    /\ UNCHANGED <<memory, registry, active, op, fresh, victim, client>>

Without(block) == [q \in Pointer |-> IF BlockOf(q) = block THEN "unmapped" ELSE state[q]]

(* What the headers of a block hold once its tier has it back.  The free   *)
(* list of a small block overlays the raw header's size, not its state.    *)
(* The FreeNode of a medium block lies where a shim at offset 16 is, unless *)
(* the block was merged into the one before it; its segment may be         *)
(* unmapped.  A large block is unmapped.                                   *)
headersAfter(p, block) ==
    LET marked == [state EXCEPT ![p] = "freed", ![RawOf(p)] = "freed"]
    IN  CASE tier[block] = "Small" -> {marked}
          [] tier[block] = "Medium" ->
                {marked, [marked EXCEPT ![<<block, 16>>] = "garbage"], Without(block)}
          [] OTHER -> {Without(block)}

(* deallocate marks a shim before it calls rawDeallocate.                  *)
markedShim(p) == IF p = RawOf(p) THEN state ELSE [state EXCEPT ![p] = "freed"]

(* Mark the headers as freed and give the block back.  The large tier      *)
(* refuses a payload it has no region for.                                 *)
rawDeallocate(t) ==
    LET block == BlockOf(victim[t])
    IN  /\ pc[t] = "release"
        /\ IF tier[block] = "Large" /\ block \notin out
           THEN /\ state' = markedShim(victim[t])
                /\ UNCHANGED out
                /\ Return(t, "InvalidPointer")
           ELSE /\ state' \in headersAfter(victim[t], block)
                /\ out' = out \ {block}
                /\ Goto(t, "recordFree")
                /\ UNCHANGED result
        /\ UNCHANGED <<registry, active, op, fresh, victim, client>>

(* Mutation: reallocate returns the pointer it was given.                  *)
Freed_ReturnsOld(t) ==
    /\ Return(t, "ok")
    /\ stale' = stale \cup {victim[t]}
    /\ held' = IF op[t] = "reallocate" THEN held \cup {victim[t]} ELSE held

(* After deallocate: reallocate returns the fresh pointer.                 *)
Freed(t) ==
    /\ Return(t, "ok")
    /\ stale' = stale \cup {victim[t]}
    /\ held' = IF op[t] = "reallocate" THEN held \cup {fresh[t]} ELSE held

(* Mutation: the headers are marked after the block was given back.        *)
recordFree_MarksLate(t) ==
    /\ pc[t] = "recordFree"
    /\ active' = active - 1
    /\ state' = [state EXCEPT ![victim[t]] = "freed", ![RawOf(victim[t])] = "freed"]
    /\ IF enableLeakTracking
       THEN Goto(t, "untrack") /\ UNCHANGED <<result, client>>
       ELSE Freed(t)
    /\ UNCHANGED <<out, registry, op, fresh, victim>>

(* Mutation: reallocate frees the old block behind the registry's back.    *)
recordFree_Untold(t) ==
    /\ pc[t] = "recordFree"
    /\ active' = active - 1
    /\ IF enableLeakTracking /\ op[t] # "reallocate"
       THEN Goto(t, "untrack") /\ UNCHANGED <<result, client>>
       ELSE Freed(t)
    /\ UNCHANGED <<memory, registry, op, fresh, victim>>

recordFree(t) ==
    /\ pc[t] = "recordFree"
    /\ active' = active - 1
    /\ IF enableLeakTracking
       THEN Goto(t, "untrack") /\ UNCHANGED <<result, client>>
       ELSE Freed(t)
    /\ UNCHANGED <<memory, registry, op, fresh, victim>>

(* Mutation: no tombstone.                                                 *)
untrack_NoTombstone(t) ==
    /\ pc[t] = "untrack"
    /\ live_' = live_ \ {victim[t]}
    /\ Freed(t)
    /\ UNCHANGED <<memory, freed_, exhausted, active, op, fresh, victim>>

untrack(t) ==
    /\ pc[t] = "untrack"
    /\ live_' = live_ \ {victim[t]}
    /\ freed_' = IF victim[t] \in live_ THEN freed_ \cup {victim[t]} ELSE freed_
    /\ Freed(t)
    /\ UNCHANGED <<memory, exhausted, active, op, fresh, victim>>

(* freed_ cannot grow: the pointer gets no tombstone.                      *)
untrackThrows(t) ==
    /\ pc[t] = "untrack" /\ exhausted' = TRUE
    /\ live_' = live_ \ {victim[t]}
    /\ Freed(t)
    /\ UNCHANGED <<memory, freed_, active, op, fresh, victim>>

-----------------------------------------------------------------------------
(* reallocate of a pointer the caller holds, to a size that is not 0       *)

reallocate(t, p) ==
    /\ Begin(t, "reallocate", p)
    /\ p \in held /\ held' = held \ {p}
    /\ Goto(t, "allocationSize")
    /\ UNCHANGED <<memory, registry, active, result, stale>>

allocationSize(t) ==
    /\ pc[t] = "allocationSize"
    /\ IF (enableLeakTracking /\ victim[t] \notin live_) \/ state[victim[t]] # "allocated"
       THEN Return(t, "InvalidPointer") /\ held' = held \cup {victim[t]}
       ELSE Goto(t, "grow") /\ UNCHANGED <<result, held>>
    /\ UNCHANGED <<memory, registry, active, op, fresh, victim, stale>>

-----------------------------------------------------------------------------
(* A call on another medium block merges free memory that p's header lies  *)
(* in, cuts it anew or unmaps it.  A MediumBlock or a FreeNode over the    *)
(* header leaves no valid tier in it: what they have in its place is the   *)
(* low end of a size or an address, a multiple of 16.                      *)
Neighbour(t, p) ==
    /\ pc[t] = "idle"
    /\ tier[BlockOf(p)] = "Medium" /\ BlockOf(p) \notin out
    /\ state' \in {[state EXCEPT ![p] = "garbage"], Without(BlockOf(p))}
    /\ UNCHANGED <<out, registry, active, pc, op, fresh, victim, result, client>>

-----------------------------------------------------------------------------

step(t) ==
    \/ \E call \in {"allocate", "alignedAllocate"} : rawAllocate(t, call) \/ rawAllocateFails(t, call)
    \/ recordAllocation(t) \/ track(t) \/ trackThrows(t)
    \/ \E p \in held : deallocate(t, p) \/ reallocate(t, p)
    \/ \E p \in stale : StaleFree(t, p)
    \/ isTracked(t) \/ wasFreed(t) \/ header(t) \/ rawDeallocate(t)
    \/ recordFree(t) \/ untrack(t) \/ untrackThrows(t)
    \/ allocationSize(t)
    \/ \E p \in Pointer : Neighbour(t, p)

Next == \E t \in Threads : step(t)

Spec == Init /\ [][Next]_vars

-----------------------------------------------------------------------------
(* Properties                                                              *)

Quiescent == \A t \in Threads : pc[t] = "idle"

TypeOK ==
    /\ out \subseteq Blocks
    /\ state \in [Pointer -> {"garbage", "allocated", "freed", "unmapped"}]
    /\ live_ \subseteq Pointer /\ freed_ \subseteq Pointer
    /\ active \in Int
    /\ held \subseteq Pointer /\ stale \subseteq Pointer

(* A call that respects the contract never gets an error other than        *)
(* OutOfMemory: the headers and the registry it is checked against are     *)
(* those of its own allocation, whatever other threads are doing.  Only a  *)
(* registry that ran out of memory makes an exception.                     *)
LegalCallsSucceed ==
    ~exhausted => \A t \in Threads :
        pc[t] = "idle" /\ op[t] # "stale" => result[t] \in {"ok", "OutOfMemory"}

(* The pointer a thread is freeing is its own until the tier has the block *)
(* back, and the one it has allocated until its caller gets it.            *)
HasVictim(t) ==
    \/ pc[t] \in {"allocationSize", "grow", "isTracked", "header", "release"}
    \/ pc[t] \in {"record", "track"} /\ op[t] = "reallocate"
HasFresh(t) ==
    \/ pc[t] \in {"record", "track"}
    \/ pc[t] \in {"isTracked", "header", "release", "recordFree", "untrack"} /\ op[t] = "reallocate"

(* p is in somebody's hands: its block is out, its header says allocated.  *)
InHand(p) == p \in Pointer /\ BlockOf(p) \in out /\ state[p] = "allocated"

(* Two callers never hold pointers into one block, and a held block has    *)
(* not been given back to its tier.                                        *)
HeldExclusively ==
    /\ \A p \in held : BlockOf(p) \in out
    /\ \A p, q \in held : BlockOf(p) = BlockOf(q) => p = q

(* A block that goes back to its tier is one the tier has handed out.      *)
GivesWhatIsOut ==
    \A t \in Threads :
        pc[t] = "release" /\ pc'[t] = "recordFree" => BlockOf(victim[t]) \in out

(* What the modules of the tiers assume of their caller: deallocate gives  *)
(* a block back only while it is handed out.  A double free never reaches  *)
(* a tier, which would put the block on a free list twice.                 *)
TierContract == [][GivesWhatIsOut]_vars

(* With no call in progress, the blocks the tiers have out are the ones    *)
(* callers hold: no error path of allocate, deallocate or reallocate leaks *)
(* a block.                                                                *)
NothingLeaks == Quiescent => out = {BlockOf(p) : p \in held}

(* With no call in progress, the statistics count what callers hold.       *)
ActiveExact == Quiescent => active = Cardinality(held)

(* With no call in progress, the registry holds exactly the pointers       *)
(* callers hold, which is what it reports as leaks.  Once it has run out   *)
(* of memory it may miss some, but has none that callers do not hold.      *)
RegistryExact ==
    enableLeakTracking /\ Quiescent =>
        /\ live_ \subseteq held
        /\ ~exhausted => held \subseteq live_

DoubleFreed(t) == pc[t] = "idle" /\ op[t] = "stale"

(* With leak tracking, a double free is reported as one while the block is *)
(* in its tier, whatever has become of its headers there.                  *)
DoubleFreeReported ==
    enableLeakTracking /\ ~exhausted =>
        \A t \in Threads : DoubleFreed(t) => result[t] = "DoubleFree"

(* Without it, the headers still refuse every double free of a block that  *)
(* is in its tier, and the raw header of a small block, which the tier     *)
(* leaves alone, tells what it is.                                         *)
HeadersRefuse ==
    ~enableLeakTracking => \A t \in Threads : DoubleFreed(t) =>
        /\ result[t] \in {"DoubleFree", "InvalidPointer"}
        /\ tier[BlockOf(victim[t])] = "Small" /\ victim[t] = RawOf(victim[t])
               => result[t] = "DoubleFree"

(* docs/debugging.md: freeing a block whose state is already freed reports *)
(* DoubleFree.                                                             *)
EveryDoubleFreeReported ==
    ~exhausted => \A t \in Threads : DoubleFreed(t) => result[t] = "DoubleFree"
=============================================================================
