--------------------------- MODULE LargeAllocator ---------------------------
(***************************************************************************)
(* The large tier (src/LargeAllocator.cpp): a mapping for every block, and *)
(* a registry of them under a mutex, called by rawAllocate and             *)
(* rawDeallocate of src/AllocatorImpl.cpp.  A step is one critical         *)
(* section, or the mmap that allocate does before it takes the mutex; the  *)
(* system gives an address out again as soon as it is unmapped.            *)
(***************************************************************************)
EXTENDS SystemMemory

CONSTANTS
    Threads,
    Requests,           \* bytes asked of this tier
    kPayloadOffset,     \* 16 in the code
    kHeaderSize         \* 16 in the code

ASSUME LargeAssumption ==
    /\ Requests \subseteq Nat /\ kPayloadOffset \in Nat /\ kHeaderSize \in Nat
    /\ \A n \in Requests : n >= kHeaderSize

VARIABLES
    regions_,   \* payload -> its MappedRegion
    region,     \* thread -> the local MappedRegion of its allocate
    pc,         \* thread -> the step it takes next
    payload,    \* thread -> the payload it allocates or frees
    reserved,   \* thread -> the payloadCapacity it has read, less the header
    owned       \* the blocks in callers' hands: payload -> bytes reserved

vars == <<mapped, regions_, region, pc, payload, reserved, owned>>

nullptr == 0

Without(f, x) == [y \in DOMAIN f \ {x} |-> f[y]]
With(f, x, v) == [y \in DOMAIN f \cup {x} |-> IF y = x THEN v ELSE f[y]]

Init ==
    /\ mapped = [a \in {} |-> 0]
    /\ regions_ = [p \in {} |-> empty]
    /\ region = [t \in Threads |-> empty]
    /\ pc = [t \in Threads |-> "idle"]
    /\ payload = [t \in Threads |-> nullptr]
    /\ reserved = [t \in Threads |-> 0]
    /\ owned = [p \in {} |-> 0]

Goto(t, label) == pc' = [pc EXCEPT ![t] = label]

-----------------------------------------------------------------------------
(* The mapping of allocate, which returns nullptr when there is none.      *)
allocate(t, bytes) ==
    /\ pc[t] = "idle"
    /\ \E r \in map(bytes + kPayloadOffset) :
          /\ construct(r)
          /\ region' = [region EXCEPT ![t] = r]
          /\ payload' = [payload EXCEPT ![t] = IF valid(r) THEN r.data + kPayloadOffset ELSE nullptr]
          /\ Goto(t, IF valid(r) THEN "emplace" ELSE "idle")
    /\ UNCHANGED <<regions_, reserved, owned>>

(* emplace moves the local region into the registry.  For a key that is    *)
(* there already it moves it into a node that it destroys, and allocate    *)
(* returns the payload all the same.                                       *)
emplace(t) ==
    /\ pc[t] = "emplace"
    /\ IF payload[t] \in DOMAIN regions_
       THEN reset({region[t]}) /\ UNCHANGED regions_
       ELSE regions_' = With(regions_, payload[t], region[t]) /\ UNCHANGED mapped
    /\ region' = [region EXCEPT ![t] = empty]
    /\ Goto(t, "reserved")
    /\ UNCHANGED <<payload, reserved, owned>>

(* Mutation: the capacity of a block includes the offset of its payload.   *)
payloadCapacity_WholeRegion(p) == IF p \in DOMAIN regions_ THEN regions_[p].size ELSE 0

payloadCapacity(p) == IF p \in DOMAIN regions_ THEN regions_[p].size - kPayloadOffset ELSE 0

(* The end of rawAllocate: the caller has the block.                       *)
returnPayload(t) ==
    /\ pc[t] = "reserved"
    /\ owned' = With(owned, payload[t], payloadCapacity(payload[t]) - kHeaderSize)
    /\ Goto(t, "idle")
    /\ UNCHANGED <<mapped, regions_, region, payload, reserved>>

(* Mutation: the header is counted as reserved.                            *)
rawDeallocate_WithHeader(t, p) ==
    /\ pc[t] = "idle"
    /\ p \in DOMAIN owned /\ owned' = Without(owned, p)
    /\ payload' = [payload EXCEPT ![t] = p]
    /\ reserved' = [reserved EXCEPT ![t] = payloadCapacity(p)]
    /\ Goto(t, "deallocate")
    /\ UNCHANGED <<mapped, regions_, region>>

(* Mutation: the block is unmapped before the registry forgets it.         *)
rawDeallocate_UnmapsFirst(t, p) ==
    /\ pc[t] = "idle"
    /\ p \in DOMAIN owned /\ owned' = Without(owned, p)
    /\ payload' = [payload EXCEPT ![t] = p]
    /\ reserved' = [reserved EXCEPT ![t] = payloadCapacity(p) - kHeaderSize]
    /\ reset({regions_[p]})
    /\ Goto(t, "deallocate")
    /\ UNCHANGED <<regions_, region>>

(* rawDeallocate reads the capacity before it frees.                       *)
rawDeallocate(t, p) ==
    /\ pc[t] = "idle"
    /\ p \in DOMAIN owned /\ owned' = Without(owned, p)
    /\ payload' = [payload EXCEPT ![t] = p]
    /\ reserved' = [reserved EXCEPT ![t] = payloadCapacity(p) - kHeaderSize]
    /\ Goto(t, "deallocate")
    /\ UNCHANGED <<mapped, regions_, region>>

(* erase destroys the region, which unmaps it, with the mutex held.        *)
deallocate(t) ==
    /\ pc[t] = "deallocate"
    /\ reset({regions_[p] : p \in {payload[t]} \cap DOMAIN regions_})
    /\ regions_' = Without(regions_, payload[t])
    /\ Goto(t, "idle")
    /\ UNCHANGED <<region, payload, reserved, owned>>

(* ~LargeAllocator, once no call is in progress, destroys every region,    *)
(* those of blocks that were never freed included.                         *)
destroy ==
    /\ \A t \in Threads : pc[t] = "idle"
    /\ reset({regions_[p] : p \in DOMAIN regions_})
    /\ regions_' = [p \in {} |-> empty]
    /\ pc' = [t \in Threads |-> "gone"]
    /\ UNCHANGED <<region, payload, reserved, owned>>

Destroyed == (\A t \in Threads : pc[t] = "gone") /\ UNCHANGED vars

step(t) ==
    \/ \E bytes \in Requests : allocate(t, bytes)
    \/ emplace(t) \/ returnPayload(t)
    \/ \E p \in DOMAIN owned : rawDeallocate(t, p)
    \/ deallocate(t)

Next == (\E t \in Threads : step(t)) \/ destroy \/ Destroyed

Spec == Init /\ [][Next]_vars

-----------------------------------------------------------------------------
(* Properties                                                              *)

alive == \E t \in Threads : pc[t] # "gone"

Region == [data : Nat, size : Nat]

TypeOK ==
    /\ \A a \in DOMAIN mapped : a \in Nat /\ mapped[a] \in Nat \ {0}
    /\ \A p \in DOMAIN regions_ : p \in Nat /\ regions_[p] \in Region
    /\ region \in [Threads -> Region]
    /\ pc \in [Threads -> {"idle", "emplace", "reserved", "deallocate", "gone"}]
    /\ payload \in [Threads -> Nat] /\ reserved \in [Threads -> Nat]
    /\ \A p \in DOMAIN owned : p \in Nat /\ owned[p] \in Nat

(* Every mapping is owned by one MappedRegion, of the registry or of a     *)
(* thread inside allocate, which has its address and its whole size: none  *)
(* is leaked, none is unmapped behind its owner's back.                    *)
MappingsOwned ==
    LET registered == {regions_[p] : p \in DOMAIN regions_}
        local == {region[t] : t \in {u \in Threads : valid(region[u])}}
    IN  /\ {[data |-> a, size |-> mapped[a]] : a \in DOMAIN mapped} = registered \cup local
        /\ registered \cap local = {}
        /\ \A p \in DOMAIN regions_ : p = regions_[p].data + kPayloadOffset
        /\ \A t, u \in Threads : valid(region[t]) /\ region[t] = region[u] => t = u

(* A block in a caller's hands is in the registry, so its free succeeds    *)
(* and gives back the address it was mapped at; so is one that is being    *)
(* freed.  The registry never has the key emplace brings.                  *)
OwnedRegistered ==
    alive =>
        /\ \A p \in DOMAIN owned :
              /\ p \in DOMAIN regions_
              /\ owned[p] + kHeaderSize + kPayloadOffset = regions_[p].size
        /\ \A t \in Threads :
              /\ pc[t] \in {"reserved", "deallocate"} => payload[t] \in DOMAIN regions_
              /\ pc[t] = "emplace" => payload[t] \notin DOMAIN regions_

(* What a free records as given back is what the allocation recorded: the  *)
(* capacity, read under a lock of its own each time, is that of the same   *)
(* region, and the difference never wraps around.                          *)
ReservedMatches ==
    [][\A t \in Threads :
           pc[t] = "idle" /\ pc'[t] = "deallocate" => reserved'[t] = owned[payload'[t]]]_vars

Store == INSTANCE BlockStore WITH
    Addrs <- {page * i + kPayloadOffset : i \in 1 .. Pages},
    Extents <- {roundToPages(n + kPayloadOffset) - kHeaderSize - kPayloadOffset : n \in Requests}

(* The large tier implements BlockStore.                                   *)
StoreSpec == Store!Spec
=============================================================================
