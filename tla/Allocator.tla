----------------------------- MODULE Allocator -----------------------------
(***************************************************************************)
(* Lifetimes: the movable Allocator objects of src/Allocator.cpp, the      *)
(* AllocatorImpl each of them may own, the CentralState an AllocatorImpl   *)
(* shares with threads that are exiting, and the caches threads keep by    *)
(* the address of a CentralState (tlsCaches in src/AllocatorImpl.cpp).     *)
(*                                                                         *)
(* A heap is one AllocatorImpl with its CentralState.  Its blocks are in   *)
(* the shared pools, in a thread's cache or in callers' hands; how many    *)
(* move at once is the subject of ThreadCache.  Callers keep the contract: *)
(* they free a block through the object that owns its heap, and move or    *)
(* destroy an object while no call on it is in progress.                   *)
(***************************************************************************)
EXTENDS Integers, FiniteSets

CONSTANTS
    Objects,        \* Allocator objects
    Heaps,          \* heaps, in no order; each is created at most once
    Addresses,      \* where make_shared may put a CentralState
    Threads,
    BlocksPerHeap,
    nullptr

ASSUME NameAssumption == nullptr \notin Heaps \cup Addresses /\ "impl" \notin Threads

VARIABLES
    built,      \* the objects that exist
    impl_,      \* object -> the heap it owns, or nullptr
    address,    \* heap -> where its CentralState is or was, or nullptr
    owners,     \* heap -> who has a shared_ptr to its CentralState
    pools,      \* heap -> the free blocks of its PoolAllocator
    held,       \* the blocks in callers' hands
    tlsCaches,  \* thread -> address -> [central_ (weak), blocks]
    pc,         \* thread -> where it is in its life
    at          \* thread -> the cache it is destroying

objects == <<built, impl_>>
central == <<address, owners, pools>>
thread == <<tlsCaches, pc, at>>
vars == <<built, impl_, address, owners, pools, held, tlsCaches, pc, at>>

impl == "impl"
BlocksOf(h) == {h} \X (1 .. BlocksPerHeap)
Alive(h) == owners[h] # {}
Created(h) == address[h] # nullptr
Slots(t) == {tlsCaches[t][a] : a \in DOMAIN tlsCaches[t]}
Without(f, x) == [y \in DOMAIN f \ {x} |-> f[y]]
With(f, x, v) == [y \in DOMAIN f \cup {x} |-> IF y = x THEN v ELSE f[y]]

Init ==
    /\ built = {} /\ impl_ = [o \in Objects |-> nullptr]
    /\ address = [h \in Heaps |-> nullptr]
    /\ owners = [h \in Heaps |-> {}]
    /\ pools = [h \in Heaps |-> {}]
    /\ held = {}
    /\ tlsCaches = [t \in Threads |-> [a \in {} |-> nullptr]]
    /\ pc = [t \in Threads |-> "running"]
    /\ at = [t \in Threads |-> nullptr]

-----------------------------------------------------------------------------
(* Allocator objects                                                       *)

(* Mutation: an address is free as soon as the object in it is destroyed.  *)
Occupied_ObjectOnly(a) == \E h \in Heaps : address[h] = a /\ Alive(h)

(* make_shared puts the CentralState and its reference counts into one     *)
(* allocation, which lives as long as a weak_ptr refers to it.             *)
Occupied(a) ==
    \E h \in Heaps :
        address[h] = a /\ (Alive(h) \/ \E t \in Threads : \E s \in Slots(t) : s.central_ = h)

(* Drop a shared_ptr.  The last one destroys the CentralState, whose pools *)
(* unmap their memory.                                                     *)
release(h, who) ==
    /\ owners' = [owners EXCEPT ![h] = @ \ {who}]
    /\ pools' = IF owners'[h] = {} THEN [pools EXCEPT ![h] = {}] ELSE pools

(* ~AllocatorImpl of the heap an object owns, if any.  The pointers that   *)
(* were not freed are useless from here on.                                *)
destroyImpl(h) ==
    IF h = nullptr
    THEN UNCHANGED <<owners, pools, held>>
    ELSE release(h, impl) /\ held' = held \ BlocksOf(h)

construct(o) ==
    /\ o \notin built /\ built' = built \cup {o}
    /\ \E h \in Heaps, a \in Addresses :
          /\ ~Created(h) /\ ~Occupied(a)
          /\ address' = [address EXCEPT ![h] = a]
          /\ owners' = [owners EXCEPT ![h] = {impl}]
          /\ pools' = [pools EXCEPT ![h] = BlocksOf(h)]
          /\ impl_' = [impl_ EXCEPT ![o] = h]
    /\ UNCHANGED <<held, thread>>

destroy(o) ==
    /\ o \in built /\ built' = built \ {o}
    /\ impl_' = [impl_ EXCEPT ![o] = nullptr]
    /\ destroyImpl(impl_[o])
    /\ UNCHANGED <<address, thread>>

moveConstruct(o, other) ==
    /\ o \notin built /\ other \in built /\ built' = built \cup {o}
    /\ impl_' = [impl_ EXCEPT ![o] = impl_[other], ![other] = nullptr]
    /\ UNCHANGED <<central, held, thread>>

(* The heap the target owned is destroyed; a self-move changes nothing.    *)
moveAssign(o, other) ==
    /\ {o, other} \subseteq built /\ o # other
    /\ impl_' = [impl_ EXCEPT ![o] = impl_[other], ![other] = nullptr]
    /\ destroyImpl(impl_[o])
    /\ UNCHANGED <<built, address, thread>>

-----------------------------------------------------------------------------
(* Calls, which do nothing on an object that was moved from                *)

(* threadCache: the slot under the address of the CentralState, replaced   *)
(* if there is none or its own CentralState is gone.                       *)
threadCache(t, h) ==
    LET found == tlsCaches[t][address[h]]
    IN  IF address[h] \in DOMAIN tlsCaches[t] /\ Alive(found.central_)
        THEN found ELSE [central_ |-> h, blocks |-> {}]

SetCache(t, h, blocks) ==
    tlsCaches' = [tlsCaches EXCEPT
        ![t] = With(@, address[h], [threadCache(t, h) EXCEPT !.blocks = blocks])]

(* Mutation: the cache keeps a shared_ptr.                                 *)
allocate_StrongCache(t, o) ==
    /\ pc[t] = "running" /\ o \in built /\ impl_[o] # nullptr
    /\ LET h == impl_[o]
           cached == threadCache(t, h).blocks
       IN  \E taken \in SUBSET pools[h] : \E b \in cached \cup taken :
              /\ (taken = {}) <=> (cached # {})
              /\ pools' = [pools EXCEPT ![h] = @ \ taken]
              /\ SetCache(t, h, (cached \cup taken) \ {b})
              /\ owners' = [owners EXCEPT ![h] = @ \cup {t}]
              /\ held' = held \cup {b}
    /\ UNCHANGED <<objects, address, pc, at>>

(* A block from the cache, which an empty cache first takes from the       *)
(* shared pools.                                                           *)
allocate(t, o) ==
    /\ pc[t] = "running" /\ o \in built /\ impl_[o] # nullptr
    /\ LET h == impl_[o]
           cached == threadCache(t, h).blocks
       IN  \E taken \in SUBSET pools[h] : \E b \in cached \cup taken :
              /\ (taken = {}) <=> (cached # {})
              /\ pools' = [pools EXCEPT ![h] = @ \ taken]
              /\ SetCache(t, h, (cached \cup taken) \ {b})
              /\ held' = held \cup {b}
    /\ UNCHANGED <<objects, address, owners, pc, at>>

(* A block into the cache, which may first give some back.                 *)
deallocate(t, o, b) ==
    /\ pc[t] = "running" /\ o \in built /\ impl_[o] # nullptr
    /\ b \in held \cap BlocksOf(impl_[o]) /\ held' = held \ {b}
    /\ LET h == impl_[o]
           cached == threadCache(t, h).blocks
       IN  \E spilt \in SUBSET cached :
              /\ pools' = [pools EXCEPT ![h] = @ \cup spilt]
              /\ SetCache(t, h, (cached \ spilt) \cup {b})
    /\ UNCHANGED <<objects, address, owners, pc, at>>

-----------------------------------------------------------------------------
(* A thread exits: its caches are destroyed one after the other            *)

exit(t) ==
    /\ pc[t] = "running"
    /\ pc' = [pc EXCEPT ![t] = "exiting"]
    /\ UNCHANGED <<objects, central, held, tlsCaches, at>>

(* Mutation: the destructor looks whether the CentralState is there and    *)
(* uses it without a reference of its own.                                 *)
lock_Peeks(t, a) ==
    /\ pc[t] = "exiting" /\ a \in DOMAIN tlsCaches[t]
    /\ IF Alive(tlsCaches[t][a].central_)
       THEN /\ at' = [at EXCEPT ![t] = a]
            /\ pc' = [pc EXCEPT ![t] = "flush"]
            /\ UNCHANGED <<tlsCaches, owners>>
       ELSE /\ tlsCaches' = [tlsCaches EXCEPT ![t] = Without(@, a)]
            /\ UNCHANGED <<pc, at, owners>>
    /\ UNCHANGED <<objects, address, pools, held>>

(* central_.lock(): a shared_ptr, or the cache goes without a flush.       *)
lock(t, a) ==
    /\ pc[t] = "exiting" /\ a \in DOMAIN tlsCaches[t]
    /\ LET h == tlsCaches[t][a].central_
       IN  IF Alive(h)
           THEN /\ owners' = [owners EXCEPT ![h] = @ \cup {t}]
                /\ at' = [at EXCEPT ![t] = a]
                /\ pc' = [pc EXCEPT ![t] = "flush"]
                /\ UNCHANGED tlsCaches
           ELSE /\ tlsCaches' = [tlsCaches EXCEPT ![t] = Without(@, a)]
                /\ UNCHANGED <<pc, at, owners>>
    /\ UNCHANGED <<objects, address, pools, held>>

(* Mutation: a cache is forgotten with its blocks.                         *)
flush_Forgets(t) ==
    /\ pc[t] = "flush"
    /\ pc' = [pc EXCEPT ![t] = "unlock"]
    /\ tlsCaches' = [tlsCaches EXCEPT ![t][at[t]].blocks = {}]
    /\ UNCHANGED <<objects, central, held, at>>

flush(t) ==
    /\ pc[t] = "flush"
    /\ LET cache == tlsCaches[t][at[t]]
       IN  pools' = [pools EXCEPT ![cache.central_] = @ \cup cache.blocks]
    /\ tlsCaches' = [tlsCaches EXCEPT ![t][at[t]].blocks = {}]
    /\ pc' = [pc EXCEPT ![t] = "unlock"]
    /\ UNCHANGED <<objects, address, owners, held, at>>

(* The end of ~ThreadCache, which may destroy the CentralState.            *)
unlock(t) ==
    /\ pc[t] = "unlock"
    /\ release(tlsCaches[t][at[t]].central_, t)
    /\ tlsCaches' = [tlsCaches EXCEPT ![t] = Without(@, at[t])]
    /\ pc' = [pc EXCEPT ![t] = "exiting"]
    /\ at' = [at EXCEPT ![t] = nullptr]
    /\ UNCHANGED <<objects, address, held>>

-----------------------------------------------------------------------------
exiting(t) == (\E a \in Addresses : lock(t, a)) \/ flush(t) \/ unlock(t)

Next ==
    \/ \E o \in Objects :
          construct(o) \/ destroy(o) \/ \E x \in Objects : moveConstruct(o, x) \/ moveAssign(o, x)
    \/ \E t \in Threads, o \in Objects : allocate(t, o) \/ \E b \in held : deallocate(t, o, b)
    \/ \E t \in Threads : exit(t) \/ exiting(t)

(* An exiting thread runs its destructors to the end.                      *)
Spec == Init /\ [][Next]_vars /\ \A t \in Threads : WF_vars(exiting(t))

-----------------------------------------------------------------------------
(* Properties                                                              *)

Blocks == UNION {BlocksOf(h) : h \in Heaps}
Cache == [central_ : Heaps, blocks : SUBSET Blocks]

TypeOK ==
    /\ built \subseteq Objects
    /\ impl_ \in [Objects -> Heaps \cup {nullptr}]
    /\ address \in [Heaps -> Addresses \cup {nullptr}]
    /\ owners \in [Heaps -> SUBSET (Threads \cup {impl})]
    /\ pools \in [Heaps -> SUBSET Blocks] /\ held \subseteq Blocks
    /\ \A h \in Heaps : pools[h] \subseteq BlocksOf(h)
    /\ DOMAIN tlsCaches = Threads
    /\ \A t \in Threads : /\ DOMAIN tlsCaches[t] \subseteq Addresses
                          /\ tlsCaches[t] \in [DOMAIN tlsCaches[t] -> Cache]
    /\ pc \in [Threads -> {"running", "exiting", "flush", "unlock"}]
    /\ at \in [Threads -> Addresses \cup {nullptr}]

(* A cache found under the address of a live CentralState is that one's:   *)
(* no CentralState is put where another was while a thread still has a     *)
(* cache of the other, so slot->expired() is never true where it is asked. *)
CachesMatch ==
    \A t \in Threads : \A a \in DOMAIN tlsCaches[t] :
        LET cache == tlsCaches[t][a]
        IN  /\ address[cache.central_] = a
            /\ \A h \in Heaps : Alive(h) /\ address[h] = a => cache.central_ = h

(* An exiting thread flushes only into a CentralState that exists, however *)
(* its allocator's destruction falls between the steps of the flush; a     *)
(* destroyed one gets nothing back.                                        *)
NoUseAfterDestroy ==
    /\ \A t \in Threads :
          pc[t] \in {"flush", "unlock"} => Alive(tlsCaches[t][at[t]].central_)
    /\ \A h \in Heaps : ~Alive(h) => pools[h] = {}

(* While a heap's object lives, each of its blocks is in one place: the    *)
(* pools, one thread's cache, or callers' hands.  Threads that exit give   *)
(* all of theirs back, and moves of the object disturb none.               *)
BlocksConserved ==
    \A h \in Heaps :
        impl \in owners[h] =>
            LET cached(t) == (UNION {s.blocks : s \in Slots(t)}) \cap BlocksOf(h)
            IN  /\ BlocksOf(h) = pools[h] \cup (held \cap BlocksOf(h))
                                 \cup UNION {cached(t) : t \in Threads}
                /\ pools[h] \cap held = {}
                /\ \A t \in Threads :
                      /\ cached(t) \cap (pools[h] \cup held) = {}
                      /\ \A u \in Threads \ {t} : cached(t) \cap cached(u) = {}

(* The CentralState of a destroyed allocator is destroyed in the end: the  *)
(* caches of threads that go on running do not keep it.                    *)
Reclaimed == \A h \in Heaps : Created(h) /\ impl \notin owners[h] ~> ~Alive(h)
=============================================================================
