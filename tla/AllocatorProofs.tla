-------------------------- MODULE AllocatorProofs --------------------------
(***************************************************************************)
(* The lifetime properties of Allocator, for any number of objects, heaps, *)
(* addresses, threads and blocks.                                          *)
(***************************************************************************)
EXTENDS Allocator, TLAPS

Caches(t, h) == \E a \in DOMAIN tlsCaches[t] : tlsCaches[t][a].central_ = h

(* The address of h's CentralState is taken.                               *)
Used(h) == Alive(h) \/ \E t \in Threads : Caches(t, h)

(* The blocks of h in t's cache.                                           *)
Stash(t, h) ==
    IF address[h] \in DOMAIN tlsCaches[t] /\ tlsCaches[t][address[h]].central_ = h
    THEN tlsCaches[t][address[h]].blocks ELSE {}

(* An object that owns a heap owns it alone, and is what keeps it.         *)
Owning ==
    /\ \A h \in Heaps : impl \in owners[h] <=> \E o \in Objects : impl_[o] = h
    /\ \A o, x \in Objects : impl_[o] = impl_[x] /\ impl_[o] # nullptr => o = x
    /\ \A o \in Objects \ built : impl_[o] = nullptr

(* A cache is found under the address of its own CentralState and has no   *)
(* other's blocks.                                                         *)
Keyed ==
    \A t \in Threads : \A a \in DOMAIN tlsCaches[t] :
        /\ address[tlsCaches[t][a].central_] = a
        /\ tlsCaches[t][a].blocks \subseteq BlocksOf(tlsCaches[t][a].central_)

(* Addresses in use are not shared.                                        *)
Unshared == \A g, h \in Heaps : Used(g) /\ Used(h) /\ address[g] = address[h] => g = h

Flushing(t) == pc[t] \in {"flush", "unlock"}

(* A thread has a shared_ptr exactly while it destroys a cache.            *)
Handles ==
    /\ \A t \in Threads : Flushing(t) => at[t] \in DOMAIN tlsCaches[t]
    /\ \A t \in Threads, h \in Heaps :
          t \in owners[h] <=> Flushing(t) /\ tlsCaches[t][at[t]].central_ = h
    /\ \A t \in Threads : pc[t] = "unlock" => tlsCaches[t][at[t]].blocks = {}

(* A CentralState that is gone, or not yet made, has nothing.              *)
Ends ==
    \A h \in Heaps : /\ ~Created(h) => ~Alive(h)
                     /\ ~Alive(h) => pools[h] = {}
                     /\ impl \notin owners[h] => held \cap BlocksOf(h) = {}

(* The blocks of a heap that has an object are in one place each.          *)
Placed(h) ==
    /\ \A b \in BlocksOf(h) : b \in pools[h] \/ b \in held \/ \E t \in Threads : b \in Stash(t, h)
    /\ pools[h] \cap held = {}
    /\ \A t \in Threads : /\ Stash(t, h) \cap pools[h] = {} /\ Stash(t, h) \cap held = {}
                          /\ \A u \in Threads : u # t => Stash(t, h) \cap Stash(u, h) = {}

Conserved == \A h \in Heaps : impl \in owners[h] => Placed(h)

IInv == TypeOK /\ Owning /\ Keyed /\ Unshared /\ Handles /\ Ends /\ Conserved

-----------------------------------------------------------------------------
(* Facts about the definitions                                             *)

(* Heaps have no block in common.                                          *)
LEMMA BlocksApart ==
    ASSUME NEW g, NEW h, NEW b, b \in BlocksOf(g), b \in BlocksOf(h)
    PROVE  g = h
BY DEF BlocksOf

(* The blocks of a heap are blocks.                                        *)
LEMMA BlocksAll == \A h \in Heaps : BlocksOf(h) \subseteq Blocks
BY Zenon DEF Blocks

(* A thread's stash of a heap has only that heap's blocks.                 *)
LEMMA StashIn ==
    ASSUME Keyed, NEW t \in Threads, NEW h \in Heaps
    PROVE  Stash(t, h) \subseteq BlocksOf(h)
BY Zenon DEF Keyed, Stash

(* A cache of h is the stash of h.                                         *)
LEMMA StashAt ==
    ASSUME Keyed, NEW t \in Threads, NEW a \in DOMAIN tlsCaches[t]
    PROVE  Stash(t, tlsCaches[t][a].central_) = tlsCaches[t][a].blocks
BY Zenon DEF Keyed, Stash

(* A heap some thread caches has been created.                             *)
LEMMA CachedCreated ==
    ASSUME TypeOK, Keyed, NEW t \in Threads, NEW h \in Heaps, Caches(t, h)
    PROVE  Created(h)
BY NameAssumption DEF TypeOK, Keyed, Caches, Created

(* threadCache finds the stash of a live heap: the address of its          *)
(* CentralState leads to no other's cache.                                 *)
LEMMA CacheFound ==
    ASSUME IInv, NEW t \in Threads, NEW k \in Heaps, Alive(k)
    PROVE  threadCache(t, k) = [central_ |-> k, blocks |-> Stash(t, k)]
<1>1. CASE address[k] \notin DOMAIN tlsCaches[t]
      BY Zenon, <1>1 DEF threadCache, Stash
<1>2. CASE address[k] \in DOMAIN tlsCaches[t]
  <2> DEFINE c == tlsCaches[t][address[k]]
  <2>1. c \in Cache
        BY ZenonT(30), <1>2 DEF IInv, TypeOK
  <2>2. c.central_ \in Heaps /\ c = [central_ |-> c.central_, blocks |-> c.blocks]
        BY Zenon, <2>1 DEF Cache
  <2>3. address[c.central_] = address[k]
        BY Zenon, <1>2 DEF IInv, Keyed
  <2>4. Caches(t, c.central_)
        BY Zenon, <1>2 DEF Caches
  <2>5. c.central_ = k
        BY Zenon, <2>2, <2>3, <2>4 DEF IInv, Unshared, Used
  <2> QED BY Zenon, <1>2, <2>2, <2>5 DEF threadCache, Stash
<1> QED BY Zenon, <1>1, <1>2

(* Where no cache and no address changes, nothing about the caches does.   *)
LEMMA SameCaches ==
    ASSUME UNCHANGED <<address, tlsCaches>>
    PROVE  /\ \A t \in Threads, h \in Heaps : Stash(t, h)' = Stash(t, h)
           /\ \A t \in Threads, h \in Heaps : Caches(t, h)' = Caches(t, h)
           /\ Keyed => Keyed'
BY Zenon DEF Stash, Caches, Keyed, BlocksOf

(* Blocks that do not move stay in their places.                           *)
LEMMA SamePlaces ==
    ASSUME UNCHANGED <<address, tlsCaches, pools, held>>
    PROVE  \A h \in Heaps : Placed(h) => Placed(h)'
<1>1. \A t \in Threads, h \in Heaps : Stash(t, h)' = Stash(t, h)
      BY Zenon, SameCaches
<1> SUFFICES ASSUME NEW h \in Heaps, Placed(h) PROVE Placed(h)'
    BY Zenon
<1>2. \A b \in BlocksOf(h) : b \in pools'[h] \/ b \in held' \/ \E t \in Threads : b \in Stash(t, h)'
      BY <1>1 DEF Placed
<1>3. pools'[h] \cap held' = {}
      BY Zenon DEF Placed
<1>4. ASSUME NEW t \in Threads
      PROVE  /\ Stash(t, h)' \cap pools'[h] = {} /\ Stash(t, h)' \cap held' = {}
             /\ \A u \in Threads : u # t => Stash(t, h)' \cap Stash(u, h)' = {}
      BY SMTT(30), <1>1 DEF Placed
<1> QED BY Zenon, <1>2, <1>3, <1>4 DEF Placed, BlocksOf

(* Where only objects change, only what is said of objects can.            *)
LEMMA SameRest ==
    ASSUME IInv, UNCHANGED <<address, owners, pools, held, tlsCaches, pc, at>>
    PROVE  Keyed' /\ Unshared' /\ Handles' /\ Ends' /\ Conserved'
<1>1. Keyed' /\ \A t \in Threads, h \in Heaps : Caches(t, h)' = Caches(t, h)
      BY Zenon, SameCaches DEF IInv
<1>2. \A h \in Heaps : Placed(h) => Placed(h)'
      BY SamePlaces
<1>3. Unshared'
      BY ZenonT(30), <1>1 DEF IInv, Unshared, Used, Alive
<1>4. Handles'
      BY ZenonT(30) DEF IInv, Handles, Flushing
<1>5. Ends'
      BY ZenonT(30) DEF IInv, Ends, Alive, Created, BlocksOf, impl
<1>6. Conserved'
      BY ZenonT(30), <1>2 DEF IInv, Conserved, impl
<1> QED BY Zenon, <1>1, <1>3, <1>4, <1>5, <1>6

(* The initial state.                                                      *)
LEMMA InitInv == Init => IInv
<1> SUFFICES ASSUME Init PROVE IInv
    OBVIOUS
<1>1. TypeOK
      BY Zenon DEF Init, TypeOK, Cache
<1>2. Owning /\ Ends
      BY Zenon, NameAssumption DEF Init, Owning, Ends, Created, Alive
<1>3. Keyed /\ Unshared /\ Handles
      BY Zenon DEF Init, Keyed, Unshared, Handles, Used, Alive, Caches, Flushing
<1>4. Conserved
      BY Zenon DEF Init, Conserved
<1> QED BY <1>1, <1>2, <1>3, <1>4 DEF IInv

-----------------------------------------------------------------------------
(* Objects                                                                 *)

(* make_shared puts the CentralState where nobody looks for another.       *)
LEMMA ConstructInv ==
    ASSUME IInv, NEW o \in Objects, construct(o)
    PROVE  IInv'
<1> USE DEF IInv
<1>1. PICK h \in Heaps, a \in Addresses :
          /\ ~Created(h) /\ ~Occupied(a)
          /\ address' = [address EXCEPT ![h] = a]
          /\ owners' = [owners EXCEPT ![h] = {impl}]
          /\ pools' = [pools EXCEPT ![h] = BlocksOf(h)]
          /\ impl_' = [impl_ EXCEPT ![o] = h]
      BY Zenon DEF construct
<1>2. /\ o \notin built /\ built' = built \cup {o} /\ held' = held
      /\ tlsCaches' = tlsCaches /\ pc' = pc /\ at' = at
      BY DEF construct, thread
<1>3. h # nullptr /\ a # nullptr /\ impl \notin Threads
      BY Zenon, NameAssumption DEF impl
<1>4. ~Alive(h) /\ \A t \in Threads : ~Caches(t, h)
      BY Zenon, <1>1, CachedCreated DEF Ends
<1>5. \A g \in Heaps : Used(g) => g # h /\ address[g] # a
  <2> SUFFICES ASSUME NEW g \in Heaps, Used(g) PROVE g # h /\ address[g] # a
      OBVIOUS
  <2>1. g # h
        BY Zenon, <1>4 DEF Used
  <2>2. CASE Alive(g)
        BY Zenon, <1>1, <2>1, <2>2 DEF Occupied
  <2>3. CASE \E t \in Threads : Caches(t, g)
        BY Zenon, <1>1, <2>1, <2>3 DEF Occupied, Caches, Slots
  <2> QED BY Zenon, <2>2, <2>3 DEF Used
<1>6. /\ \A g \in Heaps : address'[g] = IF g = h THEN a ELSE address[g]
      /\ \A g \in Heaps : owners'[g] = IF g = h THEN {impl} ELSE owners[g]
      /\ \A g \in Heaps : pools'[g] = IF g = h THEN BlocksOf(h) ELSE pools[g]
      /\ \A x \in Objects : impl_'[x] = IF x = o THEN h ELSE impl_[x]
      BY Zenon, <1>1 DEF TypeOK
<1>7. TypeOK'
      BY Zenon, <1>1, <1>2, BlocksAll DEF TypeOK, BlocksOf, Blocks, impl
<1>8. Owning'
  <2>1. \A x \in Objects : impl_[x] # h
        BY Zenon, <1>4 DEF Owning, Alive
  <2>2. impl_[o] = nullptr
        BY Zenon, <1>2 DEF Owning
  <2> QED BY <1>2, <1>6, <2>1, <2>2, NameAssumption DEF Owning, impl
<1>9. \A t \in Threads, g \in Heaps : Caches(t, g)' = Caches(t, g)
      BY Zenon, <1>2 DEF Caches
<1>10. \A t \in Threads, g \in Heaps : Stash(t, g)' = IF g = h THEN {} ELSE Stash(t, g)
      BY <1>2, <1>4, <1>6 DEF Stash, Caches
<1>11. Keyed'
      BY <1>2, <1>4, <1>6 DEF Keyed, Caches, BlocksOf, TypeOK, Cache
<1>12. Unshared'
  <2>1. \A g \in Heaps : Used(g)' => g = h \/ Used(g)
        BY Zenon, <1>6, <1>9 DEF Used, Alive
  <2> QED BY ZenonT(60), <1>5, <1>6, <2>1 DEF Unshared
<1>13. Handles'
      BY <1>2, <1>3, <1>4, <1>6 DEF Handles, Flushing, Caches
<1>14. Ends'
  <2>1. held \cap BlocksOf(h) = {}
        BY Zenon, <1>4 DEF Ends, Alive
  <2> QED BY ZenonT(30), <1>2, <1>3, <1>6, <2>1 DEF Ends, Created, Alive, BlocksOf
<1>15. Conserved'
  <2>1. ASSUME NEW g \in Heaps, impl \in owners'[g] PROVE Placed(g)'
    <3>1. CASE g = h
      <4>1. held \cap BlocksOf(h) = {}
            BY Zenon, <1>4 DEF Ends, Alive
      <4> QED BY ZenonT(30), <1>2, <1>6, <1>10, <3>1, <4>1 DEF Placed, BlocksOf
    <3>2. CASE g # h
      <4>1. Placed(g)
            BY Zenon, <1>6, <2>1, <3>2 DEF Conserved
      <4> QED BY <1>2, <1>6, <1>10, <3>2, <4>1 DEF Placed, BlocksOf
    <3> QED BY Zenon, <3>1, <3>2
  <2> QED BY Zenon, <2>1 DEF Conserved, impl
<1> QED BY Zenon, <1>7, <1>8, <1>11, <1>12, <1>13, <1>14, <1>15

(* ~AllocatorImpl: the heap loses its object, and its CentralState unless  *)
(* an exiting thread still has it.                                         *)
LEMMA ImplEnds ==
    ASSUME IInv, NEW h \in Heaps, impl \in owners[h], destroyImpl(h),
           UNCHANGED <<address, tlsCaches, pc, at>>
    PROVE  /\ owners' \in [Heaps -> SUBSET (Threads \cup {impl})]
           /\ pools' \in [Heaps -> SUBSET Blocks] /\ held' \subseteq Blocks
           /\ \A g \in Heaps : pools'[g] \subseteq BlocksOf(g)
           /\ \A g \in Heaps : impl \in owners'[g] <=> impl \in owners[g] /\ g # h
           /\ Keyed' /\ Unshared' /\ Handles' /\ Ends' /\ Conserved'
<1> USE DEF IInv
<1>1. /\ owners' = [owners EXCEPT ![h] = @ \ {impl}]
      /\ pools' = IF owners'[h] = {} THEN [pools EXCEPT ![h] = {}] ELSE pools
      /\ held' = held \ BlocksOf(h)
      BY Zenon, NameAssumption DEF destroyImpl, release
<1>2. impl \notin Threads
      BY Zenon, NameAssumption DEF impl
<1>3. \A g \in Heaps : owners'[g] = IF g = h THEN owners[h] \ {impl} ELSE owners[g]
      BY Zenon, <1>1 DEF TypeOK
<1>4. \A g \in Heaps : pools'[g] = IF g = h /\ owners'[h] = {} THEN {} ELSE pools[g]
      BY Zenon, <1>1 DEF TypeOK
<1>5. /\ owners' \in [Heaps -> SUBSET (Threads \cup {impl})]
      /\ pools' \in [Heaps -> SUBSET Blocks] /\ held' \subseteq Blocks
      BY Zenon, <1>1 DEF TypeOK
<1>6. \A g \in Heaps : pools'[g] \subseteq BlocksOf(g)
      BY Zenon, <1>4 DEF TypeOK
<1>7. \A g \in Heaps : impl \in owners'[g] <=> impl \in owners[g] /\ g # h
      BY Zenon, <1>3
<1>8. Keyed'
      BY Zenon, SameCaches
<1>9. Unshared'
  <2>1. \A g \in Heaps : Used(g)' => Used(g)
        BY Zenon, <1>3, SameCaches DEF Used, Alive
  <2> QED BY Zenon, <2>1 DEF Unshared
<1>10. Handles'
      BY <1>2, <1>3 DEF Handles, Flushing
<1>11. Ends'
  <2>1. \A g \in Heaps : g # h => (held' \cap BlocksOf(g)) = held \cap BlocksOf(g)
        BY Zenon, <1>1, BlocksApart
  <2> QED BY <1>1, <1>3, <1>4, <1>7, <2>1 DEF Ends, Created, Alive, BlocksOf
<1>12. Conserved'
  <2>1. ASSUME NEW g \in Heaps, impl \in owners'[g] PROVE Placed(g)'
    <3>1. g # h /\ Placed(g) /\ pools'[g] = pools[g]
          BY Zenon, <1>4, <1>7, <2>1 DEF Conserved
    <3>2. \A b \in BlocksOf(g) : b \in held' <=> b \in held
          BY Zenon, <1>1, <3>1, BlocksApart
    <3>3. pools[g] \cap held' = {} /\ \A t \in Threads : Stash(t, g) \cap held' = {}
          BY Zenon, <1>1, <3>1 DEF Placed
    <3> QED BY <3>1, <3>2, <3>3, SameCaches DEF Placed, BlocksOf
  <2> QED BY Zenon, <2>1 DEF Conserved, impl
<1> QED BY Zenon, <1>5, <1>6, <1>7, <1>8, <1>9, <1>10, <1>11, <1>12

(* An object that does not exist owns nothing, so nothing is destroyed     *)
(* twice.                                                                  *)
LEMMA DestroyInv ==
    ASSUME IInv, NEW o \in Objects, destroy(o)
    PROVE  IInv'
<1> USE DEF IInv
<1>1. /\ built' = built \ {o} /\ impl_' = [impl_ EXCEPT ![o] = nullptr]
      /\ destroyImpl(impl_[o])
      /\ UNCHANGED <<address, tlsCaches, pc, at>>
      BY Zenon DEF destroy, thread
<1>2. \A x \in Objects : impl_'[x] = IF x = o THEN nullptr ELSE impl_[x]
      BY Zenon, <1>1 DEF TypeOK
<1>3. impl_' \in [Objects -> Heaps \cup {nullptr}]
      BY Zenon, <1>1 DEF TypeOK
<1>4. CASE impl_[o] = nullptr
  <2>1. UNCHANGED <<owners, pools, held>>
        BY Zenon, <1>1, <1>4 DEF destroyImpl
  <2>2. TypeOK'
        BY Zenon, <1>1, <1>3, <2>1 DEF TypeOK, Blocks, BlocksOf, Cache, impl
  <2>3. Owning'
        BY <1>1, <1>2, <1>4, <2>1, NameAssumption DEF Owning, impl
  <2> QED BY Zenon, <1>1, <2>1, <2>2, <2>3, SameRest
<1>5. CASE impl_[o] # nullptr
  <2>1. impl_[o] \in Heaps /\ impl \in owners[impl_[o]]
        BY <1>5 DEF TypeOK, Owning
  <2>2. /\ owners' \in [Heaps -> SUBSET (Threads \cup {impl})]
        /\ pools' \in [Heaps -> SUBSET Blocks] /\ held' \subseteq Blocks
        /\ \A g \in Heaps : pools'[g] \subseteq BlocksOf(g)
        /\ \A g \in Heaps : impl \in owners'[g] <=> impl \in owners[g] /\ g # impl_[o]
        /\ Keyed' /\ Unshared' /\ Handles' /\ Ends' /\ Conserved'
        BY Zenon, <1>1, <2>1, ImplEnds
  <2>3. TypeOK'
        BY Zenon, <1>1, <1>3, <2>2 DEF TypeOK, Blocks, BlocksOf, Cache, impl
  <2>4. Owning'
        BY <1>1, <1>2, <1>5, <2>2, NameAssumption DEF Owning, impl
  <2> QED BY Zenon, <2>2, <2>3, <2>4
<1> QED BY Zenon, <1>4, <1>5

(* The heap of one object becomes another's, which loses its own.          *)
LEMMA HandedOn ==
    ASSUME TypeOK, Owning, NEW o \in Objects, NEW other \in Objects, o # other,
           other \in built, built' = built \cup {o},
           \A x \in Objects : impl_'[x] = IF x = other THEN nullptr
                                         ELSE IF x = o THEN impl_[other] ELSE impl_[x],
           \A g \in Heaps : impl \in owners'[g] <=> impl \in owners[g] /\ g # impl_[o]
    PROVE  Owning'
<1>1. ASSUME NEW g \in Heaps PROVE impl \in owners'[g] <=> \E x \in Objects : impl_'[x] = g
  <2>1. g # nullptr
        BY Zenon, NameAssumption
  <2>2. ASSUME impl \in owners'[g] PROVE \E x \in Objects : impl_'[x] = g
    <3>1. PICK x \in Objects : impl_[x] = g
          BY Zenon, <1>1, <2>2 DEF Owning
    <3>2. x # o
          BY Zenon, <1>1, <2>2, <3>1
    <3>3. CASE x = other
          BY Zenon, <3>1, <3>3
    <3>4. CASE x # other
          BY Zenon, <3>1, <3>2, <3>4
    <3> QED BY Zenon, <3>3, <3>4
  <2>3. ASSUME NEW x \in Objects, impl_'[x] = g PROVE impl \in owners'[g]
    <3>1. x # other
          BY Zenon, <2>1, <2>3
    <3>2. CASE x = o
      <4>1. impl_[other] = g
            BY Zenon, <2>3, <3>1, <3>2
      <4>2. impl_[o] # g
            BY Zenon, <2>1, <4>1 DEF Owning
      <4> QED BY Zenon, <1>1, <4>1, <4>2 DEF Owning
    <3>3. CASE x # o
      <4>1. impl_[x] = g
            BY Zenon, <2>3, <3>1, <3>3
      <4>2. impl_[o] # g
            BY Zenon, <2>1, <3>3, <4>1 DEF Owning
      <4> QED BY Zenon, <1>1, <4>1, <4>2 DEF Owning
    <3> QED BY Zenon, <3>2, <3>3
  <2> QED BY Zenon, <2>2, <2>3
<1>2. ASSUME NEW x \in Objects, NEW y \in Objects, impl_'[x] = impl_'[y], impl_'[x] # nullptr
      PROVE  x = y
      BY <1>2 DEF Owning
<1>3. \A x \in Objects \ built' : impl_'[x] = nullptr
      BY Zenon DEF Owning
<1> QED BY Zenon, <1>1, <1>2, <1>3 DEF Owning, impl

(* A move hands the heap on: what the target owned is destroyed, and the   *)
(* source has none.                                                        *)
LEMMA MoveAssignInv ==
    ASSUME IInv, NEW o \in Objects, NEW other \in Objects, moveAssign(o, other)
    PROVE  IInv'
<1> USE DEF IInv
<1>1. /\ {o, other} \subseteq built /\ o # other /\ built' = built
      /\ impl_' = [impl_ EXCEPT ![o] = impl_[other], ![other] = nullptr]
      /\ destroyImpl(impl_[o])
      /\ UNCHANGED <<address, tlsCaches, pc, at>>
      BY Zenon DEF moveAssign, thread
<1>2. \A x \in Objects : impl_'[x] = IF x = other THEN nullptr
                                    ELSE IF x = o THEN impl_[other] ELSE impl_[x]
      BY Zenon, <1>1 DEF TypeOK
<1>3. impl_' \in [Objects -> Heaps \cup {nullptr}]
      BY Zenon, <1>1 DEF TypeOK
<1>4. CASE impl_[o] = nullptr
  <2>1. UNCHANGED <<owners, pools, held>>
        BY Zenon, <1>1, <1>4 DEF destroyImpl
  <2>2. TypeOK'
        BY Zenon, <1>1, <1>3, <2>1 DEF TypeOK, Blocks, BlocksOf, Cache, impl
  <2>3. Owning'
        BY ZenonT(30), <1>1, <1>2, <1>4, <2>1, HandedOn, NameAssumption
  <2> QED BY Zenon, <1>1, <2>1, <2>2, <2>3, SameRest
<1>5. CASE impl_[o] # nullptr
  <2>1. impl_[o] \in Heaps /\ impl \in owners[impl_[o]]
        BY <1>5 DEF TypeOK, Owning
  <2>2. /\ owners' \in [Heaps -> SUBSET (Threads \cup {impl})]
        /\ pools' \in [Heaps -> SUBSET Blocks] /\ held' \subseteq Blocks
        /\ \A g \in Heaps : pools'[g] \subseteq BlocksOf(g)
        /\ \A g \in Heaps : impl \in owners'[g] <=> impl \in owners[g] /\ g # impl_[o]
        /\ Keyed' /\ Unshared' /\ Handles' /\ Ends' /\ Conserved'
        BY Zenon, <1>1, <2>1, ImplEnds
  <2>3. TypeOK'
        BY Zenon, <1>1, <1>3, <2>2 DEF TypeOK, Blocks, BlocksOf, Cache, impl
  <2>4. Owning'
    <3>1. o # other /\ other \in built /\ built' = built \cup {o}
          BY Zenon, <1>1
    <3> QED BY Zenon, <1>2, <2>2, <3>1, HandedOn
  <2> QED BY <2>2, <2>3, <2>4
<1> QED BY Zenon, <1>4, <1>5

(* The new object has the heap of the old one.                             *)
LEMMA MoveConstructInv ==
    ASSUME IInv, NEW o \in Objects, NEW other \in Objects, moveConstruct(o, other)
    PROVE  IInv'
<1> USE DEF IInv
<1>1. /\ o \notin built /\ other \in built /\ built' = built \cup {o}
      /\ impl_' = [impl_ EXCEPT ![o] = impl_[other], ![other] = nullptr]
      /\ UNCHANGED <<address, owners, pools, held, tlsCaches, pc, at>>
      BY Zenon DEF moveConstruct, thread, central
<1>2. \A x \in Objects : impl_'[x] = IF x = other THEN nullptr
                                    ELSE IF x = o THEN impl_[other] ELSE impl_[x]
      BY Zenon, <1>1 DEF TypeOK
<1>3. TypeOK'
      BY Zenon, <1>1 DEF TypeOK, Blocks, BlocksOf, Cache, impl
<1>4. Owning'
  <2>1. impl_[o] = nullptr /\ o # other
        BY <1>1 DEF Owning
  <2> QED BY Zenon, <1>1, <1>2, <2>1, HandedOn, NameAssumption
<1> QED BY Zenon, <1>1, <1>3, <1>4, SameRest

-----------------------------------------------------------------------------
(* Calls                                                                   *)

(* A thread's cache of a live heap is replaced.                            *)
LEMMA CacheSet ==
    ASSUME IInv, NEW t \in Threads, pc[t] = "running", NEW k \in Heaps, Alive(k), Created(k),
           NEW S \in SUBSET BlocksOf(k), SetCache(t, k, S),
           UNCHANGED <<address, owners, pc, at>>
    PROVE  /\ DOMAIN tlsCaches' = Threads
           /\ \A u \in Threads : /\ DOMAIN tlsCaches'[u] \subseteq Addresses
                                 /\ tlsCaches'[u] \in [DOMAIN tlsCaches'[u] -> Cache]
           /\ Keyed' /\ Unshared' /\ Handles'
           /\ \A u \in Threads, g \in Heaps :
                 Stash(u, g)' = IF u = t /\ g = k THEN S ELSE Stash(u, g)
<1> USE DEF IInv
<1> DEFINE a == address[k]
           c == [central_ |-> k, blocks |-> S]
<1>1. a \in Addresses
      BY Zenon DEF TypeOK, Created
<1>2. c \in Cache
      BY Zenon, BlocksAll DEF Cache
<1>3. [threadCache(t, k) EXCEPT !.blocks = S] = c
      BY CacheFound
<1>4. tlsCaches' = [tlsCaches EXCEPT ![t] = With(tlsCaches[t], a, c)]
      BY Zenon, <1>3 DEF SetCache
<1>5. /\ DOMAIN tlsCaches' = Threads
      /\ \A u \in Threads : u # t => tlsCaches'[u] = tlsCaches[u]
      /\ tlsCaches'[t] = With(tlsCaches[t], a, c)
      BY Zenon, <1>4 DEF TypeOK
<1> HIDE DEF a, c
<1>6. /\ DOMAIN tlsCaches'[t] = DOMAIN tlsCaches[t] \cup {a}
      /\ tlsCaches'[t][a] = c
      /\ \A x \in DOMAIN tlsCaches[t] : x # a => tlsCaches'[t][x] = tlsCaches[t][x]
      BY Zenon, <1>5 DEF With
<1>7. tlsCaches'[t] \in [DOMAIN tlsCaches'[t] -> Cache]
      BY ZenonT(60), <1>2, <1>5, <1>6 DEF With, TypeOK
<1>8. \A u \in Threads : /\ DOMAIN tlsCaches'[u] \subseteq Addresses
                         /\ tlsCaches'[u] \in [DOMAIN tlsCaches'[u] -> Cache]
      BY Zenon, <1>1, <1>5, <1>6, <1>7 DEF TypeOK
<1>9. Keyed'
  <2>1. ASSUME NEW u \in Threads, NEW x \in DOMAIN tlsCaches'[u]
        PROVE  /\ address[tlsCaches'[u][x].central_] = x
               /\ tlsCaches'[u][x].blocks \subseteq BlocksOf(tlsCaches'[u][x].central_)
    <3>1. CASE u = t /\ x = a
          BY <1>6, <3>1 DEF a, c
    <3>2. CASE u # t
          BY <1>5, <2>1, <3>2 DEF Keyed
    <3>3. CASE u = t /\ x # a
          BY <1>6, <2>1, <3>3 DEF Keyed
    <3> QED BY Zenon, <3>1, <3>2, <3>3
  <2> QED BY Zenon, <2>1 DEF Keyed, BlocksOf
<1>10. Unshared'
  <2>1. ASSUME NEW g \in Heaps, Used(g)' PROVE Used(g)
    <3>1. CASE Alive(g)'
          BY Zenon, <3>1 DEF Used, Alive
    <3>2. ASSUME NEW u \in Threads, NEW x \in DOMAIN tlsCaches'[u], tlsCaches'[u][x].central_ = g
          PROVE  Used(g)
      <4>1. CASE u = t /\ x = a
            BY <1>6, <3>2, <4>1 DEF a, c, Used
      <4>2. CASE u # t
            BY Zenon, <1>5, <3>2, <4>2 DEF Used, Caches
      <4>3. CASE u = t /\ x # a
            BY Zenon, <1>6, <3>2, <4>3 DEF Used, Caches
      <4> QED BY Zenon, <4>1, <4>2, <4>3
    <3> QED BY Zenon, <2>1, <3>1, <3>2 DEF Used, Caches
  <2> QED BY Zenon, <2>1 DEF Unshared
<1>11. Handles'
  <2>1. ~Flushing(t) /\ \A u \in Threads : Flushing(u)' = Flushing(u)
        BY DEF Flushing
  <2> QED BY <1>5, <2>1 DEF Handles, Flushing
<1>12. ASSUME NEW u \in Threads, NEW g \in Heaps
       PROVE  Stash(u, g)' = IF u = t /\ g = k THEN S ELSE Stash(u, g)
  <2>1. CASE u # t
        BY Zenon, <1>5, <2>1 DEF Stash
  <2>2. CASE u = t /\ address[g] # a
        BY Zenon, <1>6, <2>2 DEF Stash, a
  <2>3. CASE u = t /\ g = k
        BY <1>6, <2>3 DEF Stash, a, c
  <2>4. CASE u = t /\ g # k /\ address[g] = a
    <3>1. ~Caches(t, g)
          BY Zenon, <2>4 DEF Unshared, Used, a
    <3>2. Stash(t, g) = {}
          BY Zenon, <3>1 DEF Stash, Caches
    <3>3. Stash(t, g)' = {}
          BY <1>6, <2>4 DEF Stash, a, c
    <3> QED BY Zenon, <2>4, <3>2, <3>3
  <2> QED BY Zenon, <2>1, <2>2, <2>3, <2>4
<1> QED BY Zenon, <1>5, <1>8, <1>9, <1>10, <1>11, <1>12

(* A call moves blocks of one heap between its pools, the cache of one     *)
(* thread and the callers, and loses and copies none.                      *)
LEMMA Exchange ==
    ASSUME IInv, NEW t \in Threads, pc[t] = "running", NEW k \in Heaps, impl \in owners[k],
           NEW P \in SUBSET BlocksOf(k), NEW S \in SUBSET BlocksOf(k),
           pools' = [pools EXCEPT ![k] = P],
           SetCache(t, k, S),
           \A b : b \notin BlocksOf(k) => (b \in held' <=> b \in held),
           P \cap S = {}, P \cap held' = {}, S \cap held' = {},
           P \cup S \cup (held' \cap BlocksOf(k))
               = pools[k] \cup Stash(t, k) \cup (held \cap BlocksOf(k)),
           UNCHANGED <<objects, address, owners, pc, at>>
    PROVE  IInv'
<1> USE DEF IInv
<1>1. k \in Heaps /\ impl \in owners[k]
      OBVIOUS
<1>2. Alive(k) /\ Created(k)
      BY ZenonT(60), <1>1 DEF Ends, Alive
<1>3. /\ \A u \in Threads, g \in Heaps :
            Stash(u, g)' = IF u = t /\ g = k THEN S ELSE Stash(u, g)
      /\ DOMAIN tlsCaches' = Threads
      /\ \A u \in Threads : /\ DOMAIN tlsCaches'[u] \subseteq Addresses
                            /\ tlsCaches'[u] \in [DOMAIN tlsCaches'[u] -> Cache]
      /\ Keyed' /\ Unshared' /\ Handles'
      BY <1>1, <1>2, CacheSet
<1>4. \A g \in Heaps : pools'[g] = IF g = k THEN P ELSE pools[g]
      BY Zenon, <1>1 DEF TypeOK
<1>5. held' \subseteq Blocks
      BY Zenon, <1>1, BlocksAll DEF TypeOK
<1>6. TypeOK'
      BY ZenonT(60), <1>1, <1>3, <1>4, <1>5, BlocksAll DEF TypeOK, Blocks, BlocksOf, Cache, impl, objects
<1>7. Owning'
      BY Zenon DEF Owning, impl, objects
<1>8. \A g \in Heaps : g # k => \A b \in BlocksOf(g) : b \in held' <=> b \in held
      BY Zenon, BlocksApart
<1>9. Ends'
  <2>1. \A g \in Heaps : impl \notin owners[g] => held' \cap BlocksOf(g) = {}
        BY Zenon, <1>1, <1>8 DEF Ends
  <2> QED BY Zenon, <1>2, <1>4, <2>1 DEF Ends, Created, Alive, BlocksOf, impl
<1>10. Placed(k)'
  <2>1. Placed(k)
        BY Zenon, <1>1 DEF Conserved
  <2>2. ASSUME NEW b \in BlocksOf(k)
        PROVE  b \in pools'[k] \/ b \in held' \/ \E u \in Threads : b \in Stash(u, k)'
    <3>1. CASE \E u \in Threads : u # t /\ b \in Stash(u, k)
          BY Zenon, <1>1, <1>3, <3>1
    <3>2. CASE b \in P \cup S \cup held'
          BY Zenon, <1>1, <1>3, <1>4, <3>2
    <3>3. b \in pools[k] \cup Stash(t, k) \cup held \/ \E u \in Threads : u # t /\ b \in Stash(u, k)
          BY Zenon, <2>1, <2>2 DEF Placed
    <3>4. b \in pools[k] \cup Stash(t, k) \cup held => b \in P \cup S \cup held'
          BY Zenon, <2>2
    <3> QED BY Zenon, <3>1, <3>2, <3>3, <3>4
  <2>3. ASSUME NEW u \in Threads, u # t
        PROVE  Stash(u, k) \cap P = {} /\ Stash(u, k) \cap held' = {} /\ Stash(u, k) \cap S = {}
    <3>1. Stash(u, k) \subseteq BlocksOf(k)
          BY Zenon, <1>1, StashIn
    <3>2. Stash(u, k) \cap (pools[k] \cup Stash(t, k) \cup held) = {}
          BY Zenon, <2>1, <2>3 DEF Placed
    <3> QED BY Zenon, <3>1, <3>2
  <2>4. /\ \A u \in Threads : u # t => Stash(u, k)' = Stash(u, k)
        /\ Stash(t, k)' = S /\ pools'[k] = P
        BY Zenon, <1>1, <1>3, <1>4
  <2>5. ASSUME NEW u \in Threads
        PROVE  /\ Stash(u, k)' \cap pools'[k] = {} /\ Stash(u, k)' \cap held' = {}
               /\ \A v \in Threads : v # u => Stash(u, k)' \cap Stash(v, k)' = {}
    <3>1. CASE u = t
          BY <2>3, <2>4, <3>1
    <3>2. CASE u # t
      <4>1. \A v \in Threads : v # u => Stash(u, k) \cap Stash(v, k) = {}
            BY Zenon, <2>1 DEF Placed
      <4> QED BY Zenon, <2>3, <2>4, <3>2, <4>1
    <3> QED BY Zenon, <3>1, <3>2
  <2> QED BY Zenon, <2>2, <2>4, <2>5 DEF Placed, BlocksOf
<1>11. Conserved'
  <2>1. ASSUME NEW g \in Heaps, impl \in owners'[g] PROVE Placed(g)'
    <3>1. CASE g = k
          BY Zenon, <1>10, <3>1
    <3>2. CASE g # k
      <4>1. Placed(g) /\ pools'[g] = pools[g] /\ \A u \in Threads : Stash(u, g)' = Stash(u, g)
            BY Zenon, <1>3, <1>4, <2>1, <3>2 DEF Conserved
      <4>2. pools[g] \subseteq BlocksOf(g) /\ \A u \in Threads : Stash(u, g) \subseteq BlocksOf(g)
            BY Zenon, StashIn DEF TypeOK
      <4>3. \A b \in BlocksOf(g) : b \in held' <=> b \in held
            BY Zenon, <1>8, <3>2
      <4>4. pools[g] \cap held' = {} /\ \A u \in Threads : Stash(u, g) \cap held' = {}
            BY Zenon, <4>1, <4>2, <4>3 DEF Placed
      <4> QED BY <4>1, <4>3, <4>4 DEF Placed, BlocksOf
    <3> QED BY Zenon, <3>1, <3>2
  <2> QED BY Zenon, <2>1 DEF Conserved, impl
<1> QED BY Zenon, <1>3, <1>6, <1>7, <1>9, <1>11

(* allocate takes one block out of the cache and the blocks that filled    *)
(* it.                                                                     *)
LEMMA AllocateInv ==
    ASSUME IInv, NEW t \in Threads, NEW o \in Objects, allocate(t, o)
    PROVE  IInv'
<1>a. PICK k \in Heaps : k = impl_[o] /\ impl \in owners[k]
      BY DEF allocate, IInv, TypeOK, Owning
<1>1. pc[t] = "running" /\ UNCHANGED <<objects, address, owners, pc, at>>
      BY Zenon, <1>a DEF allocate
<1>3. threadCache(t, k).blocks = Stash(t, k)
      BY <1>a, CacheFound DEF Alive
<1>b. PICK taken \in SUBSET pools[k] : \E b \in Stash(t, k) \cup taken :
          /\ pools' = [pools EXCEPT ![k] = @ \ taken]
          /\ SetCache(t, k, (Stash(t, k) \cup taken) \ {b})
          /\ held' = held \cup {b}
      BY Zenon, <1>a, <1>3 DEF allocate
<1>4. PICK b \in Stash(t, k) \cup taken :
          /\ pools' = [pools EXCEPT ![k] = @ \ taken]
          /\ SetCache(t, k, (Stash(t, k) \cup taken) \ {b})
          /\ held' = held \cup {b}
      BY Zenon, <1>b
<1> DEFINE S == (Stash(t, k) \cup taken) \ {b}
           P == pools[k] \ taken
<1>5. pools' = [pools EXCEPT ![k] = P]
      BY Zenon, <1>a, <1>4 DEF IInv, TypeOK
<1>6. Placed(k)
      BY Zenon, <1>a DEF IInv, Conserved
<1>7. Stash(t, k) \subseteq BlocksOf(k) /\ pools[k] \subseteq BlocksOf(k)
      BY Zenon, <1>a, StashIn DEF IInv, TypeOK
<1>8. Stash(t, k) \cap pools[k] = {} /\ Stash(t, k) \cap held = {} /\ pools[k] \cap held = {}
      BY Zenon, <1>6 DEF Placed
<1>9. S \in SUBSET BlocksOf(k) /\ P \in SUBSET BlocksOf(k) /\ b \in BlocksOf(k)
      BY Zenon, <1>7
<1>10. \A x : x \notin BlocksOf(k) => (x \in held' <=> x \in held)
      BY Zenon, <1>4, <1>9
<1>11. P \cap S = {} /\ P \cap held' = {} /\ S \cap held' = {}
      BY Zenon, <1>4, <1>8
<1>12. P \cup S \cup (held' \cap BlocksOf(k))
           = pools[k] \cup Stash(t, k) \cup (held \cap BlocksOf(k))
      BY Zenon, <1>4, <1>9
<1>13. SetCache(t, k, S)
      BY Zenon, <1>4
<1> HIDE DEF S, P
<1> QED BY Zenon, <1>1, <1>a, <1>5, <1>9, <1>10, <1>11, <1>12, <1>13, Exchange

(* deallocate puts the block into the cache, which may give others back.   *)
LEMMA DeallocateInv ==
    ASSUME IInv, NEW t \in Threads, NEW o \in Objects, NEW b \in held, deallocate(t, o, b)
    PROVE  IInv'
<1>a. PICK k \in Heaps : k = impl_[o] /\ impl \in owners[k]
      BY DEF deallocate, IInv, TypeOK, Owning
<1>1. /\ pc[t] = "running" /\ UNCHANGED <<objects, address, owners, pc, at>>
      /\ b \in held \cap BlocksOf(k) /\ held' = held \ {b}
      BY Zenon, <1>a DEF deallocate
<1>3. threadCache(t, k).blocks = Stash(t, k)
      BY <1>a, CacheFound DEF Alive
<1>4. PICK spilt \in SUBSET Stash(t, k) :
          /\ pools' = [pools EXCEPT ![k] = @ \cup spilt]
          /\ SetCache(t, k, (Stash(t, k) \ spilt) \cup {b})
      BY Zenon, <1>a, <1>3 DEF deallocate
<1> DEFINE S == (Stash(t, k) \ spilt) \cup {b}
           P == pools[k] \cup spilt
<1>5. pools' = [pools EXCEPT ![k] = P]
      BY Zenon, <1>a, <1>4 DEF IInv, TypeOK
<1>6. Placed(k)
      BY Zenon, <1>a DEF IInv, Conserved
<1>7. Stash(t, k) \subseteq BlocksOf(k) /\ pools[k] \subseteq BlocksOf(k)
      BY Zenon, <1>a, StashIn DEF IInv, TypeOK
<1>8. Stash(t, k) \cap pools[k] = {} /\ Stash(t, k) \cap held = {} /\ pools[k] \cap held = {}
      BY Zenon, <1>6 DEF Placed
<1>9. S \in SUBSET BlocksOf(k) /\ P \in SUBSET BlocksOf(k)
      BY Zenon, <1>1, <1>7
<1>10. \A x : x \notin BlocksOf(k) => (x \in held' <=> x \in held)
      BY Zenon, <1>1
<1>11. P \cap S = {} /\ P \cap held' = {} /\ S \cap held' = {}
      BY Zenon, <1>1, <1>8
<1>12. P \cup S \cup (held' \cap BlocksOf(k))
           = pools[k] \cup Stash(t, k) \cup (held \cap BlocksOf(k))
      BY Zenon, <1>1
<1>13. SetCache(t, k, S)
      BY Zenon, <1>4
<1> HIDE DEF S, P
<1> QED BY ZenonT(30), <1>1, <1>a, <1>5, <1>9, <1>10, <1>11, <1>12, <1>13, Exchange

-----------------------------------------------------------------------------
(* Threads that exit                                                       *)

(* A slot is taken out of a thread's map.                                  *)
LEMMA SlotGone ==
    ASSUME IInv, NEW t \in Threads, NEW a \in DOMAIN tlsCaches[t],
           tlsCaches' = [tlsCaches EXCEPT ![t] = Without(@, a)], UNCHANGED address
    PROVE  /\ DOMAIN tlsCaches' = Threads
           /\ \A u \in Threads : u # t => tlsCaches'[u] = tlsCaches[u]
           /\ DOMAIN tlsCaches'[t] = DOMAIN tlsCaches[t] \ {a}
           /\ \A x \in DOMAIN tlsCaches'[t] : tlsCaches'[t][x] = tlsCaches[t][x]
           /\ \A u \in Threads : /\ DOMAIN tlsCaches'[u] \subseteq Addresses
                                 /\ tlsCaches'[u] \in [DOMAIN tlsCaches'[u] -> Cache]
           /\ Keyed'
           /\ \A u \in Threads, g \in Heaps : Caches(u, g)' => Caches(u, g)
           /\ \A u \in Threads, g \in Heaps :
                 Stash(u, g)' = IF u = t /\ g = tlsCaches[t][a].central_ THEN {} ELSE Stash(u, g)
<1> USE DEF IInv
<1>1. /\ DOMAIN tlsCaches' = Threads
      /\ \A u \in Threads : u # t => tlsCaches'[u] = tlsCaches[u]
      /\ tlsCaches'[t] = Without(tlsCaches[t], a)
      BY Zenon DEF TypeOK
<1>2. /\ DOMAIN tlsCaches'[t] = DOMAIN tlsCaches[t] \ {a}
      /\ \A x \in DOMAIN tlsCaches'[t] : tlsCaches'[t][x] = tlsCaches[t][x]
      BY Zenon, <1>1 DEF Without
<1>3. tlsCaches'[t] \in [DOMAIN tlsCaches'[t] -> Cache]
      BY ZenonT(30), <1>1, <1>2 DEF Without, TypeOK
<1>4. \A u \in Threads : /\ DOMAIN tlsCaches'[u] \subseteq Addresses
                         /\ tlsCaches'[u] \in [DOMAIN tlsCaches'[u] -> Cache]
      BY Zenon, <1>1, <1>2, <1>3 DEF TypeOK
<1>5. Keyed'
  <2>1. ASSUME NEW u \in Threads, NEW x \in DOMAIN tlsCaches'[u]
        PROVE  x \in DOMAIN tlsCaches[u] /\ tlsCaches'[u][x] = tlsCaches[u][x]
        BY Zenon, <1>1, <1>2, <2>1
  <2> QED BY <2>1 DEF Keyed, BlocksOf
<1>6. \A u \in Threads, g \in Heaps : Caches(u, g)' => Caches(u, g)
      BY <1>1, <1>2 DEF Caches
<1>7. ASSUME NEW u \in Threads, NEW g \in Heaps
      PROVE  Stash(u, g)' = IF u = t /\ g = tlsCaches[t][a].central_ THEN {} ELSE Stash(u, g)
  <2>1. CASE u # t
        BY Zenon, <1>1, <2>1 DEF Stash
  <2>2. CASE u = t /\ address[g] # a
    <3>1. g # tlsCaches[t][a].central_
          BY Zenon, <2>2 DEF Keyed
    <3> QED BY <1>2, <2>2, <3>1 DEF Stash
  <2>3. CASE u = t /\ address[g] = a
        BY Zenon, <1>2, <2>3 DEF Stash
  <2> QED BY Zenon, <2>1, <2>2, <2>3
<1> QED BY Zenon, <1>1, <1>2, <1>4, <1>5, <1>6, <1>7

(* A thread begins to exit.                                                *)
LEMMA ExitInv ==
    ASSUME IInv, NEW t \in Threads, exit(t)
    PROVE  IInv'
<1> USE DEF IInv
<1>1. /\ pc[t] = "running" /\ pc' = [pc EXCEPT ![t] = "exiting"]
      /\ UNCHANGED <<built, impl_, address, owners, pools, held, tlsCaches, at>>
      BY Zenon DEF exit, objects, central
<1>2. \A u \in Threads : pc'[u] = IF u = t THEN "exiting" ELSE pc[u]
      BY Zenon, <1>1 DEF TypeOK
<1>3. TypeOK'
      BY Zenon, <1>1 DEF TypeOK, Blocks, BlocksOf, Cache, impl
<1>4. Owning' /\ Ends'
      BY Zenon, <1>1 DEF Owning, Ends, Created, Alive, BlocksOf, impl
<1>5. Keyed' /\ Unshared'
      BY <1>1 DEF Keyed, Unshared, Used, Alive, Caches, BlocksOf
<1>6. Handles'
  <2>1. \A u \in Threads : /\ Flushing(u)' <=> Flushing(u)
                           /\ pc'[u] = "unlock" <=> pc[u] = "unlock"
        BY <1>1, <1>2 DEF Flushing
  <2> QED BY ZenonT(30), <1>1, <2>1 DEF Handles
<1>7. Conserved'
      BY Zenon, <1>1, SamePlaces DEF Conserved, impl
<1> QED BY Zenon, <1>3, <1>4, <1>5, <1>6, <1>7

(* The destructor gets a shared_ptr to a live CentralState, or drops the   *)
(* cache of a dead one.                                                    *)
LEMMA LockInv ==
    ASSUME IInv, NEW t \in Threads, NEW a \in Addresses, lock(t, a)
    PROVE  IInv'
<1> USE DEF IInv
<1>1. /\ pc[t] = "exiting" /\ a \in DOMAIN tlsCaches[t]
      /\ UNCHANGED <<built, impl_, address, pools, held>>
      BY Zenon DEF lock, objects
<1>2. PICK h \in Heaps : h = tlsCaches[t][a].central_
      BY Zenon, <1>1 DEF TypeOK, Cache
<1>3. impl \notin Threads
      BY Zenon, NameAssumption DEF impl
<1>4. CASE Alive(h)
  <2>1. /\ owners' = [owners EXCEPT ![h] = @ \cup {t}] /\ tlsCaches' = tlsCaches
        /\ at' = [at EXCEPT ![t] = a] /\ pc' = [pc EXCEPT ![t] = "flush"]
        BY Zenon, <1>2, <1>4 DEF lock
  <2>2. /\ \A g \in Heaps : owners'[g] = IF g = h THEN owners[h] \cup {t} ELSE owners[g]
        /\ \A u \in Threads : at'[u] = IF u = t THEN a ELSE at[u]
        /\ \A u \in Threads : pc'[u] = IF u = t THEN "flush" ELSE pc[u]
        BY Zenon, <2>1 DEF TypeOK
  <2>3. TypeOK'
        BY ZenonT(30), <1>1, <2>1 DEF TypeOK, Blocks, BlocksOf, Cache, impl
  <2>4. \A g \in Heaps : (impl \in owners'[g] <=> impl \in owners[g]) /\ (Alive(g)' <=> Alive(g))
        BY Zenon, <1>3, <1>4, <2>2 DEF Alive
  <2>5. Owning'
        BY Zenon, <1>1, <2>4 DEF Owning, impl
  <2>6. Keyed'
        BY Zenon, <1>1, <2>1, SameCaches
  <2>7. Unshared'
        BY <1>1, <2>1, <2>4 DEF Unshared, Used, Caches
  <2>8. Handles'
    <3>1. /\ ~Flushing(t) /\ Flushing(t)' /\ pc'[t] # "unlock" /\ at'[t] = a
          /\ \A u \in Threads : u # t => /\ Flushing(u)' <=> Flushing(u)
                                        /\ pc'[u] = pc[u] /\ at'[u] = at[u]
          BY Zenon, <1>1, <2>2 DEF Flushing
    <3>2. \A u \in Threads : Flushing(u)' => at'[u] \in DOMAIN tlsCaches'[u]
          BY <1>1, <2>1, <3>1 DEF Handles
    <3>3. \A g \in Heaps : t \in owners'[g] <=> g = h
          BY Zenon, <2>2, <3>1 DEF Handles
    <3>4. \A u \in Threads, g \in Heaps : u # t => (u \in owners'[g] <=> u \in owners[g])
          BY Zenon, <2>2
    <3>5. ASSUME NEW u \in Threads, NEW g \in Heaps
          PROVE  u \in owners'[g] <=> Flushing(u)' /\ tlsCaches'[u][at'[u]].central_ = g
      <4>1. CASE u = t
            BY ZenonT(60), <1>2, <2>1, <3>1, <3>3, <4>1
      <4>2. CASE u # t
            BY <2>1, <3>1, <3>4, <4>2 DEF Handles
      <4> QED BY Zenon, <4>1, <4>2
    <3>6. \A u \in Threads : pc'[u] = "unlock" => tlsCaches'[u][at'[u]].blocks = {}
          BY <2>1, <3>1 DEF Handles
    <3> QED BY Zenon, <3>2, <3>5, <3>6 DEF Handles
  <2>9. Ends'
        BY <1>1, <2>4 DEF Ends, Created, BlocksOf, impl
  <2>10. Conserved'
        BY Zenon, <1>1, <2>1, <2>4, SamePlaces DEF Conserved, impl
  <2> QED BY Zenon, <2>3, <2>5, <2>6, <2>7, <2>8, <2>9, <2>10
<1>5. CASE ~Alive(h)
  <2>1. /\ tlsCaches' = [tlsCaches EXCEPT ![t] = Without(@, a)]
        /\ UNCHANGED <<pc, at, owners>>
        BY Zenon, <1>2, <1>5 DEF lock
  <2>2. TypeOK'
        BY Zenon, <1>1, <2>1, SlotGone DEF TypeOK, Blocks, BlocksOf, Cache, impl
  <2>3. Owning' /\ Ends'
        BY Zenon, <1>1, <2>1 DEF Owning, Ends, Created, Alive, BlocksOf, impl
  <2>4. Keyed'
        BY Zenon, <1>1, <2>1, SlotGone
  <2>5. \A g \in Heaps : Used(g)' => Used(g)
        BY Zenon, <1>1, <2>1, SlotGone DEF Used, Alive
  <2>6. Unshared'
        BY Zenon, <1>1, <2>5 DEF Unshared
  <2>7. Handles'
    <3>1. ~Flushing(t) /\ \A u \in Threads : u # t => tlsCaches'[u] = tlsCaches[u]
          BY Zenon, <1>1, <2>1, SlotGone DEF Flushing
    <3> QED BY <2>1, <3>1 DEF Handles, Flushing
  <2>8. Conserved'
    <3>1. \A g \in Heaps, u \in Threads : impl \in owners[g] => Stash(u, g)' = Stash(u, g)
      <4>1. \A u \in Threads, g \in Heaps :
                Stash(u, g)' = IF u = t /\ g = tlsCaches[t][a].central_ THEN {} ELSE Stash(u, g)
            BY ZenonT(30), <1>1, <2>1, SlotGone
      <4> QED BY Zenon, <1>2, <1>5, <4>1 DEF Alive
    <3>2. ASSUME NEW g \in Heaps, impl \in owners'[g] PROVE Placed(g)'
      <4>1. Placed(g) /\ \A u \in Threads : Stash(u, g)' = Stash(u, g)
            BY Zenon, <2>1, <3>1, <3>2 DEF Conserved
      <4> QED BY <1>1, <4>1 DEF Placed, BlocksOf
    <3> QED BY Zenon, <3>2 DEF Conserved, impl
  <2> QED BY <2>2, <2>3, <2>4, <2>6, <2>7, <2>8
<1> QED BY <1>4, <1>5

(* The cache goes back to the pools of a CentralState the thread keeps.    *)
LEMMA FlushInv ==
    ASSUME IInv, NEW t \in Threads, flush(t)
    PROVE  IInv'
<1> USE DEF IInv
<1>1. pc[t] = "flush" /\ Flushing(t) /\ UNCHANGED <<built, impl_, address, owners, held, at>>
      BY Zenon DEF flush, Flushing, objects
<1>2. PICK a \in Addresses : a = at[t] /\ a \in DOMAIN tlsCaches[t]
      BY Zenon, <1>1 DEF Handles, TypeOK
<1>3. PICK h \in Heaps : h = tlsCaches[t][a].central_
      BY Zenon, <1>2 DEF TypeOK, Cache
<1>4. /\ Alive(h) /\ t \in owners[h] /\ Stash(t, h) = tlsCaches[t][a].blocks
      /\ Stash(t, h) \subseteq BlocksOf(h)
      BY ZenonT(60), <1>1, <1>2, <1>3, StashAt, StashIn DEF Handles, Alive
<1>5. /\ pools' = [pools EXCEPT ![h] = @ \cup Stash(t, h)]
      /\ tlsCaches' = [tlsCaches EXCEPT ![t][a].blocks = {}]
      /\ pc' = [pc EXCEPT ![t] = "unlock"]
      BY <1>2, <1>3, <1>4 DEF flush
<1>6. /\ \A g \in Heaps : pools'[g] = IF g = h THEN pools[h] \cup Stash(t, h) ELSE pools[g]
      /\ \A u \in Threads : pc'[u] = IF u = t THEN "unlock" ELSE pc[u]
      BY <1>5 DEF TypeOK
<1>7. /\ DOMAIN tlsCaches' = Threads
      /\ \A u \in Threads : u # t => tlsCaches'[u] = tlsCaches[u]
      /\ tlsCaches'[t] = [tlsCaches[t] EXCEPT ![a].blocks = {}]
      BY Zenon, <1>5 DEF TypeOK
<1>8. tlsCaches[t][a] = [central_ |-> h, blocks |-> Stash(t, h)]
      BY Zenon, <1>2, <1>3, <1>4 DEF TypeOK, Cache
<1>9. /\ DOMAIN tlsCaches'[t] = DOMAIN tlsCaches[t]
      /\ tlsCaches'[t][a] = [central_ |-> h, blocks |-> {}]
      /\ \A x \in DOMAIN tlsCaches[t] : x # a => tlsCaches'[t][x] = tlsCaches[t][x]
      BY <1>2, <1>7, <1>8
<1>10. tlsCaches'[t] \in [DOMAIN tlsCaches'[t] -> Cache]
  <2>1. [central_ |-> h, blocks |-> {}] \in Cache
        BY Zenon DEF Cache
  <2>2. \A x \in DOMAIN tlsCaches[t] : tlsCaches'[t][x] \in Cache
        BY Zenon, <1>9, <2>1 DEF TypeOK
  <2>3. tlsCaches'[t] = [x \in DOMAIN tlsCaches'[t] |-> tlsCaches'[t][x]]
        BY Zenon, <1>7
  <2> QED BY Zenon, <1>9, <2>2, <2>3
<1>11. TypeOK'
  <2>1. \A u \in Threads : /\ DOMAIN tlsCaches'[u] \subseteq Addresses
                           /\ tlsCaches'[u] \in [DOMAIN tlsCaches'[u] -> Cache]
        BY Zenon, <1>7, <1>9, <1>10 DEF TypeOK
  <2>2. pools' \in [Heaps -> SUBSET Blocks] /\ \A g \in Heaps : pools'[g] \subseteq BlocksOf(g)
        BY <1>4, <1>5, <1>6, BlocksAll DEF TypeOK
  <2>3. pc' \in [Threads -> {"running", "exiting", "flush", "unlock"}]
        BY <1>5 DEF TypeOK
  <2> QED BY Zenon, <1>1, <1>7, <2>1, <2>2, <2>3 DEF TypeOK, Blocks, BlocksOf, Cache, impl
<1>12. Owning'
      BY Zenon, <1>1 DEF Owning, impl
<1>13. \A u \in Threads : /\ DOMAIN tlsCaches'[u] = DOMAIN tlsCaches[u]
                          /\ \A x \in DOMAIN tlsCaches[u] :
                                /\ tlsCaches'[u][x].central_ = tlsCaches[u][x].central_
                                /\ tlsCaches'[u][x].blocks \subseteq tlsCaches[u][x].blocks
      BY SMTT(30), <1>3, <1>7, <1>9
<1>14. Keyed'
      BY <1>1, <1>13 DEF Keyed, BlocksOf
<1>15. Unshared'
  <2>1. \A g \in Heaps : Used(g)' = Used(g)
        BY <1>1, <1>13 DEF Used, Alive, Caches
  <2> QED BY Zenon, <1>1, <2>1 DEF Unshared
<1>16. Handles'
  <2>1. \A u \in Threads : Flushing(u)' = Flushing(u)
        BY <1>1, <1>6 DEF Flushing
  <2>2. \A u \in Threads : Flushing(u)' => at'[u] \in DOMAIN tlsCaches'[u]
        BY Zenon, <1>1, <1>13, <2>1 DEF Handles
  <2>3. \A u \in Threads, g \in Heaps :
            u \in owners'[g] <=> Flushing(u)' /\ tlsCaches'[u][at'[u]].central_ = g
        BY <1>1, <1>13, <2>1 DEF Handles
  <2>4. \A u \in Threads : pc'[u] = "unlock" => tlsCaches'[u][at'[u]].blocks = {}
        BY SMTT(30), <1>1, <1>2, <1>6, <1>7, <1>9 DEF Handles
  <2> QED BY Zenon, <2>2, <2>3, <2>4 DEF Handles
<1>17. Ends'
      BY Zenon, <1>1, <1>4, <1>6 DEF Ends, Created, Alive, BlocksOf, impl
<1>18. \A u \in Threads, g \in Heaps :
          Stash(u, g)' = IF u = t /\ g = h THEN {} ELSE Stash(u, g)
  <2> SUFFICES ASSUME NEW u \in Threads, NEW g \in Heaps
               PROVE  Stash(u, g)' = IF u = t /\ g = h THEN {} ELSE Stash(u, g)
      OBVIOUS
  <2>1. CASE u # t
        BY Zenon, <1>1, <1>7, <2>1 DEF Stash
  <2>2. CASE u = t /\ address[g] # a
    <3>1. g # h
          BY ZenonT(30), <1>2, <1>3, <2>2 DEF Keyed
    <3> QED BY Zenon, <1>1, <1>9, <2>2, <3>1 DEF Stash
  <2>3. CASE u = t /\ address[g] = a
        BY SMTT(30), <1>1, <1>2, <1>3, <1>9, <2>3 DEF Stash
  <2> QED BY Zenon, <2>1, <2>2, <2>3
<1>19. Conserved'
  <2>1. ASSUME NEW g \in Heaps, impl \in owners'[g] PROVE Placed(g)'
    <3>1. Placed(g)
          BY Zenon, <1>1, <2>1 DEF Conserved
    <3>2. CASE g = h
      <4>1. pools'[g] = pools[g] \cup Stash(t, g) /\ Stash(t, g)' = {}
            BY Zenon, <1>6, <1>18, <3>2
      <4>2. \A u \in Threads : u # t => Stash(u, g)' = Stash(u, g)
            BY Zenon, <1>18
      <4>3. \A b \in BlocksOf(g) :
                b \in pools'[g] \/ b \in held \/ \E u \in Threads : b \in Stash(u, g)'
            BY <3>1, <4>1, <4>2 DEF Placed
      <4>4. pools'[g] \cap held = {}
            BY Zenon, <3>1, <4>1 DEF Placed
      <4>5. \A u \in Threads : /\ Stash(u, g)' \cap pools'[g] = {} /\ Stash(u, g)' \cap held = {}
                               /\ \A v \in Threads : v # u => Stash(u, g)' \cap Stash(v, g)' = {}
            BY <3>1, <4>1, <4>2 DEF Placed
      <4> QED BY Zenon, <1>1, <4>3, <4>4, <4>5 DEF Placed, BlocksOf
    <3>3. CASE g # h
      <4>1. pools'[g] = pools[g] /\ \A u \in Threads : Stash(u, g)' = Stash(u, g)
            BY Zenon, <1>6, <1>18, <3>3
      <4> QED BY <1>1, <3>1, <4>1 DEF Placed, BlocksOf
    <3> QED BY <3>2, <3>3
  <2> QED BY <2>1 DEF Conserved, impl
<1> QED BY <1>11, <1>12, <1>14, <1>15, <1>16, <1>17, <1>19

(* The shared_ptr goes, with the CentralState if it was the last, and the  *)
(* empty cache.                                                            *)
LEMMA UnlockInv ==
    ASSUME IInv, NEW t \in Threads, unlock(t)
    PROVE  IInv'
<1> USE DEF IInv
<1>1. pc[t] = "unlock" /\ Flushing(t) /\ UNCHANGED <<built, impl_, address, held>>
      BY Zenon DEF unlock, Flushing, objects
<1>2. PICK a \in Addresses : a = at[t] /\ a \in DOMAIN tlsCaches[t]
      BY Zenon, <1>1 DEF Handles, TypeOK
<1>3. PICK h \in Heaps : h = tlsCaches[t][a].central_
      BY Zenon, <1>2 DEF TypeOK, Cache
<1>4. /\ owners' = [owners EXCEPT ![h] = @ \ {t}]
      /\ pools' = IF owners'[h] = {} THEN [pools EXCEPT ![h] = {}] ELSE pools
      /\ tlsCaches' = [tlsCaches EXCEPT ![t] = Without(@, a)]
      /\ pc' = [pc EXCEPT ![t] = "exiting"] /\ at' = [at EXCEPT ![t] = nullptr]
      BY Zenon, <1>2, <1>3 DEF unlock, release
<1>5. impl \notin Threads
      BY Zenon, NameAssumption DEF impl
<1>6. /\ \A g \in Heaps : owners'[g] = IF g = h THEN owners[h] \ {t} ELSE owners[g]
      /\ \A g \in Heaps : pools'[g] = IF g = h /\ owners'[h] = {} THEN {} ELSE pools[g]
      /\ \A u \in Threads : pc'[u] = IF u = t THEN "exiting" ELSE pc[u]
      /\ \A u \in Threads : u # t => at'[u] = at[u]
      BY Zenon, <1>4 DEF TypeOK
<1>7. \A g \in Heaps : (impl \in owners'[g] <=> impl \in owners[g]) /\ (Alive(g)' => Alive(g))
      BY Zenon, <1>5, <1>6 DEF Alive
<1>8. \A u \in Threads, g \in Heaps : Stash(u, g)' = Stash(u, g)
  <2>1. Stash(t, h) = {}
        BY <1>1, <1>2, <1>3, StashAt DEF Handles
  <2>2. \A u \in Threads, g \in Heaps :
            Stash(u, g)' = IF u = t /\ g = tlsCaches[t][a].central_ THEN {} ELSE Stash(u, g)
        BY ZenonT(30), <1>1, <1>2, <1>4, SlotGone
  <2> QED BY Zenon, <1>3, <2>1, <2>2
<1>9. TypeOK'
  <2>1. /\ owners' \in [Heaps -> SUBSET (Threads \cup {impl})]
        /\ pools' \in [Heaps -> SUBSET Blocks]
        /\ pc' \in [Threads -> {"running", "exiting", "flush", "unlock"}]
        /\ at' \in [Threads -> Addresses \cup {nullptr}]
        BY <1>4 DEF TypeOK
  <2>2. /\ DOMAIN tlsCaches' = Threads
        /\ \A u \in Threads : /\ DOMAIN tlsCaches'[u] \subseteq Addresses
                              /\ tlsCaches'[u] \in [DOMAIN tlsCaches'[u] -> Cache]
        BY Zenon, <1>1, <1>2, <1>4, SlotGone
  <2>3. \A g \in Heaps : pools'[g] \subseteq BlocksOf(g)
        BY Zenon, <1>6 DEF TypeOK
  <2> QED BY Zenon, <1>1, <2>1, <2>2, <2>3 DEF TypeOK, Blocks, BlocksOf, Cache, impl
<1>10. Owning'
      BY Zenon, <1>1, <1>7 DEF Owning, impl
<1>11. Keyed'
      BY Zenon, <1>1, <1>2, <1>4, SlotGone
<1>12. Unshared'
  <2>1. \A g \in Heaps : Used(g)' => Used(g)
        BY Zenon, <1>1, <1>2, <1>4, <1>7, SlotGone DEF Used
  <2> QED BY Zenon, <1>1, <2>1 DEF Unshared
<1>13. Handles'
  <2>1. \A u \in Threads : /\ u # t => tlsCaches'[u] = tlsCaches[u]
                           /\ Flushing(u)' <=> Flushing(u) /\ u # t
        BY SMTT(30), <1>1, <1>2, <1>4, <1>6, SlotGone DEF Flushing
  <2>2. \A g \in Heaps : t \notin owners'[g]
        BY <1>1, <1>2, <1>3, <1>6 DEF Handles
  <2>3. \A u \in Threads, g \in Heaps : u # t => (u \in owners'[g] <=> u \in owners[g])
        BY Zenon, <1>6
  <2>4. \A u \in Threads, g \in Heaps :
            u \in owners'[g] <=> Flushing(u)' /\ tlsCaches'[u][at'[u]].central_ = g
    <3> SUFFICES ASSUME NEW u \in Threads, NEW g \in Heaps
                 PROVE  u \in owners'[g] <=> Flushing(u)' /\ tlsCaches'[u][at'[u]].central_ = g
        BY Zenon
    <3>1. CASE u = t
          BY Zenon, <2>1, <2>2, <3>1
    <3>2. CASE u # t
      <4>1. at'[u] = at[u]
            BY Zenon, <1>6, <3>2
      <4> QED BY <2>1, <2>3, <3>2, <4>1 DEF Handles
    <3> QED BY Zenon, <3>1, <3>2
  <2>5. \A u \in Threads : Flushing(u)' => at'[u] \in DOMAIN tlsCaches'[u]
        BY Zenon, <1>6, <2>1 DEF Handles
  <2>6. \A u \in Threads : pc'[u] = "unlock" => tlsCaches'[u][at'[u]].blocks = {}
        BY Zenon, <1>6, <2>1 DEF Handles
  <2> QED BY Zenon, <2>4, <2>5, <2>6 DEF Handles
<1>14. Ends'
      BY Zenon, <1>1, <1>6, <1>7 DEF Ends, Created, Alive, BlocksOf, impl
<1>15. Conserved'
  <2>1. ASSUME NEW g \in Heaps, impl \in owners'[g] PROVE Placed(g)'
    <3>1. Placed(g)
          BY Zenon, <1>7, <2>1 DEF Conserved
    <3>2. pools'[g] = pools[g]
          BY Zenon, <1>6, <2>1
    <3> QED BY <1>1, <1>8, <3>1, <3>2 DEF Placed, BlocksOf
  <2> QED BY <2>1 DEF Conserved, impl
<1> QED BY <1>9, <1>10, <1>11, <1>12, <1>13, <1>14, <1>15

-----------------------------------------------------------------------------
(* The theorems                                                            *)

(* Every step keeps the invariant.                                         *)
LEMMA StepInv == IInv /\ [Next]_vars => IInv'
<1> SUFFICES ASSUME IInv, [Next]_vars PROVE IInv'
    OBVIOUS
<1>1. CASE UNCHANGED vars
  <2>1. UNCHANGED <<built, impl_, address, owners, pools, held, tlsCaches, pc, at>>
        BY Zenon, <1>1 DEF vars
  <2>2. TypeOK' /\ Owning'
        BY Zenon, <2>1 DEF IInv, TypeOK, Owning, Blocks, BlocksOf, Cache, impl
  <2> QED BY Zenon, <2>1, <2>2, SameRest DEF IInv
<1>2. ASSUME NEW o \in Objects, construct(o) PROVE IInv'
      BY Zenon, <1>2, ConstructInv
<1>3. ASSUME NEW o \in Objects, destroy(o) PROVE IInv'
      BY Zenon, <1>3, DestroyInv
<1>4. ASSUME NEW o \in Objects, NEW x \in Objects, moveConstruct(o, x) \/ moveAssign(o, x) PROVE IInv'
      BY Zenon, <1>4, MoveConstructInv, MoveAssignInv
<1>5. ASSUME NEW t \in Threads, NEW o \in Objects, allocate(t, o) PROVE IInv'
      BY Zenon, <1>5, AllocateInv
<1>6. ASSUME NEW t \in Threads, NEW o \in Objects, NEW b \in held, deallocate(t, o, b) PROVE IInv'
      BY Zenon, <1>6, DeallocateInv
<1>7. ASSUME NEW t \in Threads, exit(t) \/ exiting(t) PROVE IInv'
      BY Zenon, <1>7, ExitInv, LockInv, FlushInv, UnlockInv DEF exiting
<1> QED BY Zenon, <1>1, <1>2, <1>3, <1>4, <1>5, <1>6, <1>7 DEF Next

(* The inductive invariant: who owns each CentralState, where its caches   *)
(* are found and where its blocks are, through construction, moves,        *)
(* destruction, calls and the exit of threads.                             *)
THEOREM Invariance == Spec => []IInv
<1>1. Init => IInv
      BY Zenon, InitInv
<1>2. IInv /\ [Next]_vars => IInv'
      BY Zenon, StepInv
<1> QED BY <1>1, <1>2, PTL DEF Spec

(* tlsCaches never leads to the cache of another CentralState, though      *)
(* addresses are reused.                                                   *)
THEOREM CachesCorrect == Spec => []CachesMatch
<1>1. IInv => CachesMatch
  <2> SUFFICES ASSUME IInv, NEW t \in Threads, NEW a \in DOMAIN tlsCaches[t]
               PROVE  LET cache == tlsCaches[t][a]
                      IN  /\ address[cache.central_] = a
                          /\ \A h \in Heaps : Alive(h) /\ address[h] = a => cache.central_ = h
      BY DEF CachesMatch
  <2>1. address[tlsCaches[t][a].central_] = a
        BY Zenon DEF IInv, Keyed
  <2>2. tlsCaches[t][a].central_ \in Heaps /\ Used(tlsCaches[t][a].central_)
        BY Zenon DEF IInv, TypeOK, Cache, Used, Caches
  <2> QED BY Zenon, <2>1, <2>2 DEF IInv, Unshared, Used
<1> QED BY <1>1, Invariance, PTL

(* An exiting thread never flushes into a CentralState that is gone.       *)
THEOREM FlushSafe == Spec => []NoUseAfterDestroy
<1>1. IInv => NoUseAfterDestroy
  <2> SUFFICES ASSUME IInv PROVE NoUseAfterDestroy
      OBVIOUS
  <2>1. ASSUME NEW t \in Threads, pc[t] \in {"flush", "unlock"}
        PROVE  Alive(tlsCaches[t][at[t]].central_)
    <3>1. Flushing(t) /\ at[t] \in DOMAIN tlsCaches[t]
          BY Zenon, <2>1 DEF IInv, Handles, Flushing
    <3>2. tlsCaches[t][at[t]].central_ \in Heaps
          BY Zenon, <3>1 DEF IInv, TypeOK, Cache
    <3> QED BY Zenon, <3>1, <3>2 DEF IInv, Handles, Alive
  <2>2. \A h \in Heaps : ~Alive(h) => pools[h] = {}
        BY Zenon DEF IInv, Ends
  <2> QED BY Zenon, <2>1, <2>2 DEF NoUseAfterDestroy
<1> QED BY <1>1, Invariance, PTL

(* While its object lives, every block of a heap is in the pools, in one   *)
(* cache or with a caller.                                                 *)
THEOREM ConservationCorrect == Spec => []BlocksConserved
<1>1. IInv => BlocksConserved
  <2> SUFFICES ASSUME IInv, NEW h \in Heaps, impl \in owners[h]
               PROVE  LET cached(t) == (UNION {s.blocks : s \in Slots(t)}) \cap BlocksOf(h)
                      IN  /\ BlocksOf(h) = pools[h] \cup (held \cap BlocksOf(h))
                                           \cup UNION {cached(t) : t \in Threads}
                          /\ pools[h] \cap held = {}
                          /\ \A t \in Threads :
                                /\ cached(t) \cap (pools[h] \cup held) = {}
                                /\ \A u \in Threads \ {t} : cached(t) \cap cached(u) = {}
      BY Zenon DEF BlocksConserved
  <2> DEFINE cached(t) == (UNION {s.blocks : s \in Slots(t)}) \cap BlocksOf(h)
  <2>1. Placed(h) /\ pools[h] \subseteq BlocksOf(h)
        BY Zenon DEF IInv, Conserved, TypeOK
  <2>2. ASSUME NEW t \in Threads PROVE cached(t) = Stash(t, h)
    <3>1. ASSUME NEW b \in cached(t) PROVE b \in Stash(t, h)
      <4>a. PICK s \in Slots(t) : b \in s.blocks
            BY Zenon, <3>1
      <4>1. PICK a \in DOMAIN tlsCaches[t] : b \in tlsCaches[t][a].blocks
            BY Zenon, <4>a DEF Slots
      <4>2. b \in BlocksOf(h) /\ b \in BlocksOf(tlsCaches[t][a].central_)
            BY Zenon, <3>1, <4>1 DEF IInv, Keyed
      <4>3. tlsCaches[t][a].central_ = h
            BY Zenon, <4>2, BlocksApart
      <4> QED BY Zenon, <4>1, <4>3, StashAt DEF IInv
    <3>2. ASSUME NEW b \in Stash(t, h) PROVE b \in cached(t)
      <4>1. b \in BlocksOf(h)
            BY Zenon, <3>2, StashIn DEF IInv
      <4>2. address[h] \in DOMAIN tlsCaches[t] /\ b \in tlsCaches[t][address[h]].blocks
            BY Zenon, <3>2 DEF Stash
      <4>3. tlsCaches[t][address[h]] \in Slots(t)
            BY Zenon, <4>2 DEF Slots
      <4> QED BY Zenon, <4>1, <4>2, <4>3
    <3> QED BY Zenon, <3>1, <3>2
  <2> HIDE DEF cached
  <2>3. BlocksOf(h) = pools[h] \cup (held \cap BlocksOf(h)) \cup UNION {cached(t) : t \in Threads}
    <3>1. \A t \in Threads : cached(t) \subseteq BlocksOf(h)
          BY Zenon, <2>2, StashIn DEF IInv
    <3>2. \A b \in BlocksOf(h) : b \in pools[h] \/ b \in held \/ \E t \in Threads : b \in cached(t)
          BY <2>1, <2>2 DEF Placed
    <3> QED BY Zenon, <2>1, <3>1, <3>2
  <2>4. \A t \in Threads : /\ cached(t) \cap (pools[h] \cup held) = {}
                           /\ \A u \in Threads \ {t} : cached(t) \cap cached(u) = {}
        BY ZenonT(30), <2>1, <2>2 DEF Placed
  <2> QED BY Zenon, <2>1, <2>3, <2>4 DEF cached, Placed
<1> QED BY <1>1, Invariance, PTL
=============================================================================
