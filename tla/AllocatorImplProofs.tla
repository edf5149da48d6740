------------------------ MODULE AllocatorImplProofs ------------------------
(***************************************************************************)
(* Proofs about AllocatorImpl, for any blocks, tiers and offsets: with any *)
(* number of threads when callers respect the contract, and with one       *)
(* thread that may free a pointer twice.                                   *)
(***************************************************************************)
EXTENDS AllocatorImpl, FiniteSetTheorems, TLAPS

Typed ==
    /\ state \in [Pointer -> {"garbage", "allocated", "freed", "unmapped"}]
    /\ out \subseteq Blocks
    /\ pc \in [Threads -> {"idle", "record", "track", "isTracked", "wasFreed", "header",
                           "release", "recordFree", "untrack", "allocationSize", "grow"}]
    /\ op \in [Threads -> {"none", "allocate", "alignedAllocate", "deallocate", "reallocate"}]
    /\ fresh \in [Threads -> Pointer \cup {nullptr}]
    /\ victim \in [Threads -> Pointer \cup {nullptr}]
    /\ result \in [Threads -> {"ok", "OutOfMemory", "DoubleFree", "InvalidPointer"}]
    /\ held \subseteq Pointer /\ stale \subseteq Pointer
    /\ live_ \subseteq Pointer /\ freed_ \subseteq Pointer
    /\ active \in Int
    /\ \A t \in Threads : pc[t] \in {"allocationSize", "grow"} => op[t] = "reallocate"
    /\ \A t \in Threads : pc[t] \in {"recordFree", "untrack"} => victim[t] \in Pointer

(* Whatever is in a hand, is so properly.                                  *)
Hands ==
    /\ \A p \in held : InHand(p)
    /\ \A t \in Threads : HasVictim(t) => InHand(victim[t])
    /\ \A t \in Threads : HasFresh(t) => InHand(fresh[t])

(* No block is in two hands.                                               *)
Apart ==
    /\ \A p, q \in held : p # q => BlockOf(p) # BlockOf(q)
    /\ \A t \in Threads, p \in held :
          /\ HasVictim(t) => BlockOf(victim[t]) # BlockOf(p)
          /\ HasFresh(t) => BlockOf(fresh[t]) # BlockOf(p)
    /\ \A t, u \in Threads :
          /\ HasVictim(t) /\ HasFresh(u) => BlockOf(victim[t]) # BlockOf(fresh[u])
          /\ t # u /\ HasVictim(t) /\ HasVictim(u) => BlockOf(victim[t]) # BlockOf(victim[u])
          /\ t # u /\ HasFresh(t) /\ HasFresh(u) => BlockOf(fresh[t]) # BlockOf(fresh[u])

(* Without the registry no call is refused and every block that is out is  *)
(* in a hand.                                                              *)
Kept ==
    ~enableLeakTracking =>
        /\ \A t \in Threads : pc[t] \notin {"track", "isTracked", "wasFreed", "untrack"}
        /\ \A t \in Threads : result[t] \in {"ok", "OutOfMemory"}
        /\ \A b \in out :
              \/ \E p \in held : BlockOf(p) = b
              \/ \E t \in Threads : HasVictim(t) /\ BlockOf(victim[t]) = b
              \/ \E t \in Threads : HasFresh(t) /\ BlockOf(fresh[t]) = b

IInv == Typed /\ Hands /\ Apart /\ Kept

(* A step of t leaves the other threads where they are.                    *)
Others(t) ==
    \A u \in Threads \ {t} :
        /\ pc'[u] = pc[u] /\ op'[u] = op[u] /\ result'[u] = result[u]
        /\ fresh'[u] = fresh[u] /\ victim'[u] = victim[u]

-----------------------------------------------------------------------------
(* The invariant holds before the first call.                              *)
LEMMA InitInv == Init => IInv
<1> SUFFICES ASSUME Init PROVE IInv
  OBVIOUS
<1>1. Typed
  BY DEF Init, Typed
<1>2. Hands /\ Apart /\ Kept
  BY Zenon DEF Init, Hands, Apart, Kept, HasVictim, HasFresh
<1>3. QED
  BY Zenon, <1>1, <1>2 DEF IInv

(* The tier hands out a block nobody has, and its headers are written.     *)
LEMMA RawAllocateInv ==
    ASSUME IInv, NEW t \in Threads, NEW call \in {"allocate", "alignedAllocate"},
           rawAllocate(t, call)
    PROVE  IInv'
<1>1. PICK block \in Blocks \ out :
          LET user == <<block, userOffset(block, call)>>
          IN  /\ out' = out \cup {block}
              /\ fresh' = [fresh EXCEPT ![t] = user]
              /\ state' \in headersOf(user, {user, RawOf(user)})
  BY Zenon DEF rawAllocate
<1> DEFINE user == <<block, userOffset(block, call)>>
<1>2. user \in Pointer /\ BlockOf(user) = block
  BY Zenon, OffsetAssumption DEF userOffset, Pointer, Offset, BlockOf, kFrontGuardSize
<1>3. /\ state' \in [Pointer -> {"garbage", "allocated", "freed", "unmapped"}]
      /\ state'[user] = "allocated"
      /\ \A p \in Pointer : BlockOf(p) # block => state'[p] = state[p]
  BY <1>1, <1>2 DEF headersOf, IInv, Typed
<1>4. /\ out' = out \cup {block} /\ fresh' = [fresh EXCEPT ![t] = user]
      /\ pc' = [pc EXCEPT ![t] = "record"]
      /\ UNCHANGED <<live_, freed_, active, result, held, stale>>
  BY Zenon, <1>1 DEF rawAllocate, Goto, registry, client
<1>5. \/ /\ pc[t] = "idle"
         /\ op' = [op EXCEPT ![t] = call] /\ victim' = [victim EXCEPT ![t] = nullptr]
      \/ /\ pc[t] = "grow" /\ op[t] = "reallocate" /\ UNCHANGED <<op, victim>>
  BY Zenon DEF rawAllocate, Starts, IInv, Typed
<1> HIDE DEF user
<1>6. Typed'
  BY <1>2, <1>3, <1>4, <1>5 DEF IInv, Typed
<1>7. /\ Others(t) /\ pc'[t] = "record" /\ fresh'[t] = user
      /\ \/ pc[t] = "idle" /\ op'[t] = call
         \/ pc[t] = "grow" /\ op[t] = "reallocate" /\ op'[t] = op[t] /\ victim'[t] = victim[t]
  BY ZenonT(30), <1>4, <1>5 DEF IInv, Typed, Others
<1>8. /\ HasFresh(t)' /\ ~HasFresh(t)
      /\ HasVictim(t)' <=> HasVictim(t)
      /\ HasVictim(t) => victim'[t] = victim[t]
      /\ \A u \in Threads \ {t} :
            (HasVictim(u)' <=> HasVictim(u)) /\ (HasFresh(u)' <=> HasFresh(u))
  BY Zenon, <1>7 DEF HasFresh, HasVictim, Others
<1>9. Hands'
  BY SMTT(30), <1>2, <1>3, <1>4, <1>7, <1>8 DEF IInv, Hands, InHand, Others
<1>10. Apart'
  BY SMTT(30), <1>2, <1>4, <1>7, <1>8 DEF IInv, Hands, Apart, InHand, Others
<1>11. Kept'
  BY <1>2, <1>4, <1>7, <1>8 DEF IInv, Kept, Others
<1>12. QED
  BY Zenon, <1>6, <1>9, <1>10, <1>11 DEF IInv

(* The tier has no block: the caller of reallocate has its pointer back.   *)
LEMMA RawAllocateFailsInv ==
    ASSUME IInv, NEW t \in Threads, NEW call \in {"allocate", "alignedAllocate"},
           rawAllocateFails(t, call)
    PROVE  IInv'
<1>1. /\ pc' = [pc EXCEPT ![t] = "idle"] /\ result' = [result EXCEPT ![t] = "OutOfMemory"]
      /\ held' = IF pc[t] = "grow" THEN held \cup {victim[t]} ELSE held
      /\ UNCHANGED <<out, state, live_, freed_, active, fresh, stale>>
  BY Zenon DEF rawAllocateFails, Return, Goto, memory, registry
<1>2. \/ /\ pc[t] = "idle"
         /\ op' = [op EXCEPT ![t] = call] /\ victim' = [victim EXCEPT ![t] = nullptr]
      \/ /\ pc[t] = "grow" /\ UNCHANGED <<op, victim>>
  BY Zenon DEF rawAllocateFails, Starts
<1>3. pc[t] = "grow" => HasVictim(t) /\ victim[t] \in Pointer
  BY Zenon DEF HasVictim, IInv, Hands, InHand
<1>4. Typed'
  BY <1>1, <1>2, <1>3 DEF IInv, Typed
<1>5. Others(t) /\ pc'[t] = "idle" /\ result'[t] = "OutOfMemory"
  BY ZenonT(30), <1>1, <1>2 DEF IInv, Typed, Others
<1>6. /\ ~HasFresh(t)' /\ ~HasVictim(t)' /\ ~HasFresh(t)
      /\ pc[t] = "idle" => ~HasVictim(t)
      /\ \A u \in Threads \ {t} :
            (HasVictim(u)' <=> HasVictim(u)) /\ (HasFresh(u)' <=> HasFresh(u))
  BY Zenon, <1>2, <1>5 DEF HasFresh, HasVictim, Others
<1>7. Hands'
  BY SMTT(30), <1>1, <1>3, <1>5, <1>6 DEF IInv, Hands, InHand, Others
<1>8. Apart'
  BY SMTT(30), <1>1, <1>3, <1>5, <1>6 DEF IInv, Apart, Others
<1>9. Kept'
  BY <1>1, <1>2, <1>3, <1>5, <1>6 DEF IInv, Kept, Others
<1>10. QED
  BY Zenon, <1>4, <1>7, <1>8, <1>9 DEF IInv

(* The end of allocate: reallocate goes on with both pointers in its       *)
(* hands, and otherwise the caller gets the pointer.                       *)
LEMMA AllocatedHands ==
    ASSUME IInv, NEW t \in Threads, pc[t] \in {"record", "track"}, Allocated(t),
           UNCHANGED <<out, state, op, fresh, victim>>
    PROVE  /\ Hands' /\ Apart' /\ Kept'
           /\ pc' \in [Threads -> {"idle", "record", "track", "isTracked", "wasFreed", "header",
                           "release", "recordFree", "untrack", "allocationSize", "grow"}]
           /\ result' \in [Threads -> {"ok", "OutOfMemory", "DoubleFree", "InvalidPointer"}]
           /\ held' \subseteq Pointer
           /\ pc'[t] \in {"idle", "isTracked", "header"} /\ Others(t)
<1>0. HasFresh(t) /\ InHand(fresh[t])
  BY Zenon DEF HasFresh, IInv, Hands
<1>1. CASE op[t] = "reallocate"
  <2>1. /\ pc' = [pc EXCEPT ![t] = IF enableLeakTracking THEN "isTracked" ELSE "header"]
        /\ UNCHANGED <<result, held>>
    BY Zenon, <1>1 DEF Allocated, Goto
  <2>2. Others(t) /\ pc'[t] = IF enableLeakTracking THEN "isTracked" ELSE "header"
    BY Zenon, <2>1 DEF Others, IInv, Typed
  <2>3. \A u \in Threads : (HasVictim(u)' <=> HasVictim(u)) /\ (HasFresh(u)' <=> HasFresh(u))
    BY Zenon, <1>1, <2>2 DEF Others, HasVictim, HasFresh
  <2>4. Hands' /\ Apart'
    BY ZenonT(30), <2>1, <2>3 DEF IInv, Hands, Apart, InHand
  <2>5. Kept'
    BY <2>1, <2>2, <2>3 DEF IInv, Kept, Others
  <2>6. QED
    BY Zenon, <2>1, <2>2, <2>4, <2>5 DEF IInv, Typed
<1>2. CASE op[t] # "reallocate"
  <2>1. /\ pc' = [pc EXCEPT ![t] = "idle"] /\ result' = [result EXCEPT ![t] = "ok"]
        /\ held' = held \cup {fresh[t]}
    BY Zenon, <1>2 DEF Allocated, Return, Goto
  <2>2. Others(t) /\ pc'[t] = "idle" /\ result'[t] = "ok"
    BY Zenon, <2>1 DEF Others, IInv, Typed
  <2>3. /\ ~HasVictim(t)' /\ ~HasFresh(t)' /\ ~HasVictim(t)
        /\ \A u \in Threads \ {t} :
              (HasVictim(u)' <=> HasVictim(u)) /\ (HasFresh(u)' <=> HasFresh(u))
    BY Zenon, <1>2, <2>2 DEF Others, HasVictim, HasFresh
  <2>4. Hands'
    BY Zenon, <1>0, <2>1, <2>3 DEF IInv, Hands, InHand
  <2>5. Apart'
    BY ZenonT(60), <1>0, <2>1, <2>3 DEF IInv, Apart
  <2>6. Kept'
    BY ZenonT(30), <1>0, <2>1, <2>2, <2>3 DEF IInv, Kept, Others
  <2>7. QED
    BY Zenon, <1>0, <2>1, <2>2, <2>4, <2>5, <2>6 DEF IInv, Typed, InHand
<1>3. QED
  BY Zenon, <1>1, <1>2

(* recordAllocation, track, and track whose insertion throws.              *)
LEMMA RecordInv ==
    ASSUME IInv, NEW t \in Threads, recordAllocation(t)
    PROVE  IInv'
<1>1. /\ pc[t] = "record" /\ active' = active + 1
      /\ UNCHANGED <<out, state, live_, freed_, op, fresh, victim, stale>>
  BY DEF recordAllocation, memory, registry
<1>2. CASE enableLeakTracking
  <2>1. pc' = [pc EXCEPT ![t] = "track"] /\ UNCHANGED <<result, held>>
    BY Zenon, <1>2 DEF recordAllocation, Goto
  <2>2. Others(t) /\ pc'[t] = "track"
    BY Zenon, <1>1, <2>1 DEF Others, IInv, Typed
  <2>3. \A u \in Threads : (HasVictim(u)' <=> HasVictim(u)) /\ (HasFresh(u)' <=> HasFresh(u))
    BY <1>1, <2>2 DEF Others, HasVictim, HasFresh
  <2>4. Typed'
    BY SMTT(30), <1>1, <2>1 DEF IInv, Typed
  <2>5. Hands' /\ Apart' /\ Kept'
    BY SMTT(30), <1>1, <1>2, <2>1, <2>3 DEF IInv, Hands, Apart, InHand, Kept
  <2>6. QED
    BY <2>4, <2>5 DEF IInv
<1>3. CASE ~enableLeakTracking
  <2>1. Allocated(t)
    BY Zenon, <1>3 DEF recordAllocation
  <2>2. QED
    BY <1>1, <2>1, AllocatedHands DEF IInv, Typed, Others
<1>4. QED
  BY Zenon, <1>2, <1>3

(* The registry takes the fresh pointer, or its containers throw.          *)
LEMMA TrackInv ==
    ASSUME IInv, NEW t \in Threads, track(t) \/ trackThrows(t)
    PROVE  IInv'
<1>1. /\ pc[t] = "track" /\ Allocated(t)
      /\ live_' \subseteq live_ \cup {fresh[t]} /\ freed_' \subseteq freed_
      /\ UNCHANGED <<out, state, active, op, fresh, victim, stale>>
  BY DEF track, trackThrows, memory, registry
<1>2. fresh[t] \in Pointer
  BY <1>1 DEF IInv, Hands, HasFresh, InHand
<1>3. QED
  BY ZenonT(60), <1>1, <1>2, AllocatedHands DEF IInv, Typed, Others

(* A caller gives its pointer to the thread that frees or reallocates it.  *)
LEMMA GiveUpInv ==
    ASSUME IInv, NEW t \in Threads, NEW p \in held,
           deallocate(t, p) \/ reallocate(t, p)
    PROVE  IInv'
<1>1. /\ pc[t] = "idle" /\ held' = held \ {p}
      /\ op' = [op EXCEPT ![t] = op'[t]] /\ op'[t] \in {"deallocate", "reallocate"}
      /\ victim' = [victim EXCEPT ![t] = p] /\ fresh' = [fresh EXCEPT ![t] = nullptr]
      /\ pc' = [pc EXCEPT ![t] = pc'[t]]
      /\ pc'[t] \in {"isTracked", "header", "allocationSize"}
      /\ pc'[t] = "isTracked" => enableLeakTracking
      /\ pc'[t] = "allocationSize" <=> op'[t] = "reallocate"
      /\ UNCHANGED <<out, state, live_, freed_, active, result, stale>>
  BY ZenonT(30) DEF deallocate, reallocate, Begin, Goto, memory, registry, IInv, Typed
<1>2. Others(t) /\ victim'[t] = p /\ p \in Pointer
  BY ZenonT(30), <1>1 DEF Others, IInv, Typed
<1>3. Typed'
  BY <1>1, <1>2 DEF IInv, Typed
<1>4. /\ HasVictim(t)' /\ ~HasVictim(t) /\ ~HasFresh(t) /\ ~HasFresh(t)'
      /\ \A u \in Threads \ {t} :
            (HasVictim(u)' <=> HasVictim(u)) /\ (HasFresh(u)' <=> HasFresh(u))
  BY Zenon, <1>1, <1>2 DEF Others, HasVictim, HasFresh
<1>5. Hands'
  BY SMTT(30), <1>1, <1>2, <1>4 DEF IInv, Hands, InHand, Others
<1>6. Apart'
  BY SMTT(30), <1>1, <1>2, <1>4 DEF IInv, Apart, Others
<1>7. Kept'
  BY <1>1, <1>2, <1>4 DEF IInv, Kept, Others
<1>8. QED
  BY Zenon, <1>3, <1>5, <1>6, <1>7 DEF IInv

(* The registry's verdict on the pointer.                                  *)
LEMMA LookupInv ==
    ASSUME IInv, NEW t \in Threads, isTracked(t) \/ wasFreed(t)
    PROVE  IInv'
<1>1. /\ pc[t] \in {"isTracked", "wasFreed"}
      /\ pc' = [pc EXCEPT ![t] = pc'[t]] /\ result' = [result EXCEPT ![t] = result'[t]]
      /\ pc[t] = "isTracked" => pc'[t] \in {"header", "wasFreed"}
      /\ pc[t] = "wasFreed" => pc'[t] = "idle"
      /\ result'[t] \in {"ok", "OutOfMemory", "DoubleFree", "InvalidPointer"}
      /\ UNCHANGED <<out, state, live_, freed_, active, op, fresh, victim, held, stale>>
  BY ZenonT(30) DEF isTracked, wasFreed, Goto, Return, memory, registry, client, IInv, Typed
<1>2. enableLeakTracking
  BY Zenon, <1>1 DEF IInv, Kept
<1>3. Others(t)
  BY Zenon, <1>1 DEF Others, IInv, Typed
<1>4. Typed'
  BY <1>1 DEF IInv, Typed
<1>5. \A u \in Threads : (HasVictim(u)' => HasVictim(u)) /\ (HasFresh(u)' => HasFresh(u))
  BY Zenon, <1>1, <1>3 DEF Others, HasVictim, HasFresh
<1>6. Hands' /\ Apart' /\ Kept'
  BY ZenonT(30), <1>1, <1>2, <1>5 DEF IInv, Hands, Apart, InHand, Kept
<1>7. QED
  BY Zenon, <1>4, <1>6 DEF IInv

(* The header of a pointer in the thread's hands says allocated.           *)
LEMMA HeaderInv ==
    ASSUME IInv, NEW t \in Threads, header(t)
    PROVE  IInv'
<1>1. pc[t] = "header" /\ state[victim[t]] = "allocated"
  BY Zenon DEF header, IInv, Hands, InHand, HasVictim
<1>2. /\ pc' = [pc EXCEPT ![t] = "release"]
      /\ UNCHANGED <<out, state, live_, freed_, active, op, fresh, victim, result, held, stale>>
  BY Zenon, <1>1 DEF header, Goto, memory, registry, client
<1>3. Others(t) /\ pc'[t] = "release"
  BY Zenon, <1>2 DEF Others, IInv, Typed
<1>4. Typed'
  BY Zenon, <1>2 DEF IInv, Typed
<1>5. \A u \in Threads : (HasVictim(u)' <=> HasVictim(u)) /\ (HasFresh(u)' <=> HasFresh(u))
  BY ZenonT(30), <1>1, <1>2, <1>3 DEF Others, HasVictim, HasFresh
<1>6. Hands' /\ Apart' /\ Kept'
  BY <1>2, <1>3, <1>5 DEF IInv, Hands, Apart, InHand, Kept, Others
<1>7. QED
  BY <1>4, <1>6 DEF IInv

(* Freeing a block leaves the headers of all other blocks alone.           *)
LEMMA HeadersAfter ==
    ASSUME state \in [Pointer -> {"garbage", "allocated", "freed", "unmapped"}],
           NEW p \in Pointer, NEW s \in headersAfter(p, BlockOf(p))
    PROVE  /\ s \in [Pointer -> {"garbage", "allocated", "freed", "unmapped"}]
           /\ \A q \in Pointer : BlockOf(q) # BlockOf(p) => s[q] = state[q]
<1> DEFINE b == BlockOf(p)
           marked == [state EXCEPT ![p] = "freed", ![RawOf(p)] = "freed"]
<1>1. /\ b \in Blocks /\ RawOf(p) \in Pointer /\ BlockOf(RawOf(p)) = b
      /\ <<b, 16>> \in Pointer /\ BlockOf(<<b, 16>>) = b
  BY Zenon DEF Pointer, Offset, BlockOf, RawOf
<1>2. /\ marked \in [Pointer -> {"garbage", "allocated", "freed", "unmapped"}]
      /\ \A q \in Pointer : BlockOf(q) # b => marked[q] = state[q]
  BY Zenon, <1>1
<1>3. s \in {marked, [marked EXCEPT ![<<b, 16>>] = "garbage"], Without(b)}
  BY Zenon, TierAssumption, <1>1 DEF headersAfter
<1> HIDE DEF marked, b
<1>4. /\ Without(b) \in [Pointer -> {"garbage", "allocated", "freed", "unmapped"}]
      /\ \A q \in Pointer : BlockOf(q) # b => Without(b)[q] = state[q]
  BY Zenon DEF Without
<1>5. /\ s \in [Pointer -> {"garbage", "allocated", "freed", "unmapped"}]
      /\ \A q \in Pointer : BlockOf(q) # b => s[q] = state[q]
  BY Zenon, <1>1, <1>2, <1>3, <1>4
<1>6. QED
  BY Zenon, <1>5 DEF b

(* The tier takes back a block that is out and in the thread's hands only. *)
LEMMA RawDeallocateInv ==
    ASSUME IInv, NEW t \in Threads, rawDeallocate(t)
    PROVE  IInv' /\ BlockOf(victim[t]) \in out
<1> DEFINE p == victim[t]
<1>1. pc[t] = "release" /\ HasVictim(t) /\ InHand(p)
  BY Zenon DEF rawDeallocate, HasVictim, IInv, Hands
<1>2. /\ state' \in headersAfter(p, BlockOf(p)) /\ out' = out \ {BlockOf(p)}
      /\ pc' = [pc EXCEPT ![t] = "recordFree"]
      /\ UNCHANGED <<live_, freed_, active, op, fresh, victim, result, held, stale>>
  BY Zenon, <1>1 DEF rawDeallocate, Goto, registry, client, InHand
<1>3. /\ state' \in [Pointer -> {"garbage", "allocated", "freed", "unmapped"}]
      /\ \A q \in Pointer : BlockOf(q) # BlockOf(p) => state'[q] = state[q]
  BY <1>1, <1>2, HeadersAfter DEF IInv, Typed, InHand
<1>4. Others(t) /\ pc'[t] = "recordFree"
  BY Zenon, <1>2 DEF Others, IInv, Typed
<1>5. Typed'
  BY Zenon, <1>1, <1>2, <1>3 DEF IInv, Typed, InHand
<1>6. /\ ~HasVictim(t)'
      /\ \A u \in Threads : HasFresh(u)' <=> HasFresh(u)
      /\ \A u \in Threads \ {t} : HasVictim(u)' <=> HasVictim(u)
  BY Zenon, <1>1, <1>2, <1>4 DEF Others, HasVictim, HasFresh
<1>7. Apart'
  BY Zenon, <1>2, <1>6 DEF IInv, Apart
<1>8. Hands'
  <2>1. \A q : InHand(q) /\ BlockOf(q) # BlockOf(p)
            => q \in Pointer /\ BlockOf(q) \in out' /\ state'[q] = "allocated"
    BY Zenon, <1>2, <1>3 DEF InHand
  <2>2. \A q \in held : InHand(q) /\ BlockOf(q) # BlockOf(p)
    BY Zenon, <1>1 DEF IInv, Hands, Apart
  <2>3. \A u \in Threads : HasVictim(u)' => InHand(victim[u]) /\ BlockOf(victim[u]) # BlockOf(p)
    BY Zenon, <1>1, <1>6 DEF IInv, Hands, Apart
  <2>4. \A u \in Threads : HasFresh(u)' => InHand(fresh[u]) /\ BlockOf(fresh[u]) # BlockOf(p)
    BY Zenon, <1>1, <1>6 DEF IInv, Hands, Apart
  <2>5. QED
    BY Zenon, <1>2, <2>1, <2>2, <2>3, <2>4 DEF Hands, InHand
<1>9. Kept'
  BY Zenon, <1>2, <1>4, <1>6 DEF IInv, Kept, Others
<1>10. QED
  BY Zenon, <1>1, <1>5, <1>7, <1>8, <1>9 DEF IInv, InHand

(* The end of deallocate: reallocate's caller gets the fresh pointer.      *)
LEMMA FreedHands ==
    ASSUME IInv, NEW t \in Threads, pc[t] \in {"recordFree", "untrack"}, Freed(t),
           UNCHANGED <<out, state, op, fresh, victim>>
    PROVE  /\ Hands' /\ Apart' /\ Kept'
           /\ pc' = [pc EXCEPT ![t] = "idle"] /\ result' = [result EXCEPT ![t] = "ok"]
           /\ held' \subseteq Pointer /\ stale' \subseteq Pointer
<1>1. /\ pc' = [pc EXCEPT ![t] = "idle"] /\ result' = [result EXCEPT ![t] = "ok"]
      /\ stale' = stale \cup {victim[t]}
      /\ held' = IF op[t] = "reallocate" THEN held \cup {fresh[t]} ELSE held
  BY Zenon DEF Freed, Return, Goto
<1>2. Others(t) /\ pc'[t] = "idle" /\ result'[t] = "ok"
  BY Zenon, <1>1 DEF Others, IInv, Typed
<1>3. /\ ~HasVictim(t)' /\ ~HasFresh(t)' /\ ~HasVictim(t)
      /\ HasFresh(t) <=> op[t] = "reallocate"
      /\ \A u \in Threads \ {t} :
            (HasVictim(u)' <=> HasVictim(u)) /\ (HasFresh(u)' <=> HasFresh(u))
  BY Zenon, <1>2 DEF Others, HasVictim, HasFresh
<1>4. HasFresh(t) => InHand(fresh[t]) /\ fresh[t] \in Pointer
  BY Zenon DEF IInv, Hands, InHand
<1>5. Hands'
  BY Zenon, <1>1, <1>3, <1>4 DEF IInv, Hands, InHand
<1>6. Apart'
  BY <1>1, <1>3 DEF IInv, Apart
<1>7. Kept'
  BY ZenonT(60), <1>1, <1>2, <1>3 DEF IInv, Kept, Others
<1>8. QED
  BY Zenon, <1>1, <1>3, <1>4, <1>5, <1>6, <1>7 DEF IInv, Typed

(* The statistics count the free.                                          *)
LEMMA RecordFreeInv ==
    ASSUME IInv, NEW t \in Threads, recordFree(t)
    PROVE  IInv'
<1>1. /\ pc[t] = "recordFree" /\ active' = active - 1
      /\ UNCHANGED <<out, state, live_, freed_, op, fresh, victim>>
  BY Zenon DEF recordFree, memory, registry
<1>2. CASE enableLeakTracking
  <2>1. pc' = [pc EXCEPT ![t] = "untrack"] /\ UNCHANGED <<result, held, stale>>
    BY Zenon, <1>2 DEF recordFree, Goto, client
  <2>2. Others(t) /\ pc'[t] = "untrack"
    BY Zenon, <1>1, <2>1 DEF Others, IInv, Typed
  <2>3. \A u \in Threads : (HasVictim(u)' <=> HasVictim(u)) /\ (HasFresh(u)' <=> HasFresh(u))
    BY Zenon, <1>1, <2>2 DEF Others, HasVictim, HasFresh
  <2>4. Typed'
    BY SMTT(30), <1>1, <2>1 DEF IInv, Typed
  <2>5. Hands' /\ Apart' /\ Kept'
    BY SMTT(30), <1>1, <1>2, <2>1, <2>3 DEF IInv, Hands, Apart, InHand, Kept
  <2>6. QED
    BY <2>4, <2>5 DEF IInv
<1>3. CASE ~enableLeakTracking
  <2>1. Freed(t)
    BY Zenon, <1>3 DEF recordFree
  <2>2. QED
    BY <1>1, <2>1, FreedHands DEF IInv, Typed
<1>4. QED
  BY <1>2, <1>3

(* The registry drops the pointer; its tombstone may fail to be inserted.  *)
LEMMA UntrackInv ==
    ASSUME IInv, NEW t \in Threads, untrack(t) \/ untrackThrows(t)
    PROVE  IInv'
<1>1. /\ pc[t] = "untrack" /\ Freed(t)
      /\ live_' \subseteq live_ /\ freed_' \subseteq freed_ \cup {victim[t]}
      /\ UNCHANGED <<out, state, active, op, fresh, victim>>
  BY DEF untrack, untrackThrows, memory
<1>2. victim[t] \in Pointer
  BY Zenon, <1>1 DEF IInv, Typed
<1>3. QED
  BY ZenonT(60), <1>1, <1>2, FreedHands DEF IInv, Typed

(* reallocate asks for the size of a pointer in its hands.                 *)
LEMMA AllocationSizeInv ==
    ASSUME IInv, NEW t \in Threads, allocationSize(t)
    PROVE  IInv'
<1>1. /\ pc[t] = "allocationSize" /\ op[t] = "reallocate" /\ HasVictim(t) /\ InHand(victim[t])
      /\ UNCHANGED <<out, state, live_, freed_, active, op, fresh, victim, stale>>
  BY DEF allocationSize, memory, registry, IInv, Typed, Hands, HasVictim
<1>2. CASE pc' = [pc EXCEPT ![t] = "grow"] /\ UNCHANGED <<result, held>>
  <2>1. Others(t) /\ pc'[t] = "grow"
    BY Zenon, <1>1, <1>2 DEF Others, IInv, Typed
  <2>2. \A u \in Threads : (HasVictim(u)' <=> HasVictim(u)) /\ (HasFresh(u)' <=> HasFresh(u))
    BY Zenon, <1>1, <2>1 DEF Others, HasVictim, HasFresh
  <2>3. Typed'
    BY ZenonT(30), <1>1, <1>2 DEF IInv, Typed
  <2>4. Hands' /\ Apart' /\ Kept'
    BY <1>1, <1>2, <2>1, <2>2 DEF IInv, Hands, Apart, InHand, Kept, Others
  <2>5. QED
    BY <2>3, <2>4 DEF IInv
<1>3. CASE /\ enableLeakTracking
           /\ pc' = [pc EXCEPT ![t] = "idle"] /\ result' = [result EXCEPT ![t] = "InvalidPointer"]
           /\ held' = held \cup {victim[t]}
  <2>1. Others(t) /\ pc'[t] = "idle"
    BY Zenon, <1>1, <1>3 DEF Others, IInv, Typed
  <2>2. /\ ~HasVictim(t)' /\ ~HasFresh(t)' /\ ~HasFresh(t)
        /\ \A u \in Threads \ {t} :
              (HasVictim(u)' <=> HasVictim(u)) /\ (HasFresh(u)' <=> HasFresh(u))
    BY Zenon, <1>1, <2>1 DEF Others, HasVictim, HasFresh
  <2>3. Typed'
    BY Zenon, <1>1, <1>3 DEF IInv, Typed, InHand
  <2>4. Hands'
    BY ZenonT(60), <1>1, <1>3, <2>2 DEF IInv, Hands, InHand
  <2>5. Apart' /\ Kept'
    BY <1>1, <1>3, <2>2 DEF IInv, Apart, Kept
  <2>6. QED
    BY Zenon, <2>3, <2>4, <2>5 DEF IInv
<1>4. QED
  BY Zenon, <1>1, <1>2, <1>3 DEF allocationSize, Goto, Return, InHand

(* A call on another medium block changes headers of a block that is with  *)
(* its tier, and nothing else.                                             *)
LEMMA NeighbourHeaders ==
    ASSUME state \in [Pointer -> {"garbage", "allocated", "freed", "unmapped"}],
           NEW t \in Threads, NEW p \in Pointer, Neighbour(t, p)
    PROVE  /\ state' \in [Pointer -> {"garbage", "allocated", "freed", "unmapped"}]
           /\ \A q \in Pointer : BlockOf(q) \in out => state'[q] = state[q]
           /\ \A q \in Pointer : tier[BlockOf(q)] = "Small" => state'[q] = state[q]
           /\ \A q \in Pointer : state'[q] = "allocated" => state[q] = "allocated"
           /\ UNCHANGED <<out, live_, freed_, exhausted, active, pc, op, fresh, victim, result,
                          held, stale>>
<1>1. /\ BlockOf(p) \notin out /\ tier[BlockOf(p)] # "Small"
      /\ state' = [state EXCEPT ![p] = "garbage"] \/ state' = Without(BlockOf(p))
  BY DEF Neighbour
<1>2. /\ state' \in [Pointer -> {"garbage", "allocated", "freed", "unmapped"}]
      /\ \A q \in Pointer : BlockOf(q) # BlockOf(p) => state'[q] = state[q]
      /\ \A q \in Pointer : state'[q] = "allocated" => state[q] = "allocated"
  BY <1>1 DEF Without
<1>3. UNCHANGED <<out, live_, freed_, exhausted, active, pc, op, fresh, victim, result, held, stale>>
  BY Zenon DEF Neighbour, registry, client
<1>4. QED
  BY Zenon, <1>1, <1>2, <1>3

(* Nothing in a hand is concerned.                                         *)
LEMMA NeighbourInv ==
    ASSUME IInv, NEW t \in Threads, NEW p \in Pointer, Neighbour(t, p)
    PROVE  IInv'
<1>1. /\ state' \in [Pointer -> {"garbage", "allocated", "freed", "unmapped"}]
      /\ \A q \in Pointer : BlockOf(q) \in out => state'[q] = state[q]
      /\ UNCHANGED <<out, live_, freed_, active, pc, op, fresh, victim, result, held, stale>>
  BY Zenon, NeighbourHeaders DEF IInv, Typed
<1>2. Typed'
  BY Zenon, <1>1 DEF IInv, Typed
<1>3. \A u \in Threads : (HasVictim(u)' <=> HasVictim(u)) /\ (HasFresh(u)' <=> HasFresh(u))
  BY Zenon, <1>1 DEF HasVictim, HasFresh
<1>4. \A q : InHand(q) => InHand(q)'
  BY Zenon, <1>1 DEF InHand
<1>5. Hands'
  BY Zenon, <1>1, <1>3, <1>4 DEF IInv, Hands, InHand
<1>6. Apart' /\ Kept'
  BY ZenonT(30), <1>1, <1>3 DEF IInv, Apart, Kept
<1>7. QED
  BY Zenon, <1>2, <1>5, <1>6 DEF IInv

(* Every step of callers that free a pointer once keeps the invariant.     *)
LEMMA NextInv ==
    ASSUME ~callersDoubleFree
    PROVE  IInv /\ [Next]_vars => IInv'
<1> SUFFICES ASSUME IInv, [Next]_vars PROVE IInv'
  BY Zenon
<1>1. CASE UNCHANGED vars
  BY <1>1 DEF vars, IInv, Typed, Hands, Apart, Kept, HasVictim, HasFresh, InHand
<1>2. CASE Next
  <2>1. PICK t \in Threads : step(t)
    BY Zenon, <1>2 DEF Next
  <2>2. \A p \in stale : ~StaleFree(t, p)
    BY Zenon DEF StaleFree
  <2>3. QED
    BY ZenonT(30), <2>1, <2>2, RawAllocateInv, RawAllocateFailsInv, RecordInv, TrackInv, GiveUpInv, LookupInv,
       HeaderInv, RawDeallocateInv, RecordFreeInv, UntrackInv, AllocationSizeInv, NeighbourInv DEF step
<1>3. QED
  BY Zenon, <1>1, <1>2

-----------------------------------------------------------------------------
(* The inductive invariant of the front end, for callers that respect the  *)
(* contract.                                                               *)
THEOREM Invariance ==
    ASSUME ~callersDoubleFree
    PROVE  Spec => []IInv
BY InitInv, NextInv, PTL DEF Spec

(* TypeOK.                                                                 *)
THEOREM TypeCorrect ==
    ASSUME ~callersDoubleFree
    PROVE  Spec => []TypeOK
<1>1. IInv => TypeOK
  BY ZenonT(60) DEF IInv, Typed, TypeOK
<1>2. QED
  BY <1>1, Invariance, PTL

(* HeldExclusively: with or without guards and leak tracking, and whatever *)
(* the registry's containers do, a block is held by one caller and is not  *)
(* in its tier meanwhile.                                                  *)
THEOREM ExclusionCorrect ==
    ASSUME ~callersDoubleFree
    PROVE  Spec => []HeldExclusively
<1>1. IInv => HeldExclusively
  BY Zenon DEF IInv, Hands, Apart, InHand, HeldExclusively
<1>2. QED
  BY <1>1, Invariance, PTL

(* TierContract: the front end gives a tier only blocks the tier has       *)
(* handed out.                                                             *)
THEOREM ContractCorrect ==
    ASSUME ~callersDoubleFree
    PROVE  Spec => TierContract
<1>1. IInv /\ [Next]_vars => [GivesWhatIsOut]_vars
  BY Zenon DEF IInv, Hands, HasVictim, InHand, GivesWhatIsOut
<1>2. QED
  BY <1>1, Invariance, PTL DEF Spec, TierContract

(* LegalCallsSucceed: without leak tracking a legal call is refused only   *)
(* for want of memory, with any number of threads.                         *)
THEOREM CallsCorrect ==
    ASSUME ~callersDoubleFree, ~enableLeakTracking
    PROVE  Spec => []LegalCallsSucceed
<1>1. IInv => LegalCallsSucceed
  BY Zenon DEF IInv, Kept, LegalCallsSucceed
<1>2. QED
  BY <1>1, Invariance, PTL

(* NothingLeaks: without leak tracking every block that is out is held     *)
(* when no call is in progress.                                            *)
THEOREM LeaksCorrect ==
    ASSUME ~callersDoubleFree, ~enableLeakTracking
    PROVE  Spec => []NothingLeaks
<1>1. IInv => NothingLeaks
  <2> SUFFICES ASSUME IInv, Quiescent PROVE out = {BlockOf(p) : p \in held}
    BY Zenon DEF NothingLeaks
  <2>1. \A t \in Threads : ~HasVictim(t) /\ ~HasFresh(t)
    BY Zenon DEF Quiescent, HasVictim, HasFresh
  <2>2. QED
    BY Zenon, <2>1 DEF IInv, Hands, Kept, InHand
<1>2. QED
  BY <1>1, Invariance, PTL

-----------------------------------------------------------------------------
(* The statistics                                                          *)

Recording == {t \in Threads : pc[t] = "record"}
Returning == {t \in Threads : pc[t] = "recordFree"}

(* active is the number of blocks that are out, but for the calls between  *)
(* the tier and the statistics.                                            *)
Counted ==
    /\ IsFiniteSet(out) /\ IsFiniteSet(Recording) /\ IsFiniteSet(Returning)
    /\ active = Cardinality(out) - Cardinality(Recording) + Cardinality(Returning)

(* Adding to a finite set and removing from it.                            *)
LEMMA Add ==
    ASSUME NEW S, NEW x, IsFiniteSet(S), x \notin S
    PROVE  IsFiniteSet(S \cup {x}) /\ Cardinality(S \cup {x}) = Cardinality(S) + 1
BY Zenon, FS_AddElement

(* As above, for removal.                                                  *)
LEMMA Remove ==
    ASSUME NEW S, NEW x, IsFiniteSet(S), x \in S
    PROVE  IsFiniteSet(S \ {x}) /\ Cardinality(S \ {x}) = Cardinality(S) - 1
BY Zenon, FS_RemoveElement

(* Steps that call neither a tier nor the statistics leave the count.      *)
LEMMA QuietStep ==
    ASSUME Typed, Counted, NEW t \in Threads, NEW label,
           pc[t] \notin {"record", "recordFree"}, label \notin {"record", "recordFree"},
           pc' = [pc EXCEPT ![t] = label], UNCHANGED <<out, active>>
    PROVE  Counted'
<1>1. Recording' = Recording /\ Returning' = Returning
  BY ZenonT(30) DEF Typed, Recording, Returning
<1>2. QED
  BY Zenon, <1>1 DEF Counted

(* Every step keeps the count.                                             *)
LEMMA CountedInv ==
    ASSUME ~callersDoubleFree
    PROVE  IInv /\ Counted /\ [Next]_vars => Counted'
<1> SUFFICES ASSUME IInv, Counted, [Next]_vars PROVE Counted'
  OBVIOUS
<1> USE DEF IInv
<1>0. /\ Cardinality(out) \in Nat /\ Cardinality(Recording) \in Nat
      /\ Cardinality(Returning) \in Nat /\ active \in Int
  BY Zenon, FS_CardinalityType DEF Counted, Typed
<1>1. CASE UNCHANGED vars
  BY Zenon, <1>1 DEF vars, Counted, Recording, Returning
<1>2. CASE Next
  <2>1. PICK t \in Threads : step(t)
    BY Zenon, <1>2 DEF Next
  <2>2. ASSUME NEW call \in {"allocate", "alignedAllocate"}, rawAllocate(t, call)
        PROVE  Counted'
    <3>1. PICK block \in Blocks \ out : out' = out \cup {block}
      BY Zenon, <2>2 DEF rawAllocate
    <3>2. /\ pc[t] \in {"idle", "grow"} /\ pc' = [pc EXCEPT ![t] = "record"]
          /\ active' = active
      BY Zenon, <2>2 DEF rawAllocate, Starts, Goto
    <3>3. /\ Recording' = Recording \cup {t} /\ t \notin Recording
          /\ Returning' = Returning
      BY Zenon, <3>2 DEF Typed, Recording, Returning
    <3>4. IsFiniteSet(out') /\ Cardinality(out') = Cardinality(out) + 1
      BY Zenon, <3>1, Add DEF Counted
    <3>5. IsFiniteSet(Recording') /\ Cardinality(Recording') = Cardinality(Recording) + 1
      BY Zenon, <3>3, Add DEF Counted
    <3>6. QED
      BY <1>0, <3>2, <3>3, <3>4, <3>5 DEF Counted
  <2>3. ASSUME NEW call \in {"allocate", "alignedAllocate"}, rawAllocateFails(t, call)
        PROVE  Counted'
    <3>1. /\ pc[t] \in {"idle", "grow"} /\ pc' = [pc EXCEPT ![t] = "idle"]
          /\ UNCHANGED <<out, active>>
      BY Zenon, <2>3 DEF rawAllocateFails, Starts, Return, Goto, memory
    <3>2. QED
      BY Zenon, <3>1, QuietStep
  <2>4. CASE recordAllocation(t)
    <3>1. PICK label \in {"track", "isTracked", "header", "idle"} : pc' = [pc EXCEPT ![t] = label]
      BY Zenon, <2>4 DEF recordAllocation, Allocated, Return, Goto
    <3>2. pc[t] = "record" /\ active' = active + 1 /\ UNCHANGED out
      BY Zenon, <2>4 DEF recordAllocation, memory
    <3>3. /\ Recording' = Recording \ {t} /\ t \in Recording /\ Returning' = Returning
      BY Zenon, <3>1, <3>2 DEF Typed, Recording, Returning
    <3>4. IsFiniteSet(Recording') /\ Cardinality(Recording') = Cardinality(Recording) - 1
      BY Zenon, <3>3, Remove DEF Counted
    <3>5. QED
      BY <1>0, <3>2, <3>3, <3>4 DEF Counted
  <2>5. CASE rawDeallocate(t)
    <3>1. BlockOf(victim[t]) \in out
      BY Zenon, <2>5, RawDeallocateInv
    <3>2. /\ pc[t] = "release" /\ pc' = [pc EXCEPT ![t] = "recordFree"]
          /\ out' = out \ {BlockOf(victim[t])} /\ active' = active
      BY Zenon, <2>5, <3>1 DEF rawDeallocate, Goto
    <3>3. /\ Returning' = Returning \cup {t} /\ t \notin Returning
          /\ Recording' = Recording
      BY Zenon, <3>2 DEF Typed, Recording, Returning
    <3>4. IsFiniteSet(out') /\ Cardinality(out') = Cardinality(out) - 1
      BY Zenon, <3>1, <3>2, Remove DEF Counted
    <3>5. IsFiniteSet(Returning') /\ Cardinality(Returning') = Cardinality(Returning) + 1
      BY Zenon, <3>3, Add DEF Counted
    <3>6. QED
      BY <1>0, <3>2, <3>3, <3>4, <3>5 DEF Counted
  <2>6. CASE recordFree(t)
    <3>1. PICK label \in {"untrack", "idle"} : pc' = [pc EXCEPT ![t] = label]
      BY Zenon, <2>6 DEF recordFree, Freed, Return, Goto
    <3>2. pc[t] = "recordFree" /\ active' = active - 1 /\ UNCHANGED out
      BY Zenon, <2>6 DEF recordFree, memory
    <3>3. /\ Returning' = Returning \ {t} /\ t \in Returning /\ Recording' = Recording
      BY Zenon, <3>1, <3>2 DEF Typed, Recording, Returning
    <3>4. IsFiniteSet(Returning') /\ Cardinality(Returning') = Cardinality(Returning) - 1
      BY Zenon, <3>3, Remove DEF Counted
    <3>5. QED
      BY <1>0, <3>2, <3>3, <3>4 DEF Counted
  <2>7. CASE track(t) \/ trackThrows(t)
    <3>1. PICK label \in {"isTracked", "header", "idle"} : pc' = [pc EXCEPT ![t] = label]
      BY Zenon, <2>7 DEF track, trackThrows, Allocated, Return, Goto
    <3>2. pc[t] = "track" /\ UNCHANGED <<out, active>>
      BY Zenon, <2>7 DEF track, trackThrows, memory
    <3>3. QED
      BY Zenon, <3>1, <3>2, QuietStep
  <2>8. ASSUME NEW p \in held, deallocate(t, p) \/ reallocate(t, p)
        PROVE  Counted'
    <3>1. PICK label \in {"isTracked", "header", "allocationSize"} : pc' = [pc EXCEPT ![t] = label]
      BY Zenon, <2>8 DEF deallocate, reallocate, Goto
    <3>2. pc[t] = "idle" /\ UNCHANGED <<out, active>>
      BY Zenon, <2>8 DEF deallocate, reallocate, Begin, memory
    <3>3. QED
      BY Zenon, <3>1, <3>2, QuietStep
  <2>9. CASE isTracked(t) \/ wasFreed(t) \/ header(t) \/ allocationSize(t)
    <3>1. PICK label \in {"header", "wasFreed", "idle", "release", "grow"} :
              pc' = [pc EXCEPT ![t] = label]
      BY Zenon, <2>9 DEF isTracked, wasFreed, header, allocationSize, Return, Goto
    <3>2. /\ pc[t] \in {"isTracked", "wasFreed", "header", "allocationSize"}
          /\ UNCHANGED <<out, active>>
      BY Zenon, <2>9 DEF isTracked, wasFreed, header, allocationSize, memory
    <3>3. QED
      BY Zenon, <3>1, <3>2, QuietStep
  <2>10. CASE untrack(t) \/ untrackThrows(t)
    <3>1. pc[t] = "untrack" /\ pc' = [pc EXCEPT ![t] = "idle"] /\ UNCHANGED <<out, active>>
      BY Zenon, <2>10 DEF untrack, untrackThrows, Freed, Return, Goto, memory
    <3>2. QED
      BY Zenon, <3>1, QuietStep
  <2>11. \A p \in stale : ~StaleFree(t, p)
    BY Zenon DEF StaleFree
  <2>12. ASSUME NEW p \in Pointer, Neighbour(t, p) PROVE Counted'
    BY Zenon, <2>12 DEF Neighbour, Counted, Recording, Returning
  <2>13. QED
    BY Zenon, <2>1, <2>2, <2>3, <2>4, <2>5, <2>6, <2>7, <2>8, <2>9, <2>10, <2>11, <2>12 DEF step
<1>3. QED
  BY Zenon, <1>1, <1>2

(* ActiveExact: without leak tracking, the statistics count exactly what   *)
(* callers hold whenever no call is in progress, however the calls of any  *)
(* number of threads interleaved.                                          *)
THEOREM ActiveCorrect ==
    ASSUME ~callersDoubleFree, ~enableLeakTracking
    PROVE  Spec => []ActiveExact
<1>1. Init => Counted
  <2> SUFFICES ASSUME Init PROVE Counted
    OBVIOUS
  <2>1. out = {} /\ Recording = {} /\ Returning = {} /\ active = 0
    BY Zenon DEF Init, Recording, Returning
  <2>2. QED
    BY <2>1, FS_EmptySet DEF Counted
<1>2. IInv /\ Counted => ActiveExact
  <2> SUFFICES ASSUME IInv, Counted, Quiescent PROVE active = Cardinality(held)
    BY Zenon DEF ActiveExact
  <2>1. Recording = {} /\ Returning = {}
    BY Zenon DEF Quiescent, Recording, Returning
  <2>2. active = Cardinality(out)
    BY <2>1, FS_EmptySet, FS_CardinalityType DEF Counted
  <2>3. \A t \in Threads : ~HasVictim(t) /\ ~HasFresh(t)
    BY Zenon DEF Quiescent, HasVictim, HasFresh
  <2>4. \A b \in out : \E p \in held : BlockOf(p) = b
    BY Zenon, <2>3 DEF IInv, Kept
  <2> DEFINE f == [p \in held |-> BlockOf(p)]
  <2>5. f \in Injection(held, out) /\ f \in Surjection(held, out)
    BY ZenonT(30), <2>4 DEF IInv, Hands, Apart, InHand, Injection, Surjection, IsInjective
  <2>6. Cardinality(held) = Cardinality(out)
    BY Zenon, <2>5, FS_Injection DEF Counted
  <2>7. QED
    BY Zenon, <2>2, <2>6
<1>3. QED
  BY <1>1, <1>2, CountedInv, InitInv, NextInv, PTL DEF Spec

-----------------------------------------------------------------------------
(* One thread that may free a pointer twice: what the registry of live     *)
(* pointers, or without it the headers alone, make of the second free.     *)

(* With the registry                                                       *)

(* The call owns its victim unless the caller freed it before, and the     *)
(* registry has seen its fresh pointer once track is behind it.            *)
Frees(t) == HasVictim(t) /\ op[t] # "stale"
Given(t) == pc[t] \in {"recordFree", "untrack"}
Tracked(t) == HasFresh(t) /\ pc[t] \notin {"record", "track"}

TypedS(t) ==
    /\ state \in [Pointer -> {"garbage", "allocated", "freed", "unmapped"}]
    /\ pc \in [Threads -> {"idle", "record", "track", "isTracked", "wasFreed", "header",
                           "release", "recordFree", "untrack", "allocationSize", "grow"}]
    /\ op \in [Threads -> {"none", "allocate", "alignedAllocate", "deallocate", "reallocate",
                           "stale"}]
    /\ fresh \in [Threads -> Pointer \cup {nullptr}]
    /\ victim \in [Threads -> Pointer \cup {nullptr}]
    /\ result \in [Threads -> {"ok", "OutOfMemory", "DoubleFree", "InvalidPointer"}]
    /\ live_ \subseteq Pointer /\ stale \subseteq Pointer
    /\ pc[t] \in {"allocationSize", "grow"} => op[t] = "reallocate"
    /\ op[t] = "stale" => pc[t] \in {"idle", "isTracked", "wasFreed"}

(* What callers and the call own is out, allocated and in one hand.        *)
HandsS(t) ==
    /\ \A p \in held : InHand(p)
    /\ \A p, q \in held : BlockOf(p) = BlockOf(q) => p = q
    /\ Frees(t) => InHand(victim[t]) /\ \A p \in held : BlockOf(p) # BlockOf(victim[t])
    /\ HasFresh(t) => InHand(fresh[t]) /\ \A p \in held : BlockOf(p) # BlockOf(fresh[t])
    /\ Frees(t) /\ HasFresh(t) => BlockOf(fresh[t]) # BlockOf(victim[t])
    /\ Given(t) => BlockOf(victim[t]) \notin out

(* live_ has only what is owned, or on its way out, and what the call has  *)
(* looked up.                                                              *)
LiveS(t) ==
    /\ \A p \in live_ :
          \/ p \in held
          \/ (Frees(t) \/ Given(t)) /\ p = victim[t]
          \/ Tracked(t) /\ p = fresh[t]
    /\ \/ Given(t) \/ pc[t] \in {"header", "release", "grow"}
       \/ op[t] = "reallocate" /\ pc[t] \in {"record", "track", "isTracked"}
       => victim[t] \in live_
    /\ pc[t] = "wasFreed" => op[t] # "reallocate"
    /\ op[t] = "stale" /\ pc[t] # "idle" => victim[t] \in stale /\ victim[t] \notin live_

(* Until a container throws, live_ has all that is owned, every pointer    *)
(* ever freed has a tombstone or is live again, and calls end accordingly. *)
ExactS(t) ==
    ~exhausted =>
        /\ held \subseteq live_
        /\ Frees(t) => victim[t] \in live_
        /\ Tracked(t) => fresh[t] \in live_
        /\ stale \subseteq live_ \cup freed_
        /\ pc[t] = "wasFreed" => op[t] = "stale"
        /\ pc[t] = "idle" =>
              IF op[t] = "stale" THEN result[t] = "DoubleFree" ELSE result[t] \in {"ok", "OutOfMemory"}

SInv(t) == TypedS(t) /\ HandsS(t) /\ LiveS(t) /\ ExactS(t)

(* The first call finds an empty registry.                                 *)
LEMMA InitS ==
    ASSUME NEW t, Threads = {t}, Init
    PROVE  SInv(t)
<1>1. TypedS(t)
  BY Zenon DEF Init, TypedS
<1>2. HandsS(t) /\ LiveS(t) /\ ExactS(t)
  BY Zenon DEF Init, HandsS, LiveS, ExactS, Frees, Given, Tracked, HasVictim, HasFresh
<1>3. QED
  BY Zenon, <1>1, <1>2 DEF SInv

(* The tier's block is in nobody's hands.                                  *)
LEMMA RawAllocateS ==
    ASSUME NEW t, Threads = {t}, SInv(t),
           NEW call \in {"allocate", "alignedAllocate"}, rawAllocate(t, call)
    PROVE  SInv(t)'
<1>1. PICK block \in Blocks \ out :
          LET user == <<block, userOffset(block, call)>>
          IN  /\ out' = out \cup {block}
              /\ fresh' = [fresh EXCEPT ![t] = user]
              /\ state' \in headersOf(user, {user, RawOf(user)})
  BY Zenon DEF rawAllocate
<1> DEFINE user == <<block, userOffset(block, call)>>
<1>2. user \in Pointer /\ BlockOf(user) = block
  BY Zenon, OffsetAssumption DEF userOffset, Pointer, Offset, BlockOf, kFrontGuardSize
<1>3. /\ state' \in [Pointer -> {"garbage", "allocated", "freed", "unmapped"}]
      /\ state'[user] = "allocated"
      /\ \A p \in Pointer : BlockOf(p) # block => state'[p] = state[p]
  BY <1>1, <1>2 DEF headersOf, SInv, TypedS
<1>4. /\ out' = out \cup {block} /\ fresh' = [fresh EXCEPT ![t] = user]
      /\ pc' = [pc EXCEPT ![t] = "record"]
      /\ UNCHANGED <<live_, freed_, exhausted, result, held, stale>>
  BY Zenon, <1>1 DEF rawAllocate, Goto, registry, client
<1>5. \/ /\ pc[t] = "idle"
         /\ op' = [op EXCEPT ![t] = call] /\ victim' = [victim EXCEPT ![t] = nullptr]
      \/ /\ pc[t] = "grow" /\ op[t] = "reallocate" /\ UNCHANGED <<op, victim>>
  BY Zenon DEF rawAllocate, Starts, SInv, TypedS
<1> HIDE DEF user
<1>6. TypedS(t)'
  BY <1>2, <1>3, <1>4, <1>5 DEF SInv, TypedS
<1>7. /\ pc'[t] = "record" /\ fresh'[t] = user
      /\ \/ pc[t] = "idle" /\ op'[t] = call
         \/ pc[t] = "grow" /\ op[t] = "reallocate" /\ op'[t] = op[t] /\ victim'[t] = victim[t]
  BY Zenon, <1>4, <1>5 DEF SInv, TypedS
<1>8. /\ HasFresh(t)' /\ ~Tracked(t)' /\ ~Tracked(t) /\ ~Given(t)' /\ ~Given(t)
      /\ Frees(t)' <=> Frees(t)
      /\ Frees(t) <=> pc[t] = "grow"
  BY ZenonT(30), <1>7 DEF HasFresh, HasVictim, Frees, Tracked, Given
<1>9. HandsS(t)'
  BY <1>2, <1>3, <1>4, <1>7, <1>8 DEF SInv, HandsS, InHand
<1>10. LiveS(t)' /\ ExactS(t)'
  BY Zenon, <1>4, <1>7, <1>8 DEF SInv, LiveS, ExactS
<1>11. QED
  BY Zenon, <1>6, <1>9, <1>10 DEF SInv

(* No block: the caller keeps what it had.                                 *)
LEMMA RawAllocateFailsS ==
    ASSUME NEW t, Threads = {t}, SInv(t),
           NEW call \in {"allocate", "alignedAllocate"}, rawAllocateFails(t, call)
    PROVE  SInv(t)'
<1>1. /\ pc' = [pc EXCEPT ![t] = "idle"] /\ result' = [result EXCEPT ![t] = "OutOfMemory"]
      /\ held' = IF pc[t] = "grow" THEN held \cup {victim[t]} ELSE held
      /\ UNCHANGED <<out, state, live_, freed_, exhausted, fresh, stale>>
  BY Zenon DEF rawAllocateFails, Return, Goto, memory, registry
<1>2. \/ /\ pc[t] = "idle"
         /\ op' = [op EXCEPT ![t] = call] /\ victim' = [victim EXCEPT ![t] = nullptr]
      \/ /\ pc[t] = "grow" /\ op[t] = "reallocate" /\ UNCHANGED <<op, victim>>
  BY Zenon DEF rawAllocateFails, Starts, SInv, TypedS
<1>3. TypedS(t)'
  BY <1>1, <1>2 DEF SInv, TypedS
<1>4. /\ pc'[t] = "idle" /\ result'[t] = "OutOfMemory" /\ op'[t] # "stale"
  BY Zenon, <1>1, <1>2 DEF SInv, TypedS
<1>5. /\ ~HasFresh(t)' /\ ~Frees(t)' /\ ~Tracked(t)' /\ ~Given(t)'
      /\ Frees(t) <=> pc[t] = "grow"
      /\ ~Tracked(t) /\ ~Given(t)
  BY Zenon, <1>2, <1>4 DEF HasFresh, HasVictim, Frees, Tracked, Given
<1>6. HandsS(t)'
  BY Zenon, <1>1, <1>2, <1>5 DEF SInv, HandsS, InHand
<1>7. LiveS(t)' /\ ExactS(t)'
  BY Zenon, <1>1, <1>2, <1>4, <1>5 DEF SInv, LiveS, ExactS
<1>8. QED
  BY Zenon, <1>3, <1>6, <1>7 DEF SInv

(* The statistics are no part of it.                                       *)
LEMMA RecordS ==
    ASSUME NEW t, Threads = {t}, enableLeakTracking, SInv(t), recordAllocation(t)
    PROVE  SInv(t)'
<1>1. /\ pc[t] = "record" /\ pc' = [pc EXCEPT ![t] = "track"]
      /\ UNCHANGED <<out, state, live_, freed_, exhausted, op, fresh, victim, result, held, stale>>
  BY Zenon DEF recordAllocation, Goto, memory, registry
<1>2. TypedS(t)' /\ pc'[t] = "track"
  BY <1>1 DEF SInv, TypedS
<1>3. /\ HasFresh(t)' <=> HasFresh(t)
      /\ Frees(t)' <=> Frees(t)
      /\ ~Tracked(t)' /\ ~Tracked(t) /\ ~Given(t)' /\ ~Given(t)
  BY Zenon, <1>1, <1>2 DEF HasFresh, HasVictim, Frees, Tracked, Given
<1>4. HandsS(t)' /\ LiveS(t)' /\ ExactS(t)'
  BY Zenon, <1>1, <1>2, <1>3 DEF SInv, HandsS, LiveS, ExactS, InHand
<1>5. QED
  BY Zenon, <1>2, <1>4 DEF SInv

(* track takes the fresh pointer and its tombstone, or throws.             *)
LEMMA TrackS ==
    ASSUME NEW t, Threads = {t}, enableLeakTracking, SInv(t), track(t) \/ trackThrows(t)
    PROVE  SInv(t)'
<1>1. /\ pc[t] = "track" /\ Allocated(t)
      /\ UNCHANGED <<out, state, op, fresh, victim, stale>>
      /\ \/ live_' = live_ \cup {fresh[t]} /\ freed_' = freed_ \ {fresh[t]} /\ UNCHANGED exhausted
         \/ exhausted' /\ UNCHANGED <<live_, freed_>>
  BY Zenon DEF track, trackThrows, memory
<1>2. /\ HasFresh(t) /\ ~Tracked(t) /\ ~Given(t) /\ op[t] # "stale"
      /\ fresh[t] \in Pointer
  BY <1>1 DEF HasFresh, Tracked, Given, SInv, TypedS, HandsS, InHand
<1>3. CASE op[t] = "reallocate"
  <2>1. pc' = [pc EXCEPT ![t] = "isTracked"] /\ UNCHANGED <<result, held>>
    BY Zenon, <1>1, <1>3 DEF Allocated, Goto
  <2>2. TypedS(t)' /\ pc'[t] = "isTracked"
    BY Zenon, <1>1, <1>2, <1>3, <2>1 DEF SInv, TypedS
  <2>3. /\ HasFresh(t)' /\ Tracked(t)' /\ Frees(t)' /\ Frees(t) /\ ~Given(t)'
    BY Zenon, <1>1, <1>3, <2>2 DEF HasFresh, HasVictim, Frees, Tracked, Given
  <2>4. HandsS(t)'
    BY ZenonT(30), <1>1, <1>2, <2>1, <2>3 DEF SInv, HandsS, InHand
  <2>5. LiveS(t)' /\ ExactS(t)'
    BY <1>1, <1>2, <1>3, <2>1, <2>2, <2>3 DEF SInv, LiveS, ExactS
  <2>6. QED
    BY Zenon, <2>2, <2>4, <2>5 DEF SInv
<1>4. CASE op[t] # "reallocate"
  <2>1. /\ pc' = [pc EXCEPT ![t] = "idle"] /\ result' = [result EXCEPT ![t] = "ok"]
        /\ held' = held \cup {fresh[t]}
    BY Zenon, <1>1, <1>4 DEF Allocated, Return, Goto
  <2>2. TypedS(t)' /\ pc'[t] = "idle" /\ result'[t] = "ok"
    BY Zenon, <1>1, <1>2, <2>1 DEF SInv, TypedS
  <2>3. /\ ~HasFresh(t)' /\ ~Tracked(t)' /\ ~Frees(t)' /\ ~Frees(t) /\ ~Given(t)'
    BY Zenon, <1>1, <1>4, <2>2 DEF HasFresh, HasVictim, Frees, Tracked, Given
  <2>4. HandsS(t)'
    BY ZenonT(30), <1>1, <1>2, <2>1, <2>3 DEF SInv, HandsS, InHand
  <2>5. LiveS(t)' /\ ExactS(t)'
    BY SMTT(30), <1>1, <1>2, <2>1, <2>2, <2>3 DEF SInv, LiveS, ExactS
  <2>6. QED
    BY Zenon, <2>2, <2>4, <2>5 DEF SInv
<1>5. QED
  BY Zenon, <1>3, <1>4

(* The caller's pointer becomes the call's.                                *)
LEMMA GiveUpS ==
    ASSUME NEW t, Threads = {t}, enableLeakTracking, SInv(t),
           NEW p \in held, deallocate(t, p) \/ reallocate(t, p)
    PROVE  SInv(t)'
<1>1. /\ pc[t] = "idle" /\ held' = held \ {p}
      /\ victim' = [victim EXCEPT ![t] = p] /\ fresh' = [fresh EXCEPT ![t] = nullptr]
      /\ UNCHANGED <<out, state, live_, freed_, exhausted, result, stale>>
      /\ \/ op' = [op EXCEPT ![t] = "deallocate"] /\ pc' = [pc EXCEPT ![t] = "isTracked"]
         \/ op' = [op EXCEPT ![t] = "reallocate"] /\ pc' = [pc EXCEPT ![t] = "allocationSize"]
  BY Zenon DEF deallocate, reallocate, Begin, Goto, memory, registry
<1>2. p \in Pointer /\ InHand(p)
  BY Zenon DEF SInv, HandsS, InHand
<1>3. TypedS(t)'
  BY Zenon, <1>1, <1>2 DEF SInv, TypedS
<1>4. /\ victim'[t] = p
      /\ \/ op'[t] = "deallocate" /\ pc'[t] = "isTracked"
         \/ op'[t] = "reallocate" /\ pc'[t] = "allocationSize"
  BY <1>1 DEF SInv, TypedS
<1>5. /\ ~HasFresh(t)' /\ ~Tracked(t)' /\ Frees(t)' /\ ~Given(t)'
      /\ ~HasFresh(t) /\ ~Tracked(t) /\ ~Frees(t) /\ ~Given(t)
  BY Zenon, <1>1, <1>4 DEF HasFresh, HasVictim, Frees, Tracked, Given
<1>6. HandsS(t)'
  <2>1. \A q \in held' : q \in held /\ q # p
    BY Zenon, <1>1
  <2>2. \A q \in held' : InHand(q)' /\ BlockOf(q) # BlockOf(p)
    BY Zenon, <1>1, <2>1 DEF SInv, HandsS, InHand
  <2>3. \A q, r \in held' : BlockOf(q) = BlockOf(r) => q = r
    BY Zenon, <2>1 DEF SInv, HandsS
  <2>4. InHand(victim[t])'
    BY <1>1, <1>2, <1>4 DEF InHand
  <2>5. QED
    BY Zenon, <1>4, <1>5, <2>2, <2>3, <2>4 DEF HandsS
<1>7. LiveS(t)' /\ ExactS(t)'
  BY Zenon, <1>1, <1>4, <1>5 DEF SInv, LiveS, ExactS
<1>8. QED
  BY Zenon, <1>3, <1>6, <1>7 DEF SInv

(* A pointer freed before, whose block is in its tier, is not live.        *)
LEMMA StaleFreeS ==
    ASSUME NEW t, Threads = {t}, enableLeakTracking, SInv(t), NEW p \in stale, StaleFree(t, p)
    PROVE  SInv(t)'
<1>1. /\ pc[t] = "idle" /\ BlockOf(p) \notin out
      /\ victim' = [victim EXCEPT ![t] = p] /\ fresh' = [fresh EXCEPT ![t] = nullptr]
      /\ op' = [op EXCEPT ![t] = "stale"] /\ pc' = [pc EXCEPT ![t] = "isTracked"]
      /\ UNCHANGED <<out, state, live_, freed_, exhausted, result, held, stale>>
  BY Zenon DEF StaleFree, Begin, Goto, memory, registry, client
<1>2. TypedS(t)' /\ victim'[t] = p /\ op'[t] = "stale" /\ pc'[t] = "isTracked"
  BY <1>1 DEF SInv, TypedS
<1>3. /\ ~HasFresh(t)' /\ ~Tracked(t)' /\ ~Frees(t)' /\ ~Given(t)'
      /\ ~HasFresh(t) /\ ~Tracked(t) /\ ~Frees(t) /\ ~Given(t)
  BY Zenon, <1>1, <1>2 DEF HasFresh, HasVictim, Frees, Tracked, Given
<1>4. p \notin live_
  BY Zenon, <1>1, <1>3 DEF SInv, LiveS, HandsS, InHand
<1>5. HandsS(t)'
  BY ZenonT(60), <1>1, <1>3 DEF SInv, HandsS, InHand
<1>6. LiveS(t)'
  <2>1. live_' = live_ /\ held' = held /\ live_ \subseteq held
    BY Zenon, <1>1, <1>3 DEF SInv, LiveS
  <2>2. victim'[t] \in stale' /\ victim'[t] \notin live_'
    BY <1>1, <1>2, <1>4
  <2>3. QED
    BY Zenon, <1>2, <1>3, <2>1, <2>2 DEF LiveS
<1>7. ExactS(t)'
  BY Zenon, <1>1, <1>2, <1>3 DEF SInv, ExactS
<1>8. QED
  BY Zenon, <1>2, <1>5, <1>6, <1>7 DEF SInv

(* The registry's verdict: with room it knows every pointer a caller may   *)
(* free, and it never knows one that was freed before.                     *)
LEMMA IsTrackedS ==
    ASSUME NEW t, Threads = {t}, enableLeakTracking, SInv(t), isTracked(t)
    PROVE  SInv(t)'
<1>1. /\ pc[t] = "isTracked"
      /\ pc' = [pc EXCEPT ![t] = IF victim[t] \in live_ THEN "header" ELSE "wasFreed"]
      /\ UNCHANGED <<out, state, live_, freed_, exhausted, op, fresh, victim, result, held, stale>>
  BY Zenon DEF isTracked, Goto, memory, registry, client
<1>2. /\ victim[t] \in live_ => op[t] # "stale"
      /\ op[t] = "reallocate" => victim[t] \in live_
      /\ Frees(t) <=> op[t] # "stale"
      /\ Tracked(t) <=> op[t] = "reallocate"
      /\ HasFresh(t) <=> op[t] = "reallocate"
      /\ ~Given(t)
  BY Zenon, <1>1 DEF SInv, LiveS, Frees, Tracked, Given, HasVictim, HasFresh
<1>3. TypedS(t)' /\ pc'[t] = IF victim[t] \in live_ THEN "header" ELSE "wasFreed"
  BY Zenon, <1>1, <1>2 DEF SInv, TypedS
<1>4. /\ Frees(t)' <=> Frees(t) /\ victim[t] \in live_
      /\ Tracked(t)' <=> op[t] = "reallocate"
      /\ HasFresh(t)' <=> op[t] = "reallocate"
      /\ ~Given(t)'
  BY <1>1, <1>2, <1>3 DEF Frees, Tracked, Given, HasVictim, HasFresh
<1>5. HandsS(t)'
  BY ZenonT(30), <1>1, <1>2, <1>4 DEF SInv, HandsS, InHand
<1>6. LiveS(t)' /\ ExactS(t)'
  BY <1>1, <1>2, <1>3, <1>4 DEF SInv, LiveS, ExactS
<1>7. QED
  BY Zenon, <1>3, <1>5, <1>6 DEF SInv

(* A pointer freed before has its tombstone.                               *)
LEMMA WasFreedS ==
    ASSUME NEW t, Threads = {t}, SInv(t), wasFreed(t)
    PROVE  SInv(t)'
<1>1. /\ pc[t] = "wasFreed" /\ pc' = [pc EXCEPT ![t] = "idle"]
      /\ result' = [result EXCEPT
                       ![t] = IF victim[t] \in freed_ THEN "DoubleFree" ELSE "InvalidPointer"]
      /\ UNCHANGED <<out, state, live_, freed_, exhausted, op, fresh, victim, held, stale>>
  BY Zenon DEF wasFreed, Return, Goto, memory, registry, client
<1>2. /\ TypedS(t)' /\ pc'[t] = "idle"
      /\ victim[t] \in freed_ => result'[t] = "DoubleFree"
  BY <1>1 DEF SInv, TypedS
<1>3. /\ ~HasFresh(t)' /\ ~Tracked(t)' /\ ~Frees(t)' /\ ~Given(t)'
      /\ ~HasFresh(t) /\ ~Tracked(t) /\ ~Frees(t) /\ ~Given(t)
  BY Zenon, <1>1, <1>2 DEF HasFresh, HasVictim, Frees, Tracked, Given
<1>4. HandsS(t)'
  BY Zenon, <1>1, <1>3 DEF SInv, HandsS, InHand
<1>5. LiveS(t)' /\ ExactS(t)'
  BY Zenon, <1>1, <1>2, <1>3 DEF SInv, LiveS, ExactS
<1>6. QED
  BY Zenon, <1>2, <1>4, <1>5 DEF SInv

(* Only a pointer of the call gets to the header, which says allocated.    *)
LEMMA HeaderS ==
    ASSUME NEW t, Threads = {t}, SInv(t), header(t)
    PROVE  SInv(t)'
<1>1. pc[t] = "header" /\ Frees(t) /\ state[victim[t]] = "allocated"
  BY Zenon DEF header, SInv, TypedS, HandsS, InHand, Frees, HasVictim
<1>2. /\ pc' = [pc EXCEPT ![t] = "release"]
      /\ UNCHANGED <<out, state, live_, freed_, exhausted, op, fresh, victim, result, held, stale>>
  BY Zenon, <1>1 DEF header, Goto, memory, registry, client
<1>3. TypedS(t)' /\ pc'[t] = "release"
  BY Zenon, <1>1, <1>2 DEF SInv, TypedS, Frees
<1>4. /\ Frees(t)' /\ ~Given(t)' /\ ~Given(t)
      /\ (Tracked(t)' <=> Tracked(t)) /\ (HasFresh(t)' <=> HasFresh(t))
  BY Zenon, <1>1, <1>2, <1>3 DEF Frees, Tracked, Given, HasVictim, HasFresh
<1>5. HandsS(t)'
  BY Zenon, <1>1, <1>2, <1>4 DEF SInv, HandsS, InHand
<1>6. LiveS(t)' /\ ExactS(t)'
  BY Zenon, <1>1, <1>2, <1>3, <1>4 DEF SInv, LiveS, ExactS
<1>7. QED
  BY Zenon, <1>3, <1>5, <1>6 DEF SInv

(* The tier takes the block; the pointer is live until untrack.            *)
LEMMA RawDeallocateS ==
    ASSUME NEW t, Threads = {t}, SInv(t), rawDeallocate(t)
    PROVE  SInv(t)'
<1> DEFINE p == victim[t]
<1>1. pc[t] = "release" /\ Frees(t) /\ InHand(p)
  BY Zenon DEF rawDeallocate, SInv, TypedS, HandsS, Frees, HasVictim
<1>2. /\ state' \in headersAfter(p, BlockOf(p)) /\ out' = out \ {BlockOf(p)}
      /\ pc' = [pc EXCEPT ![t] = "recordFree"]
      /\ UNCHANGED <<live_, freed_, exhausted, op, fresh, victim, result, held, stale>>
  BY Zenon, <1>1 DEF rawDeallocate, Goto, registry, client, InHand
<1>3. /\ state' \in [Pointer -> {"garbage", "allocated", "freed", "unmapped"}]
      /\ \A q \in Pointer : BlockOf(q) # BlockOf(p) => state'[q] = state[q]
  BY Zenon, <1>1, <1>2, HeadersAfter DEF SInv, TypedS, InHand
<1>4. TypedS(t)' /\ pc'[t] = "recordFree"
  BY Zenon, <1>1, <1>2, <1>3 DEF SInv, TypedS, Frees
<1>5. /\ ~Frees(t)' /\ Given(t)' /\ ~Given(t)
      /\ (Tracked(t)' <=> Tracked(t)) /\ (HasFresh(t)' <=> HasFresh(t))
  BY Zenon, <1>1, <1>2, <1>4 DEF Frees, Tracked, Given, HasVictim, HasFresh
<1>6. HandsS(t)'
  BY Zenon, <1>1, <1>2, <1>3, <1>5 DEF SInv, HandsS, InHand
<1>7. LiveS(t)' /\ ExactS(t)'
  BY Zenon, <1>1, <1>2, <1>4, <1>5 DEF SInv, LiveS, ExactS
<1>8. QED
  BY Zenon, <1>4, <1>6, <1>7 DEF SInv

(* The statistics are no part of it.                                       *)
LEMMA RecordFreeS ==
    ASSUME NEW t, Threads = {t}, enableLeakTracking, SInv(t), recordFree(t)
    PROVE  SInv(t)'
<1>1. /\ pc[t] = "recordFree" /\ pc' = [pc EXCEPT ![t] = "untrack"]
      /\ UNCHANGED <<out, state, live_, freed_, exhausted, op, fresh, victim, result, held, stale>>
  BY Zenon DEF recordFree, Goto, memory, registry, client
<1>2. TypedS(t)' /\ pc'[t] = "untrack"
  BY Zenon, <1>1 DEF SInv, TypedS
<1>3. /\ ~Frees(t)' /\ ~Frees(t) /\ Given(t)' /\ Given(t)
      /\ (Tracked(t)' <=> Tracked(t)) /\ (HasFresh(t)' <=> HasFresh(t))
  BY Zenon, <1>1, <1>2 DEF HasFresh, HasVictim, Frees, Tracked, Given
<1>4. HandsS(t)' /\ LiveS(t)' /\ ExactS(t)'
  BY Zenon, <1>1, <1>2, <1>3 DEF SInv, HandsS, LiveS, ExactS, InHand
<1>5. QED
  BY Zenon, <1>2, <1>4 DEF SInv

(* untrack turns the live pointer into a tombstone, or throws.             *)
LEMMA UntrackS ==
    ASSUME NEW t, Threads = {t}, SInv(t), untrack(t) \/ untrackThrows(t)
    PROVE  SInv(t)'
<1>1. /\ pc[t] = "untrack" /\ victim[t] \in live_ /\ victim[t] \in Pointer
      /\ live_' = live_ \ {victim[t]}
      /\ \/ freed_' = freed_ \cup {victim[t]} /\ UNCHANGED exhausted
         \/ freed_' = freed_ /\ exhausted'
      /\ UNCHANGED <<out, state, op, fresh, victim>>
  BY Zenon DEF untrack, untrackThrows, memory, SInv, LiveS, TypedS, Given
<1>2. /\ pc' = [pc EXCEPT ![t] = "idle"] /\ result' = [result EXCEPT ![t] = "ok"]
      /\ stale' = stale \cup {victim[t]}
      /\ held' = IF op[t] = "reallocate" THEN held \cup {fresh[t]} ELSE held
  BY Zenon DEF untrack, untrackThrows, Freed, Return, Goto
<1>3. TypedS(t)' /\ pc'[t] = "idle" /\ result'[t] = "ok" /\ op[t] # "stale"
  BY Zenon, <1>1, <1>2 DEF SInv, TypedS
<1>4. /\ ~HasFresh(t)' /\ ~Tracked(t)' /\ ~Frees(t)' /\ ~Given(t)' /\ ~Frees(t)
      /\ (Tracked(t) <=> op[t] = "reallocate") /\ (HasFresh(t) <=> op[t] = "reallocate")
  BY Zenon, <1>1, <1>3 DEF HasFresh, HasVictim, Frees, Tracked, Given
<1>5. HandsS(t)'
  BY Zenon, <1>1, <1>2, <1>4 DEF SInv, HandsS, InHand
<1>6. LiveS(t)'
  BY ZenonT(30), <1>1, <1>2, <1>3, <1>4 DEF SInv, LiveS
<1>7. victim[t] \notin held /\ (op[t] = "reallocate" => fresh[t] # victim[t])
  <2>1. BlockOf(victim[t]) \notin out
    BY ZenonT(30), <1>1 DEF SInv, HandsS, Given
  <2>2. QED
    BY Zenon, <1>4, <2>1 DEF SInv, HandsS, InHand
<1>8. ExactS(t)'
  BY <1>1, <1>2, <1>3, <1>4, <1>7 DEF SInv, ExactS
<1>9. QED
  BY Zenon, <1>3, <1>5, <1>6, <1>8 DEF SInv

(* reallocate goes on only with a pointer the registry knows.              *)
LEMMA AllocationSizeS ==
    ASSUME NEW t, Threads = {t}, enableLeakTracking, SInv(t), allocationSize(t)
    PROVE  SInv(t)'
<1>1. /\ pc[t] = "allocationSize" /\ op[t] = "reallocate" /\ Frees(t) /\ InHand(victim[t])
      /\ ~HasFresh(t) /\ ~Tracked(t) /\ ~Given(t)
      /\ UNCHANGED <<out, state, live_, freed_, exhausted, op, fresh, victim, stale>>
  BY DEF allocationSize, memory, registry, SInv, TypedS, HandsS, HasVictim, HasFresh, Frees,
         Tracked, Given
<1>2. CASE victim[t] \in live_
  <2>1. pc' = [pc EXCEPT ![t] = "grow"] /\ UNCHANGED <<result, held>>
    BY Zenon, <1>1, <1>2 DEF allocationSize, Goto, InHand
  <2>2. TypedS(t)' /\ pc'[t] = "grow"
    BY Zenon, <1>1, <2>1 DEF SInv, TypedS
  <2>3. ~HasFresh(t)' /\ ~Tracked(t)' /\ Frees(t)' /\ ~Given(t)'
    BY Zenon, <1>1, <2>2 DEF HasFresh, HasVictim, Frees, Tracked, Given
  <2>4. HandsS(t)' /\ LiveS(t)' /\ ExactS(t)'
    BY Zenon, <1>1, <1>2, <2>1, <2>2, <2>3 DEF SInv, HandsS, LiveS, ExactS, InHand
  <2>5. QED
    BY Zenon, <2>2, <2>4 DEF SInv
<1>3. CASE victim[t] \notin live_
  <2>1. /\ pc' = [pc EXCEPT ![t] = "idle"] /\ result' = [result EXCEPT ![t] = "InvalidPointer"]
        /\ held' = held \cup {victim[t]}
    BY Zenon, <1>3 DEF allocationSize, Return, Goto
  <2>2. TypedS(t)' /\ pc'[t] = "idle" /\ exhausted
    BY Zenon, <1>1, <1>3, <2>1 DEF SInv, TypedS, ExactS
  <2>3. ~HasFresh(t)' /\ ~Tracked(t)' /\ ~Frees(t)' /\ ~Given(t)'
    BY Zenon, <2>2 DEF HasFresh, HasVictim, Frees, Tracked, Given
  <2>4. HandsS(t)'
    BY Zenon, <1>1, <2>1, <2>3 DEF SInv, HandsS, InHand
  <2>5. LiveS(t)' /\ ExactS(t)'
    BY Zenon, <1>1, <1>3, <2>1, <2>2, <2>3 DEF SInv, LiveS, ExactS
  <2>6. QED
    BY Zenon, <2>2, <2>4, <2>5 DEF SInv
<1>4. QED
  BY Zenon, <1>2, <1>3

(* The registry does not look at headers.                                  *)
LEMMA NeighbourS ==
    ASSUME NEW t, Threads = {t}, SInv(t), NEW p \in Pointer, Neighbour(t, p)
    PROVE  SInv(t)'
<1>1. /\ state' \in [Pointer -> {"garbage", "allocated", "freed", "unmapped"}]
      /\ \A q \in Pointer : BlockOf(q) \in out => state'[q] = state[q]
      /\ UNCHANGED <<out, live_, freed_, exhausted, pc, op, fresh, victim, result, held, stale>>
  BY Zenon, NeighbourHeaders DEF SInv, TypedS
<1>2. TypedS(t)'
  BY Zenon, <1>1 DEF SInv, TypedS
<1>3. /\ (HasFresh(t)' <=> HasFresh(t)) /\ (Frees(t)' <=> Frees(t))
      /\ (Tracked(t)' <=> Tracked(t)) /\ (Given(t)' <=> Given(t))
  BY Zenon, <1>1 DEF HasFresh, HasVictim, Frees, Tracked, Given
<1>4. \A q : InHand(q) => InHand(q)'
  BY Zenon, <1>1 DEF InHand
<1>5. HandsS(t)'
  BY Zenon, <1>1, <1>3, <1>4 DEF SInv, HandsS, InHand
<1>6. LiveS(t)' /\ ExactS(t)'
  BY Zenon, <1>1, <1>3 DEF SInv, LiveS, ExactS
<1>7. QED
  BY Zenon, <1>2, <1>5, <1>6 DEF SInv

(* The inductive invariant of one thread under leak tracking, whether or   *)
(* not it frees pointers twice.                                            *)
THEOREM SingleInvariance ==
    ASSUME NEW t, Threads = {t}, enableLeakTracking
    PROVE  Spec => []SInv(t)
<1>1. Init => SInv(t)
  BY Zenon, InitS
<1>2. SInv(t) /\ [Next]_vars => SInv(t)'
  <2> SUFFICES ASSUME SInv(t), [Next]_vars PROVE SInv(t)'
    BY ZenonT(30)
  <2>1. CASE UNCHANGED vars
    BY <2>1 DEF vars, SInv, TypedS, HandsS, LiveS, ExactS, Frees, Given, Tracked, HasVictim,
               HasFresh, InHand
  <2>2. CASE Next
    <3>1. step(t)
      BY <2>2 DEF Next
    <3>2. QED
      BY ZenonT(30), <3>1, RawAllocateS, RawAllocateFailsS, RecordS, TrackS, GiveUpS, StaleFreeS, IsTrackedS,
         WasFreedS, HeaderS, RawDeallocateS, RecordFreeS, UntrackS, AllocationSizeS, NeighbourS DEF step
  <2>3. QED
    BY Zenon, <2>1, <2>2
<1>3. QED
  BY <1>1, <1>2, PTL DEF Spec

(* RegistryExact: with leak tracking and one thread, between calls the     *)
(* registry has exactly the pointers the caller holds, double frees        *)
(* notwithstanding; after an insertion threw it has none that is not held. *)
THEOREM RegistryCorrect ==
    ASSUME NEW t, Threads = {t}, enableLeakTracking
    PROVE  Spec => []RegistryExact
<1>1. SInv(t) => RegistryExact
  BY Zenon DEF SInv, LiveS, ExactS, RegistryExact, Quiescent, Frees, Given, Tracked, HasVictim, HasFresh
<1>2. QED
  BY <1>1, SingleInvariance, PTL

(* DoubleFreeReported: with leak tracking and one thread, a second free    *)
(* of any pointer whose block is in its tier is reported as DoubleFree,    *)
(* for every tier and every offset of the pointer, and whatever the tier   *)
(* has written over the headers.                                           *)
THEOREM DoubleFreeCorrect ==
    ASSUME NEW t, Threads = {t}, enableLeakTracking
    PROVE  Spec => []DoubleFreeReported
<1>1. SInv(t) => DoubleFreeReported
  BY Zenon DEF SInv, ExactS, DoubleFreeReported, DoubleFreed
<1>2. QED
  BY <1>1, SingleInvariance, PTL

(* LegalCallsSucceed: with leak tracking, one thread's legal calls succeed *)
(* among its double frees.                                                 *)
THEOREM TrackedCallsCorrect ==
    ASSUME NEW t, Threads = {t}, enableLeakTracking
    PROVE  Spec => []LegalCallsSucceed
<1>1. SInv(t) => LegalCallsSucceed
  BY Zenon DEF SInv, ExactS, LegalCallsSucceed
<1>2. QED
  BY <1>1, SingleInvariance, PTL

-----------------------------------------------------------------------------
(* The headers, with one thread that may free a pointer twice, and no      *)
(* registry                                                                *)

TypedH(t) ==
    /\ state \in [Pointer -> {"garbage", "allocated", "freed", "unmapped"}]
    /\ pc \in [Threads -> {"idle", "record", "header", "release", "recordFree", "allocationSize",
                           "grow"}]
    /\ op \in [Threads -> {"none", "allocate", "alignedAllocate", "deallocate", "reallocate",
                           "stale"}]
    /\ fresh \in [Threads -> Pointer \cup {nullptr}]
    /\ victim \in [Threads -> Pointer \cup {nullptr}]
    /\ result \in [Threads -> {"ok", "OutOfMemory", "DoubleFree", "InvalidPointer"}]
    /\ stale \subseteq Pointer
    /\ pc[t] \in {"allocationSize", "grow"} => op[t] = "reallocate"
    /\ op[t] = "stale" => pc[t] \in {"idle", "header"}

(* No header of p's block says allocated but p's own and the raw one.      *)
Marked(p) ==
    \A q \in Pointer : BlockOf(q) = BlockOf(p) /\ state[q] = "allocated" => q \in {p, RawOf(p)}

(* In a block that is with its tier no header says allocated, and in a     *)
(* small one that has been handed out before, the raw one says freed.      *)
FreedSmall(p) == tier[BlockOf(p)] = "Small" => state[RawOf(p)] = "freed"

HeadersH(t) ==
    /\ \A p \in held : Marked(p)
    /\ Frees(t) => Marked(victim[t])
    /\ HasFresh(t) => Marked(fresh[t])
    /\ \A q \in Pointer : BlockOf(q) \notin out => state[q] # "allocated"
    /\ \A p \in stale : BlockOf(p) \notin out => FreedSmall(p)
    /\ Given(t) => victim[t] \in Pointer /\ FreedSmall(victim[t])

(* A second free finds no header that says allocated; every call ends      *)
(* accordingly.                                                            *)
CallsH(t) ==
    /\ op[t] = "stale" /\ pc[t] = "header" =>
          victim[t] \in stale /\ BlockOf(victim[t]) \notin out
    /\ pc[t] = "idle" /\ op[t] = "stale" =>
          /\ result[t] \in {"DoubleFree", "InvalidPointer"}
          /\ tier[BlockOf(victim[t])] = "Small" /\ victim[t] = RawOf(victim[t])
                 => result[t] = "DoubleFree"
    /\ pc[t] = "idle" /\ op[t] # "stale" => result[t] \in {"ok", "OutOfMemory"}

HInv(t) == TypedH(t) /\ HandsS(t) /\ HeadersH(t) /\ CallsH(t)

(* The raw header of a pointer is in its block.                            *)
LEMMA Raw ==
    ASSUME NEW p \in Pointer
    PROVE  /\ RawOf(p) \in Pointer /\ BlockOf(RawOf(p)) = BlockOf(p) /\ BlockOf(p) \in Blocks
           /\ RawOf(RawOf(p)) = RawOf(p)
           /\ \A q \in Pointer : BlockOf(q) = BlockOf(p) => RawOf(q) = RawOf(p)
BY Zenon DEF Pointer, Offset, RawOf, BlockOf

(* No block, no headers.                                                   *)
LEMMA InitH ==
    ASSUME NEW t, Threads = {t}, Init
    PROVE  HInv(t)
<1>1. TypedH(t)
  BY Zenon DEF Init, TypedH
<1>2. HandsS(t) /\ HeadersH(t) /\ CallsH(t)
  BY DEF Init, HandsS, HeadersH, CallsH, Frees, Given, HasVictim, HasFresh
<1>3. QED
  BY Zenon, <1>1, <1>2 DEF HInv

(* The tier's block gets its own headers and no others.                    *)
LEMMA RawAllocateH ==
    ASSUME NEW t, Threads = {t}, HInv(t),
           NEW call \in {"allocate", "alignedAllocate"}, rawAllocate(t, call)
    PROVE  HInv(t)'
<1>1. PICK block \in Blocks \ out :
          LET user == <<block, userOffset(block, call)>>
          IN  /\ out' = out \cup {block}
              /\ fresh' = [fresh EXCEPT ![t] = user]
              /\ state' \in headersOf(user, {user, RawOf(user)})
  BY Zenon DEF rawAllocate
<1> DEFINE user == <<block, userOffset(block, call)>>
<1>2. user \in Pointer /\ BlockOf(user) = block
  BY SMTT(30), OffsetAssumption DEF userOffset, Pointer, Offset, BlockOf, kFrontGuardSize
<1>3. /\ state' \in [Pointer -> {"garbage", "allocated", "freed", "unmapped"}]
      /\ state'[user] = "allocated"
      /\ \A p \in Pointer : BlockOf(p) # block => state'[p] = state[p]
      /\ \A p \in Pointer : BlockOf(p) = block /\ state'[p] = "allocated" /\ p \notin {user, RawOf(user)}
             => state[p] = "allocated"
  BY <1>1, <1>2 DEF headersOf, HInv, TypedH
<1>4. /\ out' = out \cup {block} /\ fresh' = [fresh EXCEPT ![t] = user]
      /\ pc' = [pc EXCEPT ![t] = "record"]
      /\ UNCHANGED <<result, held, stale>>
  BY Zenon, <1>1 DEF rawAllocate, Goto, registry, client
<1>5. \/ /\ pc[t] = "idle"
         /\ op' = [op EXCEPT ![t] = call] /\ victim' = [victim EXCEPT ![t] = nullptr]
      \/ /\ pc[t] = "grow" /\ op[t] = "reallocate" /\ UNCHANGED <<op, victim>>
  BY Zenon DEF rawAllocate, Starts, HInv, TypedH
<1> HIDE DEF user
<1>6. TypedH(t)'
  BY <1>2, <1>3, <1>4, <1>5 DEF HInv, TypedH
<1>7. /\ pc'[t] = "record" /\ fresh'[t] = user
      /\ \/ pc[t] = "idle" /\ op'[t] = call
         \/ pc[t] = "grow" /\ op[t] = "reallocate" /\ op'[t] = op[t] /\ victim'[t] = victim[t]
  BY Zenon, <1>4, <1>5 DEF HInv, TypedH
<1>8. /\ HasFresh(t)' /\ ~Given(t)' /\ ~Given(t)
      /\ Frees(t)' <=> Frees(t)
      /\ Frees(t) <=> pc[t] = "grow"
  BY ZenonT(60), <1>7 DEF HasFresh, HasVictim, Frees, Given
<1>9. HandsS(t)'
  <2>1. \A p \in held : InHand(p)' /\ BlockOf(p) # block
    BY Zenon, <1>3, <1>4 DEF HInv, HandsS, InHand
  <2>2. \A p, q \in held' : BlockOf(p) = BlockOf(q) => p = q
    BY Zenon, <1>4 DEF HInv, HandsS
  <2>3. InHand(fresh[t])'
    BY SMTT(30), <1>2, <1>3, <1>4, <1>7 DEF InHand
  <2>4. ASSUME Frees(t)
        PROVE  /\ InHand(victim[t])' /\ BlockOf(victim[t]) # block /\ victim'[t] = victim[t]
               /\ \A p \in held : BlockOf(p) # BlockOf(victim[t])
    <3>1. victim'[t] = victim[t]
      BY ZenonT(60), <1>7, <1>8, <2>4
    <3>2. InHand(victim[t]) /\ \A p \in held : BlockOf(p) # BlockOf(victim[t])
      BY ZenonT(60), <2>4 DEF HInv, HandsS
    <3>3. QED
      BY Zenon, <1>3, <1>4, <3>1, <3>2 DEF InHand
  <2>5. held' = held /\ BlockOf(fresh'[t]) = block
    BY Zenon, <1>2, <1>4, <1>7
  <2>6. QED
    BY ZenonT(60), <1>8, <2>1, <2>2, <2>3, <2>4, <2>5 DEF HandsS
<1>10. HeadersH(t)'
  <2>1. \A q \in Pointer : BlockOf(q) \notin out' => state'[q] # "allocated"
    BY Zenon, <1>3, <1>4 DEF HInv, HeadersH
  <2>2. Marked(user)'
    BY Zenon, <1>2, <1>3 DEF HInv, HeadersH, Marked
  <2>3. \A p \in Pointer : BlockOf(p) # block /\ Marked(p) => Marked(p)'
    BY Zenon, <1>3 DEF Marked
  <2>4. \A p \in held : Marked(p)'
    BY Zenon, <2>3 DEF HInv, HeadersH, HandsS, InHand
  <2>5. Frees(t)' => Marked(victim[t])'
    BY Zenon, <2>3, <1>7, <1>8 DEF HInv, HeadersH, HandsS, InHand, Marked
  <2>6. \A p \in stale : BlockOf(p) \notin out' => FreedSmall(p)'
    <3> SUFFICES ASSUME NEW p \in stale, BlockOf(p) \notin out' PROVE FreedSmall(p)'
      OBVIOUS
    <3>1. RawOf(p) \in Pointer /\ BlockOf(RawOf(p)) = BlockOf(p)
      BY Zenon, Raw DEF HInv, TypedH
    <3>2. BlockOf(p) \notin out /\ BlockOf(p) # block
      BY <1>4
    <3>3. FreedSmall(p)
      BY Zenon, <3>2 DEF HInv, HeadersH
    <3>4. QED
      BY Zenon, <1>3, <3>1, <3>2, <3>3 DEF FreedSmall
  <2>7. QED
    BY Zenon, <1>4, <1>7, <1>8, <2>1, <2>2, <2>4, <2>5, <2>6 DEF HeadersH, Marked
<1>11. CallsH(t)'
  BY Zenon, <1>7 DEF CallsH
<1>12. QED
  BY Zenon, <1>6, <1>9, <1>10, <1>11 DEF HInv

(* No block: the headers stay.                                             *)
LEMMA RawAllocateFailsH ==
    ASSUME NEW t, Threads = {t}, HInv(t),
           NEW call \in {"allocate", "alignedAllocate"}, rawAllocateFails(t, call)
    PROVE  HInv(t)'
<1>1. /\ pc' = [pc EXCEPT ![t] = "idle"] /\ result' = [result EXCEPT ![t] = "OutOfMemory"]
      /\ held' = IF pc[t] = "grow" THEN held \cup {victim[t]} ELSE held
      /\ UNCHANGED <<out, state, fresh, stale>>
  BY Zenon DEF rawAllocateFails, Return, Goto, memory
<1>2. \/ /\ pc[t] = "idle"
         /\ op' = [op EXCEPT ![t] = call] /\ victim' = [victim EXCEPT ![t] = nullptr]
      \/ /\ pc[t] = "grow" /\ op[t] = "reallocate" /\ UNCHANGED <<op, victim>>
  BY Zenon DEF rawAllocateFails, Starts, HInv, TypedH
<1>3. TypedH(t)'
  BY <1>1, <1>2 DEF HInv, TypedH
<1>4. pc'[t] = "idle" /\ result'[t] = "OutOfMemory" /\ op'[t] # "stale"
  BY Zenon, <1>1, <1>2 DEF HInv, TypedH
<1>5. /\ ~HasFresh(t)' /\ ~Frees(t)' /\ ~Given(t)' /\ ~Given(t)
      /\ Frees(t) <=> pc[t] = "grow"
  BY Zenon, <1>2, <1>4 DEF HasFresh, HasVictim, Frees, Given
<1>6. HandsS(t)'
  BY Zenon, <1>1, <1>2, <1>5 DEF HInv, HandsS, InHand
<1>7. HeadersH(t)' /\ CallsH(t)'
  BY ZenonT(30), <1>1, <1>2, <1>4, <1>5 DEF HInv, HeadersH, CallsH, Marked, FreedSmall
<1>8. QED
  BY Zenon, <1>3, <1>6, <1>7 DEF HInv

(* The call ends with the pointer in the caller's hands, or goes on to     *)
(* free the old one.                                                       *)
LEMMA RecordH ==
    ASSUME NEW t, Threads = {t}, ~enableLeakTracking, HInv(t), recordAllocation(t)
    PROVE  HInv(t)'
<1>1. /\ pc[t] = "record" /\ Allocated(t) /\ HasFresh(t) /\ ~Given(t) /\ op[t] # "stale"
      /\ UNCHANGED <<out, state, op, fresh, victim, stale>>
  BY DEF recordAllocation, memory, HasFresh, Given, HInv, TypedH
<1>2. CASE op[t] = "reallocate"
  <2>1. pc' = [pc EXCEPT ![t] = "header"] /\ UNCHANGED <<result, held>>
    BY Zenon, <1>1, <1>2 DEF Allocated, Goto
  <2>2. TypedH(t)' /\ pc'[t] = "header"
    BY Zenon, <1>1, <2>1 DEF HInv, TypedH
  <2>3. HasFresh(t)' /\ Frees(t)' /\ Frees(t) /\ ~Given(t)'
    BY Zenon, <1>1, <1>2, <2>2 DEF HasFresh, HasVictim, Frees, Given
  <2>4. HandsS(t)' /\ HeadersH(t)' /\ CallsH(t)'
    BY Zenon, <1>1, <1>2, <2>1, <2>2, <2>3 DEF HInv, HandsS, InHand, HeadersH, CallsH, Marked, FreedSmall
  <2>5. QED
    BY Zenon, <2>2, <2>4 DEF HInv
<1>3. CASE op[t] # "reallocate"
  <2>1. /\ pc' = [pc EXCEPT ![t] = "idle"] /\ result' = [result EXCEPT ![t] = "ok"]
        /\ held' = held \cup {fresh[t]}
    BY Zenon, <1>1, <1>3 DEF Allocated, Return, Goto
  <2>2. TypedH(t)' /\ pc'[t] = "idle" /\ result'[t] = "ok"
    BY Zenon, <1>1, <2>1 DEF HInv, TypedH
  <2>3. ~HasFresh(t)' /\ ~Frees(t)' /\ ~Frees(t) /\ ~Given(t)'
    BY Zenon, <1>1, <1>3, <2>2 DEF HasFresh, HasVictim, Frees, Given
  <2>4. HandsS(t)'
    BY Zenon, <1>1, <2>1, <2>3 DEF HInv, HandsS, InHand
  <2>5. HeadersH(t)' /\ CallsH(t)'
    BY Zenon, <1>1, <2>1, <2>2, <2>3 DEF HInv, HeadersH, CallsH, Marked, FreedSmall
  <2>6. QED
    BY Zenon, <2>2, <2>4, <2>5 DEF HInv
<1>4. QED
  BY Zenon, <1>2, <1>3

(* The caller's pointer becomes the call's.                                *)
LEMMA GiveUpH ==
    ASSUME NEW t, Threads = {t}, ~enableLeakTracking, HInv(t),
           NEW p \in held, deallocate(t, p) \/ reallocate(t, p)
    PROVE  HInv(t)'
<1>1. /\ pc[t] = "idle" /\ held' = held \ {p}
      /\ victim' = [victim EXCEPT ![t] = p] /\ fresh' = [fresh EXCEPT ![t] = nullptr]
      /\ UNCHANGED <<out, state, result, stale>>
      /\ \/ op' = [op EXCEPT ![t] = "deallocate"] /\ pc' = [pc EXCEPT ![t] = "header"]
         \/ op' = [op EXCEPT ![t] = "reallocate"] /\ pc' = [pc EXCEPT ![t] = "allocationSize"]
  BY Zenon DEF deallocate, reallocate, Begin, Goto, memory
<1>2. p \in Pointer /\ InHand(p)
  BY Zenon DEF HInv, HandsS, InHand
<1>3. TypedH(t)'
  BY ZenonT(60), <1>1, <1>2 DEF HInv, TypedH
<1>4. /\ victim'[t] = p
      /\ \/ op'[t] = "deallocate" /\ pc'[t] = "header"
         \/ op'[t] = "reallocate" /\ pc'[t] = "allocationSize"
  BY Zenon, <1>1 DEF HInv, TypedH
<1>5. ~HasFresh(t)' /\ Frees(t)' /\ ~Given(t)'
  BY Zenon, <1>4 DEF HasFresh, HasVictim, Frees, Given
<1>6. HandsS(t)'
  <2>1. \A q \in held' : q \in held /\ q # p
    BY Zenon, <1>1
  <2>2. \A q \in held' : InHand(q)' /\ BlockOf(q) # BlockOf(p)
    BY Zenon, <1>1, <2>1 DEF HInv, HandsS, InHand
  <2>3. \A q, r \in held' : BlockOf(q) = BlockOf(r) => q = r
    BY Zenon, <2>1 DEF HInv, HandsS
  <2>4. InHand(victim[t])'
    BY <1>1, <1>2, <1>4 DEF InHand
  <2>5. QED
    BY Zenon, <1>4, <1>5, <2>2, <2>3, <2>4 DEF HandsS
<1>7. HeadersH(t)' /\ CallsH(t)'
  BY Zenon, <1>1, <1>4, <1>5 DEF HInv, HeadersH, CallsH, Marked, FreedSmall
<1>8. QED
  BY Zenon, <1>3, <1>6, <1>7 DEF HInv

(* A second free leaves everything as it is until it looks at the header.  *)
LEMMA StaleFreeH ==
    ASSUME NEW t, Threads = {t}, ~enableLeakTracking, HInv(t), NEW p \in stale, StaleFree(t, p)
    PROVE  HInv(t)'
<1>1. /\ pc[t] = "idle" /\ BlockOf(p) \notin out
      /\ victim' = [victim EXCEPT ![t] = p] /\ fresh' = [fresh EXCEPT ![t] = nullptr]
      /\ op' = [op EXCEPT ![t] = "stale"] /\ pc' = [pc EXCEPT ![t] = "header"]
      /\ UNCHANGED <<out, state, result, held, stale>>
  BY Zenon DEF StaleFree, Begin, Goto, memory, client
<1>2. TypedH(t)' /\ victim'[t] = p /\ op'[t] = "stale" /\ pc'[t] = "header"
  BY Zenon, <1>1 DEF HInv, TypedH
<1>3. ~HasFresh(t)' /\ ~Frees(t)' /\ ~Given(t)'
  BY Zenon, <1>2 DEF HasFresh, HasVictim, Frees, Given
<1>4. HandsS(t)'
  BY Zenon, <1>1, <1>3 DEF HInv, HandsS, InHand
<1>5. HeadersH(t)'
  BY Zenon, <1>1, <1>3 DEF HInv, HeadersH, Marked, FreedSmall
<1>6. CallsH(t)'
  BY <1>1, <1>2 DEF CallsH
<1>7. QED
  BY Zenon, <1>2, <1>4, <1>5, <1>6 DEF HInv

(* The header tells a pointer of the call from one freed before.           *)
LEMMA HeaderH ==
    ASSUME NEW t, Threads = {t}, HInv(t), header(t)
    PROVE  HInv(t)'
<1>1. /\ pc[t] = "header" /\ ~Given(t)
      /\ UNCHANGED <<out, state, op, fresh, victim, held, stale>>
  BY Zenon DEF header, memory, client, Given
<1>2. CASE op[t] # "stale"
  <2>1. Frees(t) /\ state[victim[t]] = "allocated"
    BY Zenon, <1>1, <1>2 DEF HInv, HandsS, InHand, Frees, HasVictim
  <2>2. pc' = [pc EXCEPT ![t] = "release"] /\ UNCHANGED result
    BY Zenon, <2>1 DEF header, Goto
  <2>3. TypedH(t)' /\ pc'[t] = "release"
    BY Zenon, <1>1, <1>2, <2>2 DEF HInv, TypedH
  <2>4. Frees(t)' /\ ~Given(t)' /\ (HasFresh(t)' <=> HasFresh(t))
    BY Zenon, <1>1, <1>2, <2>3 DEF Frees, Given, HasVictim, HasFresh
  <2>5. HandsS(t)' /\ HeadersH(t)' /\ CallsH(t)'
    BY Zenon, <1>1, <1>2, <2>1, <2>2, <2>3, <2>4 DEF HInv, HandsS, InHand, HeadersH, CallsH, Marked, FreedSmall
  <2>6. QED
    BY Zenon, <2>3, <2>5 DEF HInv
<1>3. CASE op[t] = "stale"
  <2>1. /\ victim[t] \in stale /\ victim[t] \in Pointer /\ BlockOf(victim[t]) \notin out
        /\ state[victim[t]] # "allocated"
        /\ tier[BlockOf(victim[t])] = "Small" /\ victim[t] = RawOf(victim[t])
               => state[victim[t]] = "freed"
    BY Zenon, <1>1, <1>3 DEF HInv, TypedH, HeadersH, CallsH, FreedSmall
  <2>2. /\ pc' = [pc EXCEPT ![t] = "idle"]
        /\ result' = [result EXCEPT ![t] = IF state[victim[t]] = "freed"
                                           THEN "DoubleFree" ELSE "InvalidPointer"]
    BY Zenon, <2>1 DEF header, Return, Goto
  <2>3. /\ TypedH(t)' /\ pc'[t] = "idle"
        /\ result'[t] \in {"DoubleFree", "InvalidPointer"}
        /\ state[victim[t]] = "freed" => result'[t] = "DoubleFree"
    BY Zenon, <1>1, <1>3, <2>2 DEF HInv, TypedH
  <2>4. ~Frees(t)' /\ ~Given(t)' /\ ~HasFresh(t)'
    BY Zenon, <2>3 DEF Frees, Given, HasVictim, HasFresh
  <2>5. HandsS(t)' /\ HeadersH(t)' /\ CallsH(t)'
    BY Zenon, <1>1, <1>3, <2>1, <2>3, <2>4 DEF HInv, HandsS, InHand, HeadersH, CallsH, Marked, FreedSmall
  <2>6. QED
    BY Zenon, <2>3, <2>5 DEF HInv
<1>4. QED
  BY Zenon, <1>2, <1>3

(* What freeing a block leaves of its headers.                             *)
LEMMA HeadersGone ==
    ASSUME state \in [Pointer -> {"garbage", "allocated", "freed", "unmapped"}],
           NEW p \in Pointer, Marked(p), NEW s \in headersAfter(p, BlockOf(p))
    PROVE  /\ \A q \in Pointer : BlockOf(q) = BlockOf(p) => s[q] # "allocated"
           /\ tier[BlockOf(p)] = "Small" => s[RawOf(p)] = "freed"
<1> DEFINE b == BlockOf(p)
           marked == [state EXCEPT ![p] = "freed", ![RawOf(p)] = "freed"]
<1>1. b \in Blocks /\ RawOf(p) \in Pointer /\ BlockOf(RawOf(p)) = b /\ <<b, 16>> \in Pointer
  BY DEF Pointer, Offset, BlockOf, RawOf
<1>2. /\ marked \in [Pointer -> {"garbage", "allocated", "freed", "unmapped"}]
      /\ marked[RawOf(p)] = "freed"
      /\ \A q \in Pointer : BlockOf(q) = b => marked[q] # "allocated"
  BY Zenon, <1>1 DEF Marked
<1>3. /\ s \in {marked, [marked EXCEPT ![<<b, 16>>] = "garbage"], Without(b)}
      /\ tier[b] = "Small" => s = marked
  BY Zenon, TierAssumption, <1>1 DEF headersAfter
<1> HIDE DEF marked
<1>4. \A q \in Pointer : BlockOf(q) = b => Without(b)[q] = "unmapped"
  BY DEF Without
<1>5. QED
  BY Zenon, <1>1, <1>2, <1>3, <1>4

(* The block goes back with its headers marked.                            *)
LEMMA RawDeallocateH ==
    ASSUME NEW t, Threads = {t}, HInv(t), rawDeallocate(t)
    PROVE  HInv(t)'
<1> DEFINE p == victim[t]
<1>1. pc[t] = "release" /\ Frees(t) /\ InHand(p) /\ Marked(p) /\ p \in Pointer
  BY Zenon DEF rawDeallocate, HInv, TypedH, HandsS, HeadersH, InHand, Frees, HasVictim
<1>2. /\ state' \in headersAfter(p, BlockOf(p)) /\ out' = out \ {BlockOf(p)}
      /\ pc' = [pc EXCEPT ![t] = "recordFree"]
      /\ UNCHANGED <<op, fresh, victim, result, held, stale>>
  BY Zenon, <1>1 DEF rawDeallocate, Goto, client, InHand
<1>3. /\ state' \in [Pointer -> {"garbage", "allocated", "freed", "unmapped"}]
      /\ \A q \in Pointer : BlockOf(q) # BlockOf(p) => state'[q] = state[q]
  BY Zenon, <1>1, <1>2, HeadersAfter DEF HInv, TypedH
<1>4. /\ \A q \in Pointer : BlockOf(q) = BlockOf(p) => state'[q] # "allocated"
      /\ tier[BlockOf(p)] = "Small" => state'[RawOf(p)] = "freed"
  BY Zenon, <1>1, <1>2, HeadersGone DEF HInv, TypedH
<1>5. TypedH(t)' /\ pc'[t] = "recordFree"
  BY Zenon, <1>1, <1>2, <1>3 DEF HInv, TypedH, Frees
<1>6. ~Frees(t)' /\ Given(t)' /\ (HasFresh(t)' <=> HasFresh(t))
  BY Zenon, <1>1, <1>2, <1>5 DEF Frees, Given, HasVictim, HasFresh
<1>7. HandsS(t)'
  BY Zenon, <1>1, <1>2, <1>3, <1>6 DEF HInv, HandsS, InHand
<1>8. HeadersH(t)'
  <2>1. \A q \in Pointer : BlockOf(q) # BlockOf(p) /\ Marked(q) => Marked(q)'
    BY Zenon, <1>3 DEF Marked
  <2>2. \A q \in held : Marked(q)'
    BY Zenon, <1>1, <2>1 DEF HInv, HeadersH, HandsS, InHand
  <2>3. HasFresh(t)' => Marked(fresh[t])'
    BY Zenon, <1>1, <1>2, <1>6, <2>1 DEF HInv, HeadersH, HandsS, InHand, Marked
  <2>4. \A q \in Pointer : BlockOf(q) \notin out' => state'[q] # "allocated"
    BY Zenon, <1>2, <1>3, <1>4 DEF HInv, HeadersH
  <2>5. ASSUME NEW q \in stale, BlockOf(q) \notin out' PROVE FreedSmall(q)'
    <3>1. q \in Pointer /\ RawOf(q) \in Pointer /\ BlockOf(RawOf(q)) = BlockOf(q)
      BY Zenon, Raw DEF HInv, TypedH
    <3>2. CASE BlockOf(q) = BlockOf(p)
      BY Zenon, <1>1, <1>4, <3>1, <3>2, Raw DEF FreedSmall
    <3>3. CASE BlockOf(q) # BlockOf(p)
      BY Zenon, <1>2, <1>3, <2>5, <3>1, <3>3 DEF HInv, HeadersH, FreedSmall
    <3>4. QED
      BY Zenon, <3>2, <3>3
  <2>6. QED
    BY ZenonT(30), <1>1, <1>2, <1>4, <1>6, <2>2, <2>3, <2>4, <2>5 DEF HeadersH, FreedSmall
<1>9. CallsH(t)'
  BY Zenon, <1>5 DEF CallsH
<1>10. QED
  BY Zenon, <1>5, <1>7, <1>8, <1>9 DEF HInv

(* The call ends; the pointer is one that was freed.                       *)
LEMMA RecordFreeH ==
    ASSUME NEW t, Threads = {t}, ~enableLeakTracking, HInv(t), recordFree(t)
    PROVE  HInv(t)'
<1>1. /\ pc[t] = "recordFree" /\ Given(t) /\ op[t] # "stale" /\ victim[t] \in Pointer
      /\ pc' = [pc EXCEPT ![t] = "idle"] /\ result' = [result EXCEPT ![t] = "ok"]
      /\ stale' = stale \cup {victim[t]}
      /\ held' = IF op[t] = "reallocate" THEN held \cup {fresh[t]} ELSE held
      /\ UNCHANGED <<out, state, op, fresh, victim>>
  BY Zenon DEF recordFree, Freed, Return, Goto, memory, Given, HInv, TypedH, HeadersH
<1>2. TypedH(t)' /\ pc'[t] = "idle" /\ result'[t] = "ok"
  BY Zenon, <1>1 DEF HInv, TypedH
<1>3. ~HasFresh(t)' /\ ~Frees(t)' /\ ~Given(t)' /\ (HasFresh(t) <=> op[t] = "reallocate")
  BY Zenon, <1>1, <1>2 DEF HasFresh, HasVictim, Frees, Given
<1>4. HandsS(t)'
  BY Zenon, <1>1, <1>3 DEF HInv, HandsS, InHand
<1>5. HeadersH(t)' /\ CallsH(t)'
  BY Zenon, <1>1, <1>2, <1>3 DEF HInv, HeadersH, CallsH, Marked, FreedSmall
<1>6. QED
  BY Zenon, <1>2, <1>4, <1>5 DEF HInv

(* reallocate finds its pointer allocated.                                 *)
LEMMA AllocationSizeH ==
    ASSUME NEW t, Threads = {t}, ~enableLeakTracking, HInv(t), allocationSize(t)
    PROVE  HInv(t)'
<1>1. /\ pc[t] = "allocationSize" /\ op[t] = "reallocate" /\ Frees(t) /\ InHand(victim[t])
      /\ UNCHANGED <<out, state, op, fresh, victim, stale>>
  BY Zenon DEF allocationSize, memory, HInv, TypedH, HandsS, HasVictim, Frees
<1>2. pc' = [pc EXCEPT ![t] = "grow"] /\ UNCHANGED <<result, held>>
  BY Zenon, <1>1 DEF allocationSize, Goto, InHand
<1>3. TypedH(t)' /\ pc'[t] = "grow"
  BY Zenon, <1>1, <1>2 DEF HInv, TypedH
<1>4. ~HasFresh(t)' /\ Frees(t)' /\ ~Given(t)'
  BY Zenon, <1>1, <1>3 DEF HasFresh, HasVictim, Frees, Given
<1>5. HandsS(t)' /\ HeadersH(t)' /\ CallsH(t)'
  BY Zenon, <1>1, <1>2, <1>3, <1>4 DEF HInv, HandsS, InHand, HeadersH, CallsH, Marked, FreedSmall
<1>6. QED
  BY Zenon, <1>3, <1>5 DEF HInv

(* A call on another block takes headers away, and none of a small block.  *)
LEMMA NeighbourH ==
    ASSUME NEW t, Threads = {t}, HInv(t), NEW p \in Pointer, Neighbour(t, p)
    PROVE  HInv(t)'
<1>1. /\ state' \in [Pointer -> {"garbage", "allocated", "freed", "unmapped"}]
      /\ \A q \in Pointer : BlockOf(q) \in out => state'[q] = state[q]
      /\ \A q \in Pointer : tier[BlockOf(q)] = "Small" => state'[q] = state[q]
      /\ \A q \in Pointer : state'[q] = "allocated" => state[q] = "allocated"
      /\ UNCHANGED <<out, pc, op, fresh, victim, result, held, stale>>
  BY Zenon, NeighbourHeaders DEF HInv, TypedH
<1>2. TypedH(t)'
  BY Zenon, <1>1 DEF HInv, TypedH
<1>3. (HasFresh(t)' <=> HasFresh(t)) /\ (Frees(t)' <=> Frees(t)) /\ (Given(t)' <=> Given(t))
  BY Zenon, <1>1 DEF HasFresh, HasVictim, Frees, Given
<1>4. \A q : InHand(q) => InHand(q)'
  BY Zenon, <1>1 DEF InHand
<1>5. HandsS(t)'
  BY Zenon, <1>1, <1>3, <1>4 DEF HInv, HandsS, InHand
<1>6. HeadersH(t)'
  <2>1. \A q : Marked(q) => Marked(q)'
    BY Zenon, <1>1 DEF Marked
  <2>2. \A q \in Pointer : FreedSmall(q) => FreedSmall(q)'
    BY Zenon, <1>1, Raw DEF FreedSmall
  <2>3. stale \subseteq Pointer
    BY Zenon DEF HInv, TypedH
  <2>4. QED
    BY Zenon, <1>1, <1>3, <2>1, <2>2, <2>3 DEF HInv, HeadersH, Marked, FreedSmall
<1>7. CallsH(t)'
  BY Zenon, <1>1 DEF HInv, CallsH
<1>8. QED
  BY Zenon, <1>2, <1>5, <1>6, <1>7 DEF HInv

(* The inductive invariant of one thread without leak tracking, whether or *)
(* not it frees pointers twice.                                            *)
THEOREM HeaderInvariance ==
    ASSUME NEW t, Threads = {t}, ~enableLeakTracking
    PROVE  Spec => []HInv(t)
<1>1. Init => HInv(t)
  BY Zenon, InitH
<1>2. HInv(t) /\ [Next]_vars => HInv(t)'
  <2> SUFFICES ASSUME HInv(t), [Next]_vars PROVE HInv(t)'
    BY ZenonT(30)
  <2>1. CASE UNCHANGED vars
    BY <2>1 DEF vars, HInv, TypedH, HandsS, HeadersH, CallsH, Frees, Given, HasVictim, HasFresh,
               InHand, Marked, FreedSmall
  <2>2. CASE Next
    <3>1. step(t)
      BY Zenon, <2>2 DEF Next
    <3>2. pc[t] \notin {"track", "isTracked", "wasFreed", "untrack"}
      BY ZenonT(60) DEF HInv, TypedH
    <3>3. ~track(t) /\ ~trackThrows(t) /\ ~isTracked(t) /\ ~wasFreed(t) /\ ~untrack(t)
          /\ ~untrackThrows(t)
      BY ZenonT(60), <3>2 DEF track, trackThrows, isTracked, wasFreed, untrack, untrackThrows
    <3>4. QED
      BY ZenonT(30), <3>1, <3>3, RawAllocateH, RawAllocateFailsH, RecordH, GiveUpH, StaleFreeH, HeaderH,
         RawDeallocateH, RecordFreeH, AllocationSizeH, NeighbourH DEF step
  <2>3. QED
    BY Zenon, <2>1, <2>2
<1>3. QED
  BY <1>1, <1>2, PTL DEF Spec

(* HeadersRefuse: without the registry, whatever the medium heap has cut   *)
(* over the headers of a free block, a second free of it is refused; that  *)
(* of a small block by its plain pointer is reported as DoubleFree.        *)
THEOREM HeaderDoubleFreeCorrect ==
    ASSUME NEW t, Threads = {t}, ~enableLeakTracking
    PROVE  Spec => []HeadersRefuse
<1>1. HInv(t) => HeadersRefuse
  BY ZenonT(60) DEF HInv, CallsH, HeadersRefuse, DoubleFreed
<1>2. QED
  BY <1>1, HeaderInvariance, PTL

(* LegalCallsSucceed: a legal call is refused only for want of memory,     *)
(* whatever was freed twice before it.                                     *)
THEOREM HeaderCallsCorrect ==
    ASSUME NEW t, Threads = {t}, ~enableLeakTracking
    PROVE  Spec => []LegalCallsSucceed
<1>1. HInv(t) => LegalCallsSucceed
  BY ZenonT(60) DEF HInv, CallsH, LegalCallsSucceed
<1>2. QED
  BY <1>1, HeaderInvariance, PTL

(* TierContract: with one thread the registry stops a second free of any   *)
(* pointer, plain, guarded or aligned, before the tier.                    *)
THEOREM TrackedContract ==
    ASSUME NEW t, Threads = {t}, enableLeakTracking
    PROVE  Spec => TierContract
<1>1. SInv(t) /\ [Next]_vars => [GivesWhatIsOut]_vars
  <2> SUFFICES ASSUME SInv(t), pc[t] = "release" PROVE BlockOf(victim[t]) \in out
    BY Zenon DEF GivesWhatIsOut
  <2>1. Frees(t)
    BY DEF SInv, TypedS, Frees, HasVictim, Given
  <2>2. QED
    BY Zenon, <2>1 DEF SInv, HandsS, InHand
<1>2. QED
  BY <1>1, SingleInvariance, PTL DEF Spec, TierContract

(* TierContract: without the registry the header alone stops it.           *)
THEOREM HeaderContract ==
    ASSUME NEW t, Threads = {t}, ~enableLeakTracking
    PROVE  Spec => TierContract
<1>1. HInv(t) /\ [Next]_vars => [GivesWhatIsOut]_vars
  <2> SUFFICES ASSUME HInv(t), pc[t] = "release" PROVE BlockOf(victim[t]) \in out
    BY Zenon DEF GivesWhatIsOut
  <2>1. Frees(t)
    BY DEF HInv, TypedH, Frees, HasVictim, Given
  <2>2. QED
    BY Zenon, <2>1 DEF HInv, HandsS, InHand
<1>2. QED
  BY <1>1, HeaderInvariance, PTL DEF Spec, TierContract
=============================================================================
