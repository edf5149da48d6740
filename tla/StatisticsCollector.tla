------------------------ MODULE StatisticsCollector ------------------------
(***************************************************************************)
(* The counters of src/StatisticsCollector.hpp, one atomic access at a     *)
(* time.  Every access is memory_order_relaxed: a call's accesses to       *)
(* different counters take effect in any order, except that the load of    *)
(* liveRequested_ follows the call's own addition to it and the            *)
(* compare-exchange follows the two loads it compares.                     *)
(*                                                                         *)
(* The front end records an allocation before it returns the pointer, and  *)
(* a free after the tier has the block back, so another thread can be      *)
(* recording the same block's next allocation meanwhile.                   *)
(***************************************************************************)
EXTENDS Integers, Sequences, FiniteSets, Totals

CONSTANTS
    Threads,        \* the threads that allocate and free
    Readers,        \* the threads that take snapshots
    Blocks,
    requested,      \* block -> bytes asked for
    reserved,       \* block -> bytes its tier keeps for it
    Modulus,        \* 2^64 in the code
    MaxCalls,       \* bound for TLC on recorded allocations
    FirstSnapshot   \* bound for TLC: the allocations begun before a snapshot

(* Live bytes never reach 2^64, although each thread can be about to       *)
(* record the free of a block that was handed out again; totals may wrap   *)
(* around.                                                                 *)
ASSUME SizeAssumption ==
    /\ IsFiniteSet(Threads) /\ IsFiniteSet(Blocks) /\ Modulus \in Nat
    /\ requested \in [Blocks -> Nat] /\ reserved \in [Blocks -> Nat]
    /\ \A b \in Blocks : requested[b] <= reserved[b]
    /\ Cardinality(Blocks) + Cardinality(Threads) < Modulus
    /\ (Cardinality(Threads) + 1) * Total(reserved) < Modulus

Counter == {"allocationCount", "freeCount", "activeAllocations", "liveRequested",
            "liveReserved", "allocatedBytes", "freedBytes"}
Loads == <<"allocationCount", "freeCount", "activeAllocations", "liveRequested",
           "peakUsage", "allocatedBytes", "freedBytes", "liveReserved">>
Live == {"activeAllocations", "liveRequested", "liveReserved"}
Field == Counter \cup {"peakUsage"}
unseen == [f \in Field |-> 0]
none == "none"

VARIABLES
    counter,    \* the atomics but the peak
    peakUsage,
    pc,         \* thread -> the call it is in
    block,      \* thread -> the block that call is about
    todo,       \* thread -> the accesses of the call still to come
    seen,       \* thread -> the values its call has loaded
    held,       \* the blocks in callers' hands
    calls,      \* allocations recorded so far, without wrapping
    high,       \* the greatest value liveRequested has had
    quiet       \* the snapshots that have overlapped no allocation and no free

vars == <<counter, peakUsage, pc, block, todo, seen, held, calls, high, quiet>>

Init ==
    /\ counter = [c \in Counter |-> 0]
    /\ peakUsage = 0
    /\ pc = [t \in Threads \cup Readers |-> "idle"]
    /\ block = [t \in Threads \cup Readers |-> none]
    /\ todo = [t \in Threads \cup Readers |-> {}]
    /\ seen = [t \in Threads \cup Readers |-> unseen]
    /\ held = {} /\ calls = 0 /\ high = 0 /\ quiet = {}

Begin(t, name, b, accesses) ==
    /\ pc[t] = "idle"
    /\ pc' = [pc EXCEPT ![t] = name]
    /\ block' = [block EXCEPT ![t] = b]
    /\ todo' = [todo EXCEPT ![t] = accesses]

In(name) == {t \in Threads \cup Readers : pc[t] = name}

Done(t, access) == todo' = [todo EXCEPT ![t] = @ \ {access}]

-----------------------------------------------------------------------------
(* Mutation: the pointer is returned before the counters are told.         *)
recordAllocation_AfterReturn(t, b) ==
    /\ calls < MaxCalls /\ calls' = calls + 1
    /\ b \notin held /\ held' = held \cup {b}
    /\ Begin(t, "recordAllocation", b,
             {"allocationCount", "allocatedBytes", "current", "peak", "exchange"} \cup Live)
    /\ quiet' = {}
    /\ UNCHANGED <<counter, peakUsage, seen, high>>

(* A tier has handed out b, which no caller holds and no other thread is   *)
(* recording as allocated.                                                 *)
recordAllocation(t, b) ==
    /\ calls < MaxCalls /\ calls' = calls + 1
    /\ b \notin held
    /\ \A u \in Threads : pc[u] = "recordAllocation" => block[u] # b
    /\ Begin(t, "recordAllocation", b,
             {"allocationCount", "allocatedBytes", "current", "peak", "exchange"} \cup Live)
    /\ quiet' = {}
    /\ UNCHANGED <<counter, peakUsage, seen, held, high>>

(* Mutation: liveReserved is forgotten.                                    *)
recordFree_KeepsReserved(t, b) ==
    /\ b \in held /\ held' = held \ {b}
    /\ Begin(t, "recordFree", b, {"freeCount", "freedBytes"} \cup (Live \ {"liveReserved"}))
    /\ quiet' = {}
    /\ UNCHANGED <<counter, peakUsage, seen, calls, high>>

recordFree(t, b) ==
    /\ b \in held /\ held' = held \ {b}
    /\ Begin(t, "recordFree", b, {"freeCount", "freedBytes"} \cup Live)
    /\ quiet' = {}
    /\ UNCHANGED <<counter, peakUsage, seen, calls, high>>

(* What a call adds to a counter or, for a free, takes from a live one.    *)
Amount(c, b) ==
    CASE c \in {"allocationCount", "freeCount", "activeAllocations"} -> 1
      [] c = "liveReserved" -> reserved[b]
      [] OTHER -> requested[b]

(* fetch_add and fetch_sub, which wrap around.                             *)
fetch(t, c) ==
    /\ pc[t] \in {"recordAllocation", "recordFree"} /\ c \in todo[t]
    /\ LET sign == IF pc[t] = "recordFree" /\ c \in Live THEN -1 ELSE 1
       IN  counter' = [counter EXCEPT ![c] = (@ + sign * Amount(c, block[t])) % Modulus]
    /\ Done(t, c)
    /\ high' = IF counter'["liveRequested"] > high THEN counter'["liveRequested"] ELSE high
    /\ UNCHANGED <<peakUsage, pc, block, seen, held, calls, quiet>>

(* Mutation: liveRequested is loaded before the call's own addition.       *)
loadCurrent_Early(t) ==
    /\ "current" \in todo[t]
    /\ seen' = [seen EXCEPT ![t]["liveRequested"] = counter["liveRequested"]]
    /\ Done(t, "current")
    /\ UNCHANGED <<counter, peakUsage, pc, block, held, calls, high, quiet>>

(* The argument of updatePeak.                                             *)
loadCurrent(t) ==
    /\ "current" \in todo[t] /\ "liveRequested" \notin todo[t]
    /\ seen' = [seen EXCEPT ![t]["liveRequested"] = counter["liveRequested"]]
    /\ Done(t, "current")
    /\ UNCHANGED <<counter, peakUsage, pc, block, held, calls, high, quiet>>

(* updatePeak's load of the peak.                                          *)
loadPeak(t) ==
    /\ "peak" \in todo[t]
    /\ seen' = [seen EXCEPT ![t]["peakUsage"] = peakUsage]
    /\ Done(t, "peak")
    /\ UNCHANGED <<counter, peakUsage, pc, block, held, calls, high, quiet>>

(* Mutation: a failed exchange does not load the peak again.               *)
updatePeak_NoReload(t) ==
    LET current == seen[t]["liveRequested"]
        peak == seen[t]["peakUsage"]
    IN  /\ "exchange" \in todo[t] /\ {"current", "peak"} \cap todo[t] = {}
        /\ current > peak => peak = peakUsage
        /\ peakUsage' = IF current > peak THEN current ELSE peakUsage
        /\ Done(t, "exchange")
        /\ UNCHANGED <<counter, pc, block, seen, held, calls, high, quiet>>

(* One turn of the loop of updatePeak: it ends because the peak seen is no *)
(* smaller or the exchange succeeds, or the exchange fails and loads the   *)
(* peak again.  A spurious failure changes nothing.                        *)
updatePeak(t) ==
    LET current == seen[t]["liveRequested"]
        peak == seen[t]["peakUsage"]
        ends == current <= peak \/ peak = peakUsage
    IN  /\ "exchange" \in todo[t] /\ {"current", "peak"} \cap todo[t] = {}
        /\ peakUsage' = IF current > peak /\ ends THEN current ELSE peakUsage
        /\ IF ends
           THEN Done(t, "exchange") /\ UNCHANGED seen
           ELSE seen' = [seen EXCEPT ![t]["peakUsage"] = peakUsage] /\ UNCHANGED todo
        /\ UNCHANGED <<counter, pc, block, held, calls, high, quiet>>

(* The call returns; an allocation's caller has the pointer.               *)
return(t) ==
    /\ pc[t] # "idle" /\ todo[t] = {}
    /\ pc' = [pc EXCEPT ![t] = "idle"]
    /\ held' = IF pc[t] = "recordAllocation" THEN held \cup {block[t]} ELSE held
    /\ block' = [block EXCEPT ![t] = none]
    /\ seen' = [seen EXCEPT ![t] = unseen]
    /\ quiet' = quiet \ {t}
    /\ UNCHANGED <<counter, peakUsage, todo, calls, high>>

(* snapshot loads every field, in the order of Loads.                      *)
snapshot(t) ==
    /\ calls >= FirstSnapshot /\ Begin(t, "snapshot", none, Field)
    /\ quiet' = IF In("recordAllocation") \cup In("recordFree") = {} THEN quiet \cup {t} ELSE quiet
    /\ UNCHANGED <<counter, peakUsage, seen, held, calls, high>>

load(t) ==
    /\ pc[t] = "snapshot"
    /\ \E i \in DOMAIN Loads :
          LET f == Loads[i]
          IN  /\ f \in todo[t] /\ \A j \in 1 .. i - 1 : Loads[j] \notin todo[t]
              /\ seen' = [seen EXCEPT ![t][f] = IF f = "peakUsage" THEN peakUsage ELSE counter[f]]
              /\ Done(t, f)
    /\ UNCHANGED <<counter, peakUsage, pc, block, held, calls, high, quiet>>

-----------------------------------------------------------------------------
progress(t) ==
    \/ \E c \in Counter : fetch(t, c)
    \/ loadCurrent(t) \/ loadPeak(t) \/ updatePeak(t) \/ return(t)
    \/ load(t)

Next ==
    \/ \E t \in Threads, b \in Blocks : recordAllocation(t, b) \/ recordFree(t, b)
    \/ \E t \in Readers : snapshot(t)
    \/ \E t \in Threads \cup Readers : progress(t)

(* A thread inside a call keeps running, and compare_exchange_weak does    *)
(* not fail spuriously for ever.                                           *)
Spec == Init /\ [][Next]_vars /\ \A t \in Threads \cup Readers : WF_vars(progress(t))

-----------------------------------------------------------------------------
(* Properties                                                              *)

(* A live counter is at every moment what the callers hold, with the calls *)
(* in progress that have touched it: it loses no update and never drops    *)
(* below zero, because a free is recorded after its allocation.  With no   *)
(* call in progress the totals differ by what is live.                     *)
LiveExact ==
    /\ \A c \in Live :
          LET counted == {t \in In("recordAllocation") : c \notin todo[t]}
              pending == {t \in In("recordFree") : c \in todo[t]}
          IN  counter[c] = Total([b \in held |-> Amount(c, b)])
                           + Total([t \in counted \cup pending |-> Amount(c, block[t])])
    /\ In("recordAllocation") \cup In("recordFree") = {} =>
          /\ counter["activeAllocations"]
                 = (counter["allocationCount"] - counter["freeCount"]) % Modulus
          /\ counter["liveRequested"]
                 = (counter["allocatedBytes"] - counter["freedBytes"]) % Modulus

(* While no allocation is being recorded the peak is no less than what is  *)
(* live, however the loops of concurrent calls overlapped; and it never    *)
(* exceeds the most that was live at some moment.                          *)
PeakCovers ==
    /\ In("recordAllocation") = {} => peakUsage >= counter["liveRequested"]
    /\ peakUsage <= high

(* updatePeak's loop ends, and so does every call.                         *)
CallsEnd == \A t \in Threads \cup Readers : pc[t] # "idle" ~> pc[t] = "idle"

(* A snapshot that overlaps no recorded call reports what callers hold.    *)
QuietSnapshotExact ==
    \A t \in quiet :
        todo[t] = {} =>
            /\ seen[t]["activeAllocations"] = Cardinality(held)
            /\ seen[t]["liveRequested"] = Total([b \in held |-> requested[b]])
            /\ seen[t]["liveReserved"] = Total([b \in held |-> reserved[b]])
            /\ seen[t]["peakUsage"] >= seen[t]["liveRequested"]
=============================================================================
