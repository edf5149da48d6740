--------------------------- MODULE SizeClassTable ---------------------------
(***************************************************************************)
(* The size classes of the small tier (src/SizeClassTable.hpp): the loop   *)
(* that fills the lookup table, and the lookup itself.  A step is one turn *)
(* of the inner or of the outer loop.                                      *)
(***************************************************************************)
EXTENDS Integers

CONSTANTS
    kClassCount,    \* number of classes (30 in the code)
    kClassSizes,    \* class -> bytes
    kGranularity,   \* bytes per slot of the table (8 in the code)
    kSmallMax       \* the largest small request (4096 in the code)

Class == 0 .. (kClassCount - 1)

kLookupSize == kSmallMax \div kGranularity + 1
Slot == 0 .. (kLookupSize - 1)

ASSUME CountAssumption ==
    /\ kClassCount \in 1 .. 256 /\ kGranularity \in Nat \ {0} /\ kSmallMax \in Nat
    /\ \E k \in 0 .. kSmallMax : kSmallMax = k * kGranularity

(* What the literal in the code satisfies: increasing, whole slots, and    *)
(* the last class as large as the largest request.                         *)
ASSUME ClassSizesAssumption ==
    /\ kClassSizes \in [Class -> Nat]
    /\ \A i, j \in Class : i < j => kClassSizes[i] < kClassSizes[j]
    /\ \A i \in Class : \E k \in 0 .. kClassSizes[i] : kClassSizes[i] = k * kGranularity
    /\ kClassSizes[kClassCount - 1] >= kSmallMax

VARIABLES
    table,      \* slot -> class
    slot,       \* the slot the outer loop is at
    classIdx    \* the class the inner loop is at

tableVars == <<table, slot, classIdx>>

uint8(n) == n % 256

TableInit ==
    /\ table = [s \in Slot |-> 0]
    /\ slot = 0
    /\ classIdx = 0

tooSmall(i, size) == kClassSizes[i] < size

nextClass ==
    /\ slot < kLookupSize
    /\ tooSmall(classIdx, slot * kGranularity)
    /\ classIdx' = classIdx + 1
    /\ UNCHANGED <<table, slot>>

(* Mutation: the slot counter is not advanced.                             *)
fillSlot_Stuck ==
    /\ slot < kLookupSize
    /\ ~tooSmall(classIdx, slot * kGranularity)
    /\ table' = [table EXCEPT ![slot] = uint8(classIdx)]
    /\ UNCHANGED <<slot, classIdx>>

fillSlot ==
    /\ slot < kLookupSize
    /\ ~tooSmall(classIdx, slot * kGranularity)
    /\ table' = [table EXCEPT ![slot] = uint8(classIdx)]
    /\ slot' = slot + 1
    /\ UNCHANGED classIdx

TableNext == nextClass \/ fillSlot

(* The loop runs at compile time, to its end.                              *)
TableSpec == TableInit /\ [][TableNext]_tableVars /\ WF_tableVars(TableNext)

-----------------------------------------------------------------------------

(* Mutation: the size is rounded down to a slot.                           *)
classIndex_RoundsDown(size) == table[size \div kGranularity]

classIndex(size) == table[(size + kGranularity - 1) \div kGranularity]
classSize(index) == kClassSizes[index]

Built == slot = kLookupSize

(* The reference: the smallest class that holds n bytes.                   *)
Smallest(i, n) == /\ i \in Class /\ kClassSizes[i] >= n
                  /\ \A j \in Class : j < i => kClassSizes[j] < n

(* Neither loop reads or writes past the end of its array.                 *)
TableTypeOK ==
    /\ table \in [Slot -> Class]
    /\ slot \in 0 .. kLookupSize
    /\ classIdx \in Class

(* Every slot filled so far holds the smallest class for its size, though  *)
(* the inner loop never starts over from the first class.                  *)
SlotsExact == \A s \in Slot : s < slot => Smallest(table[s], s * kGranularity)

(* classIndex gives every small request the smallest class that holds it,  *)
(* reading inside the table.                                               *)
LookupRight == \A size \in 1 .. kSmallMax : Smallest(classIndex(size), size)

(* The step of the loop that completes the table leaves one in which every *)
(* small request finds the smallest class that holds it; nothing writes to *)
(* it later.                                                               *)
LookupExact == [][~Built /\ Built' => LookupRight']_tableVars

(* The table is finished.                                                  *)
Finishes == <>Built
=============================================================================
