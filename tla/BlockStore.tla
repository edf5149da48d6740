----------------------------- MODULE BlockStore -----------------------------
(***************************************************************************)
(* What every tier of the allocator promises its caller, and nothing of    *)
(* how it keeps the promise: a block that is handed out covers a range of  *)
(* addresses that no other handed-out block touches, it keeps its address  *)
(* and its extent until the caller gives it back, and only the caller's    *)
(* free takes it back.  PoolAllocator, SegmentHeap and LargeAllocator are  *)
(* each an implementation of it.                                           *)
(***************************************************************************)
EXTENDS Integers

CONSTANTS Addrs,    \* the addresses a block may start at
          Extents   \* the sizes in bytes a block may have

VARIABLE owned      \* the blocks in callers' hands: address -> extent

Disjoint(a, m, b, n) == a + m <= b \/ b + n <= a

Init == owned = [a \in {} |-> 0]

(* A tier hands out [a, a + n), clear of every block already handed out.   *)
Grant(a, n) ==
    /\ a \notin DOMAIN owned
    /\ \A b \in DOMAIN owned : Disjoint(a, n, b, owned[b])
    /\ owned' = [b \in DOMAIN owned \cup {a} |-> IF b = a THEN n ELSE owned[b]]

(* The caller gives the block at a back.                                   *)
Return(a) ==
    /\ a \in DOMAIN owned
    /\ owned' = [b \in DOMAIN owned \ {a} |-> owned[b]]

Next ==
    \/ \E a \in Addrs, n \in Extents : Grant(a, n)
    \/ \E a \in Addrs : Return(a)

Spec == Init /\ [][Next]_owned
=============================================================================
