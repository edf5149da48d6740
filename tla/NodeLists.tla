----------------------------- MODULE NodeLists -----------------------------
(* What a set of intrusive free lists promises: each list is a sequence of *)
(* blocks, a block enters at the front of one list while it is on none,    *)
(* and leaves from wherever it is.                                         *)
EXTENDS Sequences, SequencesExt

CONSTANTS Lists, Blocks

VARIABLE list       \* list -> the blocks on it

Init == list = [i \in Lists |-> <<>>]

Enter(i, b) ==
    /\ \A j \in Lists : b \notin ToSet(list[j])
    /\ list' = [list EXCEPT ![i] = Cons(b, @)]

Leave(i, k) == list' = [list EXCEPT ![i] = RemoveAt(@, k)]

(* The first n blocks of a list leave together.                            *)
Take(i, n) == list' = [list EXCEPT ![i] = SubSeq(@, n + 1, Len(@))]

Next ==
    \/ \E i \in Lists, b \in Blocks : Enter(i, b)
    \/ \E i \in Lists : \E k \in DOMAIN list[i] : Leave(i, k) \/ Take(i, k)

Spec == Init /\ [][Next]_list
=============================================================================
