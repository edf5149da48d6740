---------------------------- MODULE SystemMemory ----------------------------
(***************************************************************************)
(* The operating system's mappings (src/SystemMemory.cpp) and the objects  *)
(* that own them (MappedRegion of src/SystemMemory.hpp).  A region is its  *)
(* span, an address and a size; the default-constructed span is empty.     *)
(***************************************************************************)
EXTENDS Integers

CONSTANTS
    page,       \* pageSize()
    Pages       \* number of pages in the address space

ASSUME PageAssumption == page \in Nat \ {0} /\ Pages \in Nat

VARIABLE mapped     \* the mappings that exist: address -> size

empty == [data |-> 0, size |-> 0]
valid(region) == region.size # 0

roundToPages(size) == ((size + page - 1) \div page) * page

Apart(a, m, b, n) == a + m <= b \/ b + n <= a

(* The spans map may return: any free range of whole pages, or none.       *)
map(size) ==
    LET rounded == roundToPages(size)
        places == {a \in {page * i : i \in 1 .. Pages} : a + rounded <= page * (Pages + 1)}
        free == {a \in places : \A b \in DOMAIN mapped : Apart(a, rounded, b, mapped[b])}
    IN  {empty} \cup {[data |-> a, size |-> rounded] : a \in IF size = 0 THEN {} ELSE free}

(* The constructor MappedRegion(size), for the span map returned.          *)
construct(region) ==
    mapped' = [a \in DOMAIN mapped \cup (IF valid(region) THEN {region.data} ELSE {}) |->
                  IF valid(region) /\ a = region.data THEN region.size ELSE mapped[a]]

(* reset, the destructor, of a set of regions: munmap takes their pages.   *)
reset(regions) ==
    mapped' = [a \in DOMAIN mapped \ {r.data : r \in regions} |-> mapped[a]]
=============================================================================
