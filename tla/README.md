# A TLA+ model of m-alloc

m-alloc is a memory allocator in C++23. A request goes through the front end
(`AllocatorImpl`) to one of three tiers by size: fixed size classes carved out
of runs, with per-thread caches (small), a boundary-tag heap in 4 MiB segments
(medium), or a mapping of its own (large). This directory holds TLA+ modules of
those parts, TLC configurations that check them on small instances, and proofs
checked by TLAPS.

Run a configuration with `tlc -config <file>.cfg <module>`, check a proof
module with `tlapm <module>.tla`. `PROJECT.json` lists the runs, the mutations
each property is tested against, the source lines each definition models, the
hazards of the code and the theorems.

## The system

| Part | State | Operations that change it | Interacts with |
|---|---|---|---|
| `SegmentHeap` | headers in the segments, `bins_`, `segments_`, one mutex | `allocate`, `deallocate` (reads: `payloadCapacity`, `externalFragmentation`) | OS, front end |
| `PoolAllocator`, `FreeList` | per class: mutex, free list, bump cursor, runs | `allocateBlock`, `freeBlock`, `allocateBatch`, `freeBatch` | OS, caches, front end |
| `ThreadCache` | per thread and class: an array of blocks and a count | `allocateBlock`, `freeBlock`, destructor | pool, thread exit, lifetime of `CentralState` |
| `LargeAllocator` | registry payload -> mapping, one mutex | `allocate`, `deallocate` | OS, front end |
| `SizeClassTable` | lookup table built at compile time | the building loop | pool, front end |
| `AllocatorImpl` | headers in front of user pointers, thread-local caches | `allocate`, `alignedAllocate`, `deallocate`, `reallocate` | everything |
| `DebugLayer` | `live_`, `freed_`, one mutex; guard and poison bytes | `track`, `untrack`, `applyGuards` | front end |
| `StatisticsCollector` | eight relaxed atomics | `recordAllocation`, `recordFree` | front end |
| `CentralState` | owner of tiers, statistics and configuration | construction, destruction through `shared_ptr` | caches hold a `weak_ptr` |
| `SystemMemory`, `MappedRegion` | mappings | `map`, `unmap`, move | tiers |
| `Allocator`, `StlAllocator`, `MemoryResource` | an owning or a plain pointer | forward | front end |

What is hard here and hardly reached by the tests:

- the boundary tags are redundant data in several headers, kept right only by
  the order of stores in split and merge; a wrong tag shows many calls later;
- a block changes owner between tier, cache, thread and caller without any
  common lock, and is freed by another thread than the one that allocated it;
- the front end runs between the critical sections of the parts it calls: a
  registry or a header can belong to someone else by the time it is written;
- the OS refuses memory in the middle of an operation;
- the free lists live in the freed memory, next to the state field that is
  meant to reveal a double free.

## Modules

| Module | Models |
|---|---|
| `BlockStore` | abstract: what every tier promises (a granted range is disjoint from all others and stays as it is until it is returned) |
| `SegmentHeap` | the medium tier |
| `PoolAllocator` | the shards of the small tier: state, and what each operation does to a shard under its mutex |
| `ThreadCache` | threads with caches over those shards; extends `PoolAllocator` |
| `SystemMemory` | mappings, rounding to pages, the region a `MappedRegion` owns |
| `LargeAllocator` | the large tier over `SystemMemory` |
| `AllocatorImpl` | the front end with `DebugLayer`'s registry and the block headers, over abstract tiers |
| `BlockLayout` | where the front end puts headers, guards and user bytes, with its size arithmetic |
| `StatisticsCollector` | the counters, one relaxed atomic access at a time |
| `Allocator` | lifetimes: movable `Allocator` objects, `CentralState`, thread-local caches |
| `NodeLists`, `FreeNodes` | abstract lists, and the linked nodes inside free blocks that implement them |
| `SizeClassTable` | the table-building loop and the lookup |
| `Totals` | sums over a function, as `SegmentHeap` and `StatisticsCollector` need them |
| `MC...` | values for TLC |
| `SegmentHeapSteps`, `SegmentHeapProofs` | proofs about `SegmentHeap` |
| `ThreadCacheProofs`, `AllocatorProofs`, `BlockLayoutProofs` | proofs about the module of that name |
| `StatisticsProofs` | proofs about `StatisticsCollector` |
| `AllocatorImplProofs` | proofs about `AllocatorImpl`: any number of threads and callers that keep to the contract; one thread that may free twice |
| `TierProofs` | proofs about `SizeClassTable` and `LargeAllocator` |

Operators ending in `_Something` under a comment "Mutation" are broken variants
of the definition they stand before. They are used by no specification; each
property is shown to fail when one of them takes the definition's place.

How the parts fit together. The front end is modelled over abstract tiers: a
tier hands out a block it has not handed out, and takes it back. That this is
what the tiers do is the refinement of `BlockStore` by `SegmentHeap`,
`ThreadCache` and `LargeAllocator` (`StoreSpec`). They in turn assume that a
caller gives back only what it was given, once; that this is what the front end
does is `TierContract`. Both sides are proved, so the composition is an
argument over two theorems and needs no product of the state spaces. In the same
way `SegmentHeap` and `PoolAllocator` use sequences for free lists, and
`FreeNodes` shows that the nodes in memory behave as such.

### SegmentHeap

`hdr` maps the address of each current block to its `MediumBlock` (size,
prevSize and the three flags as a record); what is left of a header inside a
merged or allocated block is payload and not in `hdr`. `bins` has each bin as
the sequence of its nodes; `segments` the bases of the mapped segments; `live`
the blocks in callers' hands with the bytes asked for. The private helpers
(`insertFree`, `removeFree`, `findFit`, `splitBlock`, `addSegment`,
`releaseSegment`) are operators from heap to heap, composed by `allocate` and
`deallocate` in the order of the code. Each public operation holds `mutex_` from
its first access to its last, so each is one action. The OS chooses the address
of a new segment or refuses; two segments may touch.

### PoolAllocator and ThreadCache

A shard is a record of mutex, free list, cursor, end and runs. `takeBlock` gives
the set of outcomes: a popped block, a bumped block, or, where a run is needed,
one for each mapping the OS may return and one for its refusal. A thread works
on its cache without a lock; a refill takes the shard's mutex (`allocateMiss`),
moves one block per step (`batchTake`) and ends when the batch is full or the OS
refuses (`batchEnd`). A thread without a cache uses the shard directly: caching
is off, or `threadCache()` fell back. `exit` starts the destructor, which
flushes class after class.

### LargeAllocator and SystemMemory

`allocate` maps before it takes the mutex, so the mapping and the registration
are two steps, with the region in a local variable between them; `deallocate`
erases the entry, whose destructor unmaps, under the mutex. The front end's
reads of `payloadCapacity` are steps of their own. The system may give an
address out again in the next step.

### AllocatorImpl

A pointer is a block and an offset; each has a header state. The tiers are
abstract (`out`, the blocks handed out). A step is one critical section with the
accesses to memory that is the thread's own: `rawAllocate` (tier and headers),
`recordAllocation`, `track`; then `isTracked`, `wasFreed`, `header`,
`rawDeallocate`, `recordFree`, `untrack`; `reallocate` runs `allocationSize`, an
allocation and a free. `trackThrows` and `untrackThrows` are insertions that run
out of memory, which the code swallows. `headersAfter` says what a tier's free
list leaves of the headers, and `Neighbour` what later calls on other medium
blocks do to those of a free one: they merge the memory, cut it anew or unmap it.
Callers respect the contract, and with `callersDoubleFree` also free a pointer
twice while its block is in the tier.

### BlockLayout

One block from allocation to free in each of the four configurations of guards
and poisoning. Memory is reduced to the bytes that hold the guard pattern and
the headers nobody wrote over; every store goes through `Write`. `Overrun` is a
caller that changes one of the 32 bytes on either side of a guarded allocation,
the 16 of the shim header included: `brokenShim` says which fields may read
differently then, with `Junk` for the numbers, and `deallocate` follows what the
code makes of them. Arithmetic is modulo `SizeModulus`, and `BlockHeader::offset`
modulo `OffsetModulus`.

### StatisticsCollector

Each call is a set of atomic accesses still to come. Relaxed accesses to
different counters take effect in any order; the load in `updatePeak` follows
the call's own addition, and a failed compare-exchange loads again. A free is
recorded after the tier has the block, so the next allocation of the same block
may be recorded first. The loads of `snapshot` are taken in program order. Relaxed
loads may also take effect in another one, which matters only for a snapshot that
overlaps a call, and of those no property speaks.

### Allocator

An object owns a heap (an `AllocatorImpl` with its `CentralState`) or none;
`owners` are the holders of a `shared_ptr` to the `CentralState`. `tlsCaches` is
the thread-local map, keyed by address; `make_shared` may put a `CentralState`
at any address no live one has and no remaining `weak_ptr` keeps allocated. The
destructor of a cache is `lock`, `flush` and `unlock`, and an allocator may be
destroyed between any two of them.

### FreeNodes and SizeClassTable

`FreeNodes` has the words of the nodes as functions from blocks, overwritten
with junk while a caller has the block. `SizeClassTable` is one step per turn of
either loop, with the code's 30 classes.

## Runs

| Run | Bounds | Shows |
|---|---|---|
| `heap` | two touching segments of 192 bytes, 3 bins, requests of 30, 40, 90 and 200 bytes | tags, bins, first fit, coalescing, residency and byte accounting in every order of calls; implements `BlockStore`; 23,694 states |
| `cache` | 2 classes, two runs of 72 bytes, 2 threads, capacity 3, batch 2 | no block shared or lost, caches within bounds, no early refill, batches end; implements `BlockStore`; 79,912 states |
| `tiers` | the code's class table; 3 threads, 3 pages, requests of one and two pages | lookup exact, the loop finishes; every mapping has one owner, every block in use is registered, frees give back what was reserved; implements `BlockStore`; 121,190 states |
| `front` | 2 threads, a medium and a large block, no tracking | no legal call refused, nothing leaked, the statistics exact, the tiers' contract kept; 602,300 states |
| `front_tracked` | 1 thread, a small and a medium block, guards, tracking, double frees, insertions that throw | registry exact, double frees reported whatever became of the headers; 77,363 states |
| `front_race` | 2 threads, tracking | violation: see Findings |
| `front_shim` | 1 thread, double frees | violation: see Findings |
| `layout` | sizes up to and beyond a limit of 64, alignments up to and beyond 64, eight addresses, moduli 512 and 128 | headers, guards and user bytes fit and never overlap, `HeapCorruption` exactly for a changed guard; 65,792 states |
| `layout_zones` | the same, without `Junk` | violation: see Findings |
| `stats` | 2 threads of which one takes snapshots, 2 blocks, 2 recorded allocations, modulus 16 | no update lost, the peak covers what is live, an undisturbed snapshot is exact, every call ends; 366,896 states |
| `lifetime` | 2 objects, 2 heaps of 2 blocks, 2 addresses, 2 threads | caches match their heaps, no flush into a destroyed heap, no block lost, no dead heap kept; 432,264 states |
| `nodes` | 3 blocks, 2 bins and a `FreeList` | the links, both ways, and `size_` agree with the lists; implements `NodeLists` |

Why the bounds are enough. A segment of 192 bytes is four smallest blocks: a
block can have free and allocated neighbours on either side, be first, last,
both or neither, leave a remainder of exactly 48 bytes, less and more. Two
segments that touch make a merge across their border possible in principle and
the release of a segment happen. With three bins blocks of different sizes share
a bin, and the last bin is open-ended. Capacity 3 with batch 2 makes a spill
keep one slot and return two; runs of 72 bytes with strides of 32 and 48 leave a
tail, and are used up in the middle of a batch. Two threads are every party to
the races of the front end; in `tiers` a third is between mapping and
registering while two others free and map the same address. In `layout` the
limits, the addresses and the moduli keep the proportions of the code: a request
at the limit with the largest alignment stays below the modulus, an array of 65
elements of 8 bytes goes beyond it; `Junk` has offsets and sizes below, at and above
the true ones. `MaxCalls` bounds the allocations recorded
in `stats`, because totals never come back; two calls with the frees between
them make every pair of accesses race. `FirstSnapshot` starts snapshots after
the second allocation has begun, where there is something to tear; earlier ones
see counters only one call has touched. With two heaps and two addresses in
`lifetime`, the second can be given the address of the first, once free.
Most of the bounds matter less where a theorem covers the property; see Proofs.

Deadlock is checked in every run but two: the calls of `stats` are used up, and in
`lifetime` all heaps may be gone and all threads have exited. `tiers` runs the
table's loop and then the large tier, because the one is compiled in before the
other is called.

Fairness. `ThreadCache` assumes weak fairness of each thread's steps inside
`allocateBatch`: it holds the mutex, waits for nothing and calls nothing that
blocks. `StatisticsCollector` assumes that a thread inside a call goes on;
nothing there blocks, and the retry loop of `updatePeak` ends because only a
higher peak makes it retry. `Allocator` assumes that a thread that has begun to
exit finishes destroying its thread-local caches. `SizeClassTable` assumes its
loop runs, at compile time. No fairness is assumed of callers, or of a thread
waiting for a mutex.

## Findings

Three of them are runs in which TLC finds a violation.

- `front_race`: `deallocate` gives the block back before it calls `untrack`
  (`AllocatorImpl.cpp:126`). A thread that gets the same address in between
  loses its registration, and its own free is refused. `docs/allocator.md:78`
  promises that all methods may be called concurrently. This is why the
  registry's theorems below are about one thread.
- `front_shim`: the free node of a medium block overwrites the shim header of an
  aligned allocation whose offset is 16, against `docs/memory-layout.md:45`. This
  is why `DoubleFreeReported` asks for the registry.
- `layout_zones`: the 16 bytes directly in front of a guarded pointer are the shim
  header (`DebugLayer.hpp:28`), which `verifyGuards` does not read.
  `docs/debugging.md:27` says that any changed byte of the 32-byte zones is
  reported as `HeapCorruption` and the block still released. A changed tier or
  state is reported as `InvalidPointer` and the block kept; a changed offset leads
  to a wrong raw pointer. This is why `GuardsExact` speaks of an undamaged shim.

Others were met while modelling and have no run of their own:

- `track` erases the tombstone of a reused address (`DebugLayer.hpp:67`), so
  detection is not exact "even after the block memory is reused"
  (`docs/debugging.md:38`).
- An insertion that throws in `track` leaves a live allocation unregistered
  (`DebugLayer.hpp:68`): with leak tracking its free is then refused
  (`docs/debugging.md:46` has the registry complete). `RegistryExact` says what
  is left.
- Internal fragmentation of the class table (`SizeClassTable.hpp:17`) exceeds the
  "roughly 12 percent worst case" of `docs/architecture.md:43`: a request of 33
  bytes gets 48.
- `snapshot` loads eight counters one by one (`StatisticsCollector.hpp:29`), so it
  is a "consistent snapshot" (`docs/allocator.md:40`) only if no call overlaps
  it; `QuietSnapshotExact` is stated so.
- `enableDoubleFreeDetection` (`Config.hpp:15`, `docs/allocator.md:61`) is never
  read.

## Proofs

Every safety property of the eight modules below is proved but for the ones
listed under "Only model-checked". The proofs hold for every value of the constants
that satisfies the module's `ASSUME`s, which TLC evaluates in the runs.

| Module | Proved of it | From |
|---|---|---|
| `SegmentHeap` | `TypeOK`, blocks disjoint, `BoundaryTags`, `Coalesced`, `BinsExact`, `FitComplete`, `LiveServed`, `ResidentBound`, `FragmentationExact`, the drained heap, stable capacities, the resident segment, `StoreSpec` | segments a multiple of 16 and at least 48, finitely many disjoint mappings, positive requests |
| `ThreadCache` | `TypeOK`, `ExclusiveBlocks`, `NoBlockLost`, `CacheBound`, `NoEarlyRefill`, `StoreSpec` | strides of at most a run, disjoint runs, 0 < batch <= capacity |
| `LargeAllocator` | `TypeOK`, `MappingsOwned`, `OwnedRegistered`, `ReservedMatches`, `StoreSpec` | a positive page size, requests with room for a header |
| `AllocatorImpl` | `TypeOK`, `HeldExclusively`, `TierContract`; without leak tracking `LegalCallsSucceed`, `NothingLeaks`, `ActiveExact` | callers that free a block once; any threads, blocks, tiers and offsets |
| `AllocatorImpl` | `RegistryExact`, `DoubleFreeReported`, `LegalCallsSucceed`, `TierContract` | leak tracking and one thread, which may free pointers twice |
| `AllocatorImpl` | `HeadersRefuse`, `LegalCallsSucceed`, `TierContract` | no leak tracking and one thread, which may free pointers twice |
| `BlockLayout` | `LayoutSound`, `HeadersIntact`, `GuardsExact` | the limits of requests and alignments leave room below the width of `size_t` and of the offset field; the tiers' blocks start on a multiple of 16 behind a header |
| `StatisticsCollector` | `LiveExact`, `PeakCovers`, `QuietSnapshotExact` | finitely many threads and blocks; the reserved bytes of all blocks, once for each thread and once more, stay below the modulus |
| `Allocator` | `CachesMatch`, `NoUseAfterDestroy`, `BlocksConserved` | distinct names |
| `SizeClassTable` | `TableTypeOK`, every slot exact, `LookupExact` | an increasing table of whole slots whose last class covers the largest request |

### SegmentHeap

`IInv` is `Sound`, `Serves` and `Resident`. `Sound` says of a heap and a set of
segments that the blocks tile the segments (`Tiles`), that every block is
recorded in its right neighbour's prevSize (`Linked`), that no two neighbours
are free (`NoFreePair`) and that the bins index the free blocks (`Indexed`).
None of the properties is inductive alone: a merge is right only because the
tags are, the tags stay right only because the blocks tile the segment, and
`removeFree` finds the bin only because the index is by current size. Two
additions are not visible in the properties: `LeftOf`, that a block that is not
first has a left neighbour at all, and the alignment of block addresses.

The predicates take headers and segments as parameters, because inside
`deallocate` they hold only in part: after the stores of a merge `Linked` holds
except at one block, and a block in transit is neither free nor in a bin.
`SegmentHeapSteps` shows what each helper does to the tiling and the links, what
it does to the bins, that `findFit` misses nothing (`binIndex` is monotone), and
what the compound steps do to both; `SegmentHeapProofs` does one case per action
and derives the properties.

`FragmentationExact` compares sums over the blocks. `Total` writes a sum as the
number of pairs of a block and a unit of its size, so that no induction is
needed. The blocks cover the segments byte by byte (`Covered`: the last block
that starts at or before a byte has it) and share no byte (`OneBlock`), so the
units of any set of blocks correspond one to one to its bytes (`TotalBytes`).
The free and the allocated ones then add up to the segments, and the largest
free block has all the free bytes exactly when there is no other.

`bit_width` is defined for sizes below 2^31, far above the 4 MiB of a segment.

### ThreadCache

`IInv` is `TypeOK`, `CacheBound`, and: every block of a run is in exactly one of
the free list, the unused part of the run, a thread's cache, a batch in progress
and callers' hands (`Places`, class by class); the runs of the classes are apart
(`RunsOfOneClass`); a shard is locked exactly while one thread is in a batch on
it (`Locks`); a thread that exits has emptied the caches behind it (`Emptied`).
The sequences of a cache and a free list are reasoned about as piles: sequences
without repetition, with their set of members; the lemmas on piles come first.

### LargeAllocator

`IInv` says that mappings are apart, that a registered region is the mapping
below its key, that the local region of a thread between `mmap` and registration
is registered by nobody, that every mapping is one or the other, that a payload
is in one pair of hands, and that a caller's block is registered with the
capacity it was told. The point is `Local`: the address of a region that has not
been registered yet cannot still be in the registry, because the entry is erased
in the step that unmaps.

### AllocatorImpl

For any number of threads, `IInv` says who has each block. `HasVictim` and
`HasFresh` tell from the place of a call whether the pointer it frees, or the
one it has allocated, is in its hands; `Hands` says that what is in a hand is
out of its tier with a header that says allocated; `Apart` that no block is in
two hands; `Kept` that without the registry every block that is out is in one.
The count of the statistics is `Counted`: `active` is the number of blocks that
are out, less the calls between the tier and `recordAllocation`, plus the calls
between the tier and `recordFree`.

For one thread under leak tracking, `SInv` follows the registry through a call.
`LiveS` says that `live_` has only pointers that are owned or on their way out;
`ExactS`, until an insertion throws, that it has all of them and that every
pointer ever freed has a tombstone or is live again. A second free finds the
pointer not live, because what is live is out of its tier, and hence finds the
tombstone. With two threads `LiveS` fails at `untrack`, which is the finding
`front_race`.

For one thread without leak tracking only the headers are left, and `HInv` says
what they hold. While a block is out, no header in it says allocated but that of
the pointer in use and the raw one at its start (`Marked`). Once it is back with
its tier none does, whatever `Neighbour` writes there, and the raw one of a small
block says freed (`HeadersH`). A second free therefore never gets past the header
check (`HeaderContract`). It is reported as `DoubleFree` if the pointer is the
plain one of a small block; any other may find overwritten bytes instead and be
refused as `InvalidPointer` (`HeadersRefuse`).

### BlockLayout

`IInv` says that the block a caller holds is laid out in one of three ways
(`Plain`, `Fenced`, `Shimmed`), with the user pointer and the bytes asked of the
tier that belong to it, and what the caller's damage has left of the headers and
the guard pattern (`Marks`): the headers are as written until a byte of the shim
is changed. The arithmetic is that of the code: a sum that stays
below the modulus does not wrap around, a power of two above 16 is a multiple of
16, and rounding the end of the header up to the alignment stays within the bytes
the code adds for it. The alignment is a variable, so that these steps are
nonlinear; each is a lemma over named factors.

### StatisticsCollector

A call's accesses take effect in any order, so what a counter holds is stated by
who has still to touch it. `Exact` says that a live counter is what callers hold
plus the blocks of the calls that have added and of those that have not yet taken
away (`due`). `Balanced` says that the totals differ by what is live, but for
whole turns of the modulus and the calls in progress. `Peaks` says why the peak
may be too low meanwhile: some allocation has added and not loaded yet, or has
loaded as much as is live and not exchanged yet, and will raise it (`WillRaise`).
`Undisturbed` says that what a quiet snapshot has loaded is still what the
counters hold. That no live counter wraps around needs the assumption on sizes:
a thread that has freed a block and not recorded it yet still has its bytes in the
counter, while another caller may already have the block again.

### Allocator

`IInv` says that a heap is owned by one object (`Owning`), that a cache lies
under the address of its own `CentralState` and has only its blocks (`Keyed`),
that no two heaps that are alive or still cached share an address (`Unshared`),
that a thread has a `shared_ptr` exactly while it destroys a cache (`Handles`),
that a heap that is gone has nothing left (`Ends`) and that the blocks of one
that has an object are in one place each (`Conserved`). `Unshared` is what makes
the thread-local map safe: `make_shared` puts the `CentralState` next to its
reference counts, so a `weak_ptr` in a cache keeps the address from being reused.

### SizeClassTable

The strengthening (`Passed`) is that every class before the inner loop's is too
small for the current slot; it is why the loop never has to start over.

### Only model-checked

- `BatchEnds`, `CallsEnd`, `Reclaimed`, `Finishes`: liveness under fairness.
- `LinksAgree` and `ListSpec` of `FreeNodes`: the list a chain of links stands
  for is defined by recursion along the chain, and what such a definition computes
  needs an induction over data the provers do not have.
- `RegistryExact` and `LegalCallsSucceed` with leak tracking and several threads
  are false (`front_race`).

The other way round, the theorems on double frees without leak tracking
(`HeaderDoubleFreeCorrect`, `HeaderCallsCorrect`, `HeaderContract`) have no run of
their own: `front` has no double frees and `front_tracked` has the registry.

## Not modelled

- The error handler, `abortOnError` and the leak report of the destructor.
- A `push_back` or `emplace` that throws in `addSegment`, `refill` or the large
  tier's registry, inside functions that are `noexcept`: it ends the process.
- The queries of the facade that only forward.
- Memory orders other than those of the statistics: everything else that is
  shared is under a mutex.
- A stale pointer whose memory is now inside a differently cut medium block that
  somebody holds, and frees of a pointer somebody else has been given meanwhile:
  in `AllocatorImpl` a block keeps its extent, and only the headers of a free one
  are written over from outside.

## Plan

1. `FreeNodes` with the lists as ghost state, so that the links can be compared
   with them without recursion.
