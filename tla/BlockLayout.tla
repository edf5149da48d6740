---------------------------- MODULE BlockLayout ----------------------------
(***************************************************************************)
(* Where the front end puts things in a block: the raw header, a shim      *)
(* header, guards and the user's bytes (src/AllocatorImpl.cpp,             *)
(* src/DebugLayer.hpp, src/BlockHeader.hpp), with the size arithmetic of   *)
(* allocate, alignedAllocate and the adapters in front of them.            *)
(*                                                                         *)
(* Memory is what the properties tell apart: the bytes that hold the guard *)
(* pattern, and the headers none of whose bytes were written over.  Every  *)
(* store goes through Write, so that one part of a block written over      *)
(* another shows.  One block is followed from allocation to free.          *)
(***************************************************************************)
EXTENDS Integers, FiniteSets

CONSTANTS
    SizeModulus,        \* 2^64 in the code
    OffsetModulus,      \* 2^32, the width of BlockHeader::offset
    kMaxRequest,        \* 2^46 in the code
    kMaxAlignment,      \* 2^30 in the code
    Sizes,              \* the sizes callers ask for
    Alignments,         \* the alignments callers ask for
    Counts,             \* the array lengths containers ask for
    Addresses,          \* where a tier may put the payload of a block
    Slack,              \* by how much a tier may exceed what it was asked for
    Junk                \* what a changed byte may make of a number in a header

kHeaderSize == 16
kDefaultAlignment == 16
kFrontGuardSize == 32
kRearGuardSize == 32

ASSUME WidthAssumption ==
    /\ {SizeModulus, OffsetModulus, kMaxRequest, kMaxAlignment} \subseteq Nat
    /\ kMaxAlignment < OffsetModulus
    /\ kMaxRequest + kMaxAlignment + kFrontGuardSize + kRearGuardSize < SizeModulus
    /\ \A a \in Addresses : a + kMaxRequest + 2 * kMaxAlignment < SizeModulus

(* The tiers' blocks start on a multiple of the default alignment, behind  *)
(* a header of their own, and exceed the request by some bytes or none.    *)
ASSUME TierAssumption ==
    /\ \A a \in Addresses : a \in Nat /\ a >= kHeaderSize /\ a % kDefaultAlignment = 0
    /\ Slack \subseteq Nat /\ Sizes \cup Counts \subseteq Nat /\ Alignments \subseteq Nat

VARIABLES
    config,     \* the configuration the allocator was built with
    pattern,    \* the bytes that hold kGuardPattern
    headers,    \* user pointer -> the BlockHeader in front of it
    raw,        \* the block: address and bytes of its payload, bytes asked of its tier
    user,       \* the caller's pointer
    asked,      \* what allocate or alignedAllocate was asked for: alignment and size
    wanted,     \* the bytes its caller needs
    damaged,    \* bytes around its own the caller has changed
    pc,
    reported,   \* the errors the last call reported
    released    \* what the free gave back to a tier

vars == <<config, pattern, headers, raw, user, asked, wanted, damaged, pc, reported, released>>

nullptr == 0

Bytes(from, count) == from .. (from + count - 1)
HeaderBytes(p) == Bytes(p - kHeaderSize, kHeaderSize)

memory == [pattern |-> pattern, headers |-> headers]
Becomes(m) == pattern' = m.pattern /\ headers' = m.headers

(* A store to some bytes.                                                  *)
Write(m, bytes) ==
    [pattern |-> m.pattern \ bytes,
     headers |-> [p \in {q \in DOMAIN m.headers : HeaderBytes(q) \cap bytes = {}} |-> m.headers[p]]]

writePattern(m, bytes) == [Write(m, bytes) EXCEPT !.pattern = @ \cup bytes]

writeHeader(m, p, header) ==
    LET w == Write(m, HeaderBytes(p))
    IN  [w EXCEPT !.headers = [q \in DOMAIN w.headers \cup {p} |->
                                  IF q = p THEN header ELSE w.headers[q]]]

Init ==
    /\ config \in [enableGuardBytes : BOOLEAN, enablePoisoning : BOOLEAN]
    /\ pattern = {} /\ headers = [p \in {} |-> 0]
    /\ raw = [address |-> 0, bytes |-> 0, asked |-> 0]
    /\ user = 0 /\ asked = [alignment |-> 1, size |-> 0] /\ wanted = 0
    /\ damaged = {} /\ pc = "idle" /\ reported = {} /\ released = nullptr

-----------------------------------------------------------------------------
(* Size arithmetic                                                         *)

isPowerOfTwo(n) == n # 0 /\ \E k \in 0 .. 30 : n = 2^k
alignUp(value, alignment) == ((value + alignment - 1) \div alignment) * alignment
atLeastOne(size) == IF size = 0 THEN 1 ELSE size
guardedSize(requested) == (requested + kFrontGuardSize + kRearGuardSize) % SizeModulus

-----------------------------------------------------------------------------
(* DebugLayer                                                              *)

FrontGuard(p) == Bytes(p - kFrontGuardSize, kFrontGuardSize - kHeaderSize)
RearGuard(p, requested) == Bytes(p + requested, kRearGuardSize)

applyGuards(m, p, requested) ==
    writeHeader(writePattern(writePattern(m, FrontGuard(p)), RearGuard(p, requested)),
                p, [payloadSize |-> requested, tier |-> "DebugShim", state |-> "allocated",
                    offset |-> kFrontGuardSize])

(* The caller's pointer into the block of a plain allocation.              *)
userOf(r) == IF config.enableGuardBytes THEN r.address + kFrontGuardSize ELSE r.address

(* The answers verifyGuards may give: behind a size that is not the        *)
(* block's it reads bytes that may or may not look like the pattern.       *)
verifyGuards(p, requested) ==
    LET read == FrontGuard(p) \cup RearGuard(p, requested)
    IN  {intact \in BOOLEAN : IF intact THEN read \cap damaged = {} ELSE ~(read \subseteq pattern)}

poison(m, p, size) == IF config.enablePoisoning THEN Write(m, Bytes(p, size)) ELSE m

-----------------------------------------------------------------------------
(* rawAllocate(n): some tier's block, whose payload has at least n bytes,  *)
(* with its header written.                                                *)
rawAllocate(n) ==
    {[address |-> a, bytes |-> n + s, asked |-> n] : a \in Addresses, s \in Slack}

withRawHeader(r) ==
    writeHeader(memory, r.address,
                [payloadSize |-> r.asked, tier |-> "Raw", state |-> "allocated", offset |-> 0])

Allocates(alignment, size, r, p, m) ==
    /\ raw' = r
    /\ user' = p
    /\ Becomes(poison(m, p, size))
    /\ asked' = [alignment |-> alignment, size |-> size]
    /\ damaged' = {} /\ pc' = "held" /\ reported' = {} /\ UNCHANGED released

Fails(error) ==
    /\ reported' = {error}
    /\ UNCHANGED <<pattern, headers, raw, user, asked, damaged, pc, released>>

allocate(requested) ==
    LET size == atLeastOne(requested)
    IN  /\ pc = "idle"
        /\ IF size > kMaxRequest
           THEN Fails("SizeOverflow")
           ELSE \/ Fails("OutOfMemory")
                \/ \E r \in rawAllocate(IF config.enableGuardBytes THEN guardedSize(size) ELSE size) :
                   LET p == userOf(r)
                       m == IF config.enableGuardBytes THEN applyGuards(withRawHeader(r), p, size)
                                                ELSE withRawHeader(r)
                   IN  Allocates(kDefaultAlignment, size, r, p, m)

(* Mutation: an address that is aligned already is taken as it is, and the *)
(* shim goes over the raw header.                                          *)
alignedAddress_InPlace(address, alignment) == alignUp(address, alignment)

alignedAddress(address, alignment) ==
    LET up == alignUp(address, alignment)
    IN  IF up = address THEN up + alignment ELSE up

alignedSize(size, alignment) == (size + alignment) % SizeModulus

(* alignedAllocate beyond the default alignment, which calls allocate.     *)
alignedAllocate(alignment, requested) ==
    LET size == atLeastOne(requested)
    IN  /\ pc = "idle"
        /\ IF ~isPowerOfTwo(alignment) \/ alignment > kMaxAlignment THEN Fails("InvalidAlignment")
           ELSE IF size > kMaxRequest THEN Fails("SizeOverflow")
           ELSE \/ Fails("OutOfMemory")
                \/ \E r \in rawAllocate(alignedSize(size, alignment)) :
                   LET p == alignedAddress(r.address, alignment)
                       shim == [payloadSize |-> size, tier |-> "AlignedShim", state |-> "allocated",
                                offset |-> (p - r.address) % OffsetModulus]
                   IN  Allocates(alignment, size, r, p, writeHeader(withRawHeader(r), p, shim))

(* AllocatorImpl::alignedAllocate, and Allocator's.                        *)
Aligned(alignment, size) ==
    IF isPowerOfTwo(alignment) /\ alignment <= kDefaultAlignment
    THEN allocate(size) ELSE alignedAllocate(alignment, size)

(* MemoryResource::do_allocate.                                            *)
do_allocate(bytes, alignment) ==
    IF alignment > 16 THEN Aligned(alignment, bytes) ELSE allocate(bytes)

(* Mutation: the multiplication is not checked.                            *)
StlAllocate_Unchecked(count, sizeofT, alignofT) ==
    do_allocate((count * sizeofT) % SizeModulus, alignofT)

(* StlAllocator<T>::allocate for a T of this size and alignment, which     *)
(* chooses between the same two calls.                                     *)
StlAllocate(count, sizeofT, alignofT) ==
    IF count > (SizeModulus - 1) \div sizeofT
    THEN pc = "idle" /\ Fails("bad_alloc")
    ELSE do_allocate((count * sizeofT) % SizeModulus, alignofT)

-----------------------------------------------------------------------------
(* The caller writes all of its bytes.                                     *)
Use ==
    /\ pc = "held"
    /\ Becomes(Write(memory, Bytes(user, asked.size)))
    /\ UNCHANGED <<raw, user, asked, wanted, damaged, pc, reported, released>>

Guarded == config.enableGuardBytes /\ asked.alignment = kDefaultAlignment
Guards == FrontGuard(user) \cup RearGuard(user, asked.size)

(* What the shim reads as with this byte of it changed.  A byte of either  *)
(* state never makes the other, and only the low byte of the tier makes    *)
(* another tier.                                                           *)
brokenShim(byte) ==
    LET shim == headers[user]
    IN  CASE byte \in Bytes(user - 16, 8) -> {[shim EXCEPT !.payloadSize = n] : n \in Junk}
          [] byte = user - 8 -> {[shim EXCEPT !.tier = t] : t \in {"Raw", "AlignedShim", "garbage"}}
          [] byte = user - 7 -> {[shim EXCEPT !.tier = "garbage"]}
          [] byte \in Bytes(user - 6, 2) -> {[shim EXCEPT !.state = "garbage"]}
          [] OTHER -> {[shim EXCEPT !.offset = n] : n \in Junk}

(* The caller changes one of the 32 bytes before or after a guarded block: *)
(* a byte of a guard, or of the shim between the front guard and the       *)
(* caller's bytes.                                                         *)
Overrun(byte) ==
    /\ pc = "held" /\ Guarded /\ damaged = {}
    /\ damaged' = {byte}
    /\ IF byte \in HeaderBytes(user)
       THEN /\ \E shim \in brokenShim(byte) \ {headers[user]} :
                  headers' = [headers EXCEPT ![user] = shim]
            /\ UNCHANGED pattern
       ELSE byte \in Guards /\ Becomes(Write(memory, {byte}))
    /\ UNCHANGED <<raw, user, asked, wanted, pc, reported, released>>

(* What rawDeallocate(p) gives back to a tier: the block, if p has its     *)
(* header; nothing, if p has a shim's or the guard pattern; and for other  *)
(* bytes, or a shim that looks like a tier's header, either.               *)
rawDeallocate(m, p) ==
    LET known == p \in DOMAIN m.headers
        refuses == IF known THEN m.headers[p].tier # "Raw" ELSE Bytes(p - 8, 2) \subseteq m.pattern
    IN  {q \in {p, nullptr} : IF q = p THEN ~refuses ELSE ~(known /\ p = raw.address)}

Releases(header, verified) ==
    LET m == poison(memory, user, header.payloadSize)
        start == IF header.tier = "Raw" THEN user ELSE user - header.offset
        corrupt == header.tier = "DebugShim" /\ config.enableGuardBytes /\ ~verified
    IN  \E q \in rawDeallocate(m, start) :
           /\ released' = q
           /\ reported' = (IF corrupt THEN {"HeapCorruption"} ELSE {})
                            \cup (IF q = nullptr THEN {"InvalidPointer"} ELSE {})

Valid(header) == header.tier # "garbage" /\ header.state = "allocated"

(* Mutation: a guard of the size in the raw header is verified.            *)
deallocate_RawSize ==
    /\ pc = "held" /\ pc' = "freed"
    /\ IF user \in DOMAIN headers /\ Valid(headers[user])
       THEN \E verified \in verifyGuards(user, raw.asked) : Releases(headers[user], verified)
       ELSE released' = nullptr /\ reported' = {"InvalidPointer"}
    /\ pattern' = {} /\ headers' = [p \in {} |-> 0]
    /\ UNCHANGED <<raw, user, asked, wanted, damaged>>

(* deallocate: validate the header, verify the guards, poison, release.    *)
deallocate ==
    /\ pc = "held" /\ pc' = "freed"
    /\ IF user \in DOMAIN headers /\ Valid(headers[user])
       THEN \E verified \in verifyGuards(user, headers[user].payloadSize) :
               Releases(headers[user], verified)
       ELSE released' = nullptr /\ reported' = {"InvalidPointer"}
    /\ pattern' = {} /\ headers' = [p \in {} |-> 0]
    /\ UNCHANGED <<raw, user, asked, wanted, damaged>>

-----------------------------------------------------------------------------
(* The block is free; what becomes of it next is not followed.             *)
Finished == pc = "freed" /\ UNCHANGED vars

step ==
    \/ \E size \in Sizes, alignment \in Alignments :
          Aligned(alignment, size) /\ wanted' = size
    \/ \E alignment \in {a \in Alignments : isPowerOfTwo(a)} :
          \/ \E bytes \in Sizes : do_allocate(bytes, alignment) /\ wanted' = bytes
          \/ \E count \in Counts, sizeofT \in Sizes \ {0} :
                StlAllocate(count, sizeofT, alignment) /\ wanted' = count * sizeofT
    \/ Use \/ deallocate
    \/ \E byte \in user - kFrontGuardSize .. user + asked.size + kRearGuardSize : Overrun(byte)

Next == (step /\ UNCHANGED config) \/ Finished

Spec == Init /\ [][Next]_vars

-----------------------------------------------------------------------------
(* Properties                                                              *)

(* The pointer is aligned as asked, and the bytes its caller needs and the *)
(* guards lie inside the payload of the tier's block: no sum or product of *)
(* sizes wrapped around.                                                   *)
LayoutSound ==
    pc = "held" =>
        /\ user % asked.alignment = 0
        /\ wanted <= asked.size
        /\ Bytes(user, asked.size) \subseteq Bytes(raw.address, raw.bytes)
        /\ Guarded => Guards \subseteq Bytes(raw.address, raw.bytes)

(* While the caller keeps to its bytes both headers stay as written: no    *)
(* store of the front end, poison included, and none of the caller's       *)
(* reaches them, so allocationSize is the size asked for, the offset leads *)
(* back to the block, and the free computes the size class of the          *)
(* allocation.                                                             *)
HeadersIntact ==
    pc = "held" /\ damaged = {} =>
        /\ {user, raw.address} \subseteq DOMAIN headers
        /\ headers[user].payloadSize = asked.size
        /\ user - headers[user].offset = raw.address
        /\ headers[raw.address].payloadSize = raw.asked

(* As long as the caller has left the shim alone, a free gives the block   *)
(* back to its tier and reports HeapCorruption exactly when a byte of a    *)
(* guard was changed: writing up to the last byte is no false alarm, and a *)
(* report does not keep the block.                                         *)
GuardsExact ==
    pc = "freed" /\ damaged \cap HeaderBytes(user) = {} =>
        /\ released = raw.address
        /\ reported = IF damaged = {} THEN {} ELSE {"HeapCorruption"}

(* docs/debugging.md: any byte of the 32 around an allocation that is      *)
(* changed is reported as HeapCorruption, and the block is still released. *)
EveryOverrunReported ==
    pc = "freed" /\ damaged # {} => "HeapCorruption" \in reported /\ released = raw.address
=============================================================================
