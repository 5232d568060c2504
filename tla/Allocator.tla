---------------------------- MODULE Allocator ----------------------------
(***************************************************************************)
(* The guest memory allocator, src/mem/allocator.rs: which byte ranges     *)
(* ("chunks") of the 32-bit guest address space are in use, and how        *)
(* reserve, alloc and free carve them up and glue them together.           *)
(*                                                                         *)
(* The allocator is a value h = [used, unused, buckets]: the two ChunkMaps *)
(* as sets of chunks and the log2 size buckets, which the code keeps next  *)
(* to the unused ChunkMap, as a function from bucket numbers to sets.  The *)
(* operations are functions of h, so that Mem can run several of them in   *)
(* one step (realloc does).  Each one that can panic comes with the        *)
(* condition under which its assertions hold.  A bucket is a Vec in the    *)
(* code, and its order only decides which of several equally small chunks  *)
(* is taken: here any of them may be.                                      *)
(***************************************************************************)
EXTENDS Integers, FiniteSets

CONSTANTS MIN_CHUNK_SIZE, PAGE_SIZE,
          MAIN_THREAD_STACK_LOW_END, MAIN_THREAD_STACK_SIZE

\* The real values are 16, 4096, 2^32 - 2^20 and 2^20.
ASSUME AllocatorAssumption ==
    /\ MIN_CHUNK_SIZE \in Nat \ {0}
    /\ PAGE_SIZE \in Nat /\ PAGE_SIZE > MIN_CHUNK_SIZE
    /\ PAGE_SIZE % MIN_CHUNK_SIZE = 0
    /\ MAIN_THREAD_STACK_LOW_END \in Nat
    /\ MAIN_THREAD_STACK_LOW_END >= PAGE_SIZE
    /\ MAIN_THREAD_STACK_LOW_END % PAGE_SIZE = 0
    /\ MAIN_THREAD_STACK_SIZE \in Nat
    /\ MAIN_THREAD_STACK_SIZE >= PAGE_SIZE
    /\ MAIN_THREAD_STACK_SIZE % PAGE_SIZE = 0

MemSize == MAIN_THREAD_STACK_LOW_END + MAIN_THREAD_STACK_SIZE

Addr == 0 .. MemSize - 1

---------------------------------------------------------------------------
(* Chunks *)

chunk(b, s) == [base |-> b, size |-> s]

\* last_byte() + 1
End(c) == c.base + c.size

\* "A non-empty range of bytes in virtual address space."
Chunk == {c \in [base : Addr, size : 1 .. MemSize] : End(c) <= MemSize}

\* The assertions of Chunk::new.
Chunk_new_ok(b, s) == s > 0 /\ (s >= PAGE_SIZE => b % PAGE_SIZE = 0)

contains(c, a) == c.base <= a /\ a < End(c)

Bytes(c) == c.base .. End(c) - 1

\* trisect_by answers None unless the middle chunk lies inside c ...
trisects(c, middle) == contains(c, middle.base) /\ contains(c, End(middle) - 1)

\* ... and otherwise the parts of c before and after it that are not empty.
trisect_by(c, middle) ==
    {p \in {[base |-> c.base, size |-> middle.base - c.base],
            [base |-> End(middle), size |-> End(c) - End(middle)]} : p.size > 0}

---------------------------------------------------------------------------
(* SizeBucketedChunkMap *)

ilog2[n \in 1 .. MemSize] == IF n = 1 THEN 0 ELSE 1 + ilog2[n \div 2]

bucket_for(size) == ilog2[size] - ilog2[MIN_CHUNK_SIZE]

Bucket == 0 .. bucket_for(MemSize)

\* insert asserts the minimum size, and that no chunk has this base.
insertable(unused, c) ==
    /\ c.size >= MIN_CHUNK_SIZE
    /\ \A d \in unused : d.base # c.base

\* remove_from_bucket unwraps the position of c in the bucket of its size.
removable(h, c) == c \in h.buckets[bucket_for(c.size)]

Rebucket(buckets, gone, new) ==
    [b \in DOMAIN buckets |->
        (buckets[b] \ gone) \cup {c \in new : bucket_for(c.size) = b}]

\* The smallest chunks of one bucket that are large enough.
best_in_bucket(h, size, b) ==
    {c \in h.buckets[b] :
        /\ c.size >= size
        /\ \A d \in h.buckets[b] : d.size >= size => c.size <= d.size}

\* A plausible slip: starts one bucket too late.
LargerBuckets_skipping(h, size) ==
    {b \in Bucket : b > bucket_for(size) + 1 /\ h.buckets[b] # {}}

LargerBuckets(h, size) == {b \in Bucket : b > bucket_for(size) /\ h.buckets[b] # {}}

\* The bucket of the size itself first, then the next one that is not empty.
candidates(h, size) ==
    IF best_in_bucket(h, size, bucket_for(size)) # {}
    THEN best_in_bucket(h, size, bucket_for(size))
    ELSE UNION {best_in_bucket(h, size, b) :
                  b \in {m \in LargerBuckets(h, size) :
                           \A n \in LargerBuckets(h, size) : m <= n}}

\* What allocate_in_bucket gives back to the map: nothing for an exact match,
\* the rump, or the rump cut at the next page when it is a page or more and
\* does not start at one.
realigned(existing, size) ==
    /\ existing.size - size >= PAGE_SIZE
    /\ (existing.base + size) % PAGE_SIZE # 0

\* A plausible slip: the rump is not cut at the page.
rumps_uncut(existing, size) ==
    {p \in {[base |-> existing.base + size, size |-> existing.size - size]} : p.size > 0}

rumps(existing, size) ==
    IF existing.size = size THEN {}
    ELSE IF realigned(existing, size)
         THEN {[base |-> existing.base + size, size |-> PAGE_SIZE - size],
               [base |-> existing.base + PAGE_SIZE, size |-> existing.size - PAGE_SIZE]}
         ELSE {[base |-> existing.base + size, size |-> existing.size - size]}

\* The assertions on the way: Chunk::new on every piece, the two sanity
\* checks of the page cut, and insert's.
allocate_ok(h, existing, size) ==
    /\ existing \in h.unused
    /\ Chunk_new_ok(existing.base, size)
    /\ realigned(existing, size) => existing.base % PAGE_SIZE = 0
    /\ \A p \in rumps(existing, size) :
          Chunk_new_ok(p.base, p.size) /\ insertable(h.unused \ {existing}, p)

---------------------------------------------------------------------------
(* Allocator *)

Stack == [base |-> MAIN_THREAD_STACK_LOW_END, size |-> MAIN_THREAD_STACK_SIZE]

Rest == [base |-> 0, size |-> MAIN_THREAD_STACK_LOW_END]

Allocator_new ==
    [used    |-> {Stack},
     unused  |-> {Rest},
     buckets |-> [b \in Bucket |-> {c \in {Rest} : bucket_for(c.size) = b}]]

\* reserve panics unless one unused chunk covers the range.
reserve_from(h, c) == {u \in h.unused : trisects(u, c)}

reserve_ok(h, c, u) ==
    /\ Chunk_new_ok(c.base, c.size)
    /\ removable(h, u)
    /\ \A p \in trisect_by(u, c) :
          Chunk_new_ok(p.base, p.size) /\ insertable(h.unused \ {u}, p)
    /\ \A d \in h.used : d.base # c.base

reserve(h, c, u) ==
    [used    |-> h.used \cup {c},
     unused  |-> (h.unused \ {u}) \cup trisect_by(u, c),
     buckets |-> Rebucket(h.buckets, {u}, trisect_by(u, c))]

align(size, al) == IF size % al = 0 THEN size ELSE size + al - (size % al)

rounded(size) ==
    IF size < PAGE_SIZE
    THEN align(IF size < MIN_CHUNK_SIZE THEN MIN_CHUNK_SIZE ELSE size, MIN_CHUNK_SIZE)
    ELSE align(size, PAGE_SIZE)

alloc_ok(h, size, existing) ==
    /\ allocate_ok(h, existing, rounded(size))
    /\ \A d \in h.used : d.base # existing.base

alloc(h, size, existing) ==
    [used    |-> h.used \cup {chunk(existing.base, rounded(size))},
     unused  |-> (h.unused \ {existing}) \cup rumps(existing, rounded(size)),
     buckets |-> Rebucket(h.buckets, {existing}, rumps(existing, rounded(size)))]

\* remove_with_base on the following address, or else remove_with_end on the
\* preceding one: at most one neighbour is taken out.
after(h, freed)  == {u \in h.unused : u.base = End(freed)}
before(h, freed) == {u \in h.unused : End(u) = freed.base}

adjacent(h, freed) ==
    IF after(h, freed) # {} THEN after(h, freed) ELSE before(h, freed)

lower(c, d) == IF c.base < d.base THEN c.base ELSE d.base

combined(c, d) == [base |-> lower(c, d), size |-> c.size + d.size]

\* The neighbour is glued on unless that would break page alignment.
glued(h, freed) ==
    {u \in adjacent(h, freed) :
        Chunk_new_ok(lower(freed, u), freed.size + u.size)}

returned(h, freed) ==
    IF glued(h, freed) = {} THEN {freed}
    ELSE {combined(freed, u) : u \in glued(h, freed)}

free_ok(h, freed) ==
    /\ \A u \in adjacent(h, freed) : removable(h, u)
    /\ \A p \in returned(h, freed) : insertable(h.unused \ glued(h, freed), p)

free(h, freed) ==
    [used    |-> h.used \ {freed},
     unused  |-> (h.unused \ glued(h, freed)) \cup returned(h, freed),
     buckets |-> Rebucket(h.buckets, glued(h, freed), returned(h, freed))]

===========================================================================
