-------------------------------- MODULE Mem --------------------------------
(***************************************************************************)
(* Guest memory, src/mem.rs, on top of the allocator: the contents of the  *)
(* address space, malloc, calloc, realloc and free, the policy that either *)
(* free or alloc zeroes memory, the null segment, and the life of the one  *)
(* Mem instance of the process (environment.rs): the app picker runs in a  *)
(* fresh Mem, which is then refurbished for the app.                       *)
(*                                                                         *)
(* A byte is 0 or 1 (anything else than zero).  A guest program writes the *)
(* whole of a block at once, up to malloc_size.  The guest frees and       *)
(* reallocates what it was given, and may call free on a stale pointer.    *)
(***************************************************************************)
EXTENDS Allocator

CONSTANTS Sizes,        \* sizes the guest asks for
          Segments,     \* segments an executable may ask to be loaded
          NullSegments, \* sizes of __PAGEZERO
          MaxBlocks,    \* bound on the blocks the guest holds at once
          Writers       \* which of the two programs write to their blocks

\* Segments of Mach-O files are made of whole pages.
ASSUME SegmentsAssumption ==
    /\ Sizes \subseteq 0 .. MemSize
    /\ Segments \subseteq [base : Addr, size : 1 .. MemSize]
    /\ \A s \in Segments : s.base % PAGE_SIZE = 0 /\ s.size % PAGE_SIZE = 0
    /\ NullSegments \subseteq Nat
    /\ \A n \in NullSegments : n > 0 /\ n % PAGE_SIZE = 0
    /\ MaxBlocks \in Nat
    /\ Writers \subseteq {"picker", "run"}

VARIABLES
    allocator,              \* Mem::allocator
    bytes,                  \* Mem::bytes
    null_segment_size,
    zero_memory_on_free,
    phase,                  \* what Environment is doing with this Mem
    guest_blocks,           \* bases the guest program got and did not give back
    answer,                 \* the last allocation: address, bytes asked for
    mem_panic               \* "no", or why the process died

memVars == <<allocator, bytes, null_segment_size, zero_memory_on_free, phase,
          guest_blocks, answer, mem_panic>>

NoAnswer == [op |-> "none", ptr |-> 0, asked |-> 0]

Zeroed(m, lo, n) == [a \in Addr |-> IF lo <= a /\ a < lo + n THEN 0 ELSE m[a]]

Filled(m, c) == [a \in Addr |-> IF contains(c, a) THEN 1 ELSE m[a]]

\* A plausible slip: the last byte is not copied.
copy_within_short(m, src, dest, n) ==
    [a \in Addr |-> IF dest <= a /\ a < dest + n - 1 THEN m[src + (a - dest)] ELSE m[a]]

copy_within(m, src, dest, n) ==
    [a \in Addr |-> IF dest <= a /\ a < dest + n THEN m[src + (a - dest)] ELSE m[a]]

\* bytes_at_mut panics in the null segment.
accessible(ptr) == ptr >= null_segment_size

ChunkAt(h, ptr) == {c \in h.used : c.base = ptr}

\* The assertions an operation runs into, whatever it did before.
Asserts(ok) == mem_panic' = IF ok THEN mem_panic ELSE "assert"

MemDies(why) ==
    /\ mem_panic' = why
    /\ UNCHANGED <<allocator, bytes, null_segment_size, zero_memory_on_free,
                   phase, guest_blocks, answer>>

\* Mem::new, for the app picker or for an app given on the command line.
MemInit ==
    /\ allocator = Allocator_new
    /\ bytes = [a \in Addr |-> 0]
    /\ null_segment_size = 0
    /\ \/ phase = "picker boot" /\ zero_memory_on_free = TRUE
       \/ phase = "load" /\ zero_memory_on_free \in BOOLEAN
    /\ guest_blocks = {} /\ answer = NoAnswer /\ mem_panic = "no"

---------------------------------------------------------------------------
(* Mem's own operations *)

\* alloc: the contents after size bytes were allocated at ptr.
bytes_after_alloc(m, ptr, size) ==
    IF zero_memory_on_free THEN m ELSE Zeroed(m, ptr, size)

\* free: the contents after the chunk was given back.
bytes_after_free(m, freed) ==
    IF zero_memory_on_free THEN Zeroed(m, freed.base, freed.size) ELSE m

Alive == mem_panic = "no"

\* Programs that make requests: the app picker, and the app.
Serving == Alive /\ phase \in {"picker", "run"}

Gives(ptr, size) ==
    /\ guest_blocks' = guest_blocks \cup {ptr}
    /\ answer' = [op |-> "alloc", ptr |-> ptr, asked |-> size]

malloc(size, e) ==
    /\ Serving /\ Cardinality(guest_blocks) < MaxBlocks
    /\ e \in candidates(allocator, rounded(size))
    /\ Asserts(alloc_ok(allocator, size, e) /\ accessible(e.base))
    /\ allocator' = alloc(allocator, size, e)
    /\ bytes' = bytes_after_alloc(bytes, e.base, size)
    /\ Gives(e.base, size)
    /\ UNCHANGED <<null_segment_size, zero_memory_on_free, phase>>

calloc(size, e) ==
    /\ Serving /\ Cardinality(guest_blocks) < MaxBlocks
    /\ e \in candidates(allocator, rounded(size))
    /\ Asserts(alloc_ok(allocator, size, e) /\ accessible(e.base))
    /\ allocator' = alloc(allocator, size, e)
    /\ bytes' = Zeroed(bytes_after_alloc(bytes, e.base, size), e.base, size)
    /\ Gives(e.base, size)
    /\ UNCHANGED <<null_segment_size, zero_memory_on_free, phase>>

\* "Could not find large enough chunk".
out_of_memory(size) ==
    /\ Serving
    /\ candidates(allocator, rounded(size)) = {}
    /\ MemDies("out of memory")

\* The old block is large enough already.
realloc_in_place(c, size) ==
    /\ Serving /\ c \in allocator.used /\ c.base \in guest_blocks
    /\ c.size >= size
    /\ answer' = [op |-> "realloc", ptr |-> c.base, asked |-> size]
    /\ UNCHANGED <<allocator, bytes, null_segment_size, zero_memory_on_free,
                   phase, guest_blocks, mem_panic>>

realloc_move(c, size, e) ==
    /\ Serving /\ c \in allocator.used /\ c.base \in guest_blocks
    /\ c.size < size
    /\ e \in candidates(allocator, rounded(size))
    /\ LET h == alloc(allocator, size, e)
           m == copy_within(bytes_after_alloc(bytes, e.base, size),
                            c.base, e.base, c.size)
       IN  /\ Asserts(/\ alloc_ok(allocator, size, e) /\ accessible(e.base)
                      /\ free_ok(h, c))
           /\ allocator' = free(h, c)
           /\ bytes' = bytes_after_free(m, c)
    /\ guest_blocks' = (guest_blocks \ {c.base}) \cup {e.base}
    /\ answer' = [op |-> "realloc", ptr |-> e.base, asked |-> size]
    /\ UNCHANGED <<null_segment_size, zero_memory_on_free, phase>>

mem_free(c) ==
    /\ Serving /\ c \in allocator.used /\ c.base \in guest_blocks
    /\ Asserts(free_ok(allocator, c))
    /\ allocator' = free(allocator, c)
    /\ bytes' = bytes_after_free(bytes, c)
    /\ guest_blocks' = guest_blocks \ {c.base}
    /\ answer' = NoAnswer
    /\ UNCHANGED <<null_segment_size, zero_memory_on_free, phase>>

\* A stale pointer: the allocator logs and frees nothing.
free_unknown ==
    /\ Serving
    /\ {ptr \in Addr \ {0} : accessible(ptr) /\ ChunkAt(allocator, ptr) = {}} # {}
    /\ answer' = NoAnswer
    /\ UNCHANGED <<allocator, bytes, null_segment_size, zero_memory_on_free,
                   phase, guest_blocks, mem_panic>>

\* The guest stores to a block of its own.
guest_write(c) ==
    /\ Serving /\ phase \in Writers
    /\ c \in allocator.used /\ c.base \in guest_blocks
    /\ bytes' = Filled(bytes, c)
    /\ answer' = NoAnswer
    /\ UNCHANGED <<allocator, null_segment_size, zero_memory_on_free, phase,
                   guest_blocks, mem_panic>>

---------------------------------------------------------------------------
(* Setting the memory up *)

\* do_initial_linking_with_no_bins: the routine that returns to the host is
\* the first thing the app picker's environment allocates.
picker_boot(size, e) ==
    /\ Alive /\ phase = "picker boot"
    /\ e \in candidates(allocator, rounded(size))
    /\ Asserts(alloc_ok(allocator, size, e))
    /\ allocator' = alloc(allocator, size, e)
    /\ bytes' = Filled(bytes_after_alloc(bytes, e.base, size), chunk(e.base, size))
    /\ phase' = "picker"
    /\ UNCHANGED <<null_segment_size, zero_memory_on_free, guest_blocks, answer>>

ZeroedChunks(m, chunks) ==
    [a \in Addr |-> IF \E c \in chunks : contains(c, a) THEN 0 ELSE m[a]]

\* Environment::new with the picker's environment to salvage: the allocator
\* starts afresh and the bytes of all used chunks are zeroed.
refurbish(is_spore) ==
    /\ Alive /\ phase = "picker"
    /\ allocator' = Allocator_new
    /\ bytes' = ZeroedChunks(bytes, allocator.used)
    /\ null_segment_size' = 0
    /\ zero_memory_on_free' = ~ is_spore
    /\ phase' = "load"
    /\ guest_blocks' = {} /\ answer' = NoAnswer
    /\ UNCHANGED mem_panic

set_null_segment_size(n, u) ==
    /\ Alive /\ phase = "load" /\ null_segment_size = 0
    /\ u \in reserve_from(allocator, chunk(0, n))
    /\ Asserts(reserve_ok(allocator, chunk(0, n), u))
    /\ allocator' = reserve(allocator, chunk(0, n), u)
    /\ null_segment_size' = n
    /\ UNCHANGED <<bytes, zero_memory_on_free, phase, guest_blocks, answer>>

\* MachO::load_from_bytes: a segment's file part is copied in; the rest is
\* taken to be zero already.
load_segment(c, filesize, u) ==
    /\ Alive /\ phase = "load" /\ null_segment_size # 0
    /\ u \in reserve_from(allocator, c)
    /\ Asserts(reserve_ok(allocator, c, u))
    /\ filesize <= c.size
    /\ allocator' = reserve(allocator, c, u)
    /\ bytes' = Filled(bytes, chunk(c.base, filesize))
    /\ answer' = [op |-> "segment", ptr |-> c.base + filesize, asked |-> c.size - filesize]
    /\ UNCHANGED <<null_segment_size, zero_memory_on_free, phase, guest_blocks>>

\* "Could not reserve chunk".
load_panics(c) ==
    /\ Alive /\ phase = "load" /\ null_segment_size # 0
    /\ reserve_from(allocator, c) = {}
    /\ MemDies("reserve")

start_app ==
    /\ Alive /\ phase = "load" /\ null_segment_size # 0
    /\ phase' = "run"
    /\ answer' = NoAnswer
    /\ UNCHANGED <<allocator, bytes, null_segment_size, zero_memory_on_free,
                   guest_blocks, mem_panic>>

---------------------------------------------------------------------------

Setup ==
    \/ \E size \in Sizes, e \in allocator.unused : picker_boot(size, e)
    \/ \E is_spore \in BOOLEAN : refurbish(is_spore)
    \/ \E n \in NullSegments, u \in allocator.unused : set_null_segment_size(n, u)
    \/ \E c \in Segments : \E n \in {0, c.size - 1} :
          \E u \in allocator.unused : load_segment(c, n, u)
    \/ \E c \in Segments : load_panics(c)
    \/ start_app

Requests ==
    \/ \E size \in Sizes :
          \/ \E e \in allocator.unused : malloc(size, e) \/ calloc(size, e)
          \/ out_of_memory(size)
    \/ \E c \in allocator.used :
          \/ \E size \in Sizes :
                \/ realloc_in_place(c, size)
                \/ \E e \in allocator.unused : realloc_move(c, size, e)
          \/ mem_free(c)
          \/ guest_write(c)
    \/ free_unknown

MemNext == Setup \/ Requests

MemSpec == MemInit /\ [][MemNext]_memVars

\* A program to load: one segment of a page, right after the null page.
SomeSegments == {[base |-> PAGE_SIZE, size |-> PAGE_SIZE]}

---------------------------------------------------------------------------
(* Properties *)

\* Every part of guest memory has its type.
MemTypeOK ==
    /\ allocator.used \subseteq Chunk /\ allocator.unused \subseteq Chunk
    /\ allocator.buckets \in [Bucket -> SUBSET Chunk]
    /\ DOMAIN allocator = {"used", "unused", "buckets"}
    /\ bytes \in [Addr -> {0, 1}]
    /\ null_segment_size \in {0} \cup NullSegments
    /\ zero_memory_on_free \in BOOLEAN
    /\ phase \in {"picker boot", "picker", "load", "run"}
    /\ guest_blocks \subseteq Addr
    /\ answer \in [op : {"none", "alloc", "realloc", "segment"},
                   ptr : Nat, asked : 0 .. MemSize]
    /\ mem_panic \in {"no", "assert", "out of memory", "reserve"}

\* The used and the unused chunks together cover the address space, every
\* byte once: no operation leaks a range, and no two blocks overlap, whatever
\* was split, realigned and glued before.
ChunksPartition ==
    /\ UNION {Bytes(c) : c \in allocator.used \cup allocator.unused} = Addr
    /\ \A c, d \in allocator.used \cup allocator.unused :
          c # d => End(c) <= d.base \/ End(d) <= c.base
    /\ allocator.used \cap allocator.unused = {}

\* The size buckets hold exactly the chunks of the unused ChunkMap, each in
\* the bucket of its size: "there's less places inconsistencies between the
\* sub-collections could happen" (allocator.rs:101-103).
BucketsInSync ==
    \A b \in Bucket :
        allocator.buckets[b] = {c \in allocator.unused : bucket_for(c.size) = b}

\* An allocation is never at address zero, which the guest takes for a
\* failure: the null segment, or in the app picker the routine that returns to
\* the host, keeps that address in use.
NullNeverGiven == answer.op = "alloc" => answer.ptr # 0

\* Whatever was asked for before, in whichever order: the chunks partition the
\* address space, the buckets list the unused ones, address zero is not given
\* out, and none of the allocator's assertions fails (page alignment of large
\* chunks, the minimum size, the two maps agreeing).
AllocatorSound ==
    /\ MemTypeOK /\ ChunksPartition /\ BucketsInSync /\ NullNeverGiven
    /\ mem_panic # "assert"

\* A request kills the process for want of memory only when no unused chunk is
\* large enough for it: the search by buckets misses none (allocate_in_bucket,
\* Allocator::alloc).
OutOfMemoryIsReal ==
    [][\A size \in Sizes :
          out_of_memory(size) => \A u \in allocator.unused : u.size < rounded(size)]_memVars

\* Guest memory implements the abstract heap: live blocks keep their bytes and
\* never overlap, realloc keeps what it moves, and memory is handed out zeroed,
\* calloc'ed or not, refurbished or not, and also when it is alloc and not free
\* that zeroes (Mem::alloc, free, realloc, zero_memory_on_free).
H == INSTANCE Heap WITH Size <- MemSize, live <- allocator.used

ImplementsHeap == H!HeapSpec

===========================================================================
