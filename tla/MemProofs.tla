------------------------------ MODULE MemProofs ------------------------------
(***************************************************************************)
(* What TLAPS proves of guest memory for every size of the address space,  *)
(* of a page, of the smallest chunk and of the requests: the allocator's   *)
(* chunks partition the address space and none of its assertions fails,    *)
(* and guest memory implements the abstract heap.  And of the objects that *)
(* live in it, for every number of threads, objects and pools: reference   *)
(* counts are exact, and what has none left is deallocated once.  And of   *)
(* what is loaded into it first: the app and its library are there as      *)
(* their files say, for every slice, command and address.                  *)
(***************************************************************************)
EXTENDS Mem, Objects, MachO, SequenceLemmas

----------------------------------------------------------------------------
(* Multiples *)

\* A number times n is a multiple of n.
LEMMA Multiple ==
    ASSUME NEW n \in Nat \ {0}, NEW q \in Int
    PROVE  (n * q) % n = 0
OBVIOUS

\* Division with a remainder
LEMMA Quotient ==
    ASSUME NEW n \in Nat \ {0}, NEW x \in Int
    PROVE  /\ x \div n \in Int /\ x % n \in 0 .. n - 1
           /\ x = (n * (x \div n)) + (x % n)
OBVIOUS

\* Sums and differences of multiples are multiples.
LEMMA MultiplesAdd ==
    ASSUME NEW n \in Nat \ {0}, NEW x \in Int, NEW y \in Int, x % n = 0, y % n = 0
    PROVE  (x + y) % n = 0 /\ (x - y) % n = 0
<1>1. x = n * (x \div n) /\ y = n * (y \div n) /\ x \div n \in Int /\ y \div n \in Int
  BY Quotient
<1>2. /\ x + y = n * ((x \div n) + (y \div n))
      /\ x - y = n * ((x \div n) - (y \div n))
  BY <1>1
<1>3. (x \div n) + (y \div n) \in Int /\ (x \div n) - (y \div n) \in Int
  BY <1>1
<1> QED BY <1>2, <1>3, Multiple

\* A multiple of a multiple of n is a multiple of n: pages are made of
\* smallest chunks.
LEMMA MultipleOfMultiple ==
    ASSUME NEW n \in Nat \ {0}, NEW m \in Nat \ {0}, NEW x \in Int,
           x % m = 0, m % n = 0
    PROVE  x % n = 0
<1>1. x = m * (x \div m) /\ m = n * (m \div n) /\ x \div m \in Int /\ m \div n \in Int
  BY Quotient
<1>2. \A a, b \in Int : x = m * a /\ m = n * b => x = n * (b * a) /\ b * a \in Int
  OBVIOUS
<1> QED BY <1>1, <1>2, Multiple

\* A multiple of n that is not zero is at least n.
LEMMA MultipleAtLeast ==
    ASSUME NEW n \in Nat \ {0}, NEW x \in Int, x % n = 0, x > 0
    PROVE  x >= n
<1>1. x = n * (x \div n) /\ x \div n \in Int
  BY Quotient
<1>2. x \div n > 0
  BY <1>1
<1> QED BY <1>1, <1>2

\* align rounds up to the next multiple, but not beyond one that bounds it.
LEMMA Aligned ==
    ASSUME NEW n \in Nat \ {0}, NEW x \in Nat
    PROVE  /\ align(x, n) \in Nat /\ align(x, n) % n = 0
           /\ align(x, n) >= x /\ align(x, n) < x + n
           /\ \A y \in Nat : y % n = 0 /\ x <= y => align(x, n) <= y
<1>1. x \div n \in Int /\ x % n \in 0 .. n - 1 /\ x = (n * (x \div n)) + (x % n)
  BY Quotient
<1>2. x + n - (x % n) = n * ((x \div n) + 1) /\ (x \div n) + 1 \in Int
  BY <1>1
<1>3. (x + n - (x % n)) % n = 0
  BY <1>2, Multiple
<1>4. align(x, n) \in Nat /\ align(x, n) % n = 0 /\ align(x, n) >= x /\ align(x, n) < x + n
  BY <1>1, <1>3 DEF align
<1>5. ASSUME NEW y \in Nat, y % n = 0, x <= y
      PROVE  align(x, n) <= y
  <2> DEFINE a == align(x, n)
  <2>1. a \in Int /\ (a - y) % n = 0
    BY <1>4, <1>5, MultiplesAdd
  <2>2. a - y > 0 => a - y >= n
    BY <2>1, MultipleAtLeast
  <2> QED BY <1>4, <1>5, <2>2
<1> QED BY <1>4, <1>5

----------------------------------------------------------------------------
(* Logarithms and buckets *)

\* The sizes the constants stand for, as the proofs use them
LEMMA SizesOfMemory ==
    /\ MemSize \in Nat /\ MemSize >= PAGE_SIZE /\ MIN_CHUNK_SIZE \in 1 .. MemSize
    /\ PAGE_SIZE \in Nat \ {0} /\ MIN_CHUNK_SIZE \in Nat \ {0}
    /\ PAGE_SIZE > MIN_CHUNK_SIZE
    /\ MemSize % PAGE_SIZE = 0
<1>1. PAGE_SIZE \in Nat \ {0} /\ MIN_CHUNK_SIZE \in Nat \ {0} /\ PAGE_SIZE > MIN_CHUNK_SIZE
  BY AllocatorAssumption
<1>2. MemSize % PAGE_SIZE = 0
  <2>1. /\ MAIN_THREAD_STACK_LOW_END \in Int /\ MAIN_THREAD_STACK_LOW_END % PAGE_SIZE = 0
        /\ MAIN_THREAD_STACK_SIZE \in Int /\ MAIN_THREAD_STACK_SIZE % PAGE_SIZE = 0
    BY AllocatorAssumption
  <2> QED BY <1>1, <2>1, MultiplesAdd DEF MemSize
<1>3. MemSize \in Nat /\ MemSize >= PAGE_SIZE
  BY <1>1, AllocatorAssumption DEF MemSize
<1> QED BY <1>1, <1>2, <1>3

\* The equation of the logarithm on the numbers up to n
LogStep(f) == [n \in 1 .. MemSize |-> IF n = 1 THEN 0 ELSE 1 + f[n \div 2]]

LogUpTo(f, n) ==
    /\ f \in [1 .. n -> Nat]
    /\ \A m \in 1 .. n : f[m] = IF m = 1 THEN 0 ELSE 1 + f[m \div 2]

\* Half of a number is a smaller one: ilog2 recurs downwards.
LEMMA Halved ==
    ASSUME NEW n \in Nat, n >= 2
    PROVE  n \div 2 \in 1 .. n - 1
OBVIOUS

\* There is a function that satisfies the equation, as every value depends on
\* the value of a smaller number.
LEMMA LogUpToAny ==
    ASSUME NEW n \in Nat
    PROVE  \E f : LogUpTo(f, n)
<1> DEFINE Bad == {m \in Nat : ~ \E f : LogUpTo(f, m)}
<1> SUFFICES ASSUME Bad # {} PROVE FALSE
  OBVIOUS
<1>1. PICK m \in Bad : \A k \in Bad : m <= k
  BY LeastNatural
<1>2. CASE m = 0
  <2>1. LogUpTo([i \in 1 .. 0 |-> 0], 0)
    BY DEF LogUpTo
  <2> QED BY <1>2, <2>1
<1>3. CASE m # 0
  <2>1. m - 1 \in Nat /\ m - 1 \notin Bad
    BY <1>1, <1>3
  <2>2. PICK f : LogUpTo(f, m - 1)
    BY <2>1
  <2> DEFINE v == IF m = 1 THEN 0 ELSE 1 + f[m \div 2]
             g == [i \in 1 .. m |-> IF i = m THEN v ELSE f[i]]
  <2>3. m \in Nat /\ (m # 1 => m \div 2 \in 1 .. m - 1)
    BY <1>3, Halved
  <2>4. v \in Nat
    BY <2>2, <2>3 DEF LogUpTo
  <2> HIDE DEF v
  <2>5. g \in [1 .. m -> Nat]
    BY <2>2, <2>3, <2>4 DEF LogUpTo
  <2>6. ASSUME NEW i \in 1 .. m
        PROVE  g[i] = IF i = 1 THEN 0 ELSE 1 + g[i \div 2]
    <3>1. CASE i = m
      BY <2>3, <3>1 DEF v
    <3>2. CASE i # m
      <4>1. i \in 1 .. m - 1 /\ i \in Nat
        BY <2>3, <3>2
      <4>2. i # 1 => i \div 2 \in 1 .. i - 1
        BY <4>1, Halved
      <4>3. g[i] = f[i] /\ (i # 1 => g[i \div 2] = f[i \div 2])
        BY <2>3, <4>1, <4>2
      <4>4. f[i] = IF i = 1 THEN 0 ELSE 1 + f[i \div 2]
        BY <2>2, <4>1 DEF LogUpTo
      <4> QED BY <4>3, <4>4
    <3> QED BY <3>1, <3>2
  <2>7. LogUpTo(g, m)
    BY <2>5, <2>6 DEF LogUpTo
  <2> QED BY <2>7, <1>1
<1> QED BY <1>2, <1>3

\* So the recursive definition of ilog2 defines what it says.
LEMMA LogEquation ==
    /\ ilog2 \in [1 .. MemSize -> Nat]
    /\ \A n \in 1 .. MemSize : ilog2[n] = IF n = 1 THEN 0 ELSE 1 + ilog2[n \div 2]
<1>1. PICK f : LogUpTo(f, MemSize)
  BY SizesOfMemory, LogUpToAny
<1>2. f = LogStep(f)
  BY <1>1 DEF LogUpTo, LogStep
<1>3. ilog2 = CHOOSE g : g = LogStep(g)
  BY DEF ilog2, LogStep
<1>4. ilog2 = LogStep(ilog2)
  BY <1>2, <1>3
<1>5. \A n \in 1 .. MemSize : ilog2[n] = IF n = 1 THEN 0 ELSE 1 + ilog2[n \div 2]
  BY <1>4 DEF LogStep
<1>6. ilog2 = [n \in 1 .. MemSize |-> ilog2[n]]
  BY <1>4 DEF LogStep
<1>7. ASSUME NEW n \in 1 .. MemSize PROVE ilog2[n] \in Nat
  <2> DEFINE Bad == {m \in 1 .. MemSize : ilog2[m] \notin Nat}
  <2> SUFFICES ASSUME Bad # {} PROVE FALSE
    OBVIOUS
  <2>1. PICK m \in Bad : \A k \in Bad : m <= k
    <3>1. Bad \in SUBSET Nat
      BY SizesOfMemory
    <3> HIDE DEF Bad
    <3> QED BY <3>1, LeastNatural
  <2>2. m = 1 \/ m \div 2 \in 1 .. m - 1
    BY Halved
  <2>3. m # 1 => m \div 2 \in 1 .. MemSize /\ m \div 2 \notin Bad
    BY <2>1, <2>2, SizesOfMemory
  <2>4. m # 1 => ilog2[m \div 2] \in Nat
    BY <2>3
  <2> QED BY <1>5, <2>4
<1> QED BY <1>5, <1>6, <1>7

\* The logarithm grows with the number.
LEMMA LogMonotone ==
    ASSUME NEW m \in 1 .. MemSize, NEW n \in 1 .. MemSize, m <= n
    PROVE  ilog2[m] <= ilog2[n]
<1> DEFINE Bad == {k \in 1 .. MemSize : \E i \in 1 .. k : ~(ilog2[i] <= ilog2[k])}
<1> SUFFICES ASSUME Bad # {} PROVE FALSE
  OBVIOUS
<1>1. PICK k \in Bad : \A j \in Bad : k <= j
  <2>1. Bad \in SUBSET Nat
    BY SizesOfMemory
  <2> HIDE DEF Bad
  <2> QED BY <2>1, LeastNatural
<1>2. PICK i \in 1 .. k : ~(ilog2[i] <= ilog2[k])
  BY <1>1
<1>3. k \in 1 .. MemSize /\ i \in 1 .. MemSize /\ ilog2[i] \in Nat /\ ilog2[k] \in Nat
  BY LogEquation, SizesOfMemory
<1>4. i # 1
  BY <1>2, <1>3, LogEquation
<1>5. k \div 2 \in 1 .. k - 1 /\ i \div 2 \in 1 .. k \div 2
  BY <1>3, <1>4
<1>6. k \div 2 \in 1 .. MemSize /\ k \div 2 \notin Bad
  BY <1>1, <1>3, <1>5, SizesOfMemory
<1>7. ilog2[i \div 2] <= ilog2[k \div 2]
  BY <1>5, <1>6
<1>8. ilog2[i] = 1 + ilog2[i \div 2] /\ ilog2[k] = 1 + ilog2[k \div 2]
  BY <1>3, <1>4, <1>5, LogEquation
<1>9. i \div 2 \in 1 .. MemSize /\ ilog2[i \div 2] \in Nat /\ ilog2[k \div 2] \in Nat
  BY <1>5, <1>6, LogEquation, SizesOfMemory
<1> QED BY <1>2, <1>7, <1>8, <1>9

\* There is a bucket for every chunk that is not too small, and a larger chunk
\* is never in a lower bucket.
LEMMA BucketFor ==
    /\ \A s \in MIN_CHUNK_SIZE .. MemSize : bucket_for(s) \in Bucket
    /\ \A s, r \in MIN_CHUNK_SIZE .. MemSize :
          s <= r => bucket_for(s) <= bucket_for(r)
<1>1. ASSUME NEW s \in MIN_CHUNK_SIZE .. MemSize, NEW r \in MIN_CHUNK_SIZE .. MemSize, s <= r
      PROVE  /\ bucket_for(s) \in Nat /\ bucket_for(r) \in Nat
             /\ bucket_for(s) <= bucket_for(r)
  <2>1. s \in 1 .. MemSize /\ r \in 1 .. MemSize /\ MIN_CHUNK_SIZE <= s
    BY <1>1, SizesOfMemory
  <2>2. ilog2[s] \in Nat /\ ilog2[r] \in Nat /\ ilog2[MIN_CHUNK_SIZE] \in Nat
    BY <2>1, LogEquation, SizesOfMemory
  <2>3. ilog2[MIN_CHUNK_SIZE] <= ilog2[s] /\ ilog2[s] <= ilog2[r]
    BY <1>1, <2>1, LogMonotone, SizesOfMemory
  <2> QED BY <2>2, <2>3 DEF bucket_for
<1>2. MemSize \in MIN_CHUNK_SIZE .. MemSize /\ \A s \in MIN_CHUNK_SIZE .. MemSize : s <= MemSize
  BY SizesOfMemory
<1> QED BY <1>1, <1>2 DEF Bucket

----------------------------------------------------------------------------
(* The chunks cover the address space *)

Apart(c, d) == End(c) <= d.base \/ End(d) <= c.base

\* A chunk that the assertions of Chunk::new and insert accept
WellFormed(c) ==
    /\ c \in Chunk
    /\ c.base % MIN_CHUNK_SIZE = 0 /\ c.size % MIN_CHUNK_SIZE = 0
    /\ Chunk_new_ok(c.base, c.size)

\* The chunks of S cover the address space, every byte once.
Tiles(S) ==
    /\ \A c, d \in S : c # d => Apart(c, d)
    /\ \A a \in Addr : \E c \in S : contains(c, a)

\* What an allocator is between two operations
HeapSound(h) ==
    /\ h = [used |-> h.used, unused |-> h.unused, buckets |-> h.buckets]
    /\ \A c \in h.used \cup h.unused : WellFormed(c)
    /\ Tiles(h.used \cup h.unused)
    /\ h.used \cap h.unused = {}
    /\ h.buckets \in [Bucket -> SUBSET Chunk]
    /\ \A b \in Bucket : h.buckets[b] = {c \in h.unused : bucket_for(c.size) = b}

\* A chunk as numbers
LEMMA ChunkNumbers ==
    ASSUME NEW c \in Chunk
    PROVE  /\ c = [base |-> c.base, size |-> c.size]
           /\ c.base \in Nat /\ c.size \in Nat /\ c.size >= 1
           /\ End(c) = c.base + c.size /\ End(c) \in Nat /\ End(c) <= MemSize
           /\ c.base < End(c) /\ c.base \in Addr /\ c.size <= MemSize
           /\ contains(c, c.base) /\ contains(c, End(c) - 1) /\ End(c) - 1 \in Addr
BY SizesOfMemory DEF Chunk, End, contains, Addr

\* Two chunks that are not apart share a byte, and only those do.
LEMMA SharedByte ==
    ASSUME NEW c \in Chunk, NEW d \in Chunk
    PROVE  Apart(c, d) <=> \A a \in Addr : ~(contains(c, a) /\ contains(d, a))
<1>1. /\ c.base \in Nat /\ d.base \in Nat /\ End(c) \in Nat /\ End(d) \in Nat
      /\ c.base < End(c) /\ d.base < End(d) /\ c.base \in Addr /\ d.base \in Addr
      /\ contains(c, c.base) /\ contains(d, d.base)
  BY ChunkNumbers
<1>2. CASE Apart(c, d)
  BY <1>1, <1>2 DEF Apart, contains, Addr
<1>3. CASE ~Apart(c, d)
  <2>1. CASE c.base <= d.base
    <3>1. contains(c, d.base)
      BY <1>1, <1>3, <2>1 DEF Apart, contains
    <3> QED BY <1>1, <1>3, <3>1
  <2>2. CASE d.base <= c.base
    <3>1. contains(d, c.base)
      BY <1>1, <1>3, <2>2 DEF Apart, contains
    <3> QED BY <1>1, <1>3, <3>1
  <2> QED BY <1>1, <2>1, <2>2
<1> QED BY <1>2, <1>3

\* Of a set that covers the address space, two chunks are equal if they share
\* a byte, so the base of a chunk and its end name it.
LEMMA TilesOnce ==
    ASSUME NEW S, \A c \in S : c \in Chunk, Tiles(S),
           NEW c \in S, NEW d \in S
    PROVE  /\ ~Apart(c, d) => c = d
           /\ c.base = d.base => c = d
           /\ End(c) = End(d) => c = d
<1>1. /\ c.base \in Nat /\ d.base \in Nat /\ End(c) \in Nat /\ End(d) \in Nat
      /\ c.base < End(c) /\ d.base < End(d)
  BY ChunkNumbers
<1>2. c # d => Apart(c, d)
  BY DEF Tiles
<1> QED BY <1>1, <1>2 DEF Apart

\* Replacing some chunks by others that cover the same bytes, each once
LEMMA Retiled ==
    ASSUME NEW S, \A c \in S : c \in Chunk, Tiles(S),
           NEW Old \in SUBSET S, NEW New, \A c \in New : c \in Chunk,
           \A c, d \in New : c # d => Apart(c, d),
           \A a \in Addr : (\E c \in Old : contains(c, a)) <=> (\E c \in New : contains(c, a))
    PROVE  /\ Tiles((S \ Old) \cup New)
           /\ New \cap (S \ Old) = {}
           /\ \A c \in S \ Old, d \in New : Apart(c, d) /\ Apart(d, c)
<1>1. ASSUME NEW c \in S \ Old, NEW d \in New
      PROVE  Apart(c, d) /\ Apart(d, c)
  <2>1. ASSUME NEW a \in Addr, contains(c, a), contains(d, a) PROVE FALSE
    <3>1. PICK e \in Old : contains(e, a)
      BY <2>1
    <3>2. e # c /\ e \in S /\ c \in S /\ e \in Chunk /\ c \in Chunk
      OBVIOUS
    <3>3. Apart(c, e)
      BY <3>2 DEF Tiles
    <3> QED BY <2>1, <3>1, <3>2, <3>3, SharedByte
  <2>2. c \in Chunk /\ d \in Chunk
    OBVIOUS
  <2>3. Apart(c, d)
    BY <2>1, <2>2, SharedByte
  <2> QED BY <2>3 DEF Apart
<1>2. \A c, d \in (S \ Old) \cup New : c # d => Apart(c, d)
  BY <1>1 DEF Tiles
<1>3. ASSUME NEW a \in Addr PROVE \E c \in (S \ Old) \cup New : contains(c, a)
  BY DEF Tiles
<1>4. ASSUME NEW c \in New, c \in S \ Old PROVE FALSE
  <2>1. Apart(c, c) /\ c \in Chunk
    BY <1>1, <1>4
  <2> QED BY <2>1, ChunkNumbers DEF Apart
<1> QED BY <1>1, <1>2, <1>3, <1>4 DEF Tiles

\* The size of a well-formed chunk is one the buckets are made for.
LEMMA WellFormedSize ==
    ASSUME NEW c, WellFormed(c)
    PROVE  /\ c \in Chunk /\ c.size \in MIN_CHUNK_SIZE .. MemSize
           /\ bucket_for(c.size) \in Bucket
<1>1. c \in Chunk /\ c.size \in Int /\ c.size > 0 /\ c.size % MIN_CHUNK_SIZE = 0
      /\ c.size <= MemSize
  BY ChunkNumbers DEF WellFormed
<1>2. c.size >= MIN_CHUNK_SIZE
  BY <1>1, MultipleAtLeast, SizesOfMemory
<1> QED BY <1>1, <1>2, BucketFor, SizesOfMemory

\* In a sound allocator every unused chunk is found in its bucket.
LEMMA Removable ==
    ASSUME NEW h, HeapSound(h), NEW u \in h.unused
    PROVE  removable(h, u)
BY WellFormedSize DEF HeapSound, removable

----------------------------------------------------------------------------
(* The operations of the allocator *)

\* The pieces P of the unused chunk u, without the piece c that is taken.
LEMMA HeapSplit ==
    ASSUME NEW h, HeapSound(h), NEW u \in h.unused, NEW c, WellFormed(c),
           NEW P, \A p \in P : WellFormed(p), c \notin P,
           \A p, q \in P \cup {c} : p # q => Apart(p, q),
           \A a \in Addr : contains(u, a) <=> \E p \in P \cup {c} : contains(p, a)
    PROVE  /\ HeapSound([used    |-> h.used \cup {c},
                         unused  |-> (h.unused \ {u}) \cup P,
                         buckets |-> Rebucket(h.buckets, {u}, P)])
           /\ \A d \in h.used : Apart(c, d) /\ d.base # c.base
           /\ \A p \in P : insertable(h.unused \ {u}, p)
<1> DEFINE S == h.used \cup h.unused
           New == P \cup {c}
           k == [used    |-> h.used \cup {c},
                 unused  |-> (h.unused \ {u}) \cup P,
                 buckets |-> Rebucket(h.buckets, {u}, P)]
<1>1. /\ \A d \in S : d \in Chunk /\ WellFormed(d)
      /\ \A d \in New : d \in Chunk /\ WellFormed(d)
      /\ Tiles(S) /\ {u} \in SUBSET S /\ u \notin h.used
  BY DEF HeapSound, WellFormed
<1>2. \A a \in Addr : (\E d \in {u} : contains(d, a)) <=> (\E d \in New : contains(d, a))
  OBVIOUS
<1>3. /\ Tiles((S \ {u}) \cup New)
      /\ New \cap (S \ {u}) = {}
      /\ \A d \in S \ {u}, p \in New : Apart(d, p) /\ Apart(p, d)
  <2> HIDE DEF S, New
  <2>1. \A p, q \in New : p # q => Apart(p, q)
    BY DEF New
  <2>2. \A d \in S : d \in Chunk
    BY <1>1
  <2>3. \A d \in New : d \in Chunk
    BY <1>1
  <2> DEFINE Old == {u}
  <2>4. Tiles(S) /\ Old \in SUBSET S
    BY <1>1
  <2>5. \A a \in Addr : (\E d \in Old : contains(d, a)) <=> (\E d \in New : contains(d, a))
    BY <1>2
  <2> HIDE DEF Old
  <2>6. /\ Tiles((S \ Old) \cup New)
        /\ New \cap (S \ Old) = {}
        /\ \A d \in S \ Old, p \in New : Apart(d, p) /\ Apart(p, d)
    BY <2>1, <2>2, <2>3, <2>4, <2>5, Retiled
  <2> QED BY <2>6 DEF Old
<1>4. (h.used \cup {c}) \cup ((h.unused \ {u}) \cup P) = (S \ {u}) \cup New
  BY <1>1
<1>5. (h.used \cup {c}) \cap ((h.unused \ {u}) \cup P) = {}
  BY <1>1, <1>3 DEF HeapSound
<1>6. /\ Rebucket(h.buckets, {u}, P) \in [Bucket -> SUBSET Chunk]
      /\ \A b \in Bucket : Rebucket(h.buckets, {u}, P)[b]
            = {d \in (h.unused \ {u}) \cup P : bucket_for(d.size) = b}
  <2>1. P \in SUBSET Chunk
    BY <1>1
  <2>2. /\ h.buckets \in [Bucket -> SUBSET Chunk]
        /\ \A b \in Bucket : h.buckets[b] = {d \in h.unused : bucket_for(d.size) = b}
    BY DEF HeapSound
  <2> QED BY <2>1, <2>2 DEF Rebucket
<1>7. \A d \in (S \ {u}) \cup New : WellFormed(d)
  BY <1>1
<1>8. HeapSound(k)
  BY <1>3, <1>4, <1>5, <1>6, <1>7 DEF HeapSound
<1>9. ASSUME NEW p \in New, NEW d \in S \ {u} PROVE d.base # p.base
  <2>1. p \in Chunk /\ d \in Chunk /\ Apart(d, p)
    BY <1>1, <1>3
  <2> QED BY <2>1, ChunkNumbers DEF Apart
<1>10. ASSUME NEW p \in P PROVE insertable(h.unused \ {u}, p)
  <2>1. p.size >= MIN_CHUNK_SIZE
    BY WellFormedSize
  <2> QED BY <2>1, <1>9 DEF insertable
<1>11. \A d \in h.used : d \in S \ {u}
  BY <1>1
<1> QED BY <1>3, <1>8, <1>9, <1>10, <1>11

\* The rounded size of a request is at least what was asked for, fits any
\* chunk the assertions accept, and is a multiple of the page from a page on.
LEMMA RoundedUp ==
    ASSUME NEW size \in 0 .. MemSize
    PROVE  /\ rounded(size) \in MIN_CHUNK_SIZE .. MemSize
           /\ rounded(size) >= size
           /\ rounded(size) % MIN_CHUNK_SIZE = 0
           /\ rounded(size) >= PAGE_SIZE => rounded(size) % PAGE_SIZE = 0
<1> USE SizesOfMemory
<1>1. PAGE_SIZE % MIN_CHUNK_SIZE = 0
  BY AllocatorAssumption
<1>2. CASE size < PAGE_SIZE
  <2> DEFINE s == IF size < MIN_CHUNK_SIZE THEN MIN_CHUNK_SIZE ELSE size
  <2>1. s \in Nat /\ s <= PAGE_SIZE /\ s >= size /\ s >= MIN_CHUNK_SIZE
    BY <1>2
  <2>2. rounded(size) = align(s, MIN_CHUNK_SIZE)
    BY <1>2 DEF rounded
  <2> HIDE DEF s
  <2>3. /\ rounded(size) \in Nat /\ rounded(size) % MIN_CHUNK_SIZE = 0
        /\ rounded(size) >= s /\ rounded(size) <= PAGE_SIZE
    BY <1>1, <2>1, <2>2, Aligned
  <2>4. rounded(size) >= PAGE_SIZE => rounded(size) = PAGE_SIZE
    BY <2>3
  <2>5. PAGE_SIZE % PAGE_SIZE = 0
    OBVIOUS
  <2> QED BY <2>1, <2>3, <2>4, <2>5
<1>3. CASE ~(size < PAGE_SIZE)
  <2>1. rounded(size) = align(size, PAGE_SIZE) /\ size \in Nat /\ size <= MemSize
    BY <1>3 DEF rounded
  <2>2. /\ rounded(size) \in Nat /\ rounded(size) % PAGE_SIZE = 0
        /\ rounded(size) >= size /\ rounded(size) <= MemSize
    BY <2>1, Aligned
  <2>3. rounded(size) % MIN_CHUNK_SIZE = 0
    BY <1>1, <2>2, MultipleOfMultiple
  <2> QED BY <1>3, <2>2, <2>3
<1> QED BY <1>2, <1>3

\* A piece of memory as a chunk
LEMMA PieceWellFormed ==
    ASSUME NEW b \in Nat, NEW s \in Nat, s > 0, b + s <= MemSize,
           b % MIN_CHUNK_SIZE = 0, s % MIN_CHUNK_SIZE = 0,
           s >= PAGE_SIZE => b % PAGE_SIZE = 0
    PROVE  LET c == [base |-> b, size |-> s]
           IN  WellFormed(c) /\ End(c) = b + s /\ c.base = b /\ c.size = s
BY SizesOfMemory DEF WellFormed, Chunk, Addr, End, Chunk_new_ok

\* A well-formed chunk in numbers, with what the assertions make of it
LEMMA WellFormedNumbers ==
    ASSUME NEW c, WellFormed(c)
    PROVE  /\ c \in Chunk /\ c.base \in Nat /\ c.size \in Nat /\ c.size >= 1
           /\ End(c) = c.base + c.size /\ End(c) <= MemSize
           /\ c.base % MIN_CHUNK_SIZE = 0 /\ c.size % MIN_CHUNK_SIZE = 0
           /\ c.size >= PAGE_SIZE => c.base % PAGE_SIZE = 0
           /\ \A a \in Addr : contains(c, a) <=> c.base <= a /\ a < c.base + c.size
<1>1. c \in Chunk
  BY DEF WellFormed
<1> QED BY <1>1, ChunkNumbers DEF WellFormed, Chunk_new_ok, contains

\* The pieces an allocation cuts its chunk into (allocate_in_bucket): what is
\* asked for, and the rump, cut at the next page where it has to be.
LEMMA RumpsFit ==
    ASSUME NEW e, WellFormed(e), NEW r \in MIN_CHUNK_SIZE .. MemSize,
           r % MIN_CHUNK_SIZE = 0, r >= PAGE_SIZE => r % PAGE_SIZE = 0,
           e.size >= r
    PROVE  LET c == chunk(e.base, r)
               P == rumps(e, r)
           IN  /\ WellFormed(c) /\ c.base = e.base /\ c.size = r
               /\ \A p \in P : WellFormed(p)
               /\ c \notin P
               /\ \A p, q \in P \cup {c} : p # q => Apart(p, q)
               /\ \A a \in Addr : contains(e, a) <=> \E p \in P \cup {c} : contains(p, a)
               /\ realigned(e, r) => e.base % PAGE_SIZE = 0
<1> USE SizesOfMemory
<1> DEFINE c == [base |-> e.base, size |-> r]
           P == rumps(e, r)
<1>1. /\ e.base \in Nat /\ e.size \in Nat /\ End(e) = e.base + e.size /\ End(e) <= MemSize
      /\ e.base % MIN_CHUNK_SIZE = 0 /\ e.size % MIN_CHUNK_SIZE = 0
      /\ e.size >= PAGE_SIZE => e.base % PAGE_SIZE = 0
      /\ \A a \in Addr : contains(e, a) <=> e.base <= a /\ a < e.base + e.size
  BY WellFormedNumbers
<1>2. r \in Nat /\ r > 0 /\ r <= e.size
  OBVIOUS
<1>3. WellFormed(c) /\ End(c) = e.base + r /\ c.base = e.base /\ c.size = r
  BY <1>1, <1>2, PieceWellFormed
<1>4. /\ (e.base + r) % MIN_CHUNK_SIZE = 0 /\ (e.size - r) % MIN_CHUNK_SIZE = 0
      /\ PAGE_SIZE % MIN_CHUNK_SIZE = 0
  BY <1>1, <1>2, MultiplesAdd, AllocatorAssumption
<1>5. realigned(e, r) => e.base % PAGE_SIZE = 0 /\ r < PAGE_SIZE
  <2> SUFFICES ASSUME realigned(e, r) PROVE e.base % PAGE_SIZE = 0 /\ r < PAGE_SIZE
    OBVIOUS
  <2>1. e.size - r >= PAGE_SIZE /\ (e.base + r) % PAGE_SIZE # 0
    BY DEF realigned
  <2>2. e.size >= PAGE_SIZE
    BY <1>1, <1>2, <2>1
  <2>3. e.base % PAGE_SIZE = 0
    BY <1>1, <2>2
  <2>4. r >= PAGE_SIZE => (e.base + r) % PAGE_SIZE = 0
    BY <1>1, <1>2, <2>3, MultiplesAdd
  <2> QED BY <1>2, <2>1, <2>3, <2>4
<1>6. CASE e.size = r
  <2>1. P = {}
    BY <1>6 DEF rumps
  <2>2. \A a \in Addr : contains(c, a) <=> contains(e, a)
    BY <1>1, <1>3, <1>6 DEF contains
  <2> HIDE DEF c, P
  <2>3. /\ WellFormed(c) /\ c.base = e.base /\ c.size = r
        /\ \A p \in P : WellFormed(p)
        /\ c \notin P
        /\ \A p, q \in P \cup {c} : p # q => Apart(p, q)
        /\ \A a \in Addr : contains(e, a) <=> \E p \in P \cup {c} : contains(p, a)
    BY <1>3, <2>1, <2>2
  <2> QED BY <1>5, <2>3 DEF c, P, chunk
<1>7. CASE e.size # r /\ ~realigned(e, r)
  <2> DEFINE p == [base |-> e.base + r, size |-> e.size - r]
  <2>1. P = {p}
    BY <1>7 DEF rumps
  <2>2. e.size - r >= PAGE_SIZE => (e.base + r) % PAGE_SIZE = 0
    BY <1>7 DEF realigned
  <2>3. /\ e.base + r \in Nat /\ e.size - r \in Nat /\ e.size - r > 0
        /\ (e.base + r) + (e.size - r) = e.base + e.size
    <3>1. e.base \in Nat /\ e.size \in Nat /\ r \in Nat /\ r <= e.size /\ e.size # r
      BY <1>1, <1>2, <1>7
    <3> QED BY <3>1
  <2>4. WellFormed(p) /\ End(p) = e.base + e.size /\ p.base = e.base + r /\ p.size = e.size - r
    BY <1>1, <1>4, <2>2, <2>3, PieceWellFormed
  <2> HIDE DEF p, c, P
  <2>5. Apart(c, p) /\ Apart(p, c) /\ c # p
    BY <1>1, <1>2, <1>3, <2>3, <2>4 DEF Apart
  <2>6. ASSUME NEW a \in Addr PROVE contains(e, a) <=> contains(p, a) \/ contains(c, a)
    <3>1. contains(p, a) <=> e.base + r <= a /\ a < e.base + e.size
      BY <2>4 DEF contains
    <3>2. contains(c, a) <=> e.base <= a /\ a < e.base + r
      BY <1>3 DEF contains
    <3>3. a \in Nat
      BY DEF Addr
    <3> QED BY <1>1, <1>2, <3>1, <3>2, <3>3
  <2>7. /\ WellFormed(c) /\ c.base = e.base /\ c.size = r
        /\ \A q \in P : WellFormed(q)
        /\ c \notin P
        /\ \A q, s \in P \cup {c} : q # s => Apart(q, s)
        /\ \A a \in Addr : contains(e, a) <=> \E q \in P \cup {c} : contains(q, a)
    BY <1>3, <2>1, <2>4, <2>5, <2>6
  <2> QED BY <1>5, <2>7 DEF c, P, chunk
<1>8. CASE e.size # r /\ realigned(e, r)
  <2> DEFINE p == [base |-> e.base + r, size |-> PAGE_SIZE - r]
             o == [base |-> e.base + PAGE_SIZE, size |-> e.size - PAGE_SIZE]
  <2>1. P = {p, o}
    BY <1>8 DEF rumps
  <2>2. /\ e.base + r \in Nat /\ PAGE_SIZE - r \in Nat /\ PAGE_SIZE - r > 0
        /\ ~(PAGE_SIZE - r >= PAGE_SIZE)
        /\ e.base + PAGE_SIZE \in Nat /\ e.size - PAGE_SIZE \in Nat
        /\ e.size - PAGE_SIZE > 0 /\ e.size > PAGE_SIZE
        /\ (e.base + r) + (PAGE_SIZE - r) = e.base + PAGE_SIZE
        /\ (e.base + PAGE_SIZE) + (e.size - PAGE_SIZE) = e.base + e.size
    <3>1. r < PAGE_SIZE /\ e.size - r >= PAGE_SIZE
      BY <1>5, <1>8 DEF realigned
    <3>2. e.base \in Nat /\ e.size \in Nat /\ r \in Nat /\ r > 0 /\ PAGE_SIZE \in Nat
      BY <1>1, <1>2
    <3> QED BY <3>1, <3>2
  <2>3. /\ (PAGE_SIZE - r) % MIN_CHUNK_SIZE = 0
        /\ (e.base + PAGE_SIZE) % MIN_CHUNK_SIZE = 0
        /\ (e.size - PAGE_SIZE) % MIN_CHUNK_SIZE = 0
    <3>1. e.base \in Int /\ e.size \in Int /\ r \in Int /\ PAGE_SIZE \in Int
      BY <1>1, <1>2
    <3> QED BY <1>1, <1>4, <3>1, MultiplesAdd
  <2>4. (e.base + PAGE_SIZE) % PAGE_SIZE = 0
    <3>1. PAGE_SIZE % PAGE_SIZE = 0 /\ e.base % PAGE_SIZE = 0
      BY <1>5, <1>8
    <3> QED BY <1>1, <3>1, MultiplesAdd
  <2>5. WellFormed(p) /\ End(p) = e.base + PAGE_SIZE /\ p.base = e.base + r
        /\ p.size = PAGE_SIZE - r
    BY <1>1, <1>4, <2>2, <2>3, PieceWellFormed
  <2>6. WellFormed(o) /\ End(o) = e.base + e.size /\ o.base = e.base + PAGE_SIZE
        /\ o.size = e.size - PAGE_SIZE
    BY <1>1, <2>2, <2>3, <2>4, PieceWellFormed
  <2> HIDE DEF p, o, c, P
  <2>7. /\ Apart(c, p) /\ Apart(p, c) /\ c # p
        /\ Apart(c, o) /\ Apart(o, c) /\ c # o
        /\ Apart(p, o) /\ Apart(o, p)
    BY <1>1, <1>2, <1>3, <1>5, <1>8, <2>2, <2>5, <2>6 DEF Apart
  <2>8. ASSUME NEW a \in Addr
        PROVE  contains(e, a) <=> contains(p, a) \/ contains(o, a) \/ contains(c, a)
    <3>1. contains(p, a) <=> e.base + r <= a /\ a < e.base + PAGE_SIZE
      BY <2>5 DEF contains
    <3>2. contains(o, a) <=> e.base + PAGE_SIZE <= a /\ a < e.base + e.size
      BY <2>6 DEF contains
    <3>3. contains(c, a) <=> e.base <= a /\ a < e.base + r
      BY <1>3 DEF contains
    <3>4. a \in Nat
      BY DEF Addr
    <3> QED BY <1>1, <1>2, <1>5, <1>8, <2>2, <3>1, <3>2, <3>3, <3>4
  <2>9. /\ WellFormed(c) /\ c.base = e.base /\ c.size = r
        /\ \A q \in P : WellFormed(q)
        /\ c \notin P
        /\ \A q, s \in P \cup {c} : q # s => Apart(q, s)
        /\ \A a \in Addr : contains(e, a) <=> \E q \in P \cup {c} : contains(q, a)
    BY <1>3, <2>1, <2>5, <2>6, <2>7, <2>8
  <2> QED BY <1>5, <2>9 DEF c, P, chunk
<1> QED BY <1>6, <1>7, <1>8

\* Allocator::alloc of a chunk that is large enough runs into no assertion and
\* leaves the allocator sound; the block is apart from all others.
LEMMA AllocSound ==
    ASSUME NEW h, HeapSound(h), NEW size \in 0 .. MemSize,
           NEW e \in h.unused, e.size >= rounded(size)
    PROVE  LET c == chunk(e.base, rounded(size))
           IN  /\ alloc_ok(h, size, e)
               /\ HeapSound(alloc(h, size, e))
               /\ alloc(h, size, e).used = h.used \cup {c}
               /\ WellFormed(c) /\ c.base = e.base /\ c.size = rounded(size)
               /\ \A d \in h.used : Apart(c, d) /\ d.base # c.base
<1> DEFINE r == rounded(size)
           c == chunk(e.base, r)
           P == rumps(e, r)
<1>1. WellFormed(e)
  BY DEF HeapSound
<1>2. /\ r \in MIN_CHUNK_SIZE .. MemSize /\ r % MIN_CHUNK_SIZE = 0
      /\ r >= PAGE_SIZE => r % PAGE_SIZE = 0
  BY RoundedUp
<1> HIDE DEF r
<1>3. /\ WellFormed(c) /\ c.base = e.base /\ c.size = r
      /\ \A p \in P : WellFormed(p)
      /\ c \notin P
      /\ \A p, q \in P \cup {c} : p # q => Apart(p, q)
      /\ \A a \in Addr : contains(e, a) <=> \E p \in P \cup {c} : contains(p, a)
      /\ realigned(e, r) => e.base % PAGE_SIZE = 0
  BY <1>1, <1>2, RumpsFit DEF r
<1> HIDE DEF c, P
<1>4. /\ HeapSound([used    |-> h.used \cup {c},
                    unused  |-> (h.unused \ {e}) \cup P,
                    buckets |-> Rebucket(h.buckets, {e}, P)])
      /\ \A d \in h.used : Apart(c, d) /\ d.base # c.base
      /\ \A p \in P : insertable(h.unused \ {e}, p)
  BY <1>3, HeapSplit
<1>5. alloc(h, size, e) = [used    |-> h.used \cup {c},
                           unused  |-> (h.unused \ {e}) \cup P,
                           buckets |-> Rebucket(h.buckets, {e}, P)]
  BY DEF alloc, c, P, r
<1>6. Chunk_new_ok(e.base, r)
  BY <1>3 DEF WellFormed
<1>7. alloc_ok(h, size, e)
  BY <1>3, <1>4, <1>6 DEF alloc_ok, allocate_ok, WellFormed, P, r
<1>8. alloc(h, size, e).used = h.used \cup {c} /\ HeapSound(alloc(h, size, e))
  BY <1>4, <1>5
<1> QED BY <1>3, <1>4, <1>7, <1>8 DEF c, r

\* reserve of a range of whole pages inside an unused chunk runs into no
\* assertion and leaves the allocator sound.
LEMMA ReserveSound ==
    ASSUME NEW h, HeapSound(h), NEW u \in h.unused, NEW c \in Chunk,
           c.base % PAGE_SIZE = 0, c.size % PAGE_SIZE = 0, trisects(u, c)
    PROVE  /\ reserve_ok(h, c, u)
           /\ HeapSound(reserve(h, c, u))
           /\ reserve(h, c, u).used = h.used \cup {c}
           /\ WellFormed(c)
           /\ \A d \in h.used : Apart(c, d) /\ d.base # c.base
<1> USE SizesOfMemory
<1> DEFINE P == trisect_by(u, c)
           p == [base |-> u.base, size |-> c.base - u.base]
           q == [base |-> End(c), size |-> End(u) - End(c)]
<1>1. WellFormed(u)
  BY DEF HeapSound
<1>2. /\ u \in Chunk /\ u.base \in Nat /\ u.size \in Nat
      /\ End(u) = u.base + u.size /\ End(u) <= MemSize
      /\ u.base % MIN_CHUNK_SIZE = 0 /\ u.size % MIN_CHUNK_SIZE = 0
      /\ u.size >= PAGE_SIZE => u.base % PAGE_SIZE = 0
  BY <1>1, WellFormedNumbers
<1>3. /\ c.base \in Nat /\ c.size \in Nat /\ c.size >= 1
      /\ End(c) = c.base + c.size /\ End(c) <= MemSize
  BY ChunkNumbers
<1>4. u.base <= c.base /\ End(c) <= End(u)
  BY <1>2, <1>3 DEF trisects, contains
<1>5. PAGE_SIZE % MIN_CHUNK_SIZE = 0
  BY AllocatorAssumption
<1>6. c.base % MIN_CHUNK_SIZE = 0 /\ c.size % MIN_CHUNK_SIZE = 0
  BY <1>3, <1>5, MultipleOfMultiple
<1>7. WellFormed(c)
  BY <1>6 DEF WellFormed, Chunk_new_ok, Chunk
<1>8. End(c) % PAGE_SIZE = 0 /\ End(c) % MIN_CHUNK_SIZE = 0 /\ End(u) % MIN_CHUNK_SIZE = 0
  BY <1>2, <1>3, <1>6, MultiplesAdd
<1>9. (c.base - u.base) % MIN_CHUNK_SIZE = 0 /\ (End(u) - End(c)) % MIN_CHUNK_SIZE = 0
  <2>1. c.base \in Int /\ u.base \in Int /\ End(u) \in Int /\ End(c) \in Int
    BY <1>2, <1>3
  <2> QED BY <1>2, <1>6, <1>8, <2>1, MultiplesAdd
<1>10. P = {x \in {p, q} : x.size > 0}
  BY DEF trisect_by
<1>11. p.base = u.base /\ p.size = c.base - u.base /\ q.base = End(c) /\ q.size = End(u) - End(c)
  OBVIOUS
<1>12. p.size > 0 => WellFormed(p) /\ End(p) = c.base
  <2>1. c.base - u.base >= PAGE_SIZE => u.base % PAGE_SIZE = 0
    BY <1>2, <1>3, <1>4
  <2>2. c.base - u.base \in Nat /\ u.base + (c.base - u.base) = c.base /\ c.base <= MemSize
    BY <1>2, <1>3, <1>4
  <2> QED BY <1>2, <1>9, <2>1, <2>2, PieceWellFormed
<1>13. q.size > 0 => WellFormed(q) /\ End(q) = End(u)
  <2>1. End(u) - End(c) \in Nat /\ End(c) + (End(u) - End(c)) = End(u) /\ End(c) \in Nat
    BY <1>2, <1>3, <1>4
  <2> QED BY <1>2, <1>8, <1>9, <2>1, PieceWellFormed
<1> HIDE DEF p, q, P
<1>14. \A x \in P : WellFormed(x)
  BY <1>10, <1>12, <1>13
<1>15. /\ p.size > 0 => Apart(p, c) /\ Apart(c, p) /\ p # c
       /\ q.size > 0 => Apart(q, c) /\ Apart(c, q) /\ q # c
       /\ p.size > 0 /\ q.size > 0 => Apart(p, q) /\ Apart(q, p)
  BY <1>2, <1>3, <1>4, <1>11, <1>12, <1>13 DEF Apart
<1>16. c \notin P /\ \A x, y \in P \cup {c} : x # y => Apart(x, y)
  BY <1>10, <1>15
<1>17. ASSUME NEW a \in Addr
       PROVE  contains(u, a) <=> \E x \in P \cup {c} : contains(x, a)
  <2>1. a \in Nat
    BY DEF Addr
  <2>2. contains(u, a) <=> u.base <= a /\ a < End(u)
    BY DEF contains
  <2>3. contains(c, a) <=> c.base <= a /\ a < End(c)
    BY DEF contains
  <2>4. p.size > 0 /\ contains(p, a) <=> u.base <= a /\ a < c.base
    BY <1>2, <1>3, <1>4, <1>11, <1>12, <2>1 DEF contains
  <2>5. q.size > 0 /\ contains(q, a) <=> End(c) <= a /\ a < End(u)
    BY <1>2, <1>3, <1>4, <1>11, <1>13, <2>1 DEF contains
  <2>6. contains(u, a) <=> (p.size > 0 /\ contains(p, a)) \/ contains(c, a)
                             \/ (q.size > 0 /\ contains(q, a))
    BY <1>2, <1>3, <1>4, <2>1, <2>2, <2>3, <2>4, <2>5
  <2> QED BY <1>10, <2>6
<1>18. /\ HeapSound([used    |-> h.used \cup {c},
                     unused  |-> (h.unused \ {u}) \cup P,
                     buckets |-> Rebucket(h.buckets, {u}, P)])
       /\ \A d \in h.used : Apart(c, d) /\ d.base # c.base
       /\ \A x \in P : insertable(h.unused \ {u}, x)
  BY <1>7, <1>14, <1>16, <1>17, HeapSplit
<1>19. reserve(h, c, u) = [used    |-> h.used \cup {c},
                           unused  |-> (h.unused \ {u}) \cup P,
                           buckets |-> Rebucket(h.buckets, {u}, P)]
  BY DEF reserve, P
<1>20. reserve_ok(h, c, u)
  BY <1>7, <1>14, <1>18, Removable DEF reserve_ok, WellFormed, P
<1>21. reserve(h, c, u).used = h.used \cup {c} /\ HeapSound(reserve(h, c, u))
  BY <1>18, <1>19
<1> QED BY <1>7, <1>18, <1>20, <1>21

\* The neighbour that free finds is at most one, and next to the chunk.
LEMMA Neighbour ==
    ASSUME NEW h, HeapSound(h), NEW c \in h.used
    PROVE  /\ \A u, v \in adjacent(h, c) : u = v
           /\ \A u \in adjacent(h, c) :
                 u \in h.unused /\ u # c /\ (u.base = End(c) \/ End(u) = c.base)
<1> DEFINE S == h.used \cup h.unused
<1>1. /\ \A d \in S : d \in Chunk
      /\ Tiles(S) /\ h.unused \subseteq S /\ c \in S /\ c \notin h.unused
  BY DEF HeapSound, WellFormed
<1> HIDE DEF S
<1>2. /\ \A u, v \in after(h, c) : u = v
      /\ \A u, v \in before(h, c) : u = v
  <2>1. ASSUME NEW u \in h.unused, NEW v \in h.unused
        PROVE  /\ u.base = v.base => u = v
               /\ End(u) = End(v) => u = v
    BY <1>1, TilesOnce
  <2> QED BY <2>1 DEF after, before
<1> QED BY <1>1, <1>2 DEF adjacent, after, before

\* Allocator::free of a used chunk runs into no assertion and leaves the
\* allocator sound.
LEMMA FreeSound ==
    ASSUME NEW h, HeapSound(h), NEW c \in h.used
    PROVE  /\ free_ok(h, c)
           /\ HeapSound(free(h, c))
           /\ free(h, c).used = h.used \ {c}
<1> USE SizesOfMemory
<1> DEFINE S == h.used \cup h.unused
           G == glued(h, c)
           R == returned(h, c)
           Old == {c} \cup G
<1>1. /\ \A d \in S : d \in Chunk /\ WellFormed(d)
      /\ Tiles(S) /\ h.unused \subseteq S /\ c \in S /\ c \notin h.unused
      /\ G \subseteq h.unused /\ Old \subseteq S
  BY Neighbour DEF HeapSound, WellFormed, glued
<1>2. /\ \A r \in R : WellFormed(r)
      /\ \A r, s \in R : r = s
      /\ \A a \in Addr : (\E d \in Old : contains(d, a)) <=> (\E d \in R : contains(d, a))
  <2>1. CASE G = {}
    <3>1. R = {c} /\ Old = {c}
      BY <2>1 DEF returned
    <3> QED BY <1>1, <3>1
  <2>2. CASE G # {}
    <3>1. PICK u \in G : TRUE
      BY <2>2
    <3>2. /\ u \in adjacent(h, c) /\ G = {u} /\ u \in h.unused /\ u # c
          /\ u.base = End(c) \/ End(u) = c.base
          /\ Chunk_new_ok(lower(c, u), c.size + u.size)
      BY <3>1, Neighbour DEF glued
    <3> DEFINE r == combined(c, u)
    <3>3. R = {r} /\ Old = {c, u}
      BY <3>2 DEF returned
    <3>4. /\ c.base \in Nat /\ c.size \in Nat /\ c.size >= 1
          /\ End(c) = c.base + c.size /\ End(c) <= MemSize
          /\ c.base % MIN_CHUNK_SIZE = 0 /\ c.size % MIN_CHUNK_SIZE = 0
      BY <1>1, WellFormedNumbers
    <3>5. /\ u.base \in Nat /\ u.size \in Nat /\ u.size >= 1
          /\ End(u) = u.base + u.size /\ End(u) <= MemSize
          /\ u.base % MIN_CHUNK_SIZE = 0 /\ u.size % MIN_CHUNK_SIZE = 0
      BY <1>1, <3>2, WellFormedNumbers
    <3>6. (c.size + u.size) % MIN_CHUNK_SIZE = 0
      BY <3>4, <3>5, MultiplesAdd
    <3>7. /\ lower(c, u) \in Nat
          /\ lower(c, u) % MIN_CHUNK_SIZE = 0
          /\ lower(c, u) + (c.size + u.size) <= MemSize
          /\ \A a \in Nat : (lower(c, u) <= a /\ a < lower(c, u) + (c.size + u.size))
                              <=> \/ c.base <= a /\ a < c.base + c.size
                                  \/ u.base <= a /\ a < u.base + u.size
      <4>1. CASE u.base = End(c)
        <5>1. lower(c, u) = c.base
          BY <3>4, <3>5, <4>1 DEF lower
        <5> QED BY <3>4, <3>5, <4>1, <5>1
      <4>2. CASE End(u) = c.base
        <5>1. lower(c, u) = u.base
          BY <3>4, <3>5, <4>2 DEF lower
        <5> QED BY <3>4, <3>5, <4>2, <5>1
      <4> QED BY <3>2, <4>1, <4>2
    <3>8. r = [base |-> lower(c, u), size |-> c.size + u.size]
      BY DEF combined
    <3>9. c.size + u.size \in Nat /\ c.size + u.size > 0
      BY <3>4, <3>5
    <3>10. /\ WellFormed(r) /\ r.base = lower(c, u) /\ r.size = c.size + u.size
           /\ End(r) = lower(c, u) + (c.size + u.size)
      <4>1. c.size + u.size >= PAGE_SIZE => lower(c, u) % PAGE_SIZE = 0
        BY <3>2 DEF Chunk_new_ok
      <4> QED BY <3>6, <3>7, <3>8, <3>9, <4>1, PieceWellFormed
    <3> HIDE DEF r
    <3>11. ASSUME NEW a \in Addr
           PROVE  contains(r, a) <=> contains(c, a) \/ contains(u, a)
      <4>1. a \in Nat
        BY DEF Addr
      <4>2. contains(r, a) <=> lower(c, u) <= a /\ a < lower(c, u) + (c.size + u.size)
        BY <3>10 DEF contains
      <4>3. /\ contains(c, a) <=> c.base <= a /\ a < c.base + c.size
            /\ contains(u, a) <=> u.base <= a /\ a < u.base + u.size
        BY <3>4, <3>5 DEF contains
      <4> QED BY <3>7, <4>1, <4>2, <4>3
    <3> QED BY <3>3, <3>10, <3>11
  <2> QED BY <2>1, <2>2
<1> HIDE DEF G, R
<1>3. /\ Tiles((S \ Old) \cup R)
      /\ R \cap (S \ Old) = {}
      /\ \A d \in S \ Old, p \in R : Apart(d, p) /\ Apart(p, d)
  <2> HIDE DEF S, Old
  <2>1. \A d \in S : d \in Chunk
    BY <1>1
  <2>2. \A d \in R : d \in Chunk
    BY <1>2 DEF WellFormed
  <2>3. \A p, q \in R : p # q => Apart(p, q)
    BY <1>2
  <2>4. Tiles(S) /\ Old \in SUBSET S
    BY <1>1
  <2>5. \A a \in Addr : (\E d \in Old : contains(d, a)) <=> (\E d \in R : contains(d, a))
    BY <1>2
  <2> QED BY <2>1, <2>2, <2>3, <2>4, <2>5, Retiled
<1>4. (h.used \ {c}) \cup ((h.unused \ G) \cup R) = (S \ Old) \cup R
  <2>1. h.used \cap h.unused = {}
    BY DEF HeapSound
  <2> QED BY <1>1, <2>1
<1>5. (h.used \ {c}) \cap ((h.unused \ G) \cup R) = {}
  <2>1. h.used \cap h.unused = {}
    BY DEF HeapSound
  <2> QED BY <1>1, <1>3, <2>1
<1>6. /\ Rebucket(h.buckets, G, R) \in [Bucket -> SUBSET Chunk]
      /\ \A b \in Bucket : Rebucket(h.buckets, G, R)[b]
            = {d \in (h.unused \ G) \cup R : bucket_for(d.size) = b}
  <2>1. R \in SUBSET Chunk
    BY <1>2 DEF WellFormed
  <2>2. /\ h.buckets \in [Bucket -> SUBSET Chunk]
        /\ \A b \in Bucket : h.buckets[b] = {d \in h.unused : bucket_for(d.size) = b}
    BY DEF HeapSound
  <2> QED BY <2>1, <2>2 DEF Rebucket
<1>7. \A d \in (S \ Old) \cup R : WellFormed(d)
  BY <1>1, <1>2
<1>8. free(h, c) = [used    |-> h.used \ {c},
                    unused  |-> (h.unused \ G) \cup R,
                    buckets |-> Rebucket(h.buckets, G, R)]
  BY DEF free, G, R
<1>9. HeapSound(free(h, c)) /\ free(h, c).used = h.used \ {c}
  <2> DEFINE k == free(h, c)
  <2>1. /\ k = [used |-> k.used, unused |-> k.unused, buckets |-> k.buckets]
        /\ k.used = h.used \ {c} /\ k.unused = (h.unused \ G) \cup R
        /\ k.buckets = Rebucket(h.buckets, G, R)
    BY <1>8
  <2> HIDE DEF k
  <2>2. k.used \cup k.unused = (S \ Old) \cup R /\ k.used \cap k.unused = {}
    BY <1>4, <1>5, <2>1
  <2> HIDE DEF S, Old
  <2>3. HeapSound(k)
    BY <1>3, <1>6, <1>7, <2>1, <2>2 DEF HeapSound
  <2> QED BY <2>1, <2>3 DEF k
<1>10. ASSUME NEW p \in R PROVE insertable(h.unused \ G, p)
  <2>1. p.size >= MIN_CHUNK_SIZE /\ p \in Chunk
    BY <1>2, WellFormedSize
  <2>2. ASSUME NEW d \in h.unused \ G PROVE d.base # p.base
    <3>1. d \in S \ Old /\ d \in Chunk
      BY <1>1
    <3>2. Apart(d, p)
      BY <1>3, <3>1
    <3> QED BY <2>1, <3>1, <3>2, ChunkNumbers DEF Apart
  <2> QED BY <2>1, <2>2 DEF insertable
<1>11. free_ok(h, c)
  BY <1>10, Neighbour, Removable DEF free_ok, G, R
<1> QED BY <1>9, <1>11

\* Of the chunks of a bucket that are large enough one is the smallest.
LEMMA BestInBucket ==
    ASSUME NEW h, HeapSound(h), NEW r \in Nat, NEW b \in Bucket,
           NEW u \in h.buckets[b], u.size >= r
    PROVE  best_in_bucket(h, r, b) # {}
<1> DEFINE Sized == {n \in Nat : \E d \in h.buckets[b] : d.size = n /\ n >= r}
<1>1. \A d \in h.buckets[b] : d \in Chunk /\ d.size \in Nat
  <2>1. \A d \in h.buckets[b] : d \in Chunk
    BY DEF HeapSound
  <2> QED BY <2>1, ChunkNumbers
<1>2. Sized # {} /\ Sized \in SUBSET Nat
  BY <1>1
<1>3. PICK n \in Sized : \A m \in Sized : n <= m
  <2> HIDE DEF Sized
  <2> QED BY <1>2, LeastNatural
<1>4. PICK d \in h.buckets[b] : d.size = n /\ n >= r
  BY <1>3
<1>5. \A x \in h.buckets[b] : x.size >= r => d.size <= x.size
  BY <1>1, <1>3, <1>4
<1>6. d \in best_in_bucket(h, r, b)
  BY <1>4, <1>5 DEF best_in_bucket
<1> QED BY <1>6

\* The search by buckets finds unused chunks that are large enough, and misses
\* none: in its own bucket a request meets chunks that are too small, in the
\* next one that is not empty every chunk will do.
LEMMA CandidatesFit ==
    ASSUME NEW h, HeapSound(h), NEW r \in MIN_CHUNK_SIZE .. MemSize
    PROVE  /\ \A e \in candidates(h, r) : e \in h.unused /\ e.size >= r
           /\ candidates(h, r) = {} => \A u \in h.unused : u.size < r
<1>1. /\ r \in Nat /\ bucket_for(r) \in Bucket
      /\ \A b \in Bucket : b \in Nat
  BY SizesOfMemory, BucketFor DEF Bucket
<1>2. \A b \in Bucket : h.buckets[b] = {c \in h.unused : bucket_for(c.size) = b}
  BY DEF HeapSound
<1>3. \A b \in Bucket : \A e \in best_in_bucket(h, r, b) : e \in h.unused /\ e.size >= r
  BY <1>2 DEF best_in_bucket
<1>4. \A e \in candidates(h, r) : e \in h.unused /\ e.size >= r
  BY <1>1, <1>3 DEF candidates, LargerBuckets
<1>5. ASSUME NEW u \in h.unused, ~(u.size < r)
      PROVE  candidates(h, r) # {}
  <2>1. u.size \in MIN_CHUNK_SIZE .. MemSize /\ bucket_for(u.size) \in Bucket
    BY WellFormedSize DEF HeapSound
  <2>2. u.size >= r /\ bucket_for(r) <= bucket_for(u.size)
    <3>1. u.size >= r
      BY <1>1, <1>5, <2>1, SizesOfMemory
    <3> QED BY <2>1, <3>1, BucketFor
  <2>3. CASE bucket_for(u.size) = bucket_for(r)
    <3>1. u \in h.buckets[bucket_for(r)]
      BY <1>1, <1>2, <2>3
    <3>2. best_in_bucket(h, r, bucket_for(r)) # {}
      BY <1>1, <2>2, <3>1, BestInBucket
    <3> QED BY <3>2 DEF candidates
  <2>4. CASE bucket_for(u.size) # bucket_for(r)
    <3> DEFINE L == LargerBuckets(h, r)
    <3>1. bucket_for(u.size) \in L /\ L \in SUBSET Nat
      BY <1>1, <1>2, <2>1, <2>2, <2>4 DEF LargerBuckets
    <3>2. PICK m \in L : \A n \in L : m <= n
      <4> HIDE DEF L
      <4> QED BY <3>1, LeastNatural
    <3>3. m \in Bucket /\ m > bucket_for(r) /\ h.buckets[m] # {}
      BY <3>2 DEF LargerBuckets
    <3>4. PICK v \in h.buckets[m] : TRUE
      BY <3>3
    <3>5. v \in h.unused /\ bucket_for(v.size) = m
      BY <1>2, <3>3, <3>4
    <3>6. v.size \in MIN_CHUNK_SIZE .. MemSize
      BY <3>5, WellFormedSize DEF HeapSound
    <3>7. v.size >= r
      <4>1. v.size <= r => m <= bucket_for(r)
        BY <3>5, <3>6, BucketFor
      <4> QED BY <1>1, <3>3, <3>6, <4>1, SizesOfMemory
    <3>8. best_in_bucket(h, r, m) # {}
      BY <1>1, <3>3, <3>7, BestInBucket
    <3> QED BY <3>2, <3>8 DEF candidates
  <2> QED BY <2>3, <2>4
<1> QED BY <1>4, <1>5

\* The allocator of a new process: the stack, and all below it.
LEMMA NewAllocatorSound ==
    /\ HeapSound(Allocator_new)
    /\ Allocator_new.used = {Stack}
    /\ WellFormed(Stack) /\ Stack.base # 0
<1> USE SizesOfMemory
<1> DEFINE L == MAIN_THREAD_STACK_LOW_END
           Z == MAIN_THREAD_STACK_SIZE
<1>1. /\ L \in Nat /\ L >= PAGE_SIZE /\ L % PAGE_SIZE = 0
      /\ Z \in Nat /\ Z >= PAGE_SIZE /\ Z % PAGE_SIZE = 0
      /\ PAGE_SIZE % MIN_CHUNK_SIZE = 0 /\ MemSize = L + Z
  BY AllocatorAssumption DEF MemSize
<1>2. L % MIN_CHUNK_SIZE = 0 /\ Z % MIN_CHUNK_SIZE = 0
  <2> HIDE DEF L, Z
  <2>1. L \in Int /\ Z \in Int
    BY <1>1
  <2> QED BY <1>1, <2>1, MultipleOfMultiple
<1>3. /\ Stack = [base |-> L, size |-> Z]
      /\ Rest = [base |-> 0, size |-> L]
  BY DEF Stack, Rest
<1> HIDE DEF L, Z
<1>4. WellFormed(Stack) /\ End(Stack) = MemSize /\ Stack.base = L /\ Stack.size = Z
  BY <1>1, <1>2, <1>3, PieceWellFormed
<1>5. WellFormed(Rest) /\ End(Rest) = L /\ Rest.base = 0 /\ Rest.size = L
  <2>1. 0 % MIN_CHUNK_SIZE = 0 /\ 0 % PAGE_SIZE = 0 /\ 0 + L = L
    BY <1>1
  <2> QED BY <1>1, <1>2, <1>3, <2>1, PieceWellFormed
<1>6. Stack # Rest /\ Apart(Stack, Rest) /\ Apart(Rest, Stack)
  BY <1>1, <1>4, <1>5 DEF Apart
<1>7. ASSUME NEW a \in Addr PROVE contains(Stack, a) \/ contains(Rest, a)
  BY <1>1, <1>4, <1>5 DEF contains, Addr
<1>8. Tiles({Stack} \cup {Rest})
  BY <1>6, <1>7 DEF Tiles
<1>9. Rest \in Chunk
  BY <1>5 DEF WellFormed
<1>10. /\ Allocator_new.used = {Stack} /\ Allocator_new.unused = {Rest}
       /\ Allocator_new.buckets = [b \in Bucket |-> {c \in {Rest} : bucket_for(c.size) = b}]
       /\ Allocator_new = [used |-> Allocator_new.used, unused |-> Allocator_new.unused,
                           buckets |-> Allocator_new.buckets]
  BY DEF Allocator_new
<1>11. /\ Allocator_new.buckets \in [Bucket -> SUBSET Chunk]
       /\ \A b \in Bucket : Allocator_new.buckets[b]
             = {c \in Allocator_new.unused : bucket_for(c.size) = b}
  BY <1>9, <1>10
<1>12. HeapSound(Allocator_new)
  BY <1>4, <1>5, <1>6, <1>8, <1>10, <1>11 DEF HeapSound
<1> QED BY <1>1, <1>4, <1>10, <1>12

----------------------------------------------------------------------------
(* The invariant of guest memory *)

\* What the guest holds, and who keeps address zero: the routine that returns
\* to the host in the app picker, the null segment in the app.
GuestInv ==
    /\ Stack \in allocator.used
    /\ \A ptr \in guest_blocks : ptr # 0 /\ ptr # Stack.base
    /\ phase \in {"picker", "run"} => \E c \in allocator.used : c.base = 0
    /\ null_segment_size # 0 => chunk(0, null_segment_size) \in allocator.used
    /\ phase \in {"picker boot", "picker"} =>
          zero_memory_on_free = TRUE /\ null_segment_size = 0
    /\ phase = "run" => null_segment_size # 0
    /\ phase \in {"picker boot", "load"} => guest_blocks = {} /\ answer.op # "alloc"
    /\ phase = "picker boot" => allocator = Allocator_new
    /\ phase = "picker boot" \/ (phase = "load" /\ null_segment_size = 0) =>
          answer.op = "none"

\* Where free zeroes, and until the app runs, what nobody uses is zero.
Clean == zero_memory_on_free = TRUE \/ phase = "load"

CleanInv ==
    Clean => \A a \in Addr : bytes[a] = 0 \/ \E c \in allocator.used : contains(c, a)

MemInv ==
    /\ MemTypeOK /\ NullNeverGiven
    /\ HeapSound(allocator)
    /\ mem_panic # "assert"
    /\ GuestInv /\ CleanInv

\* A sound allocator has the types of one.
LEMMA SoundTyped ==
    ASSUME NEW h, HeapSound(h)
    PROVE  /\ h.used \subseteq Chunk /\ h.unused \subseteq Chunk
           /\ h.buckets \in [Bucket -> SUBSET Chunk]
           /\ DOMAIN h = {"used", "unused", "buckets"}
BY DEF HeapSound, WellFormed

\* A chunk put apart from all that is used: it shares no byte with them, and
\* none with the null segment below.
LEMMA PutApart ==
    ASSUME MemInv, NEW c \in Chunk,
           \A d \in allocator.used : Apart(c, d) /\ d.base # c.base
    PROVE  /\ \A d \in allocator.used : \A a \in Addr : contains(c, a) => ~contains(d, a)
           /\ Clean => \A a \in Addr : contains(c, a) => bytes[a] = 0
           /\ c \notin allocator.used /\ c.base \in Addr /\ c.base \in Nat
           /\ c.base # Stack.base
           /\ phase \in {"picker", "run"} => c.base # 0
           /\ accessible(c.base)
<1>1. \A d \in allocator.used : d \in Chunk
  BY SoundTyped DEF MemInv
<1>2. \A d \in allocator.used : \A a \in Addr : contains(c, a) => ~contains(d, a)
  BY <1>1, SharedByte
<1>3. Clean => \A a \in Addr : contains(c, a) => bytes[a] = 0
  BY <1>2 DEF MemInv, CleanInv
<1>4. c.base \in Nat /\ c.base \in Addr /\ c.base < End(c) /\ End(c) \in Nat
  BY ChunkNumbers
<1>5. /\ c \notin allocator.used /\ c.base # Stack.base
      /\ phase \in {"picker", "run"} => c.base # 0
  BY DEF MemInv, GuestInv
<1>6. accessible(c.base)
  <2>1. CASE null_segment_size = 0
    BY <1>4, <2>1 DEF accessible
  <2>2. CASE null_segment_size # 0
    <3> DEFINE n == chunk(0, null_segment_size)
    <3>1. n \in allocator.used
      BY <2>2 DEF MemInv, GuestInv
    <3>2. /\ n \in Chunk /\ Apart(c, n) /\ End(n) = n.base + n.size
          /\ n.base = 0 /\ n.size = null_segment_size /\ n.size \in Nat
      <4>1. n \in Chunk /\ Apart(c, n)
        BY <1>1, <3>1
      <4>2. n.base = 0 /\ n.size = null_segment_size
        BY DEF chunk
      <4> HIDE DEF n
      <4> QED BY <4>1, <4>2, ChunkNumbers
    <3> HIDE DEF n
    <3> QED BY <1>4, <3>2 DEF Apart, accessible
  <2> QED BY <2>1, <2>2
<1> QED BY <1>2, <1>3, <1>4, <1>5, <1>6

\* An allocation that the search found a chunk for
LEMMA Placed ==
    ASSUME MemInv, NEW size \in Sizes, NEW e \in candidates(allocator, rounded(size)),
           NEW c, c = chunk(e.base, rounded(size)),
           NEW h, h = alloc(allocator, size, e)
    PROVE  /\ alloc_ok(allocator, size, e)
           /\ HeapSound(h) /\ h.used = allocator.used \cup {c}
           /\ c \in Chunk /\ c.base = e.base /\ c.size \in Nat
           /\ size \in 0 .. MemSize /\ size <= c.size
           /\ \A d \in allocator.used : Apart(c, d) /\ d.base # c.base
<1>1. size \in 0 .. MemSize
  BY SegmentsAssumption
<1>2. /\ rounded(size) \in MIN_CHUNK_SIZE .. MemSize /\ rounded(size) >= size
      /\ rounded(size) \in Nat
  BY <1>1, RoundedUp, SizesOfMemory
<1>3. HeapSound(allocator) /\ e \in allocator.unused /\ e.size >= rounded(size)
  BY <1>2, CandidatesFit DEF MemInv
<1>4. /\ alloc_ok(allocator, size, e)
      /\ HeapSound(h) /\ h.used = allocator.used \cup {c}
      /\ WellFormed(c) /\ c.base = e.base /\ c.size = rounded(size)
      /\ \A d \in allocator.used : Apart(c, d) /\ d.base # c.base
  BY <1>1, <1>3, AllocSound
<1> QED BY <1>1, <1>2, <1>4 DEF WellFormed

\* The blocks of the abstract heap are chunks that are apart.
LEMMA JoinsLive ==
    ASSUME MemInv, NEW c \in Chunk,
           \A d \in allocator.used : Apart(c, d) /\ d.base # c.base
    PROVE  H!Joins(c)
<1>1. c \in H!Block
  BY DEF Chunk, H!Block, Addr
<1>2. c.base + c.size <= MemSize
  BY DEF Chunk, End
<1> QED BY <1>1, <1>2 DEF H!Joins, H!Apart, Apart, End

\* The first state
LEMMA MemInitially == MemInit => MemInv /\ H!HeapInit
<1> SUFFICES ASSUME MemInit PROVE MemInv /\ H!HeapInit
  OBVIOUS
<1>1. HeapSound(allocator) /\ allocator.used = {Stack}
  BY NewAllocatorSound DEF MemInit
<1>2. 0 \in 0 .. MemSize
  BY SizesOfMemory
<1>3. MemTypeOK
  BY <1>1, <1>2, SoundTyped DEF MemInit, MemTypeOK, NoAnswer
<1>4. GuestInv /\ NullNeverGiven /\ CleanInv
  BY <1>1 DEF MemInit, GuestInv, NullNeverGiven, CleanInv, NoAnswer
<1>5. H!HeapInit
  BY <1>1 DEF MemInit, NoAnswer, H!HeapInit, Addr
<1> QED BY <1>1, <1>3, <1>4, <1>5 DEF MemInv, MemInit

\* malloc and calloc: a block of the heap is granted.
LEMMA AllocatesStep ==
    ASSUME MemInv, NEW size \in Sizes, NEW e \in allocator.unused,
           malloc(size, e) \/ calloc(size, e)
    PROVE  MemInv' /\ H!HeapNext
<1> DEFINE c == chunk(e.base, rounded(size))
<1>1. /\ Alive /\ phase \in {"picker", "run"}
      /\ e \in candidates(allocator, rounded(size))
      /\ Asserts(alloc_ok(allocator, size, e) /\ accessible(e.base))
      /\ allocator' = alloc(allocator, size, e)
      /\ guest_blocks' = guest_blocks \cup {e.base}
      /\ answer' = [op |-> "alloc", ptr |-> e.base, asked |-> size]
      /\ null_segment_size' = null_segment_size
      /\ zero_memory_on_free' = zero_memory_on_free /\ phase' = phase
  BY DEF malloc, calloc, Serving, Gives
<1> HIDE DEF c
<1>2. /\ alloc_ok(allocator, size, e)
      /\ HeapSound(allocator') /\ allocator'.used = allocator.used \cup {c}
      /\ c \in Chunk /\ c.base = e.base /\ c.size \in Nat
      /\ size \in 0 .. MemSize /\ size <= c.size
      /\ \A d \in allocator.used : Apart(c, d) /\ d.base # c.base
  BY <1>1, Placed DEF c
<1>3. /\ \A d \in allocator.used : \A a \in Addr : contains(c, a) => ~contains(d, a)
      /\ Clean => \A a \in Addr : contains(c, a) => bytes[a] = 0
      /\ c \notin allocator.used /\ c.base \in Addr /\ c.base \in Nat
      /\ c.base # Stack.base /\ c.base # 0 /\ accessible(c.base)
  BY <1>1, <1>2, PutApart
<1>4. mem_panic' = mem_panic
  BY <1>1, <1>2, <1>3 DEF Asserts
<1>5. bytes \in [Addr -> {0, 1}]
  BY DEF MemInv, MemTypeOK
<1>6. /\ bytes' \in [Addr -> {0, 1}]
      /\ \A a \in Addr : c.base <= a /\ a < c.base + size => bytes'[a] = 0
      /\ \A a \in Addr : ~contains(c, a) => bytes'[a] = bytes[a]
      /\ \A a \in Addr : bytes'[a] = bytes[a] \/ bytes'[a] = 0
  <2>1. \A a \in Addr : a \in Nat
    BY DEF Addr
  <2>2. \A a \in Addr : c.base <= a /\ a < c.base + size => contains(c, a)
    BY <1>2, <1>3, <2>1 DEF contains, End
  <2>3. CASE zero_memory_on_free = TRUE
    <3>1. bytes' = bytes \/ bytes' = Zeroed(bytes, c.base, size)
      BY <1>2, <2>3 DEF malloc, calloc, bytes_after_alloc
    <3>2. \A a \in Addr : contains(c, a) => bytes[a] = 0
      BY <1>3, <2>3 DEF Clean
    <3>3. CASE bytes' = bytes
      BY <1>5, <2>2, <3>2, <3>3
    <3>4. CASE bytes' = Zeroed(bytes, c.base, size)
      BY <1>5, <2>2, <3>4 DEF Zeroed
    <3> QED BY <3>1, <3>3, <3>4
  <2>4. CASE zero_memory_on_free = FALSE
    <3>1. \/ bytes' = Zeroed(bytes, c.base, size)
          \/ bytes' = Zeroed(Zeroed(bytes, c.base, size), c.base, size)
      BY <1>2, <2>4 DEF malloc, calloc, bytes_after_alloc
    <3> DEFINE z == Zeroed(bytes, c.base, size)
    <3>2. z \in [Addr -> {0, 1}]
          /\ \A a \in Addr : z[a] = IF c.base <= a /\ a < c.base + size THEN 0 ELSE bytes[a]
      BY <1>5 DEF Zeroed
    <3> HIDE DEF z
    <3>3. bytes' \in [Addr -> {0, 1}]
          /\ \A a \in Addr : bytes'[a] = IF c.base <= a /\ a < c.base + size
                                         THEN 0 ELSE bytes[a]
      <4>1. CASE bytes' = z
        BY <3>2, <4>1
      <4>2. CASE bytes' = Zeroed(z, c.base, size)
        BY <3>2, <4>2 DEF Zeroed
      <4> QED BY <3>1, <4>1, <4>2 DEF z
    <3> QED BY <2>2, <3>3
  <2>5. zero_memory_on_free \in BOOLEAN
    BY DEF MemInv, MemTypeOK
  <2> QED BY <2>3, <2>4, <2>5
<1>7. MemTypeOK' /\ NullNeverGiven'
  <2>1. MemTypeOK
    BY DEF MemInv
  <2> QED BY <1>1, <1>2, <1>3, <1>4, <1>6, <2>1, SoundTyped DEF MemTypeOK, NullNeverGiven
<1>8. GuestInv'
  BY <1>1, <1>2, <1>3 DEF MemInv, GuestInv
<1>9. CleanInv'
  BY <1>1, <1>2, <1>6 DEF MemInv, CleanInv, Clean
<1>10. H!Grant(c)
  <2>1. H!Joins(c)
    BY <1>2, JoinsLive
  <2>2. H!ZeroFrom(c.base, answer'.asked)
    BY <1>1, <1>6 DEF H!ZeroFrom, Addr
  <2>3. H!Keeps(allocator.used)
    <3>1. \A d \in allocator.used : \A a \in Addr : contains(d, a) => bytes'[a] = bytes[a]
      BY <1>3, <1>6
    <3> QED BY <3>1 DEF H!Keeps, H!Within, contains, End, Addr
  <2> QED BY <1>1, <1>2, <2>1, <2>2, <2>3 DEF H!Grant
<1>11. c \in allocator'.used \ allocator.used
  BY <1>2, <1>3
<1>12. MemInv'
  BY <1>2, <1>4, <1>7, <1>8, <1>9 DEF MemInv
<1> QED BY <1>10, <1>11, <1>12 DEF H!HeapNext

\* The routine that the app picker's environment allocates
LEMMA PickerBootStep ==
    ASSUME MemInv, NEW size \in Sizes, NEW e \in allocator.unused, picker_boot(size, e)
    PROVE  MemInv' /\ H!HeapNext
<1> DEFINE c == chunk(e.base, rounded(size))
<1>1. /\ phase = "picker boot" /\ phase' = "picker"
      /\ e \in candidates(allocator, rounded(size))
      /\ Asserts(alloc_ok(allocator, size, e))
      /\ allocator' = alloc(allocator, size, e)
      /\ bytes' = Filled(bytes_after_alloc(bytes, e.base, size), chunk(e.base, size))
      /\ guest_blocks' = guest_blocks /\ answer' = answer
      /\ null_segment_size' = null_segment_size
      /\ zero_memory_on_free' = zero_memory_on_free
  BY DEF picker_boot
<1> HIDE DEF c
<1>2. /\ alloc_ok(allocator, size, e)
      /\ HeapSound(allocator') /\ allocator'.used = allocator.used \cup {c}
      /\ c \in Chunk /\ c.base = e.base /\ c.size \in Nat
      /\ size \in 0 .. MemSize /\ size <= c.size
      /\ \A d \in allocator.used : Apart(c, d) /\ d.base # c.base
  <2>1. e \in candidates(allocator, rounded(size)) /\ allocator' = alloc(allocator, size, e)
    BY <1>1
  <2> QED BY <2>1, Placed DEF c
<1>3. /\ \A d \in allocator.used : \A a \in Addr : contains(c, a) => ~contains(d, a)
      /\ c \notin allocator.used /\ c.base \in Addr /\ c.base \in Nat
  BY <1>1, <1>2, PutApart
<1>4. mem_panic' = mem_panic
  BY <1>1, <1>2 DEF Asserts
<1>5. bytes \in [Addr -> {0, 1}] /\ zero_memory_on_free = TRUE /\ null_segment_size = 0
  BY <1>1 DEF MemInv, MemTypeOK, GuestInv
<1>6. /\ bytes' \in [Addr -> {0, 1}]
      /\ \A a \in Addr : ~contains(c, a) => bytes'[a] = bytes[a]
  <2>1. \A a \in Addr : a \in Nat
    BY DEF Addr
  <2> DEFINE s == chunk(e.base, size)
  <2>2. s.base = e.base /\ s.size = size
    BY DEF chunk
  <2> HIDE DEF s
  <2>3. \A a \in Addr : contains(s, a) => contains(c, a)
    BY <1>2, <1>3, <2>1, <2>2 DEF contains, End
  <2>4. bytes' = Filled(bytes, s)
    BY <1>1, <1>5 DEF bytes_after_alloc, s
  <2> QED BY <1>5, <2>3, <2>4 DEF Filled
<1>7. MemTypeOK' /\ NullNeverGiven'
  <2>1. MemTypeOK /\ NullNeverGiven
    BY DEF MemInv
  <2> QED BY <1>1, <1>2, <1>3, <1>4, <1>6, <2>1, SoundTyped DEF MemTypeOK, NullNeverGiven
<1>8. c.base = 0
  <2>1. e \in Allocator_new.unused
    BY <1>1 DEF MemInv, GuestInv
  <2> QED BY <1>2, <2>1 DEF Allocator_new, Rest
<1>9. GuestInv'
  BY <1>1, <1>2, <1>5, <1>8 DEF MemInv, GuestInv
<1>10. CleanInv'
  <2>1. \A a \in Addr : bytes[a] = 0 \/ \E d \in allocator.used : contains(d, a)
    BY <1>5 DEF MemInv, CleanInv, Clean
  <2> QED BY <1>2, <1>6, <2>1 DEF CleanInv
<1>11. H!Install(c)
  <2>1. H!Joins(c)
    BY <1>2, JoinsLive
  <2>2. answer.op = "none"
    BY <1>1 DEF MemInv, GuestInv
  <2>3. H!Keeps(allocator.used)
    <3>1. \A d \in allocator.used : \A a \in Addr : contains(d, a) => bytes'[a] = bytes[a]
      BY <1>3, <1>6
    <3> QED BY <3>1 DEF H!Keeps, H!Within, contains, End, Addr
  <2> QED BY <1>1, <1>2, <2>1, <2>2, <2>3 DEF H!Install
<1>12. c \in allocator'.used \ allocator.used
  BY <1>2, <1>3
<1>13. MemInv'
  BY <1>2, <1>4, <1>7, <1>9, <1>10 DEF MemInv
<1> QED BY <1>11, <1>12, <1>13 DEF H!HeapNext

\* A chunk in use, and the bytes of the others
LEMMA UsedApart ==
    ASSUME MemInv, NEW c \in allocator.used
    PROVE  /\ c \in Chunk /\ c.base \in Nat /\ c.size \in Nat /\ c.size >= 1
           /\ End(c) = c.base + c.size /\ End(c) <= MemSize
           /\ \A d \in allocator.used : d # c =>
                 \A a \in Addr : contains(d, a) => ~contains(c, a)
<1>1. /\ \A d \in allocator.used : d \in Chunk
      /\ \A d, x \in allocator.used : d # x => Apart(d, x)
  <2>1. HeapSound(allocator)
    BY DEF MemInv
  <2> QED BY <2>1, SoundTyped DEF HeapSound, Tiles
<1>2. \A d \in allocator.used : d # c => \A a \in Addr : contains(d, a) => ~contains(c, a)
  BY <1>1, SharedByte
<1>3. c \in Chunk
  BY <1>1
<1> QED BY <1>2, <1>3, ChunkNumbers

\* free of a block: it is released.
LEMMA FreesStep ==
    ASSUME MemInv, NEW c \in allocator.used, mem_free(c)
    PROVE  MemInv' /\ H!HeapNext
<1>1. /\ Alive /\ phase \in {"picker", "run"} /\ c.base \in guest_blocks
      /\ Asserts(free_ok(allocator, c))
      /\ allocator' = free(allocator, c)
      /\ bytes' = bytes_after_free(bytes, c)
      /\ guest_blocks' = guest_blocks \ {c.base}
      /\ answer' = NoAnswer
      /\ null_segment_size' = null_segment_size
      /\ zero_memory_on_free' = zero_memory_on_free /\ phase' = phase
  BY DEF mem_free, Serving
<1>2. /\ free_ok(allocator, c)
      /\ HeapSound(allocator') /\ allocator'.used = allocator.used \ {c}
  <2>1. HeapSound(allocator) /\ allocator' = free(allocator, c)
    BY <1>1 DEF MemInv
  <2> QED BY <2>1, FreeSound
<1>3. mem_panic' = mem_panic
  BY <1>1, <1>2 DEF Asserts
<1>4. /\ c \in Chunk /\ c.base \in Nat /\ c.size \in Nat /\ End(c) = c.base + c.size
      /\ \A d \in allocator.used : d # c =>
            \A a \in Addr : contains(d, a) => ~contains(c, a)
  BY UsedApart
<1>5. /\ bytes' \in [Addr -> {0, 1}]
      /\ \A a \in Addr : ~contains(c, a) => bytes'[a] = bytes[a]
      /\ Clean => \A a \in Addr : contains(c, a) => bytes'[a] = 0
  <2>1. bytes \in [Addr -> {0, 1}] /\ zero_memory_on_free \in BOOLEAN
    BY DEF MemInv, MemTypeOK
  <2>2. CASE zero_memory_on_free = TRUE
    <3>1. bytes' = Zeroed(bytes, c.base, c.size)
      BY <1>1, <2>2 DEF bytes_after_free
    <3> QED BY <1>4, <2>1, <3>1 DEF Zeroed, contains
  <2>3. CASE zero_memory_on_free = FALSE
    <3>1. bytes' = bytes /\ ~Clean
      BY <1>1, <2>3 DEF bytes_after_free, Clean
    <3> QED BY <2>1, <3>1
  <2> QED BY <2>1, <2>2, <2>3
<1>6. MemTypeOK' /\ NullNeverGiven'
  <2>1. MemTypeOK
    BY DEF MemInv
  <2>2. 0 \in 0 .. MemSize
    BY SizesOfMemory
  <2> QED BY <1>1, <1>2, <1>3, <1>5, <2>1, <2>2, SoundTyped
        DEF MemTypeOK, NullNeverGiven, NoAnswer
<1>7. GuestInv'
  <2>1. c.base # 0 /\ c.base # Stack.base
    BY <1>1 DEF MemInv, GuestInv
  <2>2. chunk(0, null_segment_size).base = 0
    BY DEF chunk
  <2> QED BY <1>1, <1>2, <2>1, <2>2 DEF MemInv, GuestInv, NoAnswer
<1>8. CleanInv'
  <2>1. Clean' <=> Clean
    BY <1>1 DEF Clean
  <2> QED BY <1>2, <1>5, <2>1 DEF MemInv, CleanInv
<1>9. H!Release(c)
  <2>1. \A d \in allocator.used \ {c} : \A a \in Addr :
           contains(d, a) => bytes'[a] = bytes[a]
    BY <1>4, <1>5
  <2> QED BY <1>2, <2>1 DEF H!Release, H!Keeps, H!Within, contains, End, Addr
<1>10. MemInv'
  BY <1>2, <1>3, <1>6, <1>7, <1>8 DEF MemInv
<1> QED BY <1>9, <1>10 DEF H!HeapNext

\* A block that is freed while another one is in use
LEMMA FreesMoved ==
    ASSUME MemInv, NEW c \in allocator.used, NEW d \in Chunk, NEW h, HeapSound(h),
           h.used = allocator.used \cup {d},
           \A x \in allocator.used : Apart(d, x) /\ x.base # d.base
    PROVE  /\ free_ok(h, c) /\ HeapSound(free(h, c))
           /\ free(h, c).used = (allocator.used \ {c}) \cup {d}
           /\ \A a \in Addr : contains(d, a) => ~contains(c, a)
<1>1. c \in h.used /\ c # d
  OBVIOUS
<1>2. free_ok(h, c) /\ HeapSound(free(h, c)) /\ free(h, c).used = h.used \ {c}
  BY <1>1, FreeSound
<1>3. \A a \in Addr : contains(d, a) => ~contains(c, a)
  BY PutApart
<1> QED BY <1>1, <1>2, <1>3

\* realloc to a larger block: the contents move.
LEMMA MovesStep ==
    ASSUME MemInv, NEW c \in allocator.used, NEW size \in Sizes,
           NEW e \in allocator.unused, realloc_move(c, size, e)
    PROVE  MemInv' /\ H!HeapNext
<1> DEFINE d == chunk(e.base, rounded(size))
           h == alloc(allocator, size, e)
           b == bytes_after_alloc(bytes, e.base, size)
           m == copy_within(b, c.base, e.base, c.size)
<1>1. /\ phase \in {"picker", "run"} /\ c.base \in guest_blocks /\ c.size < size
      /\ e \in candidates(allocator, rounded(size))
      /\ Asserts(alloc_ok(allocator, size, e) /\ accessible(e.base) /\ free_ok(h, c))
      /\ allocator' = free(h, c)
      /\ bytes' = bytes_after_free(m, c)
      /\ guest_blocks' = (guest_blocks \ {c.base}) \cup {e.base}
      /\ answer' = [op |-> "realloc", ptr |-> e.base, asked |-> size]
      /\ null_segment_size' = null_segment_size
      /\ zero_memory_on_free' = zero_memory_on_free /\ phase' = phase
  BY DEF realloc_move, Serving
<1> HIDE DEF d, h
<1>2. /\ alloc_ok(allocator, size, e)
      /\ HeapSound(h) /\ h.used = allocator.used \cup {d}
      /\ d \in Chunk /\ d.base = e.base /\ d.size \in Nat
      /\ size \in 0 .. MemSize /\ size <= d.size
      /\ \A x \in allocator.used : Apart(d, x) /\ x.base # d.base
  <2>1. e \in candidates(allocator, rounded(size))
    BY <1>1
  <2> QED BY <2>1, Placed DEF d, h
<1>3. /\ \A x \in allocator.used : \A a \in Addr : contains(d, a) => ~contains(x, a)
      /\ Clean => \A a \in Addr : contains(d, a) => bytes[a] = 0
      /\ d \notin allocator.used /\ d.base \in Addr /\ d.base \in Nat
      /\ d.base # Stack.base /\ d.base # 0 /\ accessible(d.base)
  BY <1>1, <1>2, PutApart
<1>4. /\ free_ok(h, c) /\ HeapSound(allocator')
      /\ allocator'.used = (allocator.used \ {c}) \cup {d}
  <2>1. /\ free_ok(h, c) /\ HeapSound(free(h, c))
        /\ free(h, c).used = (allocator.used \ {c}) \cup {d}
    BY <1>2, FreesMoved
  <2> QED BY <1>1, <2>1
<1>5. mem_panic' = mem_panic
  BY <1>1, <1>2, <1>3, <1>4 DEF Asserts
<1>6. /\ c \in Chunk /\ c.base \in Nat /\ c.size \in Nat /\ c.size >= 1
      /\ End(c) = c.base + c.size /\ End(c) <= MemSize
      /\ \A x \in allocator.used : x # c =>
            \A a \in Addr : contains(x, a) => ~contains(c, a)
  BY UsedApart
<1>7. \A a \in Addr : a \in Nat
  BY DEF Addr
<1>8. /\ c.size < d.size /\ End(d) = d.base + d.size /\ End(d) <= MemSize
      /\ \A i \in 0 .. c.size - 1 :
            /\ c.base + i \in Addr /\ contains(c, c.base + i)
            /\ d.base + i \in Addr /\ contains(d, d.base + i)
  <2>1. End(d) = d.base + d.size /\ End(d) <= MemSize
    BY <1>2, ChunkNumbers
  <2>2. c.size < d.size
    BY <1>1, <1>2, <1>6
  <2>3. ASSUME NEW i \in 0 .. c.size - 1
        PROVE  /\ c.base + i \in Addr /\ contains(c, c.base + i)
               /\ d.base + i \in Addr /\ contains(d, d.base + i)
    BY <1>2, <1>3, <1>6, <2>1, <2>2, SizesOfMemory DEF contains, Addr
  <2> QED BY <2>1, <2>2, <2>3
<1>9. /\ bytes \in [Addr -> {0, 1}] /\ zero_memory_on_free \in BOOLEAN
      /\ b \in [Addr -> {0, 1}]
      /\ \A a \in Addr : ~contains(d, a) => b[a] = bytes[a]
  <2>1. bytes \in [Addr -> {0, 1}] /\ zero_memory_on_free \in BOOLEAN
    BY DEF MemInv, MemTypeOK
  <2>2. CASE zero_memory_on_free = TRUE
    <3>1. b = bytes
      BY <2>2 DEF bytes_after_alloc
    <3> QED BY <2>1, <3>1
  <2>3. CASE zero_memory_on_free = FALSE
    <3>1. b = Zeroed(bytes, d.base, size)
      BY <1>2, <2>3 DEF bytes_after_alloc
    <3>2. \A a \in Addr : d.base <= a /\ a < d.base + size => contains(d, a)
      BY <1>2, <1>3, <1>7 DEF contains, End
    <3> QED BY <2>1, <3>1, <3>2 DEF Zeroed
  <2> QED BY <2>1, <2>2, <2>3
<1> HIDE DEF b
<1>10. /\ m \in [Addr -> {0, 1}]
       /\ \A a \in Addr : ~contains(d, a) => m[a] = bytes[a]
       /\ \A i \in 0 .. c.size - 1 : m[d.base + i] = bytes[c.base + i]
  <2>1. \A a \in Addr : m[a] = IF d.base <= a /\ a < d.base + c.size
                               THEN b[c.base + (a - d.base)] ELSE b[a]
    BY <1>2 DEF copy_within
  <2>2. \A a \in Addr : d.base <= a /\ a < d.base + c.size =>
           a - d.base \in 0 .. c.size - 1 /\ contains(d, a)
    BY <1>2, <1>3, <1>6, <1>7, <1>8 DEF contains
  <2>3. m \in [Addr -> {0, 1}]
    <3>1. m = [a \in Addr |-> m[a]]
      BY DEF copy_within
    <3> HIDE DEF m
    <3>2. \A a \in Addr : m[a] \in {0, 1}
      BY <1>8, <1>9, <2>1, <2>2
    <3> QED BY <3>1, <3>2
  <2> HIDE DEF m
  <2>4. \A i \in 0 .. c.size - 1 : ~contains(d, c.base + i)
    BY <1>3, <1>8
  <2>5. ASSUME NEW i \in 0 .. c.size - 1
        PROVE  m[d.base + i] = bytes[c.base + i]
    <3>1. /\ d.base <= d.base + i /\ d.base + i < d.base + c.size
          /\ (d.base + i) - d.base = i
      BY <1>3, <1>6
    <3>2. m[d.base + i] = b[c.base + i]
      BY <1>8, <2>1, <3>1
    <3> QED BY <1>8, <1>9, <2>4, <3>2
  <2>6. \A a \in Addr : ~contains(d, a) => m[a] = bytes[a]
    BY <1>9, <2>1, <2>2
  <2> QED BY <2>3, <2>5, <2>6
<1> HIDE DEF m
<1>11. /\ bytes' \in [Addr -> {0, 1}]
       /\ \A a \in Addr : ~contains(c, a) => bytes'[a] = m[a]
       /\ Clean => \A a \in Addr : contains(c, a) => bytes'[a] = 0
  <2>1. CASE zero_memory_on_free = TRUE
    <3>1. bytes' = Zeroed(m, c.base, c.size)
      BY <1>1, <2>1 DEF bytes_after_free
    <3> QED BY <1>6, <1>10, <3>1 DEF Zeroed, contains
  <2>2. CASE zero_memory_on_free = FALSE
    <3>1. bytes' = m /\ ~Clean
      BY <1>1, <2>2 DEF bytes_after_free, Clean
    <3> QED BY <1>10, <3>1
  <2> QED BY <1>9, <2>1, <2>2
<1>12. MemTypeOK' /\ NullNeverGiven'
  <2>1. MemTypeOK
    BY DEF MemInv
  <2> QED BY <1>1, <1>2, <1>3, <1>4, <1>5, <1>11, <2>1, SoundTyped
        DEF MemTypeOK, NullNeverGiven
<1>13. GuestInv'
  <2>1. c.base # 0 /\ c.base # Stack.base
    BY <1>1 DEF MemInv, GuestInv
  <2>2. chunk(0, null_segment_size).base = 0
    BY DEF chunk
  <2> QED BY <1>1, <1>2, <1>3, <1>4, <2>1, <2>2 DEF MemInv, GuestInv
<1>14. CleanInv'
  <2>1. Clean' <=> Clean
    BY <1>1 DEF Clean
  <2> QED BY <1>4, <1>10, <1>11, <2>1 DEF MemInv, CleanInv
<1>15. H!Move(c, d)
  <2>1. H!Joins(d)
    BY <1>2, JoinsLive
  <2>2. \A i \in 0 .. c.size - 1 : bytes'[d.base + i] = bytes[c.base + i]
    <3>1. \A i \in 0 .. c.size - 1 : ~contains(c, d.base + i)
      BY <1>3, <1>8
    <3> QED BY <1>8, <1>10, <1>11, <3>1
  <2>3. H!Keeps(allocator.used \ {c})
    <3>1. \A x \in allocator.used \ {c} : \A a \in Addr :
             contains(x, a) => bytes'[a] = bytes[a]
      BY <1>3, <1>6, <1>10, <1>11
    <3> QED BY <3>1 DEF H!Keeps, H!Within, contains, End, Addr
  <2>4. /\ d.size > c.size /\ answer'.op = "realloc" /\ answer'.ptr = d.base
        /\ answer'.asked <= d.size
    BY <1>1, <1>2, <1>6, <1>8
  <2> QED BY <1>4, <2>1, <2>2, <2>3, <2>4 DEF H!Move
<1>16. d \in allocator'.used \ allocator.used /\ c \in allocator.used \ allocator'.used
  BY <1>3, <1>4
<1>17. MemInv'
  BY <1>4, <1>5, <1>12, <1>13, <1>14 DEF MemInv
<1> QED BY <1>15, <1>16, <1>17 DEF H!HeapNext

\* The app picker's memory made ready for the app: the abstract heap restarts.
LEMMA RefurbishStep ==
    ASSUME MemInv, NEW is_spore \in BOOLEAN, refurbish(is_spore)
    PROVE  MemInv' /\ H!HeapNext
<1>1. /\ phase = "picker" /\ phase' = "load"
      /\ allocator' = Allocator_new
      /\ bytes' = ZeroedChunks(bytes, allocator.used)
      /\ null_segment_size' = 0 /\ zero_memory_on_free' \in BOOLEAN
      /\ guest_blocks' = {} /\ answer' = NoAnswer /\ mem_panic' = mem_panic
  BY DEF refurbish
<1>2. HeapSound(allocator') /\ allocator'.used = {Stack}
  BY <1>1, NewAllocatorSound
<1>3. bytes \in [Addr -> {0, 1}] /\ zero_memory_on_free = TRUE
  BY <1>1 DEF MemInv, MemTypeOK, GuestInv
<1>4. bytes' = [a \in Addr |-> 0]
  <2>1. \A a \in Addr : bytes[a] = 0 \/ \E c \in allocator.used : contains(c, a)
    BY <1>3 DEF MemInv, CleanInv, Clean
  <2> QED BY <1>1, <2>1 DEF ZeroedChunks
<1>5. MemTypeOK' /\ NullNeverGiven'
  <2>1. MemTypeOK
    BY DEF MemInv
  <2>2. 0 \in 0 .. MemSize
    BY SizesOfMemory
  <2> QED BY <1>1, <1>2, <1>4, <2>1, <2>2, SoundTyped
        DEF MemTypeOK, NullNeverGiven, NoAnswer
<1>6. GuestInv' /\ CleanInv'
  BY <1>1, <1>2, <1>4 DEF GuestInv, CleanInv, NoAnswer
<1>7. H!Restart
  BY <1>1, <1>2, <1>4 DEF H!Restart, NoAnswer, Addr
<1>8. MemInv'
  BY <1>1, <1>2, <1>5, <1>6 DEF MemInv
<1> QED BY <1>7, <1>8 DEF H!HeapNext

\* A range of whole pages that an unused chunk covers
LEMMA Reserved ==
    ASSUME MemInv, NEW c, c.base \in Nat, c.size \in Nat, c.size > 0,
           c = [base |-> c.base, size |-> c.size],
           c.base % PAGE_SIZE = 0, c.size % PAGE_SIZE = 0,
           NEW u \in reserve_from(allocator, c),
           NEW h, h = reserve(allocator, c, u)
    PROVE  /\ reserve_ok(allocator, c, u)
           /\ HeapSound(h) /\ h.used = allocator.used \cup {c}
           /\ c \in Chunk
           /\ \A d \in allocator.used : Apart(c, d) /\ d.base # c.base
<1>1. HeapSound(allocator) /\ u \in allocator.unused /\ trisects(u, c)
  BY DEF MemInv, reserve_from
<1>2. u \in Chunk /\ End(u) <= MemSize /\ End(u) \in Nat
  <2>1. u \in Chunk
    BY <1>1, SoundTyped
  <2> QED BY <2>1, ChunkNumbers
<1>3. c.base + c.size <= MemSize
  BY <1>1, <1>2, SizesOfMemory DEF trisects, contains, End
<1>4. c \in Chunk
  BY <1>3, SizesOfMemory DEF Chunk, Addr, End
<1>5. /\ reserve_ok(allocator, c, u)
      /\ HeapSound(reserve(allocator, c, u))
      /\ reserve(allocator, c, u).used = allocator.used \cup {c}
      /\ \A d \in allocator.used : Apart(c, d) /\ d.base # c.base
  BY <1>1, <1>4, ReserveSound
<1> QED BY <1>4, <1>5

\* The null segment is reserved.
LEMMA NullSegmentStep ==
    ASSUME MemInv, NEW n \in NullSegments, NEW u \in allocator.unused,
           set_null_segment_size(n, u)
    PROVE  MemInv' /\ H!HeapNext
<1> DEFINE c == chunk(0, n)
<1>1. /\ phase = "load" /\ null_segment_size = 0
      /\ u \in reserve_from(allocator, c)
      /\ Asserts(reserve_ok(allocator, c, u))
      /\ allocator' = reserve(allocator, c, u)
      /\ null_segment_size' = n
      /\ bytes' = bytes /\ zero_memory_on_free' = zero_memory_on_free
      /\ phase' = phase /\ guest_blocks' = guest_blocks /\ answer' = answer
  BY DEF set_null_segment_size
<1>2. /\ n \in Nat /\ n > 0 /\ n % PAGE_SIZE = 0
      /\ c.base = 0 /\ c.size = n /\ c = [base |-> c.base, size |-> c.size]
      /\ c.base % PAGE_SIZE = 0
  BY SegmentsAssumption, SizesOfMemory DEF chunk
<1>3. c = chunk(0, n)
  OBVIOUS
<1> HIDE DEF c
<1>4. /\ reserve_ok(allocator, c, u)
      /\ HeapSound(allocator') /\ allocator'.used = allocator.used \cup {c}
      /\ c \in Chunk
      /\ \A d \in allocator.used : Apart(c, d) /\ d.base # c.base
  <2>1. u \in reserve_from(allocator, c) /\ allocator' = reserve(allocator, c, u)
    BY <1>1
  <2> QED BY <1>2, <2>1, Reserved
<1>5. mem_panic' = mem_panic
  BY <1>1, <1>4 DEF Asserts
<1>6. MemTypeOK' /\ NullNeverGiven'
  <2>1. MemTypeOK /\ NullNeverGiven
    BY DEF MemInv
  <2> QED BY <1>1, <1>4, <1>5, <2>1, SoundTyped DEF MemTypeOK, NullNeverGiven
<1>7. GuestInv'
  BY <1>1, <1>2, <1>3, <1>4 DEF MemInv, GuestInv
<1>8. CleanInv'
  BY <1>1, <1>4 DEF MemInv, CleanInv, Clean
<1>9. H!Install(c)
  <2>1. H!Joins(c)
    BY <1>4, JoinsLive
  <2>2. answer.op = "none"
    BY <1>1 DEF MemInv, GuestInv
  <2> QED BY <1>1, <1>4, <2>1, <2>2 DEF H!Install, H!Keeps
<1>10. c \in allocator'.used \ allocator.used
  BY <1>4, PutApart
<1>11. MemInv'
  BY <1>4, <1>5, <1>6, <1>7, <1>8 DEF MemInv
<1> QED BY <1>9, <1>10, <1>11 DEF H!HeapNext

\* A segment is reserved and its file part is copied in: the rest of it is
\* zero, as nobody has used it.
LEMMA LoadStep ==
    ASSUME MemInv, NEW c \in Segments, NEW filesize \in {0, c.size - 1},
           NEW u \in allocator.unused, load_segment(c, filesize, u)
    PROVE  MemInv' /\ H!HeapNext
<1>1. /\ phase = "load" /\ null_segment_size # 0
      /\ u \in reserve_from(allocator, c)
      /\ Asserts(reserve_ok(allocator, c, u))
      /\ allocator' = reserve(allocator, c, u)
      /\ bytes' = Filled(bytes, chunk(c.base, filesize))
      /\ answer' = [op |-> "segment", ptr |-> c.base + filesize,
                    asked |-> c.size - filesize]
      /\ null_segment_size' = null_segment_size
      /\ zero_memory_on_free' = zero_memory_on_free
      /\ phase' = phase /\ guest_blocks' = guest_blocks
  BY DEF load_segment
<1>2. /\ c.base \in Nat /\ c.size \in Nat /\ c.size > 0
      /\ c = [base |-> c.base, size |-> c.size]
      /\ c.base % PAGE_SIZE = 0 /\ c.size % PAGE_SIZE = 0
  BY SegmentsAssumption, SizesOfMemory DEF Addr
<1>3. /\ reserve_ok(allocator, c, u)
      /\ HeapSound(allocator') /\ allocator'.used = allocator.used \cup {c}
      /\ c \in Chunk
      /\ \A d \in allocator.used : Apart(c, d) /\ d.base # c.base
  <2>1. u \in reserve_from(allocator, c) /\ allocator' = reserve(allocator, c, u)
    BY <1>1
  <2> QED BY <1>2, <2>1, Reserved
<1>4. /\ \A d \in allocator.used : \A a \in Addr : contains(c, a) => ~contains(d, a)
      /\ \A a \in Addr : contains(c, a) => bytes[a] = 0
      /\ c \notin allocator.used
  <2>1. Clean
    BY <1>1 DEF Clean
  <2> QED BY <1>3, <2>1, PutApart
<1>5. mem_panic' = mem_panic
  BY <1>1, <1>3 DEF Asserts
<1>6. /\ filesize \in Nat /\ filesize < c.size /\ c.size <= MemSize
      /\ End(c) = c.base + c.size
  BY <1>2, <1>3, ChunkNumbers
<1>7. bytes \in [Addr -> {0, 1}] /\ \A a \in Addr : a \in Nat
  <2>1. bytes \in [Addr -> {0, 1}]
    BY DEF MemInv, MemTypeOK
  <2>2. \A a \in Addr : a \in Nat
    BY DEF Addr
  <2> QED BY <2>1, <2>2
<1>8. /\ bytes' \in [Addr -> {0, 1}]
      /\ \A a \in Addr : ~contains(c, a) => bytes'[a] = bytes[a]
      /\ \A a \in Addr : c.base + filesize <= a /\ a < c.base + c.size => bytes'[a] = 0
  <2> DEFINE s == chunk(c.base, filesize)
  <2>1. s.base = c.base /\ s.size = filesize
    BY DEF chunk
  <2> HIDE DEF s
  <2>2. \A a \in Addr : contains(s, a) <=> c.base <= a /\ a < c.base + filesize
    BY <2>1 DEF contains, End
  <2>3. \A a \in Addr : contains(c, a) <=> c.base <= a /\ a < c.base + c.size
    BY <1>6 DEF contains
  <2>4. bytes' \in [Addr -> {0, 1}]
        /\ \A a \in Addr : bytes'[a] = IF contains(s, a) THEN 1 ELSE bytes[a]
    BY <1>1, <1>7 DEF Filled, s
  <2>5. \A a \in Addr : contains(s, a) => contains(c, a)
    BY <1>2, <1>6, <1>7, <2>2, <2>3
  <2>6. \A a \in Addr : c.base + filesize <= a /\ a < c.base + c.size =>
           contains(c, a) /\ ~contains(s, a)
    BY <1>2, <1>6, <1>7, <2>2, <2>3
  <2> QED BY <1>4, <2>4, <2>5, <2>6
<1>9. MemTypeOK' /\ NullNeverGiven'
  <2>1. MemTypeOK
    BY DEF MemInv
  <2>2. c.base + filesize \in Nat /\ c.size - filesize \in 0 .. MemSize
    BY <1>2, <1>6, SizesOfMemory
  <2> QED BY <1>1, <1>3, <1>5, <1>8, <2>1, <2>2, SoundTyped DEF MemTypeOK, NullNeverGiven
<1>10. GuestInv'
  BY <1>1, <1>3 DEF MemInv, GuestInv
<1>11. CleanInv'
  BY <1>1, <1>3, <1>8 DEF MemInv, CleanInv, Clean
<1>12. H!Install(c)
  <2>1. H!Joins(c)
    BY <1>3, JoinsLive
  <2>2. H!Keeps(allocator.used)
    <3>1. \A d \in allocator.used : \A a \in Addr : contains(d, a) => bytes'[a] = bytes[a]
      BY <1>4, <1>8
    <3> QED BY <3>1 DEF H!Keeps, H!Within, contains, End, Addr
  <2>3. H!ZeroFrom(answer'.ptr, answer'.asked)
    <3>1. \A a \in Addr : c.base + filesize <= a
             /\ a < (c.base + filesize) + (c.size - filesize) => bytes'[a] = 0
      BY <1>2, <1>6, <1>7, <1>8
    <3> QED BY <1>1, <3>1 DEF H!ZeroFrom, Addr
  <2> QED BY <1>1, <1>3, <2>1, <2>2, <2>3 DEF H!Install
<1>13. c \in allocator'.used \ allocator.used
  BY <1>3, <1>4
<1>14. MemInv'
  BY <1>3, <1>5, <1>9, <1>10, <1>11 DEF MemInv
<1> QED BY <1>12, <1>13, <1>14 DEF H!HeapNext

\* Steps that leave the allocator alone: at most one block's bytes change.
LEMMA WritesStep ==
    ASSUME MemInv,
           \/ \E c \in allocator.used, size \in Sizes : realloc_in_place(c, size)
           \/ \E c \in allocator.used : guest_write(c)
           \/ free_unknown \/ start_app
    PROVE  MemInv' /\ H!HeapNext
<1>1. /\ allocator' = allocator /\ guest_blocks' = guest_blocks
      /\ null_segment_size' = null_segment_size
      /\ zero_memory_on_free' = zero_memory_on_free
      /\ mem_panic' = mem_panic
      /\ \/ phase' = phase /\ phase \in {"picker", "run"}
         \/ phase = "load" /\ phase' = "run" /\ null_segment_size # 0
  BY DEF realloc_in_place, guest_write, free_unknown, start_app, Serving
<1>2. answer'.op # "alloc" /\ answer' \in [op : {"none", "alloc", "realloc", "segment"},
                                           ptr : Nat, asked : 0 .. MemSize]
  <2>1. CASE \E c \in allocator.used, size \in Sizes : realloc_in_place(c, size)
    <3>1. PICK c \in allocator.used, size \in Sizes : realloc_in_place(c, size)
      BY <2>1
    <3>2. c.base \in Nat /\ size \in 0 .. MemSize
      BY UsedApart, SegmentsAssumption
    <3>3. answer' = [op |-> "realloc", ptr |-> c.base, asked |-> size]
      BY <3>1 DEF realloc_in_place
    <3> QED BY <3>2, <3>3
  <2>2. CASE \/ \E c \in allocator.used : guest_write(c)
             \/ free_unknown \/ start_app
    <3>1. answer' = NoAnswer
      BY <2>2 DEF guest_write, free_unknown, start_app
    <3> QED BY <3>1, SizesOfMemory DEF NoAnswer
  <2> QED BY <2>1, <2>2
<1>3. bytes \in [Addr -> {0, 1}]
  BY DEF MemInv, MemTypeOK
<1>4. PICK c \in allocator.used :
        /\ bytes' \in [Addr -> {0, 1}]
        /\ \A a \in Addr : ~contains(c, a) => bytes'[a] = bytes[a]
  <2>1. CASE \E c \in allocator.used : guest_write(c)
    <3>1. PICK c \in allocator.used : guest_write(c)
      BY <2>1
    <3>2. bytes' = Filled(bytes, c)
      BY <3>1 DEF guest_write
    <3> QED BY <1>3, <3>2 DEF Filled
  <2>2. CASE \/ \E c \in allocator.used, size \in Sizes : realloc_in_place(c, size)
             \/ free_unknown \/ start_app
    <3>1. bytes' = bytes
      BY <2>2 DEF realloc_in_place, free_unknown, start_app
    <3>2. Stack \in allocator.used
      BY DEF MemInv, GuestInv
    <3> QED BY <1>3, <3>1, <3>2
  <2> QED BY <2>1, <2>2
<1>5. MemTypeOK' /\ NullNeverGiven'
  <2>1. MemTypeOK
    BY DEF MemInv
  <2> QED BY <1>1, <1>2, <1>4, <2>1 DEF MemTypeOK, NullNeverGiven
<1>6. GuestInv'
  <2>1. chunk(0, null_segment_size).base = 0
    BY DEF chunk
  <2> QED BY <1>1, <1>2, <2>1 DEF MemInv, GuestInv
<1>7. CleanInv'
  <2>1. Clean' => Clean
    BY <1>1 DEF Clean
  <2> QED BY <1>1, <1>4, <2>1 DEF MemInv, CleanInv
<1>8. H!Write(c)
  <2>1. \A d \in allocator.used \ {c} : \A a \in Addr :
           contains(d, a) => bytes'[a] = bytes[a]
    BY <1>4, UsedApart
  <2> QED BY <1>1, <2>1 DEF H!Write, H!Keeps, H!Within, contains, End, Addr
<1>9. MemInv'
  BY <1>1, <1>5, <1>6, <1>7 DEF MemInv
<1> QED BY <1>8, <1>9 DEF H!HeapNext

\* The process dies, or nothing happens: the abstract heap stays as it is.
LEMMA DiesStep ==
    ASSUME MemInv,
           \/ \E size \in Sizes : out_of_memory(size)
           \/ \E c \in Segments : load_panics(c)
           \/ UNCHANGED memVars
    PROVE  MemInv' /\ UNCHANGED H!hvars
<1>1. /\ allocator' = allocator /\ bytes' = bytes /\ guest_blocks' = guest_blocks
      /\ null_segment_size' = null_segment_size
      /\ zero_memory_on_free' = zero_memory_on_free
      /\ phase' = phase /\ answer' = answer
      /\ mem_panic' \in {mem_panic, "out of memory", "reserve"}
  BY DEF out_of_memory, load_panics, MemDies, memVars
<1>2. MemTypeOK' /\ NullNeverGiven'
  BY <1>1 DEF MemInv, MemTypeOK, NullNeverGiven
<1>3. GuestInv' /\ CleanInv'
  BY <1>1 DEF MemInv, GuestInv, CleanInv, Clean
<1>4. HeapSound(allocator)' /\ (mem_panic # "assert")'
  BY <1>1 DEF MemInv
<1>5. UNCHANGED H!hvars
  BY <1>1 DEF H!hvars
<1> QED BY <1>2, <1>3, <1>4, <1>5 DEF MemInv

\* Every step preserves the invariant, and is one of the abstract heap.
LEMMA MemStep == MemInv /\ [MemNext]_memVars => MemInv' /\ [H!HeapNext]_H!hvars
<1> SUFFICES ASSUME MemInv, [MemNext]_memVars
             PROVE  MemInv' /\ [H!HeapNext]_H!hvars
  OBVIOUS
<1>1. CASE Setup
  <2>1. ASSUME NEW size \in Sizes, NEW e \in allocator.unused, picker_boot(size, e)
        PROVE  MemInv' /\ H!HeapNext
    BY <2>1, PickerBootStep
  <2>2. ASSUME NEW is_spore \in BOOLEAN, refurbish(is_spore)
        PROVE  MemInv' /\ H!HeapNext
    BY <2>2, RefurbishStep
  <2>3. ASSUME NEW n \in NullSegments, NEW u \in allocator.unused,
               set_null_segment_size(n, u)
        PROVE  MemInv' /\ H!HeapNext
    BY <2>3, NullSegmentStep
  <2>4. ASSUME NEW c \in Segments, NEW n \in {0, c.size - 1},
               NEW u \in allocator.unused, load_segment(c, n, u)
        PROVE  MemInv' /\ H!HeapNext
    BY <2>4, LoadStep
  <2>5. ASSUME NEW c \in Segments, load_panics(c)
        PROVE  MemInv' /\ UNCHANGED H!hvars
    BY <2>5, DiesStep
  <2>6. ASSUME start_app
        PROVE  MemInv' /\ H!HeapNext
    BY <2>6, WritesStep
  <2> QED BY <1>1, <2>1, <2>2, <2>3, <2>4, <2>5, <2>6 DEF Setup
<1>2. CASE Requests
  <2>1. ASSUME NEW size \in Sizes, NEW e \in allocator.unused,
               malloc(size, e) \/ calloc(size, e)
        PROVE  MemInv' /\ H!HeapNext
    BY <2>1, AllocatesStep
  <2>2. ASSUME NEW size \in Sizes, out_of_memory(size)
        PROVE  MemInv' /\ UNCHANGED H!hvars
    BY <2>2, DiesStep
  <2>3. ASSUME NEW c \in allocator.used, NEW size \in Sizes, realloc_in_place(c, size)
        PROVE  MemInv' /\ H!HeapNext
    BY <2>3, WritesStep
  <2>4. ASSUME NEW c \in allocator.used, NEW size \in Sizes, NEW e \in allocator.unused,
               realloc_move(c, size, e)
        PROVE  MemInv' /\ H!HeapNext
    BY <2>4, MovesStep
  <2>5. ASSUME NEW c \in allocator.used, mem_free(c)
        PROVE  MemInv' /\ H!HeapNext
    BY <2>5, FreesStep
  <2>6. ASSUME NEW c \in allocator.used, guest_write(c)
        PROVE  MemInv' /\ H!HeapNext
    BY <2>6, WritesStep
  <2>7. ASSUME free_unknown
        PROVE  MemInv' /\ H!HeapNext
    BY <2>7, WritesStep
  <2> QED BY <1>2, <2>1, <2>2, <2>3, <2>4, <2>5, <2>6, <2>7 DEF Requests
<1>3. CASE UNCHANGED memVars
  BY <1>3, DiesStep
<1> QED BY <1>1, <1>2, <1>3 DEF MemNext

\* The chunks of a sound allocator partition the address space.
LEMMA SoundPartition ==
    ASSUME HeapSound(allocator)
    PROVE  ChunksPartition /\ BucketsInSync
<1> DEFINE S == allocator.used \cup allocator.unused
<1>1. /\ \A c \in S : c \in Chunk /\ c.base \in Nat /\ End(c) \in Nat
                      /\ c.base < End(c) /\ End(c) <= MemSize
      /\ \A c, d \in S : c # d => Apart(c, d)
      /\ \A a \in Addr : \E c \in S : contains(c, a)
      /\ allocator.used \cap allocator.unused = {}
  <2>1. \A c \in S : c \in Chunk
    BY DEF HeapSound, WellFormed
  <2> QED BY <2>1, ChunkNumbers DEF HeapSound, Tiles
<1>2. BucketsInSync
  BY DEF HeapSound, BucketsInSync
<1> HIDE DEF S
<1>3. ASSUME NEW c \in S, NEW a PROVE a \in Bytes(c) <=> a \in Addr /\ contains(c, a)
  BY <1>1, SizesOfMemory DEF Bytes, contains, Addr
<1>4. UNION {Bytes(c) : c \in S} = Addr
  <2>1. \A a : a \in UNION {Bytes(c) : c \in S} <=> \E c \in S : a \in Bytes(c)
    OBVIOUS
  <2> QED BY <1>1, <1>3, <2>1
<1>5. ChunksPartition
  BY <1>1, <1>4 DEF ChunksPartition, Apart, S
<1> QED BY <1>2, <1>5

\* For every size of memory, of a page and of the smallest chunk, whatever the
\* guest asks for and frees: the chunks partition the address space, the
\* buckets list the unused ones, address zero is not given out, and none of
\* the allocator's assertions fails (Allocator, SizeBucketedChunkMap, Mem).
THEOREM MemorySound == MemSpec => []AllocatorSound
<1>1. MemInit => MemInv
  BY MemInitially
<1>2. MemInv /\ [MemNext]_memVars => MemInv'
  BY MemStep
<1>3. MemInv => AllocatorSound
  BY SoundPartition DEF MemInv, AllocatorSound
<1> QED BY <1>1, <1>2, <1>3, PTL DEF MemSpec

\* The process dies for want of memory only when no unused chunk is large
\* enough for the request (Allocator::alloc, allocate_in_bucket).
THEOREM NoFalseExhaustion == MemSpec => OutOfMemoryIsReal
<1>1. MemInit => MemInv
  BY MemInitially
<1>2. MemInv /\ [MemNext]_memVars => MemInv'
  BY MemStep
<1>3. ASSUME MemInv, NEW size \in Sizes, out_of_memory(size)
      PROVE  \A u \in allocator.unused : u.size < rounded(size)
  <2>1. HeapSound(allocator) /\ candidates(allocator, rounded(size)) = {}
    BY <1>3 DEF MemInv, out_of_memory
  <2>2. rounded(size) \in MIN_CHUNK_SIZE .. MemSize
    BY RoundedUp, SegmentsAssumption
  <2> QED BY <2>1, <2>2, CandidatesFit
<1>4. MemInv => [\A size \in Sizes :
          out_of_memory(size) => \A u \in allocator.unused : u.size < rounded(size)]_memVars
  BY <1>3
<1> QED BY <1>1, <1>2, <1>4, PTL DEF MemSpec, OutOfMemoryIsReal

\* Guest memory implements the abstract heap, step by step: blocks do not
\* overlap, keep their bytes until they are written to, moved or freed, and
\* are handed out zeroed (Mem::alloc, free, realloc, calloc, refurbish).
THEOREM MemoryIsHeap == MemSpec => ImplementsHeap
<1>1. MemInit => MemInv /\ H!HeapInit
  BY MemInitially
<1>2. MemInv /\ [MemNext]_memVars => MemInv' /\ [H!HeapNext]_H!hvars
  BY MemStep
<1> QED BY <1>1, <1>2, PTL DEF MemSpec, ImplementsHeap, H!HeapSpec

-----------------------------------------------------------------------------
(* Objects and their reference counts                                      *)

Anything == Ids \cup Pools
Task == [op : {"release", "dealloc", "free", "drop"}, obj : Anything, this : Anything]
ObjTypeOK ==
    /\ exists \in SUBSET Anything
    /\ refcount \in [Anything -> Nat]
    /\ objects \in [Pools -> Seq(Ids)]
    /\ original_thread \in [Pools -> Threads]
    /\ pool_stacks \in [Threads -> Seq(Pools)]
    /\ child \in [Ids -> Ids \cup {nil}]
    /\ held \in [Threads -> [Ids -> Nat]]
    /\ leaked \in [Ids -> Nat]
    /\ work \in [Threads -> Seq(Task)]
    /\ panic = "no"

\* A task to release an object, and the tasks that deallocate it.
ReleaseOf(x) == [op |-> "release", obj |-> x, this |-> x]
Deallocs(x) == {k \in Task : k.op \in {"dealloc", "free", "drop"} /\ k.this = x}

\* The references of a thread to an object, those of all threads, of the pools,
\* and of objects.
ThreadRefs(t, o) == held[t][o] + Cardinality(ItemsOf(work[t], {ReleaseOf(o)}))
ThreadTotal(o) == Total([t \in Threads |-> ThreadRefs(t, o)], Threads)
PoolRefs(p, o) == Cardinality(ItemsOf(objects[p], {o}))
PoolTotal(o) == Total([p \in Pools |-> PoolRefs(p, o)], Pools)
OwnerCount(o) == Cardinality({d \in Ids : child[d] = o})
Counted(o) == refcount[o] = leaked[o] + ThreadTotal(o) + PoolTotal(o) + OwnerCount(o)

\* How many tasks deallocate x.
TasksOn(t, x) == Cardinality(ItemsOf(work[t], Deallocs(x)))
Dying(x) == Total([t \in Threads |-> TasksOn(t, x)], Threads)
DiesOnce(x) ==
    /\ Dying(x) = IF x \in exists /\ refcount[x] = 0 THEN 1 ELSE 0
    /\ x \notin exists => refcount[x] = 0

\* What is owned is given up before its owner is freed.
OwnersExist ==
    /\ \A o \in Ids : child[o] # nil => o \in exists
    /\ \A t \in Threads : \A i \in DOMAIN work[t] :
         work[t][i].op = "free" => work[t][i].obj \in Ids /\ child[work[t][i].obj] = nil

\* The tasks of a thread: each about one thing, and a pool is drained alone.
WorkShape(t) ==
    \A i \in DOMAIN work[t] :
        /\ work[t][i].this = work[t][i].obj
        /\ work[t][i].obj \in Pools => Len(work[t]) = 1
        /\ work[t][i].op = "drop" => work[t][i].obj \in Pools
        /\ work[t][i].op \in {"release", "dealloc"} /\ work[t][i].obj \in Pools =>
             pool_stacks[t] # <<>> /\ work[t][i].obj = Last(pool_stacks[t])
        /\ work[t][i].op = "drop" => \A j \in DOMAIN pool_stacks[t] : pool_stacks[t][j] # work[t][i].obj
        /\ work[t][i].op = "drop" => original_thread[work[t][i].obj] = t

\* The pools on a thread's stack are its own, each there once, and each counts
\* one reference until it is drained.
StackShape(t) ==
    /\ \A i, j \in DOMAIN pool_stacks[t] : pool_stacks[t][i] = pool_stacks[t][j] => i = j
    /\ \A i \in DOMAIN pool_stacks[t] :
         LET p == pool_stacks[t][i]
         IN  /\ p \in exists /\ original_thread[p] = t
             /\ refcount[p] = 1 \/ (refcount[p] = 0 /\ Len(work[t]) = 1 /\ work[t][1] = [op |-> "dealloc", obj |-> p, this |-> p])

ObjInv ==
    /\ ObjTypeOK
    /\ \A o \in Ids : Counted(o)
    /\ \A x \in Anything : DiesOnce(x)
    /\ OwnersExist
    /\ \A t \in Threads : WorkShape(t) /\ StackShape(t)
    /\ \A p \in Pools : p \notin exists => objects[p] = <<>>

\* The counts are natural numbers, and none is more than the sum.
LEMMA RefFacts ==
  ASSUME ObjTypeOK, NEW o \in Ids
  PROVE  /\ ThreadTotal(o) \in Nat /\ PoolTotal(o) \in Nat /\ OwnerCount(o) \in Nat
         /\ \A t \in Threads : ThreadRefs(t, o) \in Nat /\ ThreadRefs(t, o) <= ThreadTotal(o)
         /\ \A t \in Threads : Cardinality(ItemsOf(work[t], {ReleaseOf(o)})) \in Nat
         /\ \A p \in Pools : PoolRefs(p, o) \in Nat /\ PoolRefs(p, o) <= PoolTotal(o)
         /\ \A d \in Ids : child[d] = o => OwnerCount(o) > 0
<1> DEFINE f == [t \in Threads |-> ThreadRefs(t, o)]
           g == [p \in Pools |-> PoolRefs(p, o)]
           D == {d \in Ids : child[d] = o}
<1>1. \A t \in Threads : Cardinality(ItemsOf(work[t], {ReleaseOf(o)})) \in Nat /\ ThreadRefs(t, o) \in Nat
  <2>1. ASSUME NEW t \in Threads
        PROVE  Cardinality(ItemsOf(work[t], {ReleaseOf(o)})) \in Nat /\ held[t][o] \in Nat
    <3>1. work[t] \in Seq(Task) /\ held[t] \in [Ids -> Nat]
      BY DEF ObjTypeOK
    <3> QED BY <3>1, ItemsFinite
  <2> QED BY <2>1 DEF ThreadRefs
<1>2. \A p \in Pools : PoolRefs(p, o) \in Nat
  <2>1. ASSUME NEW p \in Pools PROVE PoolRefs(p, o) \in Nat
    <3>1. objects[p] \in Seq(Ids)
      BY DEF ObjTypeOK
    <3> QED BY <3>1, ItemsFinite DEF PoolRefs
  <2> QED BY <2>1
<1>3. /\ \A t \in Threads : f[t] = ThreadRefs(t, o)
      /\ \A p \in Pools : g[p] = PoolRefs(p, o)
  OBVIOUS
<1>4. ThreadTotal(o) = Total(f, Threads) /\ PoolTotal(o) = Total(g, Pools) /\ OwnerCount(o) = Cardinality(D)
  BY DEF ThreadTotal, PoolTotal, OwnerCount
<1>5. IsFiniteSet(D) /\ Cardinality(D) \in Nat /\ \A d \in D : Cardinality(D) # 0
  <2>1. D \in SUBSET Ids /\ IsFiniteSet(Ids)
    BY ObjectsConstants
  <2> HIDE DEF D
  <2> QED BY <2>1, FS_Subset, FS_CardinalityType, FS_EmptySet
<1>6. \A d \in Ids : child[d] = o => d \in D
  OBVIOUS
<1> HIDE DEF f, g, D
<1>7. Total(f, Threads) \in Nat /\ \A t \in Threads : f[t] <= Total(f, Threads)
  BY <1>1, <1>3, ObjectsConstants, TotalNatural
<1>8. Total(g, Pools) \in Nat /\ \A p \in Pools : g[p] <= Total(g, Pools)
  BY <1>2, <1>3, ObjectsConstants, TotalNatural
<1>9. \A d \in Ids : child[d] = o => OwnerCount(o) > 0
  BY <1>4, <1>5, <1>6
<1> QED BY <1>1, <1>2, <1>3, <1>4, <1>5, <1>7, <1>8, <1>9

\* So are those of the tasks that deallocate an object.
LEMMA TaskFacts ==
  ASSUME ObjTypeOK, NEW x
  PROVE  /\ Dying(x) \in Nat
         /\ \A t \in Threads : TasksOn(t, x) \in Nat /\ TasksOn(t, x) <= Dying(x)
         /\ \A t \in Threads : \A i \in DOMAIN work[t] : work[t][i] \in Deallocs(x) => TasksOn(t, x) > 0
<1> DEFINE f == [t \in Threads |-> TasksOn(t, x)]
<1>1. ASSUME NEW t \in Threads
      PROVE  TasksOn(t, x) \in Nat /\ \A i \in DOMAIN work[t] : work[t][i] \in Deallocs(x) => TasksOn(t, x) > 0
  <2>1. work[t] \in Seq(Task)
    BY DEF ObjTypeOK
  <2>2. IsFiniteSet(ItemsOf(work[t], Deallocs(x))) /\ TasksOn(t, x) \in Nat
    BY <2>1, ItemsFinite DEF TasksOn
  <2>3. ASSUME NEW i \in DOMAIN work[t], work[t][i] \in Deallocs(x) PROVE TasksOn(t, x) > 0
    <3>1. i \in ItemsOf(work[t], Deallocs(x))
      BY <2>3 DEF ItemsOf
    <3>2. TasksOn(t, x) # 0
      BY <2>2, <3>1, FS_EmptySet DEF TasksOn
    <3> QED BY <2>2, <3>2
  <2> QED BY <2>2, <2>3
<1>2. (\A t \in Threads : f[t] = TasksOn(t, x)) /\ Dying(x) = Total(f, Threads)
  BY DEF Dying
<1> HIDE DEF f
<1>3. Total(f, Threads) \in Nat /\ \A t \in Threads : f[t] <= Total(f, Threads)
  BY <1>1, <1>2, ObjectsConstants, TotalNatural
<1> QED BY <1>1, <1>2, <1>3

\* What is referred to counts; what is being deallocated does not.
LEMMA RefsCount ==
  ASSUME ObjInv
  PROVE  /\ \A t \in Threads, o \in Ids : held[t][o] > 0 => refcount[o] > 0 /\ o \in exists
         /\ \A t \in Threads, o \in Ids : \A i \in DOMAIN work[t] :
              work[t][i] = ReleaseOf(o) => refcount[o] > 0 /\ o \in exists
         /\ \A d, o \in Ids : child[d] = o => refcount[o] > 0 /\ o \in exists
         /\ \A t \in Threads : \A x \in Anything : \A i \in DOMAIN work[t] :
              work[t][i] \in Deallocs(x) => refcount[x] = 0 /\ x \in exists
<1>0. ObjTypeOK /\ refcount \in [Anything -> Nat] /\ leaked \in [Ids -> Nat] /\ held \in [Threads -> [Ids -> Nat]]
      /\ work \in [Threads -> Seq(Task)]
  BY DEF ObjInv, ObjTypeOK
<1>1. ASSUME NEW o \in Ids, ThreadTotal(o) > 0 \/ OwnerCount(o) > 0
      PROVE  refcount[o] > 0 /\ o \in exists
  <2>1. Counted(o) /\ o \in Anything /\ DiesOnce(o)
    BY DEF ObjInv, Anything
  <2>2. /\ ThreadTotal(o) \in Nat /\ PoolTotal(o) \in Nat /\ OwnerCount(o) \in Nat
        /\ leaked[o] \in Nat /\ refcount[o] = leaked[o] + ThreadTotal(o) + PoolTotal(o) + OwnerCount(o)
    BY <1>0, <2>1, RefFacts DEF Counted
  <2>3. refcount[o] > 0
    BY <1>1, <2>2
  <2> QED BY <2>1, <2>3 DEF DiesOnce
<1>2. ASSUME NEW t \in Threads, NEW o \in Ids, held[t][o] > 0 PROVE ThreadTotal(o) > 0
  <2>1. ThreadRefs(t, o) \in Nat /\ ThreadRefs(t, o) <= ThreadTotal(o) /\ ThreadTotal(o) \in Nat
    BY <1>0, RefFacts
  <2>2. Cardinality(ItemsOf(work[t], {ReleaseOf(o)})) \in Nat /\ held[t][o] \in Nat
    BY <1>0, RefFacts
  <2> QED BY <1>2, <2>1, <2>2 DEF ThreadRefs
<1>3. ASSUME NEW t \in Threads, NEW o \in Ids, NEW i \in DOMAIN work[t], work[t][i] = ReleaseOf(o)
      PROVE  ThreadTotal(o) > 0
  <2>1. ThreadRefs(t, o) \in Nat /\ ThreadRefs(t, o) <= ThreadTotal(o) /\ ThreadTotal(o) \in Nat
    BY <1>0, RefFacts
  <2>2. /\ Cardinality(ItemsOf(work[t], {ReleaseOf(o)})) \in Nat
        /\ IsFiniteSet(ItemsOf(work[t], {ReleaseOf(o)})) /\ held[t][o] \in Nat
    BY <1>0, ItemsFinite
  <2>3. i \in ItemsOf(work[t], {ReleaseOf(o)})
    BY <1>3 DEF ItemsOf
  <2>4. Cardinality(ItemsOf(work[t], {ReleaseOf(o)})) # 0
    BY <2>2, <2>3, FS_EmptySet
  <2> QED BY <2>1, <2>2, <2>4 DEF ThreadRefs
<1>4. ASSUME NEW t \in Threads, NEW x \in Anything, NEW i \in DOMAIN work[t], work[t][i] \in Deallocs(x)
      PROVE  refcount[x] = 0 /\ x \in exists
  <2>1. Dying(x) \in Nat /\ TasksOn(t, x) \in Nat /\ TasksOn(t, x) <= Dying(x) /\ TasksOn(t, x) > 0
    BY <1>0, <1>4, TaskFacts
  <2>2. DiesOnce(x)
    BY DEF ObjInv
  <2> QED BY <2>1, <2>2 DEF DiesOnce
<1>5. ASSUME NEW d \in Ids, NEW o \in Ids, child[d] = o PROVE OwnerCount(o) > 0
  BY <1>0, <1>5, RefFacts
<1> QED BY <1>1, <1>2, <1>3, <1>4, <1>5

\* A step of thread t moves the sums by what it changes of its own.
LEMMA ThreadMoves ==
  ASSUME ObjTypeOK, ObjTypeOK', NEW t \in Threads, NEW o \in Ids,
         \A u \in Threads : u # t => held'[u] = held[u] /\ work'[u] = work[u]
  PROVE  ThreadTotal(o)' = ThreadTotal(o) + (ThreadRefs(t, o)' - ThreadRefs(t, o))
<1> DEFINE f == [u \in Threads |-> held[u][o] + Cardinality(ItemsOf(work[u], {ReleaseOf(o)}))]
           g == [u \in Threads |-> held'[u][o] + Cardinality(ItemsOf(work'[u], {ReleaseOf(o)}))]
<1>1. held \in [Threads -> [Ids -> Nat]] /\ work \in [Threads -> Seq(Task)]
  BY DEF ObjTypeOK
<1>2. held' \in [Threads -> [Ids -> Nat]] /\ work' \in [Threads -> Seq(Task)]
  BY DEF ObjTypeOK
<1>3. ASSUME NEW u \in Threads
      PROVE  /\ Cardinality(ItemsOf(work[u], {ReleaseOf(o)})) \in Nat
             /\ Cardinality(ItemsOf(work'[u], {ReleaseOf(o)})) \in Nat
             /\ held[u][o] \in Nat /\ held'[u][o] \in Nat
  BY <1>1, <1>2, ItemsFinite
<1>4. Ints(f, Threads) /\ Ints(g, Threads)
  <2>1. ASSUME NEW u \in Threads PROVE f[u] \in Int /\ g[u] \in Int
    <3>1. /\ f[u] = held[u][o] + Cardinality(ItemsOf(work[u], {ReleaseOf(o)}))
          /\ g[u] = held'[u][o] + Cardinality(ItemsOf(work'[u], {ReleaseOf(o)}))
      OBVIOUS
    <3> HIDE DEF f, g
    <3> QED BY <1>3, <3>1
  <2> QED BY <2>1 DEF Ints
<1>5. \A u \in Threads : u # t => g[u] = f[u]
  OBVIOUS
<1>6. /\ ThreadTotal(o) = Total(f, Threads) /\ ThreadTotal(o)' = Total(g, Threads)
      /\ ThreadRefs(t, o) = f[t] /\ ThreadRefs(t, o)' = g[t]
  BY DEF ThreadTotal, ThreadRefs
<1> HIDE DEF f, g
<1>7. Moves(f, g, Threads, t)
  BY <1>4, <1>5, ObjectsConstants, TotalMoves
<1> QED BY <1>6, <1>7 DEF Moves

\* Likewise for the tasks.
LEMMA TaskMoves ==
  ASSUME ObjTypeOK, ObjTypeOK', NEW t \in Threads, NEW x,
         \A u \in Threads : u # t => work'[u] = work[u]
  PROVE  Dying(x)' = Dying(x) + (TasksOn(t, x)' - TasksOn(t, x))
<1> DEFINE f == [u \in Threads |-> Cardinality(ItemsOf(work[u], Deallocs(x)))]
           g == [u \in Threads |-> Cardinality(ItemsOf(work'[u], Deallocs(x)))]
<1>1. work \in [Threads -> Seq(Task)] /\ work' \in [Threads -> Seq(Task)]
  BY DEF ObjTypeOK
<1>3. ASSUME NEW u \in Threads
      PROVE  /\ Cardinality(ItemsOf(work[u], Deallocs(x))) \in Nat
             /\ Cardinality(ItemsOf(work'[u], Deallocs(x))) \in Nat
  BY <1>1, ItemsFinite
<1>4. Ints(f, Threads) /\ Ints(g, Threads)
  BY <1>3 DEF Ints
<1>5. \A u \in Threads : u # t => g[u] = f[u]
  OBVIOUS
<1>6. /\ Dying(x) = Total(f, Threads) /\ Dying(x)' = Total(g, Threads)
      /\ TasksOn(t, x) = f[t] /\ TasksOn(t, x)' = g[t]
  BY DEF Dying, TasksOn, Deallocs
<1> HIDE DEF f, g
<1>7. Moves(f, g, Threads, t)
  BY <1>4, <1>5, ObjectsConstants, TotalMoves
<1> QED BY <1>6, <1>7 DEF Moves

\* Likewise for the contents of the pools.
LEMMA PoolMoves ==
  ASSUME ObjTypeOK, objects' \in [Pools -> Seq(Ids)], NEW p \in Pools, NEW o \in Ids,
         \A q \in Pools : q # p => objects'[q] = objects[q]
  PROVE  PoolTotal(o)' = PoolTotal(o) + (PoolRefs(p, o)' - PoolRefs(p, o))
<1> DEFINE f == [q \in Pools |-> Cardinality(ItemsOf(objects[q], {o}))]
           g == [q \in Pools |-> Cardinality(ItemsOf(objects'[q], {o}))]
<1>1. objects \in [Pools -> Seq(Ids)] /\ objects' \in [Pools -> Seq(Ids)]
  BY DEF ObjTypeOK
<1>3. ASSUME NEW q \in Pools
      PROVE  /\ Cardinality(ItemsOf(objects[q], {o})) \in Nat
             /\ Cardinality(ItemsOf(objects'[q], {o})) \in Nat
  BY <1>1, ItemsFinite
<1>4. Ints(f, Pools) /\ Ints(g, Pools)
  <2>1. ASSUME NEW q \in Pools PROVE f[q] \in Int /\ g[q] \in Int
    <3>1. f[q] = Cardinality(ItemsOf(objects[q], {o})) /\ g[q] = Cardinality(ItemsOf(objects'[q], {o}))
      OBVIOUS
    <3>2. \A n \in Nat : n \in Int
      OBVIOUS
    <3> HIDE DEF f, g
    <3> QED BY <1>3, <3>1, <3>2, Zenon
  <2> QED BY <2>1 DEF Ints
<1>5. \A q \in Pools : q # p => g[q] = f[q]
  OBVIOUS
<1>6. /\ PoolTotal(o) = Total(f, Pools) /\ PoolTotal(o)' = Total(g, Pools)
      /\ PoolRefs(p, o) = f[p] /\ PoolRefs(p, o)' = g[p]
  BY DEF PoolTotal, PoolRefs
<1> HIDE DEF f, g
<1>7. Moves(f, g, Pools, p)
  BY <1>4, <1>5, ObjectsConstants, TotalMoves
<1> QED BY <1>6, <1>7 DEF Moves

\* A thread that is at work on an object is at work on objects only; one that
\* is at work on a pool does nothing else.
LEMMA WorkIsOne ==
  ASSUME ObjInv, NEW t \in Threads, work[t] # <<>>
  PROVE  /\ work[t] \in Seq(Task) /\ Len(work[t]) \in Nat \ {0} /\ DOMAIN work[t] = 1 .. Len(work[t])
         /\ 1 \in DOMAIN work[t] /\ Head(work[t]) = work[t][1] /\ Head(work[t]) \in Task
         /\ Head(work[t]).this = Head(work[t]).obj
         /\ Tail(work[t]) \in Seq(Task) /\ DOMAIN Tail(work[t]) = 1 .. Len(work[t]) - 1
         /\ \A i \in DOMAIN Tail(work[t]) : Tail(work[t])[i] = work[t][i + 1] /\ i + 1 \in DOMAIN work[t]
         /\ Head(work[t]).obj \in Ids =>
              \A i \in DOMAIN work[t] : /\ work[t][i].obj \in Ids /\ work[t][i].this = work[t][i].obj
                                        /\ work[t][i].op # "drop"
         /\ Head(work[t]).obj \in Pools => Tail(work[t]) = <<>>
<1>1. work[t] \in Seq(Task) /\ WorkShape(t)
  BY DEF ObjInv, ObjTypeOK
<1>2. /\ Len(work[t]) \in Nat \ {0} /\ DOMAIN work[t] = 1 .. Len(work[t])
      /\ Head(work[t]) = work[t][1] /\ Head(work[t]) \in Task
      /\ Tail(work[t]) \in Seq(Task) /\ DOMAIN Tail(work[t]) = 1 .. Len(work[t]) - 1
      /\ \A i \in 1 .. Len(work[t]) - 1 : Tail(work[t])[i] = work[t][i + 1]
  BY <1>1, HeadRest
<1>3. 1 \in DOMAIN work[t] /\ \A i \in DOMAIN Tail(work[t]) : i + 1 \in DOMAIN work[t]
  BY <1>2
<1>4. Head(work[t]).this = Head(work[t]).obj
  BY <1>1, <1>2, <1>3 DEF WorkShape
<1>5. ASSUME Head(work[t]).obj \in Ids, NEW i \in DOMAIN work[t]
      PROVE  work[t][i].obj \in Ids /\ work[t][i].this = work[t][i].obj /\ work[t][i].op # "drop"
  <2>0. work[t][i] \in Task
    BY <1>1
  <2>1. work[t][i].obj \in Anything
    BY <2>0 DEF Task
  <2>2. work[t][i].obj \notin Pools
    <3>1. SUFFICES ASSUME work[t][i].obj \in Pools PROVE FALSE
      OBVIOUS
    <3>2. Len(work[t]) = 1
      BY <1>1, <3>1 DEF WorkShape
    <3>3. i = 1
      BY <1>2, <3>2
    <3> QED BY <1>2, <1>5, <3>1, <3>3, ObjectsConstants
  <2> QED BY <1>1, <2>1, <2>2 DEF WorkShape, Anything
<1>6. ASSUME Head(work[t]).obj \in Pools PROVE Tail(work[t]) = <<>>
  <2>1. Len(work[t]) = 1
    BY <1>1, <1>2, <1>3, <1>6 DEF WorkShape
  <2>2. Len(Tail(work[t])) = Len(work[t]) - 1 /\ Tail(work[t]) \in Seq(Task)
    BY <1>1, HeadRest
  <2>3. Len(Tail(work[t])) = 0
    BY <2>1, <2>2
  <2> QED BY <2>2, <2>3, EmptySeq
<1> QED BY <1>1, <1>2, <1>3, <1>4, <1>5, <1>6

\* What another thread does leaves the tasks and the stack of a thread as they are.
LEMMA ShapesStay ==
  ASSUME ObjInv, NEW u \in Threads, work'[u] = work[u], pool_stacks'[u] = pool_stacks[u],
         \A p \in Pools \cap exists : original_thread[p] = u =>
           p \in exists' /\ original_thread'[p] = u /\ refcount'[p] = refcount[p]
  PROVE  WorkShape(u)' /\ StackShape(u)'
<1>1. /\ WorkShape(u) /\ StackShape(u) /\ work[u] \in Seq(Task) /\ pool_stacks[u] \in Seq(Pools)
      /\ \A i \in DOMAIN pool_stacks[u] : pool_stacks[u][i] \in Pools
      /\ \A i \in DOMAIN work[u] : work[u][i] \in Task
  BY DEF ObjInv, ObjTypeOK
<1>2. ASSUME NEW i \in DOMAIN work[u], work[u][i].op = "drop"
      PROVE  original_thread'[work[u][i].obj] = u
  <2>1. /\ work[u][i].obj \in Pools /\ work[u][i].this = work[u][i].obj
        /\ original_thread[work[u][i].obj] = u
    BY <1>1, <1>2 DEF WorkShape
  <2>2. work[u][i] \in Deallocs(work[u][i].obj) /\ work[u][i].obj \in Anything
    BY <1>1, <1>2, <2>1 DEF Deallocs, Anything
  <2>3. work[u][i].obj \in exists
    BY <2>2, RefsCount
  <2> QED BY <2>1, <2>3
<1>3. WorkShape(u)'
  BY <1>1, <1>2 DEF WorkShape
<1>4. ASSUME NEW i \in DOMAIN pool_stacks[u]
      PROVE  LET p == pool_stacks[u][i]
             IN  p \in exists' /\ original_thread'[p] = u /\ refcount'[p] = refcount[p]
  <2>1. pool_stacks[u][i] \in Pools /\ pool_stacks[u][i] \in exists /\ original_thread[pool_stacks[u][i]] = u
    BY <1>1 DEF StackShape
  <2> QED BY <2>1
<1>5. StackShape(u)'
  BY <1>1, <1>4 DEF StackShape
<1> QED BY <1>3, <1>5

\* Nor does what a thread does with objects change anything about its pools.
LEMMA ObjectStep ==
  ASSUME ObjInv, NEW t \in Threads, work[t] = <<>> \/ Head(work[t]).obj \in Ids,
         \A u \in Threads : u # t => work'[u] = work[u],
         pool_stacks' = pool_stacks, original_thread' = original_thread,
         \A p \in Pools : (p \in exists => p \in exists') /\ refcount'[p] = refcount[p],
         \A i \in DOMAIN work'[t] : /\ work'[t][i].obj \in Ids /\ work'[t][i].this = work'[t][i].obj
                                    /\ work'[t][i].op # "drop"
  PROVE  \A u \in Threads : WorkShape(u)' /\ StackShape(u)'
<1>1. ASSUME NEW u \in Threads, u # t PROVE WorkShape(u)' /\ StackShape(u)'
  BY <1>1, ShapesStay
<1>2. WorkShape(t)'
  BY ObjectsConstants DEF WorkShape
<1>3. StackShape(t)'
  <2>1. StackShape(t) /\ pool_stacks[t] \in Seq(Pools) /\ \A i \in DOMAIN pool_stacks[t] : pool_stacks[t][i] \in Pools
    BY DEF ObjInv, ObjTypeOK
  <2>2. ASSUME NEW p \in Pools, Len(work[t]) = 1, work[t][1] = [op |-> "dealloc", obj |-> p, this |-> p]
        PROVE  FALSE
    <3>1. work[t] # <<>>
      BY <2>2
    <3>2. Head(work[t]) = work[t][1]
      BY <3>1, WorkIsOne
    <3> QED BY <2>2, <3>1, <3>2, ObjectsConstants
  <2>3. \A i \in DOMAIN pool_stacks[t] : refcount[pool_stacks[t][i]] = 1
    BY <2>1, <2>2 DEF StackShape
  <2> QED BY <2>1, <2>3 DEF StackShape
<1> QED BY <1>1, <1>2, <1>3

\* An object's count stays exact when it moves as much as the references to it do.
LEMMA Recount ==
  ASSUME ObjInv, ObjTypeOK', NEW t \in Threads, NEW x \in Ids,
         \A u \in Threads : u # t => held'[u] = held[u] /\ work'[u] = work[u],
         refcount'[x] - refcount[x] =
           (ThreadRefs(t, x)' - ThreadRefs(t, x))
             + ((leaked'[x] - leaked[x]) + (PoolTotal(x)' - PoolTotal(x))) + (OwnerCount(x)' - OwnerCount(x))
  PROVE  Counted(x)'
<1>1. ObjTypeOK /\ Counted(x) /\ x \in Anything
  BY DEF ObjInv, Anything
<1>2. /\ refcount[x] \in Nat /\ leaked[x] \in Nat /\ ThreadTotal(x) \in Nat /\ PoolTotal(x) \in Nat
      /\ OwnerCount(x) \in Nat /\ ThreadRefs(t, x) \in Nat
  BY <1>1, RefFacts DEF ObjTypeOK
<1>3. refcount'[x] \in Nat /\ leaked'[x] \in Nat
  BY <1>1 DEF ObjTypeOK
<1>4. /\ ThreadRefs(t, x)' \in Nat /\ PoolTotal(x)' \in Nat /\ OwnerCount(x)' \in Nat
  <2>1. /\ held' \in [Threads -> [Ids -> Nat]] /\ work' \in [Threads -> Seq(Task)]
        /\ objects' \in [Pools -> Seq(Ids)]
    BY DEF ObjTypeOK
  <2>2. held'[t][x] \in Nat /\ Cardinality(ItemsOf(work'[t], {ReleaseOf(x)})) \in Nat
    BY <2>1, ItemsFinite
  <2>3. ThreadRefs(t, x)' = held'[t][x] + Cardinality(ItemsOf(work'[t], {ReleaseOf(x)}))
    BY DEF ThreadRefs, ReleaseOf
  <2>4. ThreadRefs(t, x)' \in Nat
    BY <2>2, <2>3
  <2> DEFINE g == [p \in Pools |-> PoolRefs(p, x)']
             D == {d \in Ids : child'[d] = x}
  <2>5. \A p \in Pools : g[p] \in Nat
    BY <2>1, ItemsFinite DEF PoolRefs
  <2>6. PoolTotal(x)' = Total(g, Pools)
    BY DEF PoolTotal
  <2>7. IsFiniteSet(D) /\ Cardinality(D) \in Nat
    BY ObjectsConstants, FS_Subset, FS_CardinalityType
  <2>8. OwnerCount(x)' = Cardinality(D)
    BY DEF OwnerCount
  <2> HIDE DEF g, D
  <2>9. Total(g, Pools) \in Nat
    BY <2>5, ObjectsConstants, TotalNatural
  <2> QED BY <2>4, <2>6, <2>7, <2>8, <2>9
<1>5. ThreadTotal(x)' = ThreadTotal(x) + (ThreadRefs(t, x)' - ThreadRefs(t, x))
  BY <1>1, ThreadMoves
<1>6. refcount[x] = leaked[x] + ThreadTotal(x) + PoolTotal(x) + OwnerCount(x)
  BY <1>1 DEF Counted
<1>7. refcount'[x] = leaked'[x] + ThreadTotal(x)' + PoolTotal(x)' + OwnerCount(x)'
  <2>1. PICK r, l, w, a, p, c \in Int :
          /\ r = refcount[x] /\ l = leaked[x] /\ w = ThreadTotal(x) /\ a = ThreadRefs(t, x)
          /\ p = PoolTotal(x) /\ c = OwnerCount(x)
    BY <1>2
  <2>2. PICK r2, l2, a2, p2, c2 \in Int :
          /\ r2 = refcount'[x] /\ l2 = leaked'[x] /\ a2 = ThreadRefs(t, x)'
          /\ p2 = PoolTotal(x)' /\ c2 = OwnerCount(x)'
    BY <1>3, <1>4
  <2>3. r = l + w + p + c /\ ThreadTotal(x)' = w + (a2 - a)
    BY <1>5, <1>6, <2>1, <2>2
  <2>4. r2 - r = (a2 - a) + ((l2 - l) + (p2 - p)) + (c2 - c)
    BY <2>1, <2>2
  <2>5. r2 = l2 + (w + (a2 - a)) + p2 + c2
    BY <2>3, <2>4
  <2> QED BY <2>2, <2>3, <2>5
<1> QED BY <1>7 DEF Counted

\* An object is created: it had no reference, owner or task.
LEMMA AllocKeeps ==
  ASSUME ObjInv, NEW t \in Threads, NEW o \in Ids, alloc_object(t, o)
  PROVE  ObjInv'
<1>1. ObjTypeOK /\ OwnersExist /\ (\A x \in Ids : Counted(x)) /\ \A x \in Anything : DiesOnce(x)
  BY DEF ObjInv
<1>2. /\ work[t] = <<>> /\ o \notin exists /\ o \in Anything
      /\ exists' = exists \cup {o} /\ refcount' = [refcount EXCEPT ![o] = 1]
      /\ child' = [child EXCEPT ![o] = nil] /\ held' = [held EXCEPT ![t][o] = @ + 1]
      /\ objects' = objects /\ original_thread' = original_thread /\ pool_stacks' = pool_stacks
      /\ leaked' = leaked /\ work' = work /\ panic' = panic
  BY DEF alloc_object, Idle, Anything
<1>3. child[o] = nil /\ refcount[o] = 0
  BY <1>1, <1>2 DEF OwnersExist, DiesOnce
<1>4. child' = child
  BY <1>1, <1>2, <1>3 DEF ObjTypeOK
<1>5. /\ held' \in [Threads -> [Ids -> Nat]]
      /\ \A u \in Threads : u # t => held'[u] = held[u]
      /\ \A x \in Ids : held'[t][x] = held[t][x] + IF x = o THEN 1 ELSE 0
  BY <1>1, <1>2 DEF ObjTypeOK
<1>6. /\ refcount' \in [Anything -> Nat] /\ refcount'[o] = 1 /\ \A x \in Anything : x # o => refcount'[x] = refcount[x]
  BY <1>1, <1>2 DEF ObjTypeOK
<1>7. ObjTypeOK'
  BY <1>1, <1>2, <1>4, <1>5, <1>6 DEF ObjTypeOK
<1>8. ASSUME NEW x \in Ids PROVE Counted(x)'
  <2>2. ThreadRefs(t, x)' - ThreadRefs(t, x) = IF x = o THEN 1 ELSE 0
    <3>1. held[t][x] \in Nat /\ Cardinality(ItemsOf(work[t], {ReleaseOf(x)})) \in Nat
      BY <1>1, RefFacts DEF ObjTypeOK
    <3>2. /\ ThreadRefs(t, x)' = held'[t][x] + Cardinality(ItemsOf(work[t], {ReleaseOf(x)}))
          /\ ThreadRefs(t, x) = held[t][x] + Cardinality(ItemsOf(work[t], {ReleaseOf(x)}))
      BY <1>2 DEF ThreadRefs
    <3> QED BY <1>5, <3>1, <3>2
  <2>3. PoolTotal(x)' = PoolTotal(x) /\ OwnerCount(x)' = OwnerCount(x) /\ leaked'[x] = leaked[x]
    BY <1>2, <1>4 DEF PoolTotal, PoolRefs, OwnerCount
  <2>4. refcount'[x] = refcount[x] + IF x = o THEN 1 ELSE 0
    BY <1>1, <1>3, <1>6 DEF Anything, ObjTypeOK
  <2>5. PoolTotal(x) \in Nat /\ OwnerCount(x) \in Nat /\ leaked[x] \in Nat /\ refcount[x] \in Nat
    BY <1>1, RefFacts DEF ObjTypeOK, Anything
  <2> QED BY <1>2, <1>5, <1>7, <2>2, <2>3, <2>4, <2>5, Recount
<1>9. ASSUME NEW x \in Anything PROVE DiesOnce(x)'
  <2>1. Dying(x)' = Dying(x) /\ DiesOnce(x)
    BY <1>1, <1>2 DEF Dying, TasksOn
  <2> QED BY <1>2, <1>3, <1>6, <2>1 DEF DiesOnce
<1>10. OwnersExist'
  BY <1>1, <1>2, <1>4 DEF OwnersExist
<1>11. \A u \in Threads : WorkShape(u)' /\ StackShape(u)'
  <2>1. \A p \in Pools : (p \in exists => p \in exists') /\ refcount'[p] = refcount[p]
    BY <1>2, <1>6, ObjectsConstants DEF Anything
  <2> QED BY <1>2, <2>1, ObjectStep
<1>12. \A p \in Pools : p \notin exists' => objects'[p] = <<>>
  BY <1>2 DEF ObjInv
<1> QED BY <1>7, <1>8, <1>9, <1>10, <1>11, <1>12 DEF ObjInv

\* An object that somebody holds is retained.
LEMMA RetainKeeps ==
  ASSUME ObjInv, NEW t \in Threads, NEW o \in Ids, retain(t, o)
  PROVE  ObjInv'
<1>1. ObjTypeOK /\ OwnersExist /\ (\A x \in Ids : Counted(x)) /\ \A x \in Anything : DiesOnce(x)
  BY DEF ObjInv
<1>0. o \in exists /\ refcount[o] > 0
  <2>1. PICK u \in Threads : held[u][o] > 0
    BY DEF retain, Holders
  <2> QED BY <2>1, RefsCount
<1>2. /\ work[t] = <<>> /\ o \in Anything
      /\ exists' = exists /\ refcount' = [refcount EXCEPT ![o] = @ + 1]
      /\ child' = child /\ held' = [held EXCEPT ![t][o] = @ + 1]
      /\ objects' = objects /\ original_thread' = original_thread /\ pool_stacks' = pool_stacks
      /\ leaked' = leaked /\ work' = work /\ panic' = panic
  BY <1>0 DEF retain, Idle, Anything
<1>5. /\ held' \in [Threads -> [Ids -> Nat]]
      /\ \A u \in Threads : u # t => held'[u] = held[u]
      /\ \A x \in Ids : held'[t][x] = held[t][x] + IF x = o THEN 1 ELSE 0
  BY <1>1, <1>2 DEF ObjTypeOK
<1>6. /\ refcount' \in [Anything -> Nat]
      /\ refcount'[o] = refcount[o] + 1 /\ \A x \in Anything : x # o => refcount'[x] = refcount[x]
  BY <1>1, <1>2 DEF ObjTypeOK
<1>7. ObjTypeOK'
  BY <1>1, <1>2, <1>5, <1>6 DEF ObjTypeOK
<1>8. ASSUME NEW x \in Ids PROVE Counted(x)'
  <2>2. ThreadRefs(t, x)' - ThreadRefs(t, x) = IF x = o THEN 1 ELSE 0
    <3>1. held[t][x] \in Nat /\ Cardinality(ItemsOf(work[t], {ReleaseOf(x)})) \in Nat
      BY <1>1, RefFacts DEF ObjTypeOK
    <3>2. /\ ThreadRefs(t, x)' = held'[t][x] + Cardinality(ItemsOf(work[t], {ReleaseOf(x)}))
          /\ ThreadRefs(t, x) = held[t][x] + Cardinality(ItemsOf(work[t], {ReleaseOf(x)}))
      BY <1>2 DEF ThreadRefs
    <3> QED BY <1>5, <3>1, <3>2
  <2>3. PoolTotal(x)' = PoolTotal(x) /\ OwnerCount(x)' = OwnerCount(x) /\ leaked'[x] = leaked[x]
    BY <1>2 DEF PoolTotal, PoolRefs, OwnerCount
  <2>4. refcount'[x] = refcount[x] + IF x = o THEN 1 ELSE 0
    BY <1>1, <1>6 DEF Anything, ObjTypeOK
  <2>5. PoolTotal(x) \in Nat /\ OwnerCount(x) \in Nat /\ leaked[x] \in Nat /\ refcount[x] \in Nat
    BY <1>1, RefFacts DEF ObjTypeOK, Anything
  <2> QED BY <1>2, <1>5, <1>7, <2>2, <2>3, <2>4, <2>5, Recount
<1>9. ASSUME NEW x \in Anything PROVE DiesOnce(x)'
  <2>1. Dying(x)' = Dying(x) /\ DiesOnce(x)
    BY <1>1, <1>2 DEF Dying, TasksOn
  <2>2. (refcount'[x] = 0) <=> (refcount[x] = 0)
    <3>1. CASE x = o
      BY <1>0, <1>1, <1>6, <3>1 DEF ObjTypeOK
    <3>2. CASE x # o
      BY <1>6, <3>2
    <3> QED BY <3>1, <3>2
  <2> QED BY <1>2, <2>1, <2>2 DEF DiesOnce
<1>10. OwnersExist'
  BY <1>1, <1>2 DEF OwnersExist
<1>11. \A u \in Threads : WorkShape(u)' /\ StackShape(u)'
  <2>1. \A p \in Pools : (p \in exists => p \in exists') /\ refcount'[p] = refcount[p]
    BY <1>2, <1>6, ObjectsConstants DEF Anything
  <2> QED BY <1>2, <2>1, ObjectStep
<1>12. \A p \in Pools : p \notin exists' => objects'[p] = <<>>
  BY <1>2 DEF ObjInv
<1> QED BY <1>7, <1>8, <1>9, <1>10, <1>11, <1>12 DEF ObjInv

\* The owners of an object, when what o owns changes.
LEMMA OwnerMoves ==
  ASSUME ObjTypeOK, NEW o \in Ids, NEW new, child' = [child EXCEPT ![o] = new], NEW x \in Ids
  PROVE  OwnerCount(x)' = OwnerCount(x) - (IF child[o] = x THEN 1 ELSE 0) + IF new = x THEN 1 ELSE 0
<1> DEFINE A == {d \in Ids \ {o} : child[d] = x}
<1>1. IsFiniteSet(A) /\ Cardinality(A) \in Nat /\ o \notin A
  <2>1. A \in SUBSET Ids /\ IsFiniteSet(Ids) /\ o \notin A
    BY ObjectsConstants
  <2> HIDE DEF A
  <2> QED BY <2>1, FS_Subset, FS_CardinalityType
<1>2. /\ {d \in Ids : child[d] = x} = IF child[o] = x THEN A \cup {o} ELSE A
      /\ {d \in Ids : child'[d] = x} = IF new = x THEN A \cup {o} ELSE A
  BY DEF ObjTypeOK
<1> HIDE DEF A
<1>3. Cardinality(A \cup {o}) = Cardinality(A) + 1
  BY <1>1, FS_AddElement
<1>4. OwnerCount(x) = Cardinality(A) + IF child[o] = x THEN 1 ELSE 0
  <2>1. OwnerCount(x) = Cardinality(IF child[o] = x THEN A \cup {o} ELSE A)
    BY <1>2 DEF OwnerCount
  <2> QED BY <1>1, <1>3, <2>1
<1>5. OwnerCount(x)' = Cardinality(A) + IF new = x THEN 1 ELSE 0
  <2>1. OwnerCount(x)' = Cardinality({d \in Ids : child'[d] = x})
    BY DEF OwnerCount
  <2> QED BY <1>1, <1>2, <1>3, <2>1
<1> QED BY <1>1, <1>4, <1>5

\* A reference that a thread holds is stored in another object.
LEMMA OwnKeeps ==
  ASSUME ObjInv, NEW t \in Threads, NEW o \in Ids, NEW c \in Ids, own(t, o, c)
  PROVE  ObjInv'
<1>1. ObjTypeOK /\ OwnersExist /\ (\A x \in Ids : Counted(x)) /\ \A x \in Anything : DiesOnce(x)
  BY DEF ObjInv
<1>2. /\ work[t] = <<>> /\ held[t][o] > 0 /\ held[t][c] > 0 /\ child[o] = nil
      /\ exists' = exists /\ refcount' = refcount
      /\ child' = [child EXCEPT ![o] = c] /\ held' = [held EXCEPT ![t][c] = @ - 1]
      /\ objects' = objects /\ original_thread' = original_thread /\ pool_stacks' = pool_stacks
      /\ leaked' = leaked /\ work' = work /\ panic' = panic
  BY DEF own, Idle
<1>3. o \in exists /\ refcount[o] > 0
  BY <1>2, RefsCount
<1>4. /\ child' \in [Ids -> Ids \cup {nil}] /\ child'[o] = c /\ \A x \in Ids : x # o => child'[x] = child[x]
  BY <1>1, <1>2 DEF ObjTypeOK
<1>5. /\ held' \in [Threads -> [Ids -> Nat]]
      /\ \A u \in Threads : u # t => held'[u] = held[u]
      /\ \A x \in Ids : held'[t][x] = held[t][x] - IF x = c THEN 1 ELSE 0
  BY <1>1, <1>2 DEF ObjTypeOK
<1>7. ObjTypeOK'
  BY <1>1, <1>2, <1>4, <1>5 DEF ObjTypeOK
<1>8. ASSUME NEW x \in Ids PROVE Counted(x)'
  <2>1. ThreadRefs(t, x)' - ThreadRefs(t, x) = IF x = c THEN -1 ELSE 0
    <3>1. held[t][x] \in Nat /\ Cardinality(ItemsOf(work[t], {ReleaseOf(x)})) \in Nat
      BY <1>1, RefFacts DEF ObjTypeOK
    <3>2. /\ ThreadRefs(t, x)' = held'[t][x] + Cardinality(ItemsOf(work[t], {ReleaseOf(x)}))
          /\ ThreadRefs(t, x) = held[t][x] + Cardinality(ItemsOf(work[t], {ReleaseOf(x)}))
      BY <1>2 DEF ThreadRefs
    <3> QED BY <1>5, <3>1, <3>2
  <2>2. PoolTotal(x)' = PoolTotal(x) /\ leaked'[x] = leaked[x]
    BY <1>2 DEF PoolTotal, PoolRefs
  <2>3. OwnerCount(x)' = OwnerCount(x) + IF x = c THEN 1 ELSE 0
    <3>1. OwnerCount(x)' = OwnerCount(x) - (IF child[o] = x THEN 1 ELSE 0) + IF c = x THEN 1 ELSE 0
      BY <1>1, <1>2, OwnerMoves
    <3>2. child[o] # x /\ OwnerCount(x) \in Nat
      BY <1>1, <1>2, RefFacts, ObjectsConstants
    <3> QED BY <3>1, <3>2
  <2>4. PoolTotal(x) \in Nat /\ OwnerCount(x) \in Nat /\ leaked[x] \in Nat /\ refcount[x] \in Nat
    BY <1>1, RefFacts DEF ObjTypeOK, Anything
  <2> QED BY <1>2, <1>5, <1>7, <2>1, <2>2, <2>3, <2>4, Recount
<1>9. ASSUME NEW x \in Anything PROVE DiesOnce(x)'
  <2>1. Dying(x)' = Dying(x) /\ DiesOnce(x)
    BY <1>1, <1>2 DEF Dying, TasksOn
  <2> QED BY <1>2, <2>1 DEF DiesOnce
<1>10. OwnersExist'
  <2>1. ASSUME NEW u \in Threads, NEW i \in DOMAIN work[u], work[u][i].op = "free"
        PROVE  work[u][i].obj # o
    <3>1. work[u][i] \in Task /\ work[u][i].this = work[u][i].obj
      BY DEF ObjInv, ObjTypeOK, WorkShape
    <3>2. work[u][i].obj \in Anything /\ work[u][i] \in Deallocs(work[u][i].obj)
      BY <2>1, <3>1 DEF Task, Deallocs
    <3>3. refcount[work[u][i].obj] = 0
      BY <3>2, RefsCount
    <3> QED BY <1>3, <3>3
  <2>2. \A u \in Threads : \A i \in DOMAIN work[u] :
          work[u][i].op = "free" => work[u][i].obj \in Ids /\ child'[work[u][i].obj] = nil
    BY <1>1, <1>4, <2>1 DEF OwnersExist
  <2>3. \A x \in Ids : child'[x] # nil => x \in exists
    BY <1>1, <1>3, <1>4 DEF OwnersExist
  <2> QED BY <1>2, <2>2, <2>3 DEF OwnersExist
<1>11. \A u \in Threads : WorkShape(u)' /\ StackShape(u)'
  BY <1>2, ObjectStep
<1>12. \A p \in Pools : p \notin exists' => objects'[p] = <<>>
  BY <1>2 DEF ObjInv
<1> QED BY <1>7, <1>8, <1>9, <1>10, <1>11, <1>12 DEF ObjInv

\* One release to come.
LEMMA OneRelease ==
  ASSUME NEW o \in Anything
  PROVE  /\ Releases(<<o>>) = <<ReleaseOf(o)>> /\ ReleaseOf(o) \in Task
         /\ \A x \in Anything : ReleaseOf(o) \in {ReleaseOf(x)} <=> x = o
         /\ \A x : ReleaseOf(o) \notin Deallocs(x)
<1>1. Releases(<<o>>) = <<ReleaseOf(o)>>
  BY DEF Releases, ReleaseOf
<1> QED BY <1>1 DEF ReleaseOf, Task, Deallocs

\* A thread gives up a reference: it is now on its way to be released.
LEMMA ReleaseKeeps ==
  ASSUME ObjInv, NEW t \in Threads, NEW o \in Ids, release(t, o)
  PROVE  ObjInv'
<1>1. ObjTypeOK /\ OwnersExist /\ (\A x \in Ids : Counted(x)) /\ (\A x \in Anything : DiesOnce(x)) /\ o \in Anything
  BY DEF ObjInv, Anything
<1>2. /\ work[t] = <<>> /\ held[t][o] > 0
      /\ exists' = exists /\ refcount' = refcount /\ child' = child
      /\ held' = [held EXCEPT ![t][o] = @ - 1] /\ work' = [work EXCEPT ![t] = <<ReleaseOf(o)>>]
      /\ objects' = objects /\ original_thread' = original_thread /\ pool_stacks' = pool_stacks
      /\ leaked' = leaked /\ panic' = panic
  BY <1>1, OneRelease DEF release, Idle
<1>5. /\ held' \in [Threads -> [Ids -> Nat]]
      /\ \A u \in Threads : u # t => held'[u] = held[u]
      /\ \A x \in Ids : held'[t][x] = held[t][x] - IF x = o THEN 1 ELSE 0
  BY <1>1, <1>2 DEF ObjTypeOK
<1>6. /\ work' \in [Threads -> Seq(Task)] /\ work'[t] = <<ReleaseOf(o)>>
      /\ \A u \in Threads : u # t => work'[u] = work[u]
  <2>0. PICK r \in Task : r = ReleaseOf(o)
    BY <1>1, OneRelease
  <2>1. <<r>> \in Seq(Task)
    OBVIOUS
  <2> QED BY <1>1, <1>2, <2>0, <2>1 DEF ObjTypeOK
<1>7. ObjTypeOK'
  BY <1>1, <1>2, <1>5, <1>6 DEF ObjTypeOK
<1>8. ASSUME NEW x \in Ids PROVE Counted(x)'
  <2>1. ThreadRefs(t, x)' - ThreadRefs(t, x) = 0
    <3>1. held[t][x] \in Nat /\ FewItems(ReleaseOf(o), {ReleaseOf(x)}) /\ (ReleaseOf(o) \in {ReleaseOf(x)} <=> x = o)
      BY <1>1, ItemsFew, OneRelease DEF ObjTypeOK, Anything
    <3>2. ThreadRefs(t, x)' = held'[t][x] + IF x = o THEN 1 ELSE 0
      BY <1>6, <3>1 DEF ThreadRefs, FewItems, ReleaseOf
    <3>3. ThreadRefs(t, x) = held[t][x] + 0
      BY <1>2, <3>1 DEF ThreadRefs, FewItems
    <3> QED BY <1>5, <3>1, <3>2, <3>3
  <2>2. PoolTotal(x)' = PoolTotal(x) /\ OwnerCount(x)' = OwnerCount(x) /\ leaked'[x] = leaked[x]
    BY <1>2 DEF PoolTotal, PoolRefs, OwnerCount
  <2>4. PoolTotal(x) \in Nat /\ OwnerCount(x) \in Nat /\ leaked[x] \in Nat /\ refcount[x] \in Nat
    BY <1>1, RefFacts DEF ObjTypeOK, Anything
  <2> QED BY <1>2, <1>5, <1>6, <1>7, <2>1, <2>2, <2>4, Recount
<1>9. ASSUME NEW x \in Anything PROVE DiesOnce(x)'
  <2>1. Dying(x)' = Dying(x) + (TasksOn(t, x)' - TasksOn(t, x))
    BY <1>1, <1>6, <1>7, TaskMoves
  <2>2. TasksOn(t, x)' = 0 /\ TasksOn(t, x) = 0
    <3>1. FewItems(ReleaseOf(o), Deallocs(x)) /\ ReleaseOf(o) \notin Deallocs(x)
      BY <1>1, ItemsFew, OneRelease
    <3>2. Deallocs(x)' = Deallocs(x)
      BY DEF Deallocs
    <3> QED BY <1>2, <1>6, <3>1, <3>2 DEF TasksOn, FewItems
  <2>3. Dying(x) \in Nat /\ DiesOnce(x)
    BY <1>1, TaskFacts
  <2>4. Dying(x)' = Dying(x)
    BY <2>1, <2>2, <2>3
  <2> QED BY <1>2, <2>3, <2>4 DEF DiesOnce
<1>10. OwnersExist'
  <2>1. \A i \in DOMAIN work'[t] : work'[t][i].op # "free"
    BY <1>6 DEF ReleaseOf
  <2> QED BY <1>1, <1>2, <1>6, <2>1 DEF OwnersExist
<1>11. \A u \in Threads : WorkShape(u)' /\ StackShape(u)'
  <2>1. \A i \in DOMAIN work'[t] : /\ work'[t][i].obj \in Ids /\ work'[t][i].this = work'[t][i].obj
                                   /\ work'[t][i].op # "drop"
    BY <1>6 DEF ReleaseOf
  <2> QED BY <1>2, <1>6, <2>1, ObjectStep
<1>12. \A p \in Pools : p \notin exists' => objects'[p] = <<>>
  BY <1>2 DEF ObjInv
<1> QED BY <1>7, <1>8, <1>9, <1>10, <1>11, <1>12 DEF ObjInv

\* An object that is autoreleased goes to the innermost pool, or is leaked.
LEMMA PoolTakes ==
  ASSUME ObjInv, NEW t \in Threads, NEW o \in Ids, addObject(t, o)
  PROVE  /\ objects' \in [Pools -> Seq(Ids)] /\ leaked' \in [Ids -> Nat]
         /\ \A p \in Pools : p \notin exists => objects'[p] = <<>>
         /\ \A x \in Ids : (leaked'[x] - leaked[x]) + (PoolTotal(x)' - PoolTotal(x)) = IF x = o THEN 1 ELSE 0
<1>1. /\ ObjTypeOK /\ StackShape(t) /\ \A p \in Pools : p \notin exists => objects[p] = <<>>
      /\ objects \in [Pools -> Seq(Ids)] /\ leaked \in [Ids -> Nat] /\ pool_stacks[t] \in Seq(Pools)
  BY DEF ObjInv, ObjTypeOK
<1>2. CASE pool_stacks[t] = <<>>
  <2>1. objects' = objects /\ leaked' = [leaked EXCEPT ![o] = @ + 1]
    BY <1>2 DEF addObject
  <2>2. /\ leaked' \in [Ids -> Nat] /\ \A x \in Ids : leaked'[x] - leaked[x] = IF x = o THEN 1 ELSE 0
    BY <1>1, <2>1
  <2>3. \A x \in Ids : PoolTotal(x)' = PoolTotal(x) /\ PoolTotal(x) \in Nat
    BY <1>1, <2>1, RefFacts DEF PoolTotal, PoolRefs
  <2>4. \A x \in Ids : (leaked'[x] - leaked[x]) + (PoolTotal(x)' - PoolTotal(x)) = IF x = o THEN 1 ELSE 0
    BY <2>2, <2>3
  <2> QED BY <1>1, <2>1, <2>2, <2>4
<1>3. CASE pool_stacks[t] # <<>>
  <2>1. PICK p \in Pools : /\ p = Last(pool_stacks[t]) /\ p \in exists
    <3>0. /\ Last(pool_stacks[t]) = pool_stacks[t][Len(pool_stacks[t])] /\ Last(pool_stacks[t]) \in Pools
          /\ Len(pool_stacks[t]) \in Nat \ {0} /\ DOMAIN pool_stacks[t] = 1 .. Len(pool_stacks[t])
      BY <1>1, <1>3, FrontLast
    <3>1. Len(pool_stacks[t]) \in DOMAIN pool_stacks[t]
      BY <3>0
    <3>2. \A i \in DOMAIN pool_stacks[t] : pool_stacks[t][i] \in exists
      BY <1>1 DEF StackShape
    <3>3. Last(pool_stacks[t]) \in exists
      BY <3>0, <3>1, <3>2
    <3> QED BY <3>0, <3>3
  <2>2. PICK s \in Seq(Ids) : s = objects[p]
    BY <1>1
  <2>3. PICK s2 \in Seq(Ids) : s2 = Append(s, o)
    BY <2>2, AppendProperties
  <2>4. objects' = [objects EXCEPT ![p] = s2] /\ leaked' = leaked
    BY <1>3, <2>1, <2>2, <2>3 DEF addObject
  <2>5. /\ objects' \in [Pools -> Seq(Ids)] /\ objects'[p] = s2
        /\ \A q \in Pools : q # p => objects'[q] = objects[q]
    BY <1>1, <2>4
  <2>6. ASSUME NEW x \in Ids
        PROVE  PoolTotal(x)' - PoolTotal(x) = IF x = o THEN 1 ELSE 0
    <3>1. PoolTotal(x)' = PoolTotal(x) + (PoolRefs(p, x)' - PoolRefs(p, x)) /\ PoolTotal(x) \in Nat
      BY <1>1, <2>5, PoolMoves, RefFacts
    <3>2. OneMore(s, s2, o, {x}) /\ Cardinality(ItemsOf(s, {x})) \in Nat
      BY <2>3, ItemsAppend, ItemsFinite
    <3>3. PoolRefs(p, x)' = Cardinality(ItemsOf(s2, {x})) /\ PoolRefs(p, x) = Cardinality(ItemsOf(s, {x}))
      BY <2>2, <2>5 DEF PoolRefs
    <3>4. PoolRefs(p, x)' = PoolRefs(p, x) + IF x = o THEN 1 ELSE 0
      BY <3>2, <3>3 DEF OneMore
    <3> QED BY <3>1, <3>2, <3>3, <3>4
  <2>7. \A x \in Ids : (leaked'[x] - leaked[x]) + (PoolTotal(x)' - PoolTotal(x)) = IF x = o THEN 1 ELSE 0
    <3>1. \A x \in Ids : leaked'[x] - leaked[x] = 0
      BY <1>1, <2>4
    <3> QED BY <2>6, <3>1
  <2> QED BY <1>1, <2>1, <2>4, <2>5, <2>7
<1> QED BY <1>2, <1>3

\* A thread gives up a reference: the innermost pool has it now.
LEMMA AutoreleaseKeeps ==
  ASSUME ObjInv, NEW t \in Threads, NEW o \in Ids, autorelease(t, o)
  PROVE  ObjInv'
<1>1. ObjTypeOK /\ OwnersExist /\ (\A x \in Ids : Counted(x)) /\ (\A x \in Anything : DiesOnce(x))
  BY DEF ObjInv
<1>2. /\ work[t] = <<>> /\ held[t][o] > 0 /\ addObject(t, o)
      /\ exists' = exists /\ refcount' = refcount /\ child' = child
      /\ held' = [held EXCEPT ![t][o] = @ - 1] /\ work' = work
      /\ original_thread' = original_thread /\ pool_stacks' = pool_stacks /\ panic' = panic
  BY DEF autorelease, Idle
<1>5. /\ held' \in [Threads -> [Ids -> Nat]]
      /\ \A u \in Threads : u # t => held'[u] = held[u]
      /\ \A x \in Ids : held'[t][x] = held[t][x] - IF x = o THEN 1 ELSE 0
  BY <1>1, <1>2 DEF ObjTypeOK
<1>6. /\ objects' \in [Pools -> Seq(Ids)] /\ leaked' \in [Ids -> Nat]
      /\ \A p \in Pools : p \notin exists => objects'[p] = <<>>
      /\ \A x \in Ids : (leaked'[x] - leaked[x]) + (PoolTotal(x)' - PoolTotal(x)) = IF x = o THEN 1 ELSE 0
  BY <1>2, PoolTakes
<1>7. ObjTypeOK'
  BY <1>1, <1>2, <1>5, <1>6 DEF ObjTypeOK
<1>8. ASSUME NEW x \in Ids PROVE Counted(x)'
  <2>1. ThreadRefs(t, x)' - ThreadRefs(t, x) = IF x = o THEN -1 ELSE 0
    <3>1. held[t][x] \in Nat /\ Cardinality(ItemsOf(work[t], {ReleaseOf(x)})) \in Nat
      BY <1>1, RefFacts DEF ObjTypeOK
    <3>2. /\ ThreadRefs(t, x)' = held'[t][x] + Cardinality(ItemsOf(work[t], {ReleaseOf(x)}))
          /\ ThreadRefs(t, x) = held[t][x] + Cardinality(ItemsOf(work[t], {ReleaseOf(x)}))
      BY <1>2 DEF ThreadRefs
    <3> QED BY <1>5, <3>1, <3>2
  <2>2. OwnerCount(x)' = OwnerCount(x) /\ refcount'[x] = refcount[x]
    BY <1>2 DEF OwnerCount
  <2>3. OwnerCount(x) \in Nat /\ refcount[x] \in Nat
    BY <1>1, RefFacts DEF ObjTypeOK, Anything
  <2>4. (leaked'[x] - leaked[x]) + (PoolTotal(x)' - PoolTotal(x)) = IF x = o THEN 1 ELSE 0
    BY <1>6
  <2>5. refcount'[x] - refcount[x] =
          (ThreadRefs(t, x)' - ThreadRefs(t, x))
            + ((leaked'[x] - leaked[x]) + (PoolTotal(x)' - PoolTotal(x))) + (OwnerCount(x)' - OwnerCount(x))
    BY <2>1, <2>2, <2>3, <2>4
  <2> QED BY <1>2, <1>5, <1>7, <2>5, Recount
<1>9. ASSUME NEW x \in Anything PROVE DiesOnce(x)'
  <2>1. Dying(x)' = Dying(x) /\ DiesOnce(x)
    BY <1>1, <1>2 DEF Dying, TasksOn
  <2> QED BY <1>2, <2>1 DEF DiesOnce
<1>10. OwnersExist'
  BY <1>1, <1>2 DEF OwnersExist
<1>11. \A u \in Threads : WorkShape(u)' /\ StackShape(u)'
  <2>1. \A p \in Pools : (p \in exists => p \in exists') /\ refcount'[p] = refcount[p]
    BY <1>2
  <2> QED BY <1>2, <2>1, ObjectStep
<1>12. \A p \in Pools : p \notin exists' => objects'[p] = <<>>
  BY <1>2, <1>6
<1> QED BY <1>7, <1>8, <1>9, <1>10, <1>11, <1>12 DEF ObjInv

\* What is to be done after the first task, alone and after another task.
LEMMA WorkAfter ==
  ASSUME ObjTypeOK, NEW t \in Threads, work[t] # <<>>, NEW e \in Task
  PROVE  /\ Tail(work[t]) \in Seq(Task) /\ <<e>> \o Tail(work[t]) \in Seq(Task)
         /\ \A i \in DOMAIN Tail(work[t]) : \E j \in DOMAIN work[t] : Tail(work[t])[i] = work[t][j]
         /\ \A i \in DOMAIN (<<e>> \o Tail(work[t])) :
              \/ (<<e>> \o Tail(work[t]))[i] = e
              \/ \E j \in DOMAIN work[t] : (<<e>> \o Tail(work[t]))[i] = work[t][j]
<1>1. PICK s \in Seq(Task) : s = work[t]
  BY DEF ObjTypeOK
<1>0. s # <<>>
  BY <1>1
<1>21. /\ Tail(s) \in Seq(Task) /\ Len(Tail(s)) = Len(s) - 1 /\ Len(s) \in Nat \ {0}
       /\ DOMAIN Tail(s) = 1 .. Len(s) - 1 /\ DOMAIN s = 1 .. Len(s)
       /\ \A i \in 1 .. Len(s) - 1 : Tail(s)[i] = s[i + 1]
  BY <1>0, HeadRest
<1>2. PICK r \in Seq(Task) : /\ r = Tail(s) /\ Len(r) = Len(s) - 1 /\ Len(s) \in Nat \ {0}
                             /\ DOMAIN r = 1 .. Len(s) - 1 /\ DOMAIN s = 1 .. Len(s)
                             /\ \A i \in 1 .. Len(s) - 1 : r[i] = s[i + 1]
  BY <1>21, Zenon
<1>3. \A i \in DOMAIN r : i + 1 \in DOMAIN s /\ r[i] = s[i + 1]
  BY <1>2
<1>4. <<e>> \in Seq(Task) /\ Len(<<e>>) = 1 /\ <<e>>[1] = e
  OBVIOUS
<1>5. /\ <<e>> \o r \in Seq(Task) /\ Len(<<e>> \o r) = 1 + Len(r)
      /\ \A i \in 1 .. 1 + Len(r) : (<<e>> \o r)[i] = IF i <= 1 THEN e ELSE r[i - 1]
  BY <1>4, ConcatProperties
<1>6. ASSUME NEW i \in DOMAIN (<<e>> \o r)
      PROVE  (<<e>> \o r)[i] = e \/ \E j \in DOMAIN s : (<<e>> \o r)[i] = s[j]
  <2>1. i \in 1 .. 1 + Len(r) /\ Len(r) \in Nat
    BY <1>5, LenProperties
  <2>2. CASE i <= 1
    BY <1>5, <2>1, <2>2
  <2>3. CASE ~(i <= 1)
    <3>1. i - 1 \in DOMAIN r
      BY <1>2, <2>1, <2>3
    <3>2. (<<e>> \o r)[i] = r[i - 1]
      BY <1>5, <2>1, <2>3
    <3> QED BY <1>3, <3>1, <3>2
  <2> QED BY <2>2, <2>3
<1>7. \A i \in DOMAIN r : \E j \in DOMAIN s : r[i] = s[j]
  BY <1>3
<1> QED BY <1>1, <1>2, <1>5, <1>6, <1>7

\* An object is released, and deallocated next if that was the last reference.
LEMMA ReleaseObjectKeeps ==
  ASSUME ObjInv, NEW t \in Threads, release_task(t), Head(work[t]).obj \in Ids
  PROVE  ObjInv'
<1>1. ObjTypeOK /\ OwnersExist /\ (\A x \in Ids : Counted(x)) /\ \A x \in Anything : DiesOnce(x)
  BY DEF ObjInv
<1>2. work[t] # <<>> /\ Head(work[t]).op = "release"
  BY DEF release_task, Busy
<1>3. PICK o \in Ids : o = Head(work[t]).obj
  OBVIOUS
<1>31. /\ work[t] \in Seq(Task) /\ 1 \in DOMAIN work[t] /\ Head(work[t]) = work[t][1] /\ Head(work[t]) \in Task
       /\ Head(work[t]).this = o
       /\ \A i \in DOMAIN work[t] : /\ work[t][i].obj \in Ids /\ work[t][i].this = work[t][i].obj
                                    /\ work[t][i].op # "drop"
  BY <1>2, <1>3, WorkIsOne
<1>4. Head(work[t]) = ReleaseOf(o) /\ o \in Anything
  BY <1>2, <1>3, <1>31 DEF Task, ReleaseOf, Anything
<1>5. refcount[o] > 0 /\ o \in exists
  BY <1>31, <1>4, RefsCount
<1> DEFINE e == [op |-> "dealloc", obj |-> o, this |-> o]
<1>6. /\ e \in Task /\ e.op = "dealloc" /\ e.obj = o /\ e.this = o
      /\ \A x : e \in Deallocs(x) <=> x = o
      /\ \A x : e \notin {ReleaseOf(x)}
  BY <1>4 DEF Task, Deallocs, ReleaseOf
<1>7. /\ refcount' = [refcount EXCEPT ![o] = @ - 1]
      /\ work' = [work EXCEPT ![t] = IF refcount[o] = 1 THEN <<e>> \o Tail(work[t]) ELSE Tail(work[t])]
      /\ exists' = exists /\ objects' = objects /\ original_thread' = original_thread
      /\ pool_stacks' = pool_stacks /\ child' = child /\ held' = held /\ leaked' = leaked /\ panic' = panic
  BY <1>3, <1>5 DEF release_task
<1> HIDE DEF e
<1>8. PICK w \in Seq(Task) : w = IF refcount[o] = 1 THEN <<e>> \o Tail(work[t]) ELSE Tail(work[t])
  BY <1>1, <1>2, <1>6, WorkAfter
<1>9. \A i \in DOMAIN w : w[i] = e \/ \E j \in DOMAIN work[t] : w[i] = work[t][j]
  BY <1>1, <1>2, <1>6, <1>8, WorkAfter
<1>10. /\ work' \in [Threads -> Seq(Task)] /\ work'[t] = w
       /\ \A u \in Threads : u # t => work'[u] = work[u]
  BY <1>1, <1>7, <1>8 DEF ObjTypeOK
<1>11. /\ refcount' \in [Anything -> Nat]
       /\ refcount'[o] = refcount[o] - 1 /\ \A x \in Anything : x # o => refcount'[x] = refcount[x]
  BY <1>1, <1>4, <1>5, <1>7 DEF ObjTypeOK
<1>12. ObjTypeOK'
  BY <1>1, <1>7, <1>10, <1>11 DEF ObjTypeOK
<1>13. ASSUME NEW x \in Ids PROVE Counted(x)'
  <2>1. ThreadRefs(t, x)' - ThreadRefs(t, x) = IF x = o THEN -1 ELSE 0
    <3>1. FirstAndRest(work[t], e, {ReleaseOf(x)}) /\ held[t][x] \in Nat
      BY <1>1, <1>2, <1>6, <1>31, ItemsFirst DEF ObjTypeOK
    <3>2. (Head(work[t]) \in {ReleaseOf(x)} <=> x = o) /\ e \notin {ReleaseOf(x)}
      BY <1>4, <1>6 DEF ReleaseOf
    <3>3. /\ Cardinality(ItemsOf(work[t], {ReleaseOf(x)})) =
               Cardinality(ItemsOf(w, {ReleaseOf(x)})) + IF x = o THEN 1 ELSE 0
          /\ Cardinality(ItemsOf(w, {ReleaseOf(x)})) \in Nat
      <4>1. CASE refcount[o] = 1
        BY <1>8, <3>1, <3>2, <4>1 DEF FirstAndRest
      <4>2. CASE refcount[o] # 1
        BY <1>8, <3>1, <3>2, <4>2 DEF FirstAndRest
      <4> QED BY <4>1, <4>2
    <3>4. ThreadRefs(t, x)' = held[t][x] + Cardinality(ItemsOf(w, {ReleaseOf(x)}))
      BY <1>7, <1>10 DEF ThreadRefs, ReleaseOf
    <3>5. ThreadRefs(t, x) = held[t][x] + Cardinality(ItemsOf(work[t], {ReleaseOf(x)}))
      BY DEF ThreadRefs
    <3> QED BY <3>1, <3>3, <3>4, <3>5
  <2>2. PoolTotal(x)' = PoolTotal(x) /\ OwnerCount(x)' = OwnerCount(x) /\ leaked'[x] = leaked[x]
    BY <1>7 DEF PoolTotal, PoolRefs, OwnerCount
  <2>3. refcount'[x] - refcount[x] = IF x = o THEN -1 ELSE 0
    <3>1. x \in Anything /\ refcount[x] \in Nat
      BY <1>1 DEF ObjTypeOK, Anything
    <3>2. CASE x = o
      BY <1>11, <3>1, <3>2
    <3>3. CASE x # o
      BY <1>11, <3>1, <3>3
    <3> QED BY <3>2, <3>3
  <2>4. PoolTotal(x) \in Nat /\ OwnerCount(x) \in Nat /\ leaked[x] \in Nat
    BY <1>1, RefFacts DEF ObjTypeOK
  <2> QED BY <1>7, <1>10, <1>12, <2>1, <2>2, <2>3, <2>4, Recount
<1>14. ASSUME NEW x \in Anything PROVE DiesOnce(x)'
  <2>1. Dying(x)' = Dying(x) + (TasksOn(t, x)' - TasksOn(t, x))
    BY <1>1, <1>10, <1>12, TaskMoves
  <2>2. TasksOn(t, x)' = TasksOn(t, x) + (IF x = o /\ refcount[o] = 1 THEN 1 ELSE 0) /\ TasksOn(t, x) \in Nat
    <3>1. FirstAndRest(work[t], e, Deallocs(x))
      BY <1>2, <1>6, <1>31, ItemsFirst
    <3>2. Head(work[t]) \notin Deallocs(x) /\ (e \in Deallocs(x) <=> x = o)
      BY <1>2, <1>6 DEF Deallocs
    <3>3. TasksOn(t, x) = Cardinality(ItemsOf(Tail(work[t]), Deallocs(x))) /\ TasksOn(t, x) \in Nat
      BY <3>1, <3>2 DEF FirstAndRest, TasksOn
    <3>4. TasksOn(t, x)' = Cardinality(ItemsOf(w, Deallocs(x)))
      BY <1>10 DEF TasksOn, Deallocs
    <3>5. CASE refcount[o] = 1
      BY <1>8, <3>1, <3>2, <3>3, <3>4, <3>5 DEF FirstAndRest
    <3>6. CASE refcount[o] # 1
      BY <1>8, <3>3, <3>4, <3>6
    <3> QED BY <3>3, <3>5, <3>6
  <2>3. Dying(x) \in Nat /\ DiesOnce(x)
    BY <1>1, TaskFacts
  <2>4. Dying(x)' = Dying(x) + IF x = o /\ refcount[o] = 1 THEN 1 ELSE 0
    BY <2>1, <2>2, <2>3
  <2>5. CASE x = o
    <3>1. Dying(x) = 0 /\ refcount'[x] = refcount[x] - 1 /\ refcount[x] \in Nat /\ x \in exists'
      BY <1>1, <1>5, <1>7, <1>11, <2>3, <2>5 DEF DiesOnce, ObjTypeOK
    <3>2. Dying(x)' = IF refcount'[x] = 0 THEN 1 ELSE 0
      BY <2>4, <2>5, <3>1
    <3> QED BY <3>1, <3>2 DEF DiesOnce
  <2>6. CASE x # o
    <3>1. Dying(x)' = Dying(x) /\ refcount'[x] = refcount[x]
      BY <1>11, <2>3, <2>4, <2>6
    <3> QED BY <1>7, <2>3, <3>1 DEF DiesOnce
  <2> QED BY <2>5, <2>6
<1>15. OwnersExist'
  <2>1. \A i \in DOMAIN w : w[i].op = "free" => w[i].obj \in Ids /\ child[w[i].obj] = nil
    BY <1>1, <1>6, <1>9 DEF OwnersExist
  <2> QED BY <1>1, <1>7, <1>10, <2>1 DEF OwnersExist
<1>16. \A u \in Threads : WorkShape(u)' /\ StackShape(u)'
  <2>1. \A i \in DOMAIN w : w[i].obj \in Ids /\ w[i].this = w[i].obj /\ w[i].op # "drop"
    BY <1>6, <1>9, <1>31
  <2>2. \A p \in Pools : (p \in exists => p \in exists') /\ refcount'[p] = refcount[p]
    BY <1>7, <1>11, ObjectsConstants DEF Anything
  <2> QED BY <1>3, <1>7, <1>10, <2>1, <2>2, ObjectStep
<1>17. \A p \in Pools : p \notin exists' => objects'[p] = <<>>
  BY <1>7 DEF ObjInv
<1> QED BY <1>12, <1>13, <1>14, <1>15, <1>16, <1>17 DEF ObjInv

\* The tasks that a deallocation leads to.
LEMMA FreeTask ==
  ASSUME NEW o \in Anything
  PROVE  /\ [op |-> "free", obj |-> o, this |-> o] \in Task
         /\ \A x : [op |-> "free", obj |-> o, this |-> o] \in Deallocs(x) <=> x = o
         /\ \A x : [op |-> "free", obj |-> o, this |-> o] # ReleaseOf(x)
BY DEF Task, Deallocs, ReleaseOf

\* An object is deallocated, and what it owned is released.
LEMMA DeallocReleasesKeeps ==
  ASSUME ObjInv, NEW t \in Threads, dealloc_releases(t)
  PROVE  ObjInv'
<1>1. ObjTypeOK /\ OwnersExist /\ (\A x \in Ids : Counted(x)) /\ \A x \in Anything : DiesOnce(x)
  BY DEF ObjInv
<1>2. work[t] # <<>> /\ Head(work[t]).op = "dealloc" /\ Head(work[t]).obj \in Ids
  BY DEF dealloc_releases, Busy
<1>3. PICK o \in Ids : o = Head(work[t]).obj
  BY <1>2
<1>31. /\ work[t] \in Seq(Task) /\ 1 \in DOMAIN work[t] /\ Head(work[t]) = work[t][1] /\ Head(work[t]) \in Task
       /\ Head(work[t]).this = o /\ o \in Anything
       /\ \A i \in DOMAIN work[t] : /\ work[t][i].obj \in Ids /\ work[t][i].this = work[t][i].obj
                                    /\ work[t][i].op # "drop"
  BY <1>2, <1>3, WorkIsOne DEF Anything
<1>4. \A x : (Head(work[t]) \in Deallocs(x) <=> x = o) /\ Head(work[t]) # ReleaseOf(x)
  BY <1>2, <1>31 DEF Deallocs, ReleaseOf
<1> DEFINE e == [op |-> "free", obj |-> o, this |-> o]
           r == <<e>> \o Tail(work[t])
<1>5. /\ e \in Task /\ e.op = "free" /\ e.obj = o /\ e.this = o
      /\ \A x : e \in Deallocs(x) <=> x = o
      /\ \A x : e \notin {ReleaseOf(x)}
  BY <1>31, FreeTask
<1>6. /\ work' = [work EXCEPT ![t] = (IF child[o] = nil THEN <<>> ELSE Releases(<<child[o]>>)) \o <<e>> \o Tail(work[t])]
      /\ child' = [child EXCEPT ![o] = nil]
      /\ exists' = exists /\ refcount' = refcount /\ objects' = objects /\ original_thread' = original_thread
      /\ pool_stacks' = pool_stacks /\ held' = held /\ leaked' = leaked /\ panic' = panic
  BY <1>3 DEF dealloc_releases
<1> HIDE DEF e
<1>7. /\ r \in Seq(Task) /\ \A i \in DOMAIN r : r[i] = e \/ \E j \in DOMAIN work[t] : r[i] = work[t][j]
  BY <1>1, <1>2, <1>5, WorkAfter
<1>8. ASSUME NEW M
      PROVE  /\ Cardinality(ItemsOf(work[t], M)) = Cardinality(ItemsOf(Tail(work[t]), M)) + IF Head(work[t]) \in M THEN 1 ELSE 0
             /\ Cardinality(ItemsOf(r, M)) = Cardinality(ItemsOf(Tail(work[t]), M)) + IF e \in M THEN 1 ELSE 0
             /\ Cardinality(ItemsOf(Tail(work[t]), M)) \in Nat
  BY <1>2, <1>5, <1>31, ItemsFirst DEF FirstAndRest
<1> DEFINE c == child[o]
           first == IF c = nil THEN <<>> ELSE <<ReleaseOf(c)>>
           w == first \o r
<1>9. /\ c # nil => c \in Ids /\ c \in Anything /\ ReleaseOf(c) \in Task
      /\ first \in Seq(Task)
  <2>1. CASE c = nil
    BY <2>1
  <2>2. CASE c # nil
    <3>1. c \in Ids /\ c \in Anything
      BY <1>1, <2>2 DEF ObjTypeOK, Anything
    <3>2. PICK k \in Task : k = ReleaseOf(c)
      BY <3>1, OneRelease
    <3>3. <<k>> \in Seq(Task)
      OBVIOUS
    <3> QED BY <2>2, <3>1, <3>2, <3>3
  <2> QED BY <2>1, <2>2
<1>10. /\ w \in Seq(Task)
       /\ work' = [work EXCEPT ![t] = w]
  <2>1. w \in Seq(Task)
    BY <1>7, <1>9, ConcatProperties
  <2>2. (IF child[o] = nil THEN <<>> ELSE Releases(<<child[o]>>)) = first
    BY <1>9, OneRelease
  <2>3. PICK k \in Task : k = e
    BY <1>5
  <2>31. <<k>> \in Seq(Task)
    OBVIOUS
  <2>32. PICK one \in Seq(Task) : one = <<e>>
    BY <2>3, <2>31
  <2>33. Tail(work[t]) \in Seq(Task)
    BY <1>1, <1>2, <1>5, WorkAfter
  <2>34. PICK rest \in Seq(Task) : rest = Tail(work[t])
    BY <2>33
  <2>35. PICK f \in Seq(Task) : f = first
    BY <1>9
  <2>36. (f \o one) \o rest = f \o (one \o rest)
    BY ConcatOneByOne DEF OneByOne
  <2>4. (first \o <<e>>) \o Tail(work[t]) = first \o (<<e>> \o Tail(work[t]))
    BY <2>32, <2>34, <2>35, <2>36
  <2> HIDE DEF first
  <2> QED BY <1>6, <2>1, <2>2, <2>4
<1>11. \A i \in DOMAIN w : \/ w[i] = e \/ \E j \in DOMAIN work[t] : w[i] = work[t][j]
                           \/ c # nil /\ w[i] = ReleaseOf(c)
  <2> HIDE DEF r
  <2>1. /\ Len(w) = Len(first) + Len(r)
        /\ \A i \in 1 .. Len(first) + Len(r) : w[i] = IF i <= Len(first) THEN first[i] ELSE r[i - Len(first)]
    BY <1>7, <1>9, ConcatProperties
  <2>2. Len(first) \in Nat /\ Len(r) \in Nat /\ DOMAIN w = 1 .. Len(w) /\ DOMAIN r = 1 .. Len(r)
    BY <1>7, <1>9, <1>10, LenProperties
  <2>3. \A i \in 1 .. Len(first) : c # nil /\ first[i] = ReleaseOf(c)
    <3>1. CASE c = nil
      BY <3>1
    <3>2. CASE c # nil
      BY <3>2
    <3> QED BY <3>1, <3>2
  <2> HIDE DEF w, first, c
  <2>4. ASSUME NEW i \in DOMAIN w
        PROVE  \/ w[i] = e \/ \E j \in DOMAIN work[t] : w[i] = work[t][j]
               \/ c # nil /\ w[i] = ReleaseOf(c)
    <3>0. i \in 1 .. Len(first) + Len(r)
      BY <2>1, <2>2
    <3>1. CASE i <= Len(first)
      BY <2>1, <2>2, <2>3, <3>0, <3>1
    <3>2. CASE ~(i <= Len(first))
      <4>1. i - Len(first) \in DOMAIN r /\ w[i] = r[i - Len(first)]
        BY <2>1, <2>2, <3>0, <3>2
      <4> QED BY <1>7, <4>1
    <3> QED BY <3>1, <3>2
  <2> QED BY <2>4
<1>12. ASSUME NEW M
       PROVE  Cardinality(ItemsOf(w, M)) =
                Cardinality(ItemsOf(r, M)) + IF c # nil /\ ReleaseOf(c) \in M THEN 1 ELSE 0
  <2>1. Together(first, r, M) /\ Cardinality(ItemsOf(r, M)) \in Nat
    BY <1>7, <1>9, ItemsTogether, ItemsFinite
  <2>2. Cardinality(ItemsOf(first, M)) = IF c # nil /\ ReleaseOf(c) \in M THEN 1 ELSE 0
    <3>1. FewItems(ReleaseOf(c), M)
      BY ItemsFew
    <3> QED BY <3>1 DEF FewItems
  <2> HIDE DEF first, r, c
  <2> QED BY <2>1, <2>2 DEF Together
<1> HIDE DEF r, w, first
<1>13. /\ work' \in [Threads -> Seq(Task)] /\ work'[t] = w
       /\ \A u \in Threads : u # t => work'[u] = work[u]
  BY <1>1, <1>10 DEF ObjTypeOK
<1>14. /\ child' \in [Ids -> Ids \cup {nil}] /\ child'[o] = nil /\ \A x \in Ids : x # o => child'[x] = child[x]
  BY <1>1, <1>6 DEF ObjTypeOK
<1>15. ObjTypeOK'
  BY <1>1, <1>6, <1>13, <1>14 DEF ObjTypeOK
<1>16. ASSUME NEW x \in Ids PROVE Counted(x)'
  <2>1. ThreadRefs(t, x)' - ThreadRefs(t, x) = IF x = c THEN 1 ELSE 0
    <3> DEFINE M == {ReleaseOf(x)}
    <3>1. e \notin M /\ Head(work[t]) \notin M /\ (c # nil /\ ReleaseOf(c) \in M <=> x = c)
      BY <1>4, <1>5, ObjectsConstants DEF ReleaseOf
    <3> HIDE DEF M
    <3>2. Cardinality(ItemsOf(w, M)) = Cardinality(ItemsOf(work[t], M)) + IF x = c THEN 1 ELSE 0
      BY <1>8, <1>12, <3>1
    <3>3. Cardinality(ItemsOf(work[t], M)) \in Nat /\ held[t][x] \in Nat
      BY <1>1, <1>31, ItemsFinite DEF ObjTypeOK
    <3>4. ThreadRefs(t, x)' = held[t][x] + Cardinality(ItemsOf(w, M))
      BY <1>6, <1>13 DEF ThreadRefs, ReleaseOf, M
    <3>5. ThreadRefs(t, x) = held[t][x] + Cardinality(ItemsOf(work[t], M))
      BY DEF ThreadRefs, M
    <3> QED BY <3>2, <3>3, <3>4, <3>5
  <2>2. PoolTotal(x)' = PoolTotal(x) /\ leaked'[x] = leaked[x] /\ refcount'[x] = refcount[x]
    BY <1>6 DEF PoolTotal, PoolRefs
  <2>3. PoolTotal(x) \in Nat /\ OwnerCount(x) \in Nat /\ leaked[x] \in Nat /\ refcount[x] \in Nat
    BY <1>1, RefFacts DEF ObjTypeOK, Anything
  <2>4. OwnerCount(x)' = OwnerCount(x) - IF x = c THEN 1 ELSE 0
    <3>1. OwnerCount(x)' = OwnerCount(x) - (IF child[o] = x THEN 1 ELSE 0) + IF nil = x THEN 1 ELSE 0
      BY <1>1, <1>6, OwnerMoves
    <3>2. nil # x
      BY ObjectsConstants
    <3> QED BY <2>3, <3>1, <3>2
  <2> HIDE DEF c
  <2>5. refcount'[x] - refcount[x] =
          (ThreadRefs(t, x)' - ThreadRefs(t, x))
            + ((leaked'[x] - leaked[x]) + (PoolTotal(x)' - PoolTotal(x))) + (OwnerCount(x)' - OwnerCount(x))
    BY <2>1, <2>2, <2>3, <2>4
  <2> QED BY <1>6, <1>13, <1>15, <2>5, Recount
<1>17. ASSUME NEW x \in Anything PROVE DiesOnce(x)'
  <2>1. Dying(x)' = Dying(x) + (TasksOn(t, x)' - TasksOn(t, x)) /\ Dying(x) \in Nat /\ DiesOnce(x)
    BY <1>1, <1>13, <1>15, TaskMoves, TaskFacts
  <2>2. TasksOn(t, x)' = TasksOn(t, x) /\ TasksOn(t, x) \in Nat
    <3> DEFINE M == Deallocs(x)
    <3>1. (e \in M <=> x = o) /\ (Head(work[t]) \in M <=> x = o) /\ ~(c # nil /\ ReleaseOf(c) \in M)
      BY <1>4, <1>5 DEF Deallocs, ReleaseOf
    <3> HIDE DEF M
    <3>2. Cardinality(ItemsOf(w, M)) = Cardinality(ItemsOf(work[t], M))
      BY <1>8, <1>12, <3>1
    <3>3. TasksOn(t, x)' = Cardinality(ItemsOf(w, M))
      BY <1>13 DEF TasksOn, Deallocs, M
    <3>4. TasksOn(t, x) = Cardinality(ItemsOf(work[t], M)) /\ TasksOn(t, x) \in Nat
      BY <1>1, TaskFacts DEF TasksOn, M
    <3> QED BY <3>2, <3>3, <3>4
  <2>3. Dying(x)' = Dying(x)
    BY <2>1, <2>2
  <2> QED BY <1>6, <2>1, <2>3 DEF DiesOnce
<1>18. OwnersExist'
  <2>1. \A x \in Ids : child'[x] # nil => x \in exists /\ child[x] # nil
    BY <1>1, <1>14 DEF OwnersExist
  <2>2. \A x \in Ids : child[x] = nil => child'[x] = nil
    BY <1>14
  <2>3. \A i \in DOMAIN w : w[i].op = "free" => w[i].obj \in Ids /\ child'[w[i].obj] = nil
    BY <1>1, <1>5, <1>11, <1>14, <2>2 DEF OwnersExist, ReleaseOf
  <2>4. \A u \in Threads : u # t => \A i \in DOMAIN work'[u] :
          work'[u][i].op = "free" => work'[u][i].obj \in Ids /\ child'[work'[u][i].obj] = nil
    BY <1>1, <1>13, <2>2 DEF OwnersExist
  <2>5. ASSUME NEW u \in Threads, NEW i \in DOMAIN work'[u], work'[u][i].op = "free"
        PROVE  work'[u][i].obj \in Ids /\ child'[work'[u][i].obj] = nil
    <3>1. CASE u = t
      BY <1>13, <2>3, <2>5, <3>1
    <3>2. CASE u # t
      BY <2>4, <2>5, <3>2
    <3> QED BY <3>1, <3>2
  <2>6. \A x \in Ids : child'[x] # nil => x \in exists'
    BY <1>6, <2>1
  <2> QED BY <2>5, <2>6 DEF OwnersExist
<1>19. \A u \in Threads : WorkShape(u)' /\ StackShape(u)'
  <2>1. \A i \in DOMAIN w : w[i].obj \in Ids /\ w[i].this = w[i].obj /\ w[i].op # "drop"
    BY <1>5, <1>9, <1>11, <1>31 DEF ReleaseOf
  <2>2. \A p \in Pools : (p \in exists => p \in exists') /\ refcount'[p] = refcount[p]
    BY <1>6
  <2> QED BY <1>2, <1>6, <1>13, <2>1, <2>2, ObjectStep
<1>20. \A p \in Pools : p \notin exists' => objects'[p] = <<>>
  BY <1>6 DEF ObjInv
<1> QED BY <1>15, <1>16, <1>17, <1>18, <1>19, <1>20 DEF ObjInv

\* An object is deallocated, and what it owned goes to the innermost pool.
LEMMA DeallocAutoreleasesKeeps ==
  ASSUME ObjInv, NEW t \in Threads, dealloc_autoreleases(t)
  PROVE  ObjInv'
<1>1. ObjTypeOK /\ OwnersExist /\ (\A x \in Ids : Counted(x)) /\ \A x \in Anything : DiesOnce(x)
  BY DEF ObjInv
<1>2. work[t] # <<>> /\ Head(work[t]).op = "dealloc" /\ Head(work[t]).obj \in Ids
  BY DEF dealloc_autoreleases, Busy
<1>3. PICK o \in Ids : o = Head(work[t]).obj
  BY <1>2
<1>31. /\ work[t] \in Seq(Task) /\ 1 \in DOMAIN work[t] /\ Head(work[t]) = work[t][1] /\ Head(work[t]) \in Task
       /\ Head(work[t]).this = o /\ o \in Anything
       /\ \A i \in DOMAIN work[t] : /\ work[t][i].obj \in Ids /\ work[t][i].this = work[t][i].obj
                                    /\ work[t][i].op # "drop"
  BY <1>2, <1>3, WorkIsOne DEF Anything
<1>4. \A x : (Head(work[t]) \in Deallocs(x) <=> x = o) /\ Head(work[t]) # ReleaseOf(x)
  BY <1>2, <1>31 DEF Deallocs, ReleaseOf
<1> DEFINE e == [op |-> "free", obj |-> o, this |-> o]
<1>5. /\ e \in Task /\ e.op = "free" /\ e.obj = o /\ e.this = o
      /\ \A x : e \in Deallocs(x) <=> x = o
      /\ \A x : e \notin {ReleaseOf(x)}
  BY <1>31, FreeTask
<1>6. PICK c \in Ids : c = child[o] /\ addObject(t, c)
  <2>1. child[o] # nil /\ addObject(t, child[o])
    BY <1>3 DEF dealloc_autoreleases
  <2> QED BY <1>1, <2>1 DEF ObjTypeOK
<1>7. /\ work' = [work EXCEPT ![t] = <<e>> \o Tail(work[t])]
      /\ child' = [child EXCEPT ![o] = nil]
      /\ exists' = exists /\ refcount' = refcount /\ original_thread' = original_thread
      /\ pool_stacks' = pool_stacks /\ held' = held /\ panic' = panic
  BY <1>3 DEF dealloc_autoreleases
<1> HIDE DEF e
<1>8. PICK w \in Seq(Task) : w = <<e>> \o Tail(work[t])
  BY <1>1, <1>2, <1>5, WorkAfter
<1>9. \A i \in DOMAIN w : w[i] = e \/ \E j \in DOMAIN work[t] : w[i] = work[t][j]
  BY <1>1, <1>2, <1>5, <1>8, WorkAfter
<1>10. /\ objects' \in [Pools -> Seq(Ids)] /\ leaked' \in [Ids -> Nat]
       /\ \A p \in Pools : p \notin exists => objects'[p] = <<>>
       /\ \A x \in Ids : (leaked'[x] - leaked[x]) + (PoolTotal(x)' - PoolTotal(x)) = IF x = c THEN 1 ELSE 0
  BY <1>6, PoolTakes
<1>12. ASSUME NEW M
       PROVE  /\ Cardinality(ItemsOf(work[t], M)) = Cardinality(ItemsOf(Tail(work[t]), M)) + IF Head(work[t]) \in M THEN 1 ELSE 0
              /\ Cardinality(ItemsOf(w, M)) = Cardinality(ItemsOf(Tail(work[t]), M)) + IF e \in M THEN 1 ELSE 0
              /\ Cardinality(ItemsOf(Tail(work[t]), M)) \in Nat
  BY <1>2, <1>5, <1>8, <1>31, ItemsFirst DEF FirstAndRest
<1>13. /\ work' \in [Threads -> Seq(Task)] /\ work'[t] = w
       /\ \A u \in Threads : u # t => work'[u] = work[u]
  BY <1>1, <1>7, <1>8 DEF ObjTypeOK
<1>14. /\ child' \in [Ids -> Ids \cup {nil}] /\ child'[o] = nil /\ \A x \in Ids : x # o => child'[x] = child[x]
  BY <1>1, <1>7 DEF ObjTypeOK
<1>15. ObjTypeOK'
  BY <1>1, <1>7, <1>10, <1>13, <1>14 DEF ObjTypeOK
<1>16. ASSUME NEW x \in Ids PROVE Counted(x)'
  <2>1. ThreadRefs(t, x)' - ThreadRefs(t, x) = 0
    <3> DEFINE M == {ReleaseOf(x)}
    <3>1. e \notin M /\ Head(work[t]) \notin M
      BY <1>4, <1>5 DEF ReleaseOf
    <3> HIDE DEF M
    <3>2. Cardinality(ItemsOf(w, M)) = Cardinality(ItemsOf(work[t], M))
      BY <1>12, <3>1
    <3>3. Cardinality(ItemsOf(work[t], M)) \in Nat /\ held[t][x] \in Nat
      BY <1>1, <1>31, ItemsFinite DEF ObjTypeOK
    <3>4. ThreadRefs(t, x)' = held[t][x] + Cardinality(ItemsOf(w, M))
      BY <1>7, <1>13 DEF ThreadRefs, ReleaseOf, M
    <3>5. ThreadRefs(t, x) = held[t][x] + Cardinality(ItemsOf(work[t], M))
      BY DEF ThreadRefs, M
    <3> QED BY <3>2, <3>3, <3>4, <3>5
  <2>2. refcount'[x] - refcount[x] = 0
    BY <1>1, <1>7 DEF ObjTypeOK, Anything
  <2>4. OwnerCount(x)' - OwnerCount(x) = IF x = c THEN -1 ELSE 0
    <3>1. OwnerCount(x)' = OwnerCount(x) - (IF child[o] = x THEN 1 ELSE 0) + IF nil = x THEN 1 ELSE 0
      BY <1>1, <1>7, OwnerMoves
    <3>2. nil # x /\ OwnerCount(x) \in Nat
      BY <1>1, RefFacts, ObjectsConstants
    <3> QED BY <1>6, <3>1, <3>2
  <2>5. (leaked'[x] - leaked[x]) + (PoolTotal(x)' - PoolTotal(x)) = IF x = c THEN 1 ELSE 0
    BY <1>10
  <2>6. refcount'[x] - refcount[x] =
          (ThreadRefs(t, x)' - ThreadRefs(t, x))
            + ((leaked'[x] - leaked[x]) + (PoolTotal(x)' - PoolTotal(x))) + (OwnerCount(x)' - OwnerCount(x))
    BY <2>1, <2>2, <2>4, <2>5
  <2> QED BY <1>7, <1>13, <1>15, <2>6, Recount
<1>17. ASSUME NEW x \in Anything PROVE DiesOnce(x)'
  <2>1. Dying(x)' = Dying(x) + (TasksOn(t, x)' - TasksOn(t, x)) /\ Dying(x) \in Nat /\ DiesOnce(x)
    BY <1>1, <1>13, <1>15, TaskMoves, TaskFacts
  <2>2. TasksOn(t, x)' = TasksOn(t, x) /\ TasksOn(t, x) \in Nat
    <3> DEFINE M == Deallocs(x)
    <3>1. (e \in M <=> x = o) /\ (Head(work[t]) \in M <=> x = o)
      BY <1>4, <1>5 DEF Deallocs
    <3> HIDE DEF M
    <3>2. Cardinality(ItemsOf(w, M)) = Cardinality(ItemsOf(work[t], M))
      BY <1>12, <3>1
    <3>3. TasksOn(t, x)' = Cardinality(ItemsOf(w, M))
      BY <1>13 DEF TasksOn, Deallocs, M
    <3>4. TasksOn(t, x) = Cardinality(ItemsOf(work[t], M)) /\ TasksOn(t, x) \in Nat
      BY <1>1, TaskFacts DEF TasksOn, M
    <3> QED BY <3>2, <3>3, <3>4
  <2>3. Dying(x)' = Dying(x)
    BY <2>1, <2>2
  <2> QED BY <1>7, <2>1, <2>3 DEF DiesOnce
<1>18. OwnersExist'
  <2>1. \A x \in Ids : child'[x] # nil => x \in exists'
    BY <1>1, <1>7, <1>14 DEF OwnersExist
  <2>2. \A x \in Ids : child[x] = nil => child'[x] = nil
    BY <1>14
  <2>3. \A i \in DOMAIN w : w[i].op = "free" => w[i].obj \in Ids /\ child'[w[i].obj] = nil
    BY <1>1, <1>5, <1>9, <1>14, <2>2 DEF OwnersExist
  <2>5. ASSUME NEW u \in Threads, NEW i \in DOMAIN work'[u], work'[u][i].op = "free"
        PROVE  work'[u][i].obj \in Ids /\ child'[work'[u][i].obj] = nil
    <3>1. CASE u = t
      BY <1>13, <2>3, <2>5, <3>1
    <3>2. CASE u # t
      BY <1>1, <1>13, <2>2, <2>5, <3>2 DEF OwnersExist
    <3> QED BY <3>1, <3>2
  <2> QED BY <2>1, <2>5 DEF OwnersExist
<1>19. \A u \in Threads : WorkShape(u)' /\ StackShape(u)'
  <2>1. \A i \in DOMAIN w : w[i].obj \in Ids /\ w[i].this = w[i].obj /\ w[i].op # "drop"
    BY <1>5, <1>9, <1>31
  <2>2. \A p \in Pools : (p \in exists => p \in exists') /\ refcount'[p] = refcount[p]
    BY <1>7
  <2> QED BY <1>2, <1>7, <1>13, <2>1, <2>2, ObjectStep
<1>20. \A p \in Pools : p \notin exists' => objects'[p] = <<>>
  BY <1>7, <1>10
<1> QED BY <1>15, <1>16, <1>17, <1>18, <1>19, <1>20 DEF ObjInv

\* A deallocated object is forgotten.
LEMMA DeallocObjectKeeps ==
  ASSUME ObjInv, NEW t \in Threads, dealloc_object(t)
  PROVE  ObjInv'
<1>1. ObjTypeOK /\ OwnersExist /\ (\A x \in Ids : Counted(x)) /\ \A x \in Anything : DiesOnce(x)
  BY DEF ObjInv
<1>2. work[t] # <<>> /\ Head(work[t]).op = "free"
  BY DEF dealloc_object, Busy
<1>21. /\ work[t] \in Seq(Task) /\ 1 \in DOMAIN work[t] /\ Head(work[t]) = work[t][1] /\ Head(work[t]) \in Task
       /\ Head(work[t]).this = Head(work[t]).obj
  BY <1>2, WorkIsOne
<1>3. PICK o \in Ids : o = Head(work[t]).obj /\ child[o] = nil
  BY <1>1, <1>2, <1>21 DEF OwnersExist
<1>31. /\ o \in Anything
       /\ \A i \in DOMAIN work[t] : /\ work[t][i].obj \in Ids /\ work[t][i].this = work[t][i].obj
                                    /\ work[t][i].op # "drop"
  BY <1>2, <1>3, WorkIsOne DEF Anything
<1>4. \A x : (Head(work[t]) \in Deallocs(x) <=> x = o) /\ Head(work[t]) # ReleaseOf(x)
  BY <1>2, <1>3, <1>21 DEF Deallocs, ReleaseOf
<1>5. refcount[o] = 0 /\ o \in exists
  BY <1>4, <1>21, <1>31, RefsCount
<1>7. /\ exists' = exists \ {o} /\ work' = [work EXCEPT ![t] = Tail(work[t])]
      /\ child' = child /\ refcount' = refcount /\ original_thread' = original_thread /\ objects' = objects
      /\ pool_stacks' = pool_stacks /\ held' = held /\ leaked' = leaked /\ panic' = panic
  BY <1>3, <1>5 DEF dealloc_object
<1>8. PICK w \in Seq(Task) : w = Tail(work[t])
  BY <1>1, <1>2, <1>21, WorkAfter
<1>9. \A i \in DOMAIN w : \E j \in DOMAIN work[t] : w[i] = work[t][j]
  BY <1>1, <1>2, <1>8, <1>21, WorkAfter
<1>12. ASSUME NEW M
       PROVE  /\ Cardinality(ItemsOf(work[t], M)) = Cardinality(ItemsOf(w, M)) + IF Head(work[t]) \in M THEN 1 ELSE 0
              /\ Cardinality(ItemsOf(w, M)) \in Nat
  <2>1. FirstAndRest(work[t], Head(work[t]), M)
    BY <1>2, <1>21, ItemsFirst
  <2> QED BY <1>8, <2>1 DEF FirstAndRest
<1>13. /\ work' \in [Threads -> Seq(Task)] /\ work'[t] = w
       /\ \A u \in Threads : u # t => work'[u] = work[u]
  BY <1>1, <1>7, <1>8 DEF ObjTypeOK
<1>15. ObjTypeOK'
  BY <1>1, <1>7, <1>13 DEF ObjTypeOK
<1>16. ASSUME NEW x \in Ids PROVE Counted(x)'
  <2>1. ThreadRefs(t, x)' - ThreadRefs(t, x) = 0
    <3> DEFINE M == {ReleaseOf(x)}
    <3>1. Head(work[t]) \notin M
      BY <1>4 DEF ReleaseOf
    <3> HIDE DEF M
    <3>2. Cardinality(ItemsOf(w, M)) = Cardinality(ItemsOf(work[t], M))
      BY <1>12, <3>1
    <3>3. Cardinality(ItemsOf(work[t], M)) \in Nat /\ held[t][x] \in Nat
      BY <1>1, <1>21, ItemsFinite DEF ObjTypeOK
    <3>4. ThreadRefs(t, x)' = held[t][x] + Cardinality(ItemsOf(w, M))
      BY <1>7, <1>13 DEF ThreadRefs, ReleaseOf, M
    <3>5. ThreadRefs(t, x) = held[t][x] + Cardinality(ItemsOf(work[t], M))
      BY DEF ThreadRefs, M
    <3> QED BY <3>2, <3>3, <3>4, <3>5
  <2>2. PoolTotal(x)' = PoolTotal(x) /\ leaked'[x] = leaked[x] /\ refcount'[x] = refcount[x] /\ OwnerCount(x)' = OwnerCount(x)
    BY <1>7 DEF PoolTotal, PoolRefs, OwnerCount
  <2>3. PoolTotal(x) \in Nat /\ OwnerCount(x) \in Nat /\ leaked[x] \in Nat /\ refcount[x] \in Nat
    BY <1>1, RefFacts DEF ObjTypeOK, Anything
  <2>5. refcount'[x] - refcount[x] =
          (ThreadRefs(t, x)' - ThreadRefs(t, x))
            + ((leaked'[x] - leaked[x]) + (PoolTotal(x)' - PoolTotal(x))) + (OwnerCount(x)' - OwnerCount(x))
    BY <2>1, <2>2, <2>3
  <2> QED BY <1>7, <1>13, <1>15, <2>5, Recount
<1>17. ASSUME NEW x \in Anything PROVE DiesOnce(x)'
  <2>1. Dying(x)' = Dying(x) + (TasksOn(t, x)' - TasksOn(t, x)) /\ Dying(x) \in Nat /\ DiesOnce(x)
    BY <1>1, <1>13, <1>15, TaskMoves, TaskFacts
  <2>2. TasksOn(t, x)' = TasksOn(t, x) - (IF x = o THEN 1 ELSE 0) /\ TasksOn(t, x) \in Nat
    <3> DEFINE M == Deallocs(x)
    <3>1. Head(work[t]) \in M <=> x = o
      BY <1>4
    <3> HIDE DEF M
    <3>2. Cardinality(ItemsOf(work[t], M)) = Cardinality(ItemsOf(w, M)) + (IF x = o THEN 1 ELSE 0)
          /\ Cardinality(ItemsOf(w, M)) \in Nat
      BY <1>12, <3>1
    <3>3. TasksOn(t, x)' = Cardinality(ItemsOf(w, M))
      BY <1>13 DEF TasksOn, Deallocs, M
    <3>4. TasksOn(t, x) = Cardinality(ItemsOf(work[t], M)) /\ TasksOn(t, x) \in Nat
      BY <1>1, TaskFacts DEF TasksOn, M
    <3> QED BY <3>2, <3>3, <3>4
  <2>3. CASE x = o
    <3>1. Dying(x) = 1
      BY <1>5, <2>1, <2>3 DEF DiesOnce
    <3>2. Dying(x)' = 0
      BY <2>1, <2>2, <2>3, <3>1
    <3> QED BY <1>5, <1>7, <2>3, <3>2 DEF DiesOnce
  <2>4. CASE x # o
    <3>1. Dying(x)' = Dying(x)
      BY <2>1, <2>2, <2>4
    <3> QED BY <1>7, <2>1, <2>4, <3>1 DEF DiesOnce
  <2> QED BY <2>3, <2>4
<1>18. OwnersExist'
  <2>1. \A x \in Ids : child'[x] # nil => x \in exists'
    BY <1>1, <1>3, <1>7 DEF OwnersExist
  <2>3. \A i \in DOMAIN w : w[i].op = "free" => w[i].obj \in Ids /\ child[w[i].obj] = nil
    BY <1>1, <1>9 DEF OwnersExist
  <2>5. ASSUME NEW u \in Threads, NEW i \in DOMAIN work'[u], work'[u][i].op = "free"
        PROVE  work'[u][i].obj \in Ids /\ child[work'[u][i].obj] = nil
    <3>1. CASE u = t
      BY <1>13, <2>3, <2>5, <3>1
    <3>2. CASE u # t
      BY <1>1, <1>13, <2>5, <3>2 DEF OwnersExist
    <3> QED BY <3>1, <3>2
  <2> QED BY <1>7, <2>1, <2>5 DEF OwnersExist
<1>19. \A u \in Threads : WorkShape(u)' /\ StackShape(u)'
  <2>1. \A i \in DOMAIN w : w[i].obj \in Ids /\ w[i].this = w[i].obj /\ w[i].op # "drop"
    BY <1>9, <1>31
  <2>2. \A p \in Pools : (p \in exists => p \in exists') /\ refcount'[p] = refcount[p]
    BY <1>7, ObjectsConstants
  <2> QED BY <1>3, <1>7, <1>13, <2>1, <2>2, ObjectStep
<1>20. \A p \in Pools : p \notin exists' => objects'[p] = <<>>
  BY <1>7, ObjectsConstants DEF ObjInv
<1> QED BY <1>15, <1>16, <1>17, <1>18, <1>19, <1>20 DEF ObjInv

\* A thread that is at work on a pool has one task.
LEMMA PoolWork ==
  ASSUME ObjInv, NEW t \in Threads, work[t] # <<>>, Head(work[t]).obj \in Pools
  PROVE  \E k \in Task : /\ work[t] = <<k>> /\ k = Head(work[t]) /\ k.this = k.obj
                         /\ k.op \in {"release", "dealloc", "drop"}
                         /\ k.op \in {"release", "dealloc"} => pool_stacks[t] # <<>> /\ k.obj = Last(pool_stacks[t])
                         /\ k.op = "drop" => original_thread[k.obj] = t
                         /\ k.op = "drop" => \A j \in DOMAIN pool_stacks[t] : pool_stacks[t][j] # k.obj
<1>1. /\ work[t] \in Seq(Task) /\ 1 \in DOMAIN work[t] /\ Head(work[t]) = work[t][1] /\ Head(work[t]) \in Task
      /\ Head(work[t]).this = Head(work[t]).obj /\ Tail(work[t]) = <<>> /\ WorkShape(t) /\ OwnersExist
  BY WorkIsOne DEF ObjInv
<1>2. PICK k \in Task : k = Head(work[t])
  BY <1>1
<1>3. work[t] = <<k>>
  <2>1. Len(work[t]) \in Nat /\ Len(Tail(work[t])) = Len(work[t]) - 1 /\ DOMAIN work[t] = 1 .. Len(work[t])
    BY <1>1, HeadRest
  <2>10. Tail(work[t]) \in Seq(Task)
    BY WorkIsOne
  <2>12. PICK r \in Seq(Task) : r = Tail(work[t])
    BY <2>10
  <2>11. Len(r) = 0
    BY <1>1, <2>12, EmptySeq
  <2>2. Len(work[t]) = 1
    BY <2>1, <2>11, <2>12
  <2>3. <<k>> \in Seq(Task) /\ Len(<<k>>) = 1
    OBVIOUS
  <2>4. \A i \in 1 .. Len(work[t]) : work[t][i] = <<k>>[i]
    BY <1>1, <1>2, <2>2
  <2> QED BY <1>1, <2>2, <2>3, <2>4, SeqEqual
<1>4. k.op # "free"
  <2>1. k.op = "free" => k.obj \in Ids
    BY <1>1, <1>2 DEF OwnersExist
  <2> QED BY <1>2, <2>1, ObjectsConstants
<1>5. k.op \in {"release", "dealloc", "drop"}
  BY <1>4 DEF Task
<1>6. /\ k.op \in {"release", "dealloc"} => pool_stacks[t] # <<>> /\ k.obj = Last(pool_stacks[t])
      /\ k.op = "drop" => original_thread[k.obj] = t
      /\ k.op = "drop" => \A j \in DOMAIN pool_stacks[t] : pool_stacks[t][j] # k.obj
  BY <1>1, <1>2 DEF WorkShape
<1> QED BY <1>1, <1>2, <1>3, <1>5, <1>6

\* The pool on top of a thread's stack.
LEMMA TopPool ==
  ASSUME ObjInv, NEW t \in Threads, pool_stacks[t] # <<>>
  PROVE  \E p \in Pools : \E n \in Nat \ {0} :
           /\ p = Last(pool_stacks[t]) /\ n = Len(pool_stacks[t]) /\ pool_stacks[t] \in Seq(Pools)
           /\ DOMAIN pool_stacks[t] = 1 .. n /\ n \in DOMAIN pool_stacks[t] /\ pool_stacks[t][n] = p
           /\ p \in exists /\ original_thread[p] = t
           /\ \A i \in DOMAIN pool_stacks[t] : pool_stacks[t][i] \in Pools /\ (pool_stacks[t][i] = p => i = n)
           /\ refcount[p] = 1 \/ (refcount[p] = 0 /\ work[t] # <<>> /\ work[t][1].op = "dealloc")
           /\ \A i \in DOMAIN pool_stacks[t] :
                refcount[pool_stacks[t][i]] = 1 \/ (work[t] # <<>> /\ work[t][1].op = "dealloc" /\ work[t][1].obj = pool_stacks[t][i])
<1>1. pool_stacks[t] \in Seq(Pools) /\ StackShape(t)
  BY DEF ObjInv, ObjTypeOK
<1>2. /\ Last(pool_stacks[t]) = pool_stacks[t][Len(pool_stacks[t])] /\ Last(pool_stacks[t]) \in Pools
      /\ Len(pool_stacks[t]) \in Nat \ {0} /\ DOMAIN pool_stacks[t] = 1 .. Len(pool_stacks[t])
  BY <1>1, FrontLast
<1>3. PICK n \in Nat \ {0} : n = Len(pool_stacks[t])
  BY <1>2
<1>4. PICK p \in Pools : p = Last(pool_stacks[t])
  BY <1>2
<1>5. n \in DOMAIN pool_stacks[t] /\ pool_stacks[t][n] = p /\ DOMAIN pool_stacks[t] = 1 .. n
  BY <1>2, <1>3, <1>4
<1>6. ASSUME NEW i \in DOMAIN pool_stacks[t]
      PROVE  /\ refcount[pool_stacks[t][i]] = 1 \/ (refcount[pool_stacks[t][i]] = 0 /\ work[t] # <<>>
                                                       /\ work[t][1].op = "dealloc" /\ work[t][1].obj = pool_stacks[t][i])
             /\ pool_stacks[t][i] \in exists /\ original_thread[pool_stacks[t][i]] = t
             /\ pool_stacks[t][i] \in Pools
  <2>1. PICK q \in Pools : q = pool_stacks[t][i]
    BY <1>1
  <2>2. /\ q \in exists /\ original_thread[q] = t
        /\ refcount[q] = 1 \/ (refcount[q] = 0 /\ Len(work[t]) = 1 /\ work[t][1] = [op |-> "dealloc", obj |-> q, this |-> q])
    BY <1>1, <2>1 DEF StackShape
  <2>3. CASE refcount[q] = 1
    BY <2>1, <2>2, <2>3
  <2>4. CASE refcount[q] = 0 /\ Len(work[t]) = 1 /\ work[t][1] = [op |-> "dealloc", obj |-> q, this |-> q]
    <3>1. work[t] # <<>>
      BY <2>4
    <3>2. work[t][1].op = "dealloc" /\ work[t][1].obj = q
      BY <2>4
    <3> QED BY <2>1, <2>2, <2>4, <3>1, <3>2
  <2> QED BY <2>2, <2>3, <2>4
<1>7. \A i \in DOMAIN pool_stacks[t] : pool_stacks[t][i] = p => i = n
  BY <1>1, <1>5 DEF StackShape
<1> QED BY <1>1, <1>3, <1>4, <1>5, <1>6, <1>7

\* A pool is drained: it is on its way to be released.
LEMMA DrainKeeps ==
  ASSUME ObjInv, ~AnyPool, NEW t \in Threads, NEW p \in Pools, drain(t, p)
  PROVE  ObjInv'
<1>1. /\ ObjTypeOK /\ OwnersExist /\ (\A x \in Ids : Counted(x)) /\ (\A x \in Anything : DiesOnce(x))
      /\ p \in Anything /\ StackShape(t)
  BY DEF ObjInv, Anything
<1>2. /\ work[t] = <<>> /\ p = Last(pool_stacks[t]) /\ pool_stacks[t] # <<>>
      /\ exists' = exists /\ refcount' = refcount /\ child' = child /\ held' = held
      /\ work' = [work EXCEPT ![t] = <<ReleaseOf(p)>>]
      /\ objects' = objects /\ original_thread' = original_thread /\ pool_stacks' = pool_stacks
      /\ leaked' = leaked /\ panic' = panic
  <2>1. pool_stacks[t] # <<>>
    <3>1. DOMAIN pool_stacks[t] # {}
      BY DEF drain, ToSet
    <3> QED BY <3>1
  <2> QED BY <1>1, <2>1, OneRelease DEF drain, Idle
<1>6. /\ work' \in [Threads -> Seq(Task)] /\ work'[t] = <<ReleaseOf(p)>>
      /\ \A u \in Threads : u # t => work'[u] = work[u]
  <2>0. PICK r \in Task : r = ReleaseOf(p)
    BY <1>1, OneRelease
  <2>1. <<r>> \in Seq(Task)
    OBVIOUS
  <2> QED BY <1>1, <1>2, <2>0, <2>1 DEF ObjTypeOK
<1>7. ObjTypeOK'
  BY <1>1, <1>2, <1>6 DEF ObjTypeOK
<1>8. ASSUME NEW x \in Ids PROVE Counted(x)'
  <2>1. ThreadRefs(t, x)' - ThreadRefs(t, x) = 0
    <3>1. held[t][x] \in Nat /\ FewItems(ReleaseOf(p), {ReleaseOf(x)}) /\ ReleaseOf(p) \notin {ReleaseOf(x)}
      BY <1>1, ItemsFew, ObjectsConstants DEF ObjTypeOK, ReleaseOf
    <3>2. ThreadRefs(t, x)' = held[t][x] + 0
      BY <1>2, <1>6, <3>1 DEF ThreadRefs, FewItems, ReleaseOf
    <3>3. ThreadRefs(t, x) = held[t][x] + 0
      BY <1>2, <3>1 DEF ThreadRefs, FewItems
    <3> QED BY <3>1, <3>2, <3>3
  <2>2. PoolTotal(x)' = PoolTotal(x) /\ OwnerCount(x)' = OwnerCount(x) /\ leaked'[x] = leaked[x]
    BY <1>2 DEF PoolTotal, PoolRefs, OwnerCount
  <2>4. PoolTotal(x) \in Nat /\ OwnerCount(x) \in Nat /\ leaked[x] \in Nat /\ refcount[x] \in Nat
    BY <1>1, RefFacts DEF ObjTypeOK, Anything
  <2> QED BY <1>2, <1>6, <1>7, <2>1, <2>2, <2>4, Recount
<1>9. ASSUME NEW x \in Anything PROVE DiesOnce(x)'
  <2>1. Dying(x)' = Dying(x) + (TasksOn(t, x)' - TasksOn(t, x))
    BY <1>1, <1>6, <1>7, TaskMoves
  <2>2. TasksOn(t, x)' = 0 /\ TasksOn(t, x) = 0
    <3>1. FewItems(ReleaseOf(p), Deallocs(x)) /\ ReleaseOf(p) \notin Deallocs(x)
      BY <1>1, ItemsFew, OneRelease
    <3>2. Deallocs(x)' = Deallocs(x)
      BY DEF Deallocs
    <3> QED BY <1>2, <1>6, <3>1, <3>2 DEF TasksOn, FewItems
  <2>3. Dying(x) \in Nat /\ DiesOnce(x)
    BY <1>1, TaskFacts
  <2>4. Dying(x)' = Dying(x)
    BY <2>1, <2>2, <2>3
  <2> QED BY <1>2, <2>3, <2>4 DEF DiesOnce
<1>10. OwnersExist'
  <2>1. \A i \in DOMAIN work'[t] : work'[t][i].op # "free"
    BY <1>6 DEF ReleaseOf
  <2> QED BY <1>1, <1>2, <1>6, <2>1 DEF OwnersExist
<1>11. \A u \in Threads : WorkShape(u)' /\ StackShape(u)'
  <2>1. ASSUME NEW u \in Threads, u # t PROVE WorkShape(u)' /\ StackShape(u)'
    BY <1>2, <1>6, <2>1, ShapesStay
  <2>2. WorkShape(t)'
    BY <1>2, <1>6 DEF WorkShape, ReleaseOf
  <2>3. \A i \in DOMAIN pool_stacks[t] : refcount[pool_stacks[t][i]] = 1
    BY <1>2, TopPool
  <2>4. StackShape(t)'
    BY <1>1, <1>2, <2>3 DEF StackShape
  <2> QED BY <2>1, <2>2, <2>4
<1>12. \A q \in Pools : q \notin exists' => objects'[q] = <<>>
  BY <1>2 DEF ObjInv
<1> QED BY <1>7, <1>8, <1>9, <1>10, <1>11, <1>12 DEF ObjInv

\* A pool is created, on top of the stack of its thread.
LEMMA PoolInitKeeps ==
  ASSUME ObjInv, NEW t \in Threads, NEW p \in Pools, pool_init(t, p)
  PROVE  ObjInv'
<1>1. /\ ObjTypeOK /\ OwnersExist /\ (\A x \in Ids : Counted(x)) /\ (\A x \in Anything : DiesOnce(x))
      /\ p \in Anything /\ StackShape(t)
  BY DEF ObjInv, Anything
<1>2. /\ work[t] = <<>> /\ p \notin exists
      /\ exists' = exists \cup {p} /\ refcount' = [refcount EXCEPT ![p] = 1]
      /\ objects' = [objects EXCEPT ![p] = <<>>] /\ original_thread' = [original_thread EXCEPT ![p] = t]
      /\ pool_stacks' = [pool_stacks EXCEPT ![t] = Append(pool_stacks[t], p)]
      /\ child' = child /\ held' = held /\ work' = work /\ leaked' = leaked /\ panic' = panic
  BY DEF pool_init, Idle
<1>3. objects[p] = <<>>
  BY <1>2 DEF ObjInv
<1>4. objects' = objects
  BY <1>1, <1>2, <1>3 DEF ObjTypeOK
<1>5. PICK s \in Seq(Pools) : s = pool_stacks[t]
  BY <1>1 DEF ObjTypeOK
<1>6. PICK s2 \in Seq(Pools) : s2 = Append(s, p)
  BY <1>5, AppendProperties
<1>61. Len(s) \in Nat /\ DOMAIN s = 1 .. Len(s)
  BY LenProperties
<1>62. Len(s2) = Len(s) + 1
  BY <1>6, AppendProperties
<1>63. DOMAIN s2 = 1 .. Len(s) + 1
  BY <1>62, LenProperties
<1>64. s2[Len(s) + 1] = p
  BY <1>6, AppendProperties
<1>65. \A i \in 1 .. Len(s) : s2[i] = s[i]
  BY <1>6, AppendProperties
<1>7. /\ pool_stacks' \in [Threads -> Seq(Pools)] /\ pool_stacks'[t] = s2
      /\ \A u \in Threads : u # t => pool_stacks'[u] = pool_stacks[u]
  BY <1>1, <1>2, <1>5, <1>6 DEF ObjTypeOK
<1>8. /\ original_thread' \in [Pools -> Threads] /\ original_thread'[p] = t
      /\ \A q \in Pools : q # p => original_thread'[q] = original_thread[q]
  BY <1>1, <1>2 DEF ObjTypeOK
<1>9. /\ refcount' \in [Anything -> Nat] /\ refcount'[p] = 1
      /\ \A x \in Anything : x # p => refcount'[x] = refcount[x]
  BY <1>1, <1>2 DEF ObjTypeOK
<1>10. ObjTypeOK'
  BY <1>1, <1>2, <1>4, <1>7, <1>8, <1>9 DEF ObjTypeOK
<1>11. ASSUME NEW x \in Ids PROVE Counted(x)'
  <2>1. x # p /\ x \in Anything
    BY ObjectsConstants DEF Anything
  <2>2. /\ ThreadTotal(x)' = ThreadTotal(x) /\ PoolTotal(x)' = PoolTotal(x) /\ OwnerCount(x)' = OwnerCount(x)
        /\ leaked'[x] = leaked[x]
    BY <1>2, <1>4 DEF PoolTotal, PoolRefs, OwnerCount, ThreadTotal, ThreadRefs
  <2> QED BY <1>1, <1>9, <2>1, <2>2 DEF Counted
<1>12. ASSUME NEW x \in Anything PROVE DiesOnce(x)'
  <2>1. Dying(x)' = Dying(x) /\ DiesOnce(x)
    BY <1>1, <1>2 DEF Dying, TasksOn
  <2>2. CASE x = p
    BY <1>2, <1>9, <2>1, <2>2 DEF DiesOnce
  <2>3. CASE x # p
    BY <1>2, <1>9, <2>1, <2>3 DEF DiesOnce
  <2> QED BY <2>2, <2>3
<1>13. OwnersExist'
  BY <1>1, <1>2 DEF OwnersExist
<1>14. \A u \in Threads : WorkShape(u)' /\ StackShape(u)'
  <2>1. ASSUME NEW u \in Threads, u # t PROVE WorkShape(u)' /\ StackShape(u)'
    <3>1. ASSUME NEW q \in Pools \cap exists, original_thread[q] = u
          PROVE  q \in exists' /\ original_thread'[q] = u /\ refcount'[q] = refcount[q]
      BY <1>2, <1>8, <1>9, <3>1 DEF Anything
    <3> QED BY <1>2, <1>7, <2>1, <3>1, ShapesStay
  <2>2. WorkShape(t)'
    BY <1>2 DEF WorkShape
  <2>3. ASSUME NEW i \in DOMAIN s
        PROVE  s[i] \in Pools /\ s[i] \in exists /\ original_thread[s[i]] = t /\ refcount[s[i]] = 1 /\ s[i] # p
    <3>0. s # <<>>
      BY <2>3
    <3>1. s[i] \in Pools /\ s[i] \in exists /\ original_thread[s[i]] = t /\ pool_stacks[t] # <<>>
      <4>1. s[i] \in Pools
        BY <2>3
      <4>2. s[i] \in exists /\ original_thread[s[i]] = t
        BY <1>1, <1>5 DEF StackShape
      <4>3. pool_stacks[t] # <<>>
        BY <1>5, <3>0
      <4> QED BY <4>1, <4>2, <4>3
    <3>2. refcount[s[i]] = 1
      BY <1>2, <1>5, <3>1, TopPool
    <3> QED BY <1>2, <3>1, <3>2
  <2>4. ASSUME NEW i \in DOMAIN s2
        PROVE  s2[i] \in exists' /\ original_thread'[s2[i]] = t /\ refcount'[s2[i]] = 1
    <3>1. CASE i \in DOMAIN s
      BY <1>2, <1>8, <1>9, <1>61, <1>65, <2>3, <3>1 DEF Anything
    <3>2. CASE i \notin DOMAIN s
      <4>1. i = Len(s) + 1
        BY <1>61, <1>63, <3>2
      <4> QED BY <1>2, <1>8, <1>9, <1>64, <4>1
    <3> QED BY <3>1, <3>2
  <2>5. ASSUME NEW i \in DOMAIN s2, NEW j \in DOMAIN s2, s2[i] = s2[j]
        PROVE  i = j
    <3>1. CASE i \in DOMAIN s /\ j \in DOMAIN s
      BY <1>1, <1>5, <1>61, <1>65, <2>5, <3>1 DEF StackShape
    <3>2. CASE i \notin DOMAIN s
      <4>1. i = Len(s) + 1
        BY <1>61, <1>63, <3>2
      <4>2. j \notin DOMAIN s
        BY <1>61, <1>64, <1>65, <2>3, <2>5, <4>1
      <4> QED BY <1>61, <1>63, <4>1, <4>2
    <3>3. CASE j \notin DOMAIN s
      <4>1. j = Len(s) + 1
        BY <1>61, <1>63, <3>3
      <4>2. i \notin DOMAIN s
        BY <1>61, <1>64, <1>65, <2>3, <2>5, <4>1
      <4> QED BY <1>61, <1>63, <4>1, <4>2
    <3> QED BY <3>1, <3>2, <3>3
  <2>6. StackShape(t)'
    BY <1>7, <2>4, <2>5 DEF StackShape
  <2> QED BY <2>1, <2>2, <2>6
<1>15. \A q \in Pools : q \notin exists' => objects'[q] = <<>>
  BY <1>2, <1>4 DEF ObjInv
<1> QED BY <1>10, <1>11, <1>12, <1>13, <1>14, <1>15 DEF ObjInv

\* The last release of a pool: its deallocation is next.
LEMMA ReleasePoolKeeps ==
  ASSUME ObjInv, NEW t \in Threads, release_task(t), Head(work[t]).obj \in Pools
  PROVE  ObjInv'
<1>1. /\ ObjTypeOK /\ OwnersExist /\ (\A x \in Ids : Counted(x)) /\ (\A x \in Anything : DiesOnce(x))
      /\ StackShape(t) /\ WorkShape(t)
  BY DEF ObjInv
<1>2. work[t] # <<>> /\ Head(work[t]).op = "release"
  BY DEF release_task, Busy
<1>3. PICK k \in Task : /\ work[t] = <<k>> /\ k = Head(work[t]) /\ k.this = k.obj /\ k.op = "release"
                        /\ pool_stacks[t] # <<>> /\ k.obj = Last(pool_stacks[t])
  BY <1>2, PoolWork
<1>4. PICK p \in Pools : /\ p = k.obj /\ p \in exists /\ original_thread[p] = t /\ refcount[p] = 1
                         /\ \A i \in DOMAIN pool_stacks[t] : refcount[pool_stacks[t][i]] = 1
  <2>1. work[t][1].op = "release"
    BY <1>3
  <2> QED BY <1>3, <2>1, TopPool
<1>5. k = ReleaseOf(p) /\ p \in Anything
  BY <1>3, <1>4 DEF Task, ReleaseOf, Anything
<1> DEFINE e == [op |-> "dealloc", obj |-> p, this |-> p]
<1>6. /\ e \in Task /\ e.op = "dealloc" /\ e.obj = p /\ e.this = p
      /\ \A x : e \in Deallocs(x) <=> x = p
      /\ \A x : e \notin {ReleaseOf(x)}
  BY <1>5 DEF Task, Deallocs, ReleaseOf
<1>7. /\ refcount' = [refcount EXCEPT ![p] = 0] /\ work' = [work EXCEPT ![t] = <<e>> \o Tail(work[t])]
      /\ exists' = exists /\ objects' = objects /\ original_thread' = original_thread
      /\ pool_stacks' = pool_stacks /\ child' = child /\ held' = held /\ leaked' = leaked /\ panic' = panic
  <2>1. /\ refcount' = [refcount EXCEPT ![p] = @ - 1]
        /\ work' = [work EXCEPT ![t] = <<e>> \o Tail(work[t])]
        /\ exists' = exists /\ objects' = objects /\ original_thread' = original_thread
        /\ pool_stacks' = pool_stacks /\ child' = child /\ held' = held /\ leaked' = leaked /\ panic' = panic
    BY <1>3, <1>4 DEF release_task
  <2>2. refcount[p] - 1 = 0
    BY <1>4
  <2> QED BY <2>1, <2>2
<1> HIDE DEF e
<1>8. <<e>> \o Tail(work[t]) = <<e>>
  BY <1>3, <1>6
<1>9. PICK g \in Task : g = e
  BY <1>6
<1>91. <<g>> \in Seq(Task)
  OBVIOUS
<1>10. /\ work' \in [Threads -> Seq(Task)] /\ work'[t] = <<e>>
       /\ \A u \in Threads : u # t => work'[u] = work[u]
  BY <1>1, <1>7, <1>8, <1>9, <1>91 DEF ObjTypeOK
<1>11. /\ refcount' \in [Anything -> Nat]
       /\ refcount'[p] = 0 /\ \A x \in Anything : x # p => refcount'[x] = refcount[x]
  BY <1>1, <1>5, <1>7 DEF ObjTypeOK
<1>12. ObjTypeOK'
  BY <1>1, <1>7, <1>10, <1>11 DEF ObjTypeOK
<1>13. ASSUME NEW x \in Ids PROVE Counted(x)'
  <2>0. x # p /\ x \in Anything
    BY ObjectsConstants DEF Anything
  <2>1. ThreadRefs(t, x)' - ThreadRefs(t, x) = 0
    <3>1. /\ held[t][x] \in Nat /\ FewItems(e, {ReleaseOf(x)}) /\ FewItems(k, {ReleaseOf(x)})
          /\ e \notin {ReleaseOf(x)} /\ k \notin {ReleaseOf(x)}
      BY <1>1, <1>5, <1>6, <2>0, ItemsFew DEF ObjTypeOK, ReleaseOf
    <3>2. ThreadRefs(t, x)' = held[t][x] + 0
      BY <1>7, <1>10, <3>1 DEF ThreadRefs, FewItems, ReleaseOf
    <3>3. ThreadRefs(t, x) = held[t][x] + 0
      BY <1>3, <3>1 DEF ThreadRefs, FewItems
    <3> QED BY <3>1, <3>2, <3>3
  <2>2. /\ PoolTotal(x)' = PoolTotal(x) /\ OwnerCount(x)' = OwnerCount(x) /\ leaked'[x] = leaked[x]
        /\ refcount'[x] = refcount[x]
    BY <1>7, <1>11, <2>0 DEF PoolTotal, PoolRefs, OwnerCount
  <2>4. PoolTotal(x) \in Nat /\ OwnerCount(x) \in Nat /\ leaked[x] \in Nat /\ refcount[x] \in Nat
    BY <1>1, RefFacts DEF ObjTypeOK, Anything
  <2> QED BY <1>7, <1>10, <1>12, <2>1, <2>2, <2>4, Recount
<1>14. ASSUME NEW x \in Anything PROVE DiesOnce(x)'
  <2>1. Dying(x)' = Dying(x) + (TasksOn(t, x)' - TasksOn(t, x)) /\ Dying(x) \in Nat /\ DiesOnce(x)
    BY <1>1, <1>10, <1>12, TaskMoves, TaskFacts
  <2>2. TasksOn(t, x)' = (IF x = p THEN 1 ELSE 0) /\ TasksOn(t, x) = 0
    <3>1. FewItems(e, Deallocs(x)) /\ FewItems(k, Deallocs(x)) /\ (e \in Deallocs(x) <=> x = p) /\ k \notin Deallocs(x)
      BY <1>5, <1>6, ItemsFew, OneRelease
    <3>2. Deallocs(x)' = Deallocs(x)
      BY DEF Deallocs
    <3> QED BY <1>3, <1>10, <3>1, <3>2 DEF TasksOn, FewItems
  <2>3. CASE x = p
    BY <1>4, <1>7, <1>11, <2>1, <2>2, <2>3 DEF DiesOnce
  <2>4. CASE x # p
    BY <1>7, <1>11, <2>1, <2>2, <2>4 DEF DiesOnce
  <2> QED BY <2>3, <2>4
<1>15. OwnersExist'
  <2>1. \A i \in DOMAIN work'[t] : work'[t][i].op # "free"
    BY <1>6, <1>10
  <2> QED BY <1>1, <1>7, <1>10, <2>1 DEF OwnersExist
<1>16. \A u \in Threads : WorkShape(u)' /\ StackShape(u)'
  <2>1. ASSUME NEW u \in Threads, u # t PROVE WorkShape(u)' /\ StackShape(u)'
    <3>1. ASSUME NEW q \in Pools \cap exists, original_thread[q] = u
          PROVE  q \in exists' /\ original_thread'[q] = u /\ refcount'[q] = refcount[q]
      BY <1>4, <1>7, <1>11, <2>1, <3>1 DEF Anything
    <3> QED BY <1>7, <1>10, <2>1, <3>1, ShapesStay
  <2>2. WorkShape(t)'
    BY <1>3, <1>4, <1>6, <1>7, <1>10 DEF WorkShape
  <2>3. ASSUME NEW i \in DOMAIN pool_stacks[t]
        PROVE  /\ refcount'[pool_stacks[t][i]] = 1 \/ (refcount'[pool_stacks[t][i]] = 0 /\ pool_stacks[t][i] = p)
               /\ pool_stacks[t][i] \in exists /\ original_thread[pool_stacks[t][i]] = t
    <3>1. /\ refcount[pool_stacks[t][i]] = 1 /\ pool_stacks[t][i] \in exists
          /\ original_thread[pool_stacks[t][i]] = t /\ pool_stacks[t][i] \in Anything
      BY <1>1, <1>4 DEF StackShape, ObjTypeOK
    <3> QED BY <1>11, <3>1
  <2>4. Len(work'[t]) = 1 /\ work'[t][1] = [op |-> "dealloc", obj |-> p, this |-> p]
    BY <1>10 DEF e
  <2>5. StackShape(t)'
    BY <1>1, <1>7, <2>3, <2>4 DEF StackShape
  <2> QED BY <2>1, <2>2, <2>5
<1>17. \A q \in Pools : q \notin exists' => objects'[q] = <<>>
  BY <1>7 DEF ObjInv
<1> QED BY <1>12, <1>13, <1>14, <1>15, <1>16, <1>17 DEF ObjInv

\* What -[NSAutoreleasePool dealloc] takes off a stack when its pool is on top.
TakesTop(s) ==
    LET at == IndexOf(s, Last(s))
        to_drop == Reverse(SubSeq(s, at, Len(s)))
    IN  /\ DOMAIN to_drop = {1} /\ to_drop[1] = Last(s)
        /\ SubSeq(s, 1, at - 1) = Front(s)

\* It is the pool and nothing else.
LEMMA TopTaken ==
  ASSUME NEW S, NEW s \in Seq(S), s # <<>>, \A i, j \in DOMAIN s : s[i] = s[j] => i = j
  PROVE  TakesTop(s)
<1>1. /\ Len(s) \in Nat \ {0} /\ DOMAIN s = 1 .. Len(s)
      /\ Last(s) = s[Len(s)] /\ Last(s) \in S
  BY FrontLast
<1>2. PICK n \in Nat \ {0} : n = Len(s)
  BY <1>1
<1>3. n \in DOMAIN s /\ s[n] = Last(s) /\ \A j \in DOMAIN s : s[j] = Last(s) => j = n
  BY <1>1, <1>2
<1>4. IndexOf(s, Last(s)) = n
  BY <1>1, <1>2, <1>3 DEF IndexOf
<1>5. SubSeq(s, 1, n - 1) = Front(s)
  BY <1>2 DEF Front
<1> DEFINE r == SubSeq(s, n, n)
<1>6. r \in Seq(S) /\ Len(r) = 1 /\ r[1] = s[n]
  <2>1. n \in 1 .. Len(s) + 1 /\ n \in n - 1 .. Len(s)
    BY <1>2
  <2>2. /\ SubSeq(s, n, n) \in Seq(S)
        /\ Len(SubSeq(s, n, n)) = IF n <= n THEN n - n + 1 ELSE 0
        /\ \A i \in 1 .. n - n + 1 : SubSeq(s, n, n)[i] = s[n + i - 1]
    BY <1>2, <2>1, SubSeqProperties
  <2>3. 1 \in 1 .. n - n + 1 /\ n - n + 1 = 1 /\ n + 1 - 1 = n
    OBVIOUS
  <2> QED BY <2>2, <2>3
<1> HIDE DEF r
<1>7. DOMAIN Reverse(r) = {1} /\ Reverse(r)[1] = s[n]
  <2>1. Reverse(r) = [i \in 1 .. 1 |-> r[(1 - i) + 1]]
    BY <1>6 DEF Reverse
  <2> QED BY <1>6, <2>1
<1>8. SubSeq(s, IndexOf(s, Last(s)), Len(s)) = r
  BY <1>2, <1>4 DEF r
<1>9. SubSeq(s, 1, IndexOf(s, Last(s)) - 1) = Front(s)
  BY <1>4, <1>5
<1> QED BY <1>3, <1>7, <1>8, <1>9 DEF TakesTop

\* A pool that is deallocated is no longer on the stack.
LEMMA PoolDeallocKeeps ==
  ASSUME ObjInv, NEW t \in Threads, pool_dealloc(t)
  PROVE  ObjInv'
<1>1. /\ ObjTypeOK /\ OwnersExist /\ (\A x \in Ids : Counted(x)) /\ (\A x \in Anything : DiesOnce(x))
      /\ StackShape(t) /\ WorkShape(t)
  BY DEF ObjInv
<1>2. work[t] # <<>> /\ Head(work[t]).op = "dealloc" /\ Head(work[t]).obj \in Pools
  BY DEF pool_dealloc, Busy
<1>3. PICK k \in Task : /\ work[t] = <<k>> /\ k = Head(work[t]) /\ k.this = k.obj /\ k.op = "dealloc"
                        /\ pool_stacks[t] # <<>> /\ k.obj = Last(pool_stacks[t])
  BY <1>2, PoolWork
<1>4. PICK p \in Pools : \E n \in Nat \ {0} :
        /\ p = k.obj /\ n = Len(pool_stacks[t]) /\ pool_stacks[t] \in Seq(Pools)
        /\ DOMAIN pool_stacks[t] = 1 .. n /\ n \in DOMAIN pool_stacks[t] /\ pool_stacks[t][n] = p
        /\ p \in exists /\ original_thread[p] = t
        /\ \A i \in DOMAIN pool_stacks[t] : pool_stacks[t][i] \in Pools /\ (pool_stacks[t][i] = p => i = n)
  BY <1>3, TopPool
<1>41. PICK n \in Nat \ {0} :
        /\ n = Len(pool_stacks[t]) /\ pool_stacks[t] \in Seq(Pools)
        /\ DOMAIN pool_stacks[t] = 1 .. n /\ n \in DOMAIN pool_stacks[t] /\ pool_stacks[t][n] = p
        /\ \A i \in DOMAIN pool_stacks[t] : pool_stacks[t][i] \in Pools /\ (pool_stacks[t][i] = p => i = n)
  BY <1>4
<1>5. /\ p \in Anything /\ p = k.obj /\ p \in exists /\ original_thread[p] = t
      /\ \A x : (k \in Deallocs(x) <=> x = p) /\ k # ReleaseOf(x)
  BY <1>3, <1>4 DEF Deallocs, ReleaseOf, Anything
<1> DEFINE e == [op |-> "drop", obj |-> p, this |-> p]
<1>6. /\ e \in Task /\ e.op = "drop" /\ e.obj = p /\ e.this = p
      /\ \A x : e \in Deallocs(x) <=> x = p
      /\ \A x : e \notin {ReleaseOf(x)}
  BY <1>5 DEF Task, Deallocs, ReleaseOf
<1>61. PICK s \in Seq(Pools) : s = pool_stacks[t]
  BY <1>41
<1>62. TakesTop(s) /\ Last(s) = p /\ s # <<>>
  BY <1>1, <1>3, <1>5, <1>61, TopTaken DEF StackShape
<1>63. /\ Front(s) \in Seq(Pools) /\ DOMAIN Front(s) = 1 .. n - 1 /\ \A i \in 1 .. n - 1 : Front(s)[i] = s[i]
  BY <1>41, <1>61, <1>62, FrontLast
<1>64. PICK f \in Seq(Pools) : f = Front(s)
  BY <1>63
<1>65. \A i \in DOMAIN f : i \in DOMAIN s /\ f[i] = s[i] /\ i # n
  BY <1>41, <1>61, <1>63, <1>64
<1> DEFINE to_drop == Reverse(SubSeq(s, IndexOf(s, p), Len(s)))
<1>66. [i \in DOMAIN to_drop |-> [op |-> "drop", obj |-> to_drop[i], this |-> p]] = <<e>>
  <2>1. DOMAIN to_drop = {1} /\ to_drop[1] = p
    BY <1>62 DEF TakesTop
  <2> HIDE DEF to_drop
  <2>2. [i \in DOMAIN to_drop |-> [op |-> "drop", obj |-> to_drop[i], this |-> p]] = [i \in {1} |-> e]
    BY <2>1
  <2> HIDE DEF e
  <2>3. [i \in {1} |-> e] = <<e>>
    OBVIOUS
  <2> QED BY <2>2, <2>3
<1>67. p \in ToSet(s)
  BY <1>41, <1>61 DEF ToSet
<1>7. /\ pool_stacks' = [pool_stacks EXCEPT ![t] = f]
      /\ work' = [work EXCEPT ![t] = <<e>> \o Tail(work[t])]
      /\ exists' = exists /\ refcount' = refcount /\ objects' = objects /\ original_thread' = original_thread
      /\ child' = child /\ held' = held /\ leaked' = leaked /\ panic' = panic
  <2>1. /\ pool_stacks' = [pool_stacks EXCEPT ![t] = SubSeq(s, 1, IndexOf(s, p) - 1)]
        /\ work' = [work EXCEPT ![t] =
                      [i \in DOMAIN to_drop |-> [op |-> "drop", obj |-> to_drop[i], this |-> p]] \o Tail(work[t])]
        /\ exists' = exists /\ refcount' = refcount /\ objects' = objects /\ original_thread' = original_thread
        /\ child' = child /\ held' = held /\ leaked' = leaked /\ panic' = panic
    BY <1>3, <1>5, <1>61, <1>67 DEF pool_dealloc
  <2> HIDE DEF to_drop, e
  <2>2. SubSeq(s, 1, IndexOf(s, p) - 1) = f
    BY <1>62, <1>64 DEF TakesTop
  <2> QED BY <1>66, <2>1, <2>2
<1> HIDE DEF e
<1>8. <<e>> \o Tail(work[t]) = <<e>>
  BY <1>3, <1>6
<1>9. PICK g \in Task : g = e
  BY <1>6
<1>91. <<g>> \in Seq(Task)
  OBVIOUS
<1>10. /\ work' \in [Threads -> Seq(Task)] /\ work'[t] = <<e>>
       /\ \A u \in Threads : u # t => work'[u] = work[u]
  BY <1>1, <1>7, <1>8, <1>9, <1>91 DEF ObjTypeOK
<1>11. /\ pool_stacks' \in [Threads -> Seq(Pools)] /\ pool_stacks'[t] = f
       /\ \A u \in Threads : u # t => pool_stacks'[u] = pool_stacks[u]
  BY <1>1, <1>7 DEF ObjTypeOK
<1>12. ObjTypeOK'
  BY <1>1, <1>7, <1>10, <1>11 DEF ObjTypeOK
<1>13. ASSUME NEW x \in Ids PROVE Counted(x)'
  <2>1. ThreadRefs(t, x)' - ThreadRefs(t, x) = 0
    <3>1. /\ held[t][x] \in Nat /\ FewItems(e, {ReleaseOf(x)}) /\ FewItems(k, {ReleaseOf(x)})
          /\ e \notin {ReleaseOf(x)} /\ k \notin {ReleaseOf(x)}
      BY <1>1, <1>5, <1>6, ItemsFew DEF ObjTypeOK
    <3>2. ThreadRefs(t, x)' = held[t][x] + 0
      BY <1>7, <1>10, <3>1 DEF ThreadRefs, FewItems, ReleaseOf
    <3>3. ThreadRefs(t, x) = held[t][x] + 0
      BY <1>3, <3>1 DEF ThreadRefs, FewItems
    <3> QED BY <3>1, <3>2, <3>3
  <2>2. /\ PoolTotal(x)' = PoolTotal(x) /\ OwnerCount(x)' = OwnerCount(x) /\ leaked'[x] = leaked[x]
        /\ refcount'[x] = refcount[x]
    BY <1>7 DEF PoolTotal, PoolRefs, OwnerCount
  <2>4. PoolTotal(x) \in Nat /\ OwnerCount(x) \in Nat /\ leaked[x] \in Nat /\ refcount[x] \in Nat
    BY <1>1, RefFacts DEF ObjTypeOK, Anything
  <2> QED BY <1>7, <1>10, <1>12, <2>1, <2>2, <2>4, Recount
<1>14. ASSUME NEW x \in Anything PROVE DiesOnce(x)'
  <2>1. Dying(x)' = Dying(x) + (TasksOn(t, x)' - TasksOn(t, x)) /\ Dying(x) \in Nat /\ DiesOnce(x)
    BY <1>1, <1>10, <1>12, TaskMoves, TaskFacts
  <2>2. TasksOn(t, x)' = (IF x = p THEN 1 ELSE 0) /\ TasksOn(t, x) = (IF x = p THEN 1 ELSE 0)
    <3>1. /\ FewItems(e, Deallocs(x)) /\ FewItems(k, Deallocs(x)) /\ (e \in Deallocs(x) <=> x = p)
          /\ (k \in Deallocs(x) <=> x = p)
      BY <1>5, <1>6, ItemsFew
    <3>2. Deallocs(x)' = Deallocs(x)
      BY DEF Deallocs
    <3> QED BY <1>3, <1>10, <3>1, <3>2 DEF TasksOn, FewItems
  <2>3. Dying(x)' = Dying(x)
    BY <2>1, <2>2
  <2> QED BY <1>7, <2>1, <2>3 DEF DiesOnce
<1>15. OwnersExist'
  <2>1. \A i \in DOMAIN work'[t] : work'[t][i].op # "free"
    BY <1>6, <1>10
  <2> QED BY <1>1, <1>7, <1>10, <2>1 DEF OwnersExist
<1>16. \A u \in Threads : WorkShape(u)' /\ StackShape(u)'
  <2>1. ASSUME NEW u \in Threads, u # t PROVE WorkShape(u)' /\ StackShape(u)'
    BY <1>7, <1>10, <1>11, <2>1, ShapesStay
  <2>2. WorkShape(t)'
    <3>1. \A j \in DOMAIN f : f[j] # p
      BY <1>41, <1>61, <1>65
    <3> QED BY <1>5, <1>6, <1>7, <1>10, <1>11, <3>1 DEF WorkShape
  <2>3. ASSUME NEW i \in DOMAIN f
        PROVE  f[i] \in exists /\ original_thread[f[i]] = t /\ refcount[f[i]] = 1
    <3>1. i \in DOMAIN pool_stacks[t] /\ f[i] = pool_stacks[t][i] /\ f[i] # p
      BY <1>41, <1>61, <1>65
    <3>2. pool_stacks[t][i] \in exists /\ original_thread[pool_stacks[t][i]] = t
      BY <1>1, <3>1 DEF StackShape
    <3>3. work[t][1] = k
      BY <1>3
    <3>4. refcount[pool_stacks[t][i]] = 1
      BY <1>3, <1>5, <3>1, <3>3, TopPool
    <3> QED BY <3>1, <3>2, <3>4
  <2>4. \A i, j \in DOMAIN f : f[i] = f[j] => i = j
    BY <1>1, <1>61, <1>65 DEF StackShape
  <2>5. StackShape(t)'
    BY <1>7, <1>11, <2>3, <2>4 DEF StackShape
  <2> QED BY <2>1, <2>2, <2>5
<1>17. \A q \in Pools : q \notin exists' => objects'[q] = <<>>
  BY <1>7 DEF ObjInv
<1> QED BY <1>12, <1>13, <1>14, <1>15, <1>16, <1>17 DEF ObjInv

\* Releases to come count as the references they stand for.
SameItems(s, x) == Cardinality(ItemsOf(Releases(s), {ReleaseOf(x)})) = Cardinality(ItemsOf(s, {x}))

\* They do.
LEMMA ReleasesCount ==
  ASSUME NEW s \in Seq(Ids), NEW x
  PROVE  /\ Releases(s) \in Seq(Task) /\ DOMAIN Releases(s) = DOMAIN s
         /\ \A i \in DOMAIN s : Releases(s)[i] = ReleaseOf(s[i]) /\ s[i] \in Ids
         /\ SameItems(s, x)
<1>1. Len(s) \in Nat /\ DOMAIN s = 1 .. Len(s) /\ \A i \in 1 .. Len(s) : s[i] \in Ids
  BY LenProperties
<1>2. \A i \in DOMAIN s : ReleaseOf(s[i]) \in Task
  BY <1>1, OneRelease DEF Anything
<1>3. Releases(s) = [i \in 1 .. Len(s) |-> ReleaseOf(s[i])]
  BY <1>1 DEF Releases, ReleaseOf
<1>4. Releases(s) \in [1 .. Len(s) -> Task]
  BY <1>1, <1>2, <1>3
<1>5. Releases(s) \in Seq(Task)
  BY <1>1, <1>4
<1>6. ItemsOf(Releases(s), {ReleaseOf(x)}) = ItemsOf(s, {x})
  <2>1. \A i \in DOMAIN s : ReleaseOf(s[i]) \in {ReleaseOf(x)} <=> s[i] \in {x}
    BY DEF ReleaseOf
  <2> QED BY <1>1, <1>3, <2>1 DEF ItemsOf
<1> QED BY <1>1, <1>3, <1>5, <1>6 DEF SameItems

\* A pool that is drained gives up what it holds, and is forgotten.
LEMMA DropTaskKeeps ==
  ASSUME ObjInv, NEW t \in Threads, drop_task(t)
  PROVE  ObjInv'
<1>1. /\ ObjTypeOK /\ OwnersExist /\ (\A x \in Ids : Counted(x)) /\ (\A x \in Anything : DiesOnce(x))
      /\ StackShape(t) /\ WorkShape(t)
  BY DEF ObjInv
<1>2. work[t] # <<>> /\ Head(work[t]).op = "drop"
  BY DEF drop_task, Busy
<1>20. 1 \in DOMAIN work[t] /\ Head(work[t]) = work[t][1]
  BY <1>2, WorkIsOne
<1>21. Head(work[t]).obj \in Pools
  BY <1>1, <1>2, <1>20 DEF WorkShape
<1>3. PICK k \in Task : /\ work[t] = <<k>> /\ k = Head(work[t]) /\ k.this = k.obj /\ k.op = "drop"
                        /\ original_thread[k.obj] = t
                        /\ \A j \in DOMAIN pool_stacks[t] : pool_stacks[t][j] # k.obj
  BY <1>2, <1>21, PoolWork
<1>4. PICK p \in Pools : p = k.obj
  BY <1>3, <1>21
<1>5. /\ p \in Anything /\ \A x : (k \in Deallocs(x) <=> x = p) /\ k # ReleaseOf(x)
  BY <1>3, <1>4 DEF Deallocs, ReleaseOf, Anything
<1>6. refcount[p] = 0 /\ p \in exists
  <2>1. work[t][1] = k
    BY <1>3
  <2> QED BY <1>5, <1>20, <2>1, RefsCount
<1>61. PICK s \in Seq(Ids) : s = objects[p]
  BY <1>1 DEF ObjTypeOK
<1>7. /\ objects' = [objects EXCEPT ![p] = <<>>] /\ exists' = exists \ {p}
      /\ work' = [work EXCEPT ![t] = Releases(s) \o Tail(work[t])]
      /\ refcount' = refcount /\ original_thread' = original_thread /\ pool_stacks' = pool_stacks
      /\ child' = child /\ held' = held /\ leaked' = leaked /\ panic' = panic
  BY <1>3, <1>4, <1>6, <1>61 DEF drop_task
<1>71. /\ Releases(s) \in Seq(Task) /\ DOMAIN Releases(s) = DOMAIN s
       /\ \A i \in DOMAIN s : Releases(s)[i] = ReleaseOf(s[i]) /\ s[i] \in Ids
  BY ReleasesCount
<1>72. PICK w \in Seq(Task) : w = Releases(s)
  BY <1>71
<1>8. w \o Tail(work[t]) = w
  <2>1. Tail(work[t]) = <<>>
    BY <1>3
  <2>2. w \o <<>> = w
    OBVIOUS
  <2> QED BY <2>1, <2>2
<1>9. \A i \in DOMAIN w : w[i].op = "release" /\ w[i].obj \in Ids /\ w[i].this = w[i].obj
  BY <1>71, <1>72 DEF ReleaseOf
<1>10. /\ work' \in [Threads -> Seq(Task)] /\ work'[t] = w
       /\ \A u \in Threads : u # t => work'[u] = work[u]
  BY <1>1, <1>7, <1>8, <1>72 DEF ObjTypeOK
<1>11. /\ objects' \in [Pools -> Seq(Ids)] /\ objects'[p] = <<>>
       /\ \A q \in Pools : q # p => objects'[q] = objects[q]
  BY <1>1, <1>7 DEF ObjTypeOK
<1>12. ObjTypeOK'
  BY <1>1, <1>7, <1>10, <1>11 DEF ObjTypeOK
<1>13. ASSUME NEW x \in Ids PROVE Counted(x)'
  <2>1. PICK n \in Nat : n = Cardinality(ItemsOf(s, {x}))
    BY ItemsFinite
  <2>2. ThreadRefs(t, x)' - ThreadRefs(t, x) = n
    <3>1. held[t][x] \in Nat /\ FewItems(k, {ReleaseOf(x)}) /\ k \notin {ReleaseOf(x)} /\ SameItems(s, x)
      BY <1>1, <1>5, ItemsFew, ReleasesCount DEF ObjTypeOK
    <3>2. ThreadRefs(t, x)' = held[t][x] + n
      BY <1>7, <1>10, <1>72, <2>1, <3>1 DEF ThreadRefs, SameItems, ReleaseOf
    <3>3. ThreadRefs(t, x) = held[t][x] + 0
      BY <1>3, <3>1 DEF ThreadRefs, FewItems
    <3> QED BY <3>1, <3>2, <3>3
  <2>3. PoolTotal(x)' - PoolTotal(x) = -n
    <3>1. PoolTotal(x)' = PoolTotal(x) + (PoolRefs(p, x)' - PoolRefs(p, x)) /\ PoolTotal(x) \in Nat
      BY <1>1, <1>11, PoolMoves, RefFacts
    <3>2. PoolRefs(p, x) = n
      BY <1>61, <2>1 DEF PoolRefs
    <3>3. PoolRefs(p, x)' = 0
      <4>1. FewItems(x, {x})
        BY ItemsFew
      <4> QED BY <1>11, <4>1 DEF PoolRefs, FewItems
    <3> QED BY <3>1, <3>2, <3>3
  <2>4. OwnerCount(x)' = OwnerCount(x) /\ leaked'[x] = leaked[x] /\ refcount'[x] = refcount[x]
    BY <1>7 DEF OwnerCount
  <2>5. OwnerCount(x) \in Nat /\ leaked[x] \in Nat /\ refcount[x] \in Nat
    BY <1>1, RefFacts DEF ObjTypeOK, Anything
  <2>6. refcount'[x] - refcount[x] =
          (ThreadRefs(t, x)' - ThreadRefs(t, x))
            + ((leaked'[x] - leaked[x]) + (PoolTotal(x)' - PoolTotal(x))) + (OwnerCount(x)' - OwnerCount(x))
    BY <2>2, <2>3, <2>4, <2>5
  <2> QED BY <1>7, <1>10, <1>12, <2>6, Recount
<1>14. ASSUME NEW x \in Anything PROVE DiesOnce(x)'
  <2>1. Dying(x)' = Dying(x) + (TasksOn(t, x)' - TasksOn(t, x)) /\ Dying(x) \in Nat /\ DiesOnce(x)
    BY <1>1, <1>10, <1>12, TaskMoves, TaskFacts
  <2>2. TasksOn(t, x)' = 0 /\ TasksOn(t, x) = (IF x = p THEN 1 ELSE 0)
    <3>1. FewItems(k, Deallocs(x)) /\ (k \in Deallocs(x) <=> x = p)
      BY <1>5, ItemsFew
    <3>2. Deallocs(x)' = Deallocs(x)
      BY DEF Deallocs
    <3>3. ItemsOf(w, Deallocs(x)) = ItemsOf(<<>>, Deallocs(x))
      <4>1. \A i \in DOMAIN w : w[i] \notin Deallocs(x)
        BY <1>9 DEF Deallocs
      <4> QED BY <4>1 DEF ItemsOf
    <3> QED BY <1>3, <1>10, <3>1, <3>2, <3>3 DEF TasksOn, FewItems
  <2>3. CASE x = p
    <3>1. Dying(x) = 1
      BY <1>6, <2>1, <2>3 DEF DiesOnce
    <3>2. Dying(x)' = 0
      BY <2>1, <2>2, <2>3, <3>1
    <3> QED BY <1>6, <1>7, <2>3, <3>2 DEF DiesOnce
  <2>4. CASE x # p
    <3>1. Dying(x)' = Dying(x)
      BY <2>1, <2>2, <2>4
    <3> QED BY <1>7, <2>1, <2>4, <3>1 DEF DiesOnce
  <2> QED BY <2>3, <2>4
<1>15. OwnersExist'
  <2>1. \A i \in DOMAIN work'[t] : work'[t][i].op # "free"
    BY <1>9, <1>10
  <2>2. \A x \in Ids : child'[x] # nil => x \in exists'
    BY <1>1, <1>7, ObjectsConstants DEF OwnersExist
  <2> QED BY <1>1, <1>7, <1>10, <2>1, <2>2 DEF OwnersExist
<1>16. \A u \in Threads : WorkShape(u)' /\ StackShape(u)'
  <2>1. ASSUME NEW u \in Threads, u # t PROVE WorkShape(u)' /\ StackShape(u)'
    <3>1. ASSUME NEW q \in Pools \cap exists, original_thread[q] = u
          PROVE  q \in exists' /\ original_thread'[q] = u /\ refcount'[q] = refcount[q]
      BY <1>3, <1>4, <1>7, <2>1, <3>1
    <3> QED BY <1>7, <1>10, <2>1, <3>1, ShapesStay
  <2>2. WorkShape(t)'
    BY <1>9, <1>10, ObjectsConstants DEF WorkShape
  <2>3. ASSUME NEW i \in DOMAIN pool_stacks[t]
        PROVE  /\ pool_stacks[t][i] \in exists' /\ original_thread[pool_stacks[t][i]] = t
               /\ refcount[pool_stacks[t][i]] = 1
    <3>0. pool_stacks[t] # <<>>
      OBVIOUS
    <3>1. pool_stacks[t][i] \in exists /\ original_thread[pool_stacks[t][i]] = t /\ pool_stacks[t] # <<>>
      BY <1>1, <3>0 DEF StackShape
    <3>2. work[t][1] = k
      BY <1>3
    <3>3. refcount[pool_stacks[t][i]] = 1
      BY <1>3, <3>1, <3>2, TopPool
    <3> QED BY <1>3, <1>4, <1>7, <3>1, <3>3
  <2>4. StackShape(t)'
    BY <1>1, <1>7, <2>3 DEF StackShape
  <2> QED BY <2>1, <2>2, <2>4
<1>17. \A q \in Pools : q \notin exists' => objects'[q] = <<>>
  BY <1>7, <1>11 DEF ObjInv
<1> QED BY <1>12, <1>13, <1>14, <1>15, <1>16, <1>17 DEF ObjInv

\* The invariant holds at the start.
LEMMA ObjStarts ==
  ASSUME ObjectsInit
  PROVE  ObjInv
<1>1. /\ exists = {} /\ refcount = [i \in Anything |-> 0] /\ objects = [p \in Pools |-> <<>>]
      /\ pool_stacks = [t \in Threads |-> <<>>] /\ child = [o \in Ids |-> nil]
      /\ held = [t \in Threads |-> [o \in Ids |-> 0]] /\ leaked = [o \in Ids |-> 0]
      /\ work = [t \in Threads |-> <<>>] /\ panic = "no"
  BY DEF ObjectsInit, Anything
<1>2. original_thread \in [Pools -> Threads]
  BY ObjectsConstants DEF ObjectsInit
<1>3. ObjTypeOK
  BY <1>1, <1>2 DEF ObjTypeOK
<1>4. ASSUME NEW o \in Ids PROVE Counted(o)
  <2> DEFINE f == [t \in Threads |-> ThreadRefs(t, o)]
             g == [p \in Pools |-> PoolRefs(p, o)]
  <2>1. FewItems(o, {ReleaseOf(o)}) /\ FewItems(o, {o})
    BY ItemsFew
  <2>2. (\A t \in Threads : f[t] = 0) /\ \A p \in Pools : g[p] = 0
    <3>1. \A t \in Threads : ThreadRefs(t, o) = 0
      BY <1>1, <2>1 DEF ThreadRefs, FewItems
    <3>2. \A p \in Pools : PoolRefs(p, o) = 0
      BY <1>1, <2>1 DEF PoolRefs, FewItems
    <3> QED BY <3>1, <3>2
  <2>3. ThreadTotal(o) = Total(f, Threads) /\ PoolTotal(o) = Total(g, Pools)
    BY DEF ThreadTotal, PoolTotal
  <2> HIDE DEF f, g
  <2>4. ThreadTotal(o) = 0 /\ PoolTotal(o) = 0
    BY <2>2, <2>3, ObjectsConstants, TotalZero
  <2>5. OwnerCount(o) = 0
    <3>1. {d \in Ids : child[d] = o} = {}
      BY <1>1, ObjectsConstants
    <3> QED BY <3>1, FS_EmptySet DEF OwnerCount
  <2> QED BY <1>1, <2>4, <2>5 DEF Counted, Anything
<1>5. ASSUME NEW x \in Anything PROVE DiesOnce(x)
  <2> DEFINE f == [t \in Threads |-> TasksOn(t, x)]
  <2>1. FewItems(x, Deallocs(x))
    BY ItemsFew
  <2>2. \A t \in Threads : f[t] = 0
    BY <1>1, <2>1 DEF TasksOn, FewItems
  <2>3. Dying(x) = Total(f, Threads)
    BY DEF Dying
  <2> HIDE DEF f
  <2>4. Dying(x) = 0
    BY <2>2, <2>3, ObjectsConstants, TotalZero
  <2> QED BY <1>1, <2>4 DEF DiesOnce
<1>6. OwnersExist /\ (\A t \in Threads : WorkShape(t) /\ StackShape(t)) /\ \A p \in Pools : p \notin exists => objects[p] = <<>>
  BY <1>1 DEF OwnersExist, WorkShape, StackShape
<1> QED BY <1>3, <1>4, <1>5, <1>6 DEF ObjInv

\* Every step keeps it.
LEMMA ObjNext ==
  ASSUME ObjInv, ~AnyPool, [ObjectsNext]_ovars
  PROVE  ObjInv'
<1>1. CASE UNCHANGED ovars
  <2>1. /\ exists' = exists /\ refcount' = refcount /\ objects' = objects
        /\ original_thread' = original_thread /\ pool_stacks' = pool_stacks /\ child' = child
        /\ held' = held /\ leaked' = leaked /\ work' = work /\ panic' = panic
    BY <1>1 DEF ovars
  <2>2. ObjTypeOK'
    BY <2>1 DEF ObjInv, ObjTypeOK
  <2>3. \A o \in Ids : Counted(o)'
    BY <2>1 DEF ObjInv, Counted, ThreadTotal, ThreadRefs, PoolTotal, PoolRefs, OwnerCount
  <2>4. \A x \in Anything : DiesOnce(x)'
    BY <2>1 DEF ObjInv, DiesOnce, Dying, TasksOn
  <2>5. OwnersExist'
    BY <2>1 DEF ObjInv, OwnersExist
  <2>6. \A t \in Threads : WorkShape(t)' /\ StackShape(t)'
    BY <2>1 DEF ObjInv, WorkShape, StackShape
  <2>7. \A p \in Pools : p \notin exists' => objects'[p] = <<>>
    BY <2>1 DEF ObjInv
  <2> QED BY <2>2, <2>3, <2>4, <2>5, <2>6, <2>7 DEF ObjInv
<1>2. CASE ObjectsNext
  <2>1. PICK t \in Threads : GuestCall(t) \/ HostStep(t)
    BY <1>2 DEF ObjectsNext
  <2>2. ASSUME NEW o \in Ids, alloc_object(t, o) \/ retain(t, o) \/ release(t, o) \/ autorelease(t, o)
        PROVE  ObjInv'
    BY <2>2, AllocKeeps, RetainKeeps, ReleaseKeeps, AutoreleaseKeeps
  <2>3. ASSUME NEW o \in Ids, NEW c \in Ids, own(t, o, c)
        PROVE  ObjInv'
    BY <2>3, OwnKeeps
  <2>4. ASSUME NEW p \in Pools, pool_init(t, p) \/ drain(t, p)
        PROVE  ObjInv'
    BY <2>4, PoolInitKeeps, DrainKeeps
  <2>5. CASE release_task(t)
    <3>1. Head(work[t]).obj \in Anything
      <4>1. work[t] # <<>>
        BY <2>5 DEF release_task, Busy
      <4>2. Head(work[t]) \in Task
        BY <4>1, WorkIsOne
      <4> QED BY <4>2 DEF Task
    <3> QED BY <2>5, <3>1, ReleaseObjectKeeps, ReleasePoolKeeps DEF Anything
  <2>6. CASE dealloc_releases(t) \/ dealloc_autoreleases(t) \/ dealloc_object(t)
    BY <2>6, DeallocReleasesKeeps, DeallocAutoreleasesKeeps, DeallocObjectKeeps
  <2>7. CASE pool_dealloc(t) \/ drop_task(t)
    BY <2>7, PoolDeallocKeeps, DropTaskKeeps
  <2> QED BY <2>1, <2>2, <2>3, <2>4, <2>5, <2>6, <2>7 DEF GuestCall, HostStep
<1> QED BY <1>1, <1>2

\* It says what the property does.
LEMMA ObjSafe ==
  ASSUME ObjInv
  PROVE  ObjectsCounted
<1>1. ObjTypeOK /\ panic = "no" /\ work \in [Threads -> Seq(Task)]
  BY DEF ObjInv, ObjTypeOK
<1>2. ASSUME NEW o \in Ids PROVE refcount[o] = References(o)
  <2>1. Counted(o) /\ o \in Anything
    BY DEF ObjInv, Anything
  <2>2. Releases(<<o>>)[1] = ReleaseOf(o)
    BY DEF Releases, ReleaseOf
  <2>3. \A t \in Threads : Pending(t, o) = Cardinality(ItemsOf(work[t], {ReleaseOf(o)}))
    BY <2>2 DEF Pending, ItemsOf
  <2>4. \A t \in Threads : held[t][o] + Pending(t, o) = ThreadRefs(t, o)
    BY <2>3 DEF ThreadRefs
  <2>5. [t \in Threads |-> held[t][o] + Pending(t, o)] = [t \in Threads |-> ThreadRefs(t, o)]
    BY <2>4
  <2>6. \A p \in Pools : Pooled(p, o) = PoolRefs(p, o)
    BY DEF Pooled, PoolRefs, ItemsOf
  <2>7. [p \in Pools |-> Pooled(p, o)] = [p \in Pools |-> PoolRefs(p, o)]
    BY <2>6
  <2>8. References(o) = leaked[o] + ThreadTotal(o) + PoolTotal(o) + OwnerCount(o)
    BY <2>5, <2>7 DEF References, ThreadTotal, PoolTotal, OwnerCount, Total
  <2> QED BY <2>1, <2>8 DEF Counted
<1>3. ASSUME NEW o \in exists, refcount[o] = 0
      PROVE  FoldFunctionOnSet(+, 0, [t \in Threads |->
                Cardinality({i \in DOMAIN work[t] :
                               /\ work[t][i].op \in {"dealloc", "free", "drop"}
                               /\ work[t][i].this = o})], Threads) = 1
  <2>1. o \in Anything
    BY <1>1 DEF ObjTypeOK
  <2>2. Dying(o) = 1
    BY <1>3, <2>1 DEF ObjInv, DiesOnce
  <2>3. ASSUME NEW t \in Threads
        PROVE  {i \in DOMAIN work[t] : /\ work[t][i].op \in {"dealloc", "free", "drop"}
                                       /\ work[t][i].this = o} = ItemsOf(work[t], Deallocs(o))
    <3>1. \A i \in DOMAIN work[t] : work[t][i] \in Task
      BY <1>1
    <3> QED BY <3>1 DEF ItemsOf, Deallocs
  <2>4. [t \in Threads |-> Cardinality({i \in DOMAIN work[t] :
                               /\ work[t][i].op \in {"dealloc", "free", "drop"}
                               /\ work[t][i].this = o})] = [t \in Threads |-> TasksOn(t, o)]
    BY <2>3 DEF TasksOn
  <2> QED BY <2>2, <2>4 DEF Dying, Total
<1> QED BY <1>1, <1>2, <1>3 DEF ObjectsCounted, RefcountExact, DeallocatedOnce

\* However threads retain, release, autorelease and store objects, and however
\* what a release leads to is interleaved with the other threads, no call of
\* retain, release or dealloc panics, every count is the number of references
\* there are, and what has none left is deallocated once -- provided that no
\* pool is drained while others are above it.
THEOREM ObjectsStayCounted ==
  ASSUME ~AnyPool
  PROVE  ObjectsSpec => []ObjectsCounted
<1>1. ObjectsInit => ObjInv
  BY ObjStarts
<1>2. ObjInv /\ [ObjectsNext]_ovars => ObjInv'
  BY ObjNext
<1>3. ObjInv => ObjectsCounted
  BY ObjSafe
<1> QED BY <1>1, <1>2, <1>3, PTL DEF ObjectsSpec

-----------------------------------------------------------------------------
(* Loading: the slice                                                      *)

\* The slices that suit the CPU best.
OfArch(a) == {i \in DOMAIN slices : slices[i] = a}
Suits ==
    IF OfArch("armv7") # {} THEN OfArch("armv7")
    ELSE IF OfArch("armv6") # {} THEN OfArch("armv6")
    ELSE {i \in DOMAIN slices : slices[i] # "x86" /\ \A j \in 1 .. i - 1 : slices[j] = "x86"}

\* What the loop over the slices makes of one.
Better(s, i, best) ==
    /\ s[i] # "x86"
    /\ \/ s[i] = "armv7"
       \/ s[i] = "armv6" /\ (best = 0 \/ s[best] # "armv7")
       \/ best = 0

\* The best of the first k slices.
BestOf(s, b, k) ==
    /\ b \in 0 .. k
    /\ b = 0 => \A j \in 1 .. k : s[j] = "x86"
    /\ b # 0 =>
         /\ s[b] # "x86"
         /\ s[b] # "armv7" => \A j \in 1 .. k : s[j] # "armv7"
         /\ s[b] \notin {"armv6", "armv7"} => /\ \A j \in 1 .. k : s[j] # "armv6"
                                              /\ \A j \in 1 .. b - 1 : s[j] = "x86"

\* One more slice.
LEMMA OneMoreSlice ==
  ASSUME NEW s, NEW k \in Nat, NEW b, BestOf(s, b, k)
  PROVE  BestOf(s, IF Better(s, k + 1, b) THEN k + 1 ELSE b, k + 1)
<1>1. \A j : j \in 1 .. k + 1 <=> j \in 1 .. k \/ j = k + 1
  OBVIOUS
<1>2. b \in 0 .. k + 1 /\ k + 1 \in 0 .. k + 1 /\ k + 1 # 0 /\ (k + 1) - 1 = k
  BY DEF BestOf
<1>3. CASE Better(s, k + 1, b)
  BY <1>1, <1>2, <1>3 DEF BestOf, Better
<1>4. CASE ~Better(s, k + 1, b)
  BY <1>1, <1>2, <1>4 DEF BestOf, Better
<1> QED BY <1>3, <1>4

\* The loop goes through all of them.
LEMMA BestIsBest ==
  ASSUME NEW s, NEW n \in Nat, Len(s) = n
  PROVE  BestOf(s, BestSlice(s), n)
<1> DEFINE Chosen == [e \in (1 .. n) \X (0 .. n) |-> IF Better(s, e[1], e[2]) THEN e[1] ELSE e[2]]
           loop == CHOOSE f : f = [i \in 0 .. n |-> IF i = 0 THEN 0 ELSE IF Better(s, i, f[i - 1]) THEN i ELSE f[i - 1]]
<1>1. Chosen \in [(1 .. n) \X (0 .. n) -> 0 .. n]
  OBVIOUS
<1>2. \A k \in 1 .. n, b \in 0 .. n : Chosen[<<k, b>>] = IF Better(s, k, b) THEN k ELSE b
  OBVIOUS
<1> HIDE DEF Chosen
<1>3. PICK g : StepIterates(g, n, 0 .. n, 0, Chosen)
  <2>1. 0 \in 0 .. n
    OBVIOUS
  <2> QED BY <1>1, <2>1, StepIteration, Zenon
<1>4. g \in [0 .. n -> 0 .. n] /\ g[0] = 0 /\ \A k \in 1 .. n : g[k] = Chosen[<<k, g[k - 1]>>]
  BY <1>3 DEF StepIterates
<1>5. \A k \in 1 .. n : k - 1 \in 0 .. n /\ k \in 0 .. n
  OBVIOUS
<1>6. \A k \in 1 .. n : g[k] = IF Better(s, k, g[k - 1]) THEN k ELSE g[k - 1]
  BY <1>2, <1>4, <1>5
<1>7. g = [i \in 0 .. n |-> IF i = 0 THEN 0 ELSE IF Better(s, i, g[i - 1]) THEN i ELSE g[i - 1]]
  <2>1. \A i \in 0 .. n : g[i] = IF i = 0 THEN 0 ELSE IF Better(s, i, g[i - 1]) THEN i ELSE g[i - 1]
    <3>1. SUFFICES ASSUME NEW i \in 0 .. n
                   PROVE g[i] = IF i = 0 THEN 0 ELSE IF Better(s, i, g[i - 1]) THEN i ELSE g[i - 1]
      OBVIOUS
    <3>2. CASE i = 0
      BY <1>4, <3>2
    <3>3. CASE i # 0
      <4>1. i \in 1 .. n
        BY <3>3
      <4> QED BY <1>6, <3>3, <4>1
    <3> QED BY <3>2, <3>3
  <2> QED BY <1>4, <2>1
<1>8. loop = [i \in 0 .. n |-> IF i = 0 THEN 0 ELSE IF Better(s, i, loop[i - 1]) THEN i ELSE loop[i - 1]]
  BY <1>7
<1>9. BestSlice(s) = loop[n]
  BY Zenon DEF BestSlice, Better
<1> HIDE DEF loop
<1>10. \A k \in 0 .. n : BestOf(s, loop[k], k)
  <2> DEFINE Bad == {k \in Nat : k <= n /\ ~BestOf(s, loop[k], k)}
  <2>1. SUFFICES ASSUME Bad # {} PROVE FALSE
    OBVIOUS
  <2>2. PICK m \in Bad : \A k \in Bad : m <= k
    BY <2>1, LeastNatural
  <2>3. m \in Nat /\ m <= n /\ ~BestOf(s, loop[m], m) /\ \A k \in Nat : k < m => BestOf(s, loop[k], k)
    <3>1. \A k \in Nat : k < m /\ m <= n => k <= n
      OBVIOUS
    <3> QED BY <2>2, <3>1
  <2>4. CASE m = 0
    <3>1. loop[0] = 0
      BY <1>8
    <3>2. BestOf(s, 0, 0)
      BY DEF BestOf
    <3> QED BY <2>3, <2>4, <3>1, <3>2
  <2>5. CASE m # 0
    <3>1. PICK k \in Nat : m = k + 1
      <4>1. m - 1 \in Nat /\ m = (m - 1) + 1
        BY <2>3, <2>5
      <4> QED BY <4>1
    <3>2. BestOf(s, loop[k], k)
      BY <2>3, <3>1
    <3>3. loop[k + 1] = IF Better(s, k + 1, loop[k]) THEN k + 1 ELSE loop[k]
      <4>1. k + 1 \in 0 .. n /\ k + 1 # 0 /\ (k + 1) - 1 = k
        BY <2>3, <3>1
      <4> QED BY <1>8, <4>1
    <3>4. BestOf(s, loop[k + 1], k + 1)
      BY <3>2, <3>3, OneMoreSlice
    <3> QED BY <2>3, <3>1, <3>4
  <2> QED BY <2>4, <2>5
<1>11. n \in 0 .. n
  OBVIOUS
<1> QED BY <1>9, <1>10, <1>11

\* The slice that is chosen.
LEMMA ChosenSuits ==
  ASSUME NEW n \in Nat, slices \in [1 .. n -> Archs], BestSlice(slices) # 0
  PROVE  BestSlice(slices) \in Suits
<1>1. Len(slices) = n /\ DOMAIN slices = 1 .. n
  <2>1. slices \in Seq(Archs)
    BY SeqDef
  <2> QED BY <2>1, LenProperties
<1>2. PICK b : b = BestSlice(slices)
  OBVIOUS
<1>3. BestOf(slices, b, n) /\ b # 0
  BY <1>1, <1>2, BestIsBest
<1>4. b \in 1 .. n
  BY <1>3 DEF BestOf
<1> QED BY <1>1, <1>2, <1>3, <1>4 DEF BestOf, Suits, OfArch

-----------------------------------------------------------------------------
(* Loading: the commands                                                   *)

Pz == segment("__PAGEZERO", 0, 1, 0, FALSE)
TextAt(b) == segment("__TEXT", b, 1, 1, FALSE)
DataOfApp == segment("__DATA", 2, 2, 1, TRUE)
DataAt(b) == segment("__DATA", b, 1, 0, TRUE)
Sy == other("symtab")
Dy == other("dysymtab")
Ec == other("encryption")
En == other("entry")
Th == other("thread")
Db == other("dylib")
Di == other("dyldinfo")

\* A binary, with its text t and its data w: an executable, or a library.
App(f, t, w) ==
    /\ t = TextAt(1) /\ w = DataOfApp /\ Pz \in f.cmds
    /\ f.cmds \subseteq {Pz, t, w, Sy, Dy, Ec, En, Th, Db, Di}
    /\ ~(En \in f.cmds /\ Th \in f.cmds)
Library(f, t, w) == \E b \in LibBases : t = TextAt(b) /\ w = DataAt(b + 1) /\ f.cmds = {t, w, Sy, Dy}
Binary(f, t, w) ==
    /\ f.split \in BOOLEAN /\ {t, w, Sy, Dy} \subseteq f.cmds
    /\ App(f, t, w) \/ Library(f, t, w)

\* The commands that are not segments.
LEMMA OtherCommands ==
  /\ Sy.cmd = "symtab" /\ Dy.cmd = "dysymtab" /\ Ec.cmd = "encryption" /\ En.cmd = "entry"
  /\ Th.cmd = "thread" /\ Db.cmd = "dylib" /\ Di.cmd = "dyldinfo"
  /\ \A c \in {Sy, Dy, Ec, En, Th, Db, Di} : c.cmd # "segment" /\ c.name = "-"
BY DEF Sy, Dy, Ec, En, Th, Db, Di, other, command

\* And those that are.
LEMMA SegmentCommands ==
  ASSUME NEW f, NEW t, NEW w, Binary(f, t, w)
  PROVE  /\ Pz.cmd = "segment" /\ Pz.name = "__PAGEZERO" /\ Pz.base = 0 /\ Pz.pages = 1 /\ Pz.filled = 0 /\ ~Pz.rw
         /\ t.cmd = "segment" /\ t.name = "__TEXT" /\ t.base \in Nat /\ t.pages = 1 /\ t.filled = 1 /\ ~t.rw
         /\ w.cmd = "segment" /\ w.name = "__DATA" /\ w.base = t.base + 1 /\ w.rw
         /\ w.pages \in {1, 2} /\ w.filled \in {0, 1}
<1>1. CASE App(f, t, w)
  BY <1>1 DEF App, Pz, TextAt, DataOfApp, segment, command
<1>2. CASE Library(f, t, w)
  BY <1>2, MachOAssumption DEF Library, Pz, TextAt, DataAt, segment, command
<1> QED BY <1>1, <1>2 DEF Binary

\* What a binary has, and in which order the linker writes it.
LEMMA BinaryHas ==
  ASSUME NEW f, NEW t, NEW w, Binary(f, t, w)
  PROVE  /\ \A c \in f.cmds : c \in {Pz, t, w, Sy, Dy, Ec, En, Th, Db, Di}
         /\ Pz \in f.cmds => t.base = 1 /\ w = DataOfApp
         /\ \A c \in {Ec, En, Th, Db, Di} : c \in f.cmds => Pz \in f.cmds
         /\ Pz \in f.cmds => Before(Pz, t)
         /\ Before(t, w)
         /\ \A c \in {Pz, t, w}, d \in {Sy, Dy, En, Di} : Before(c, d)
         /\ Before(Sy, Dy)
<1>1. Pz.base = 0 /\ t.base \in Nat /\ w.base = t.base + 1 /\ \A c \in {Pz, t, w} : c.cmd = "segment"
  BY SegmentCommands
<1>2. \A c \in {Pz, t, w} : \A d \in {Sy, Dy, Ec, En, Th, Db, Di} : c # d
  BY <1>1, OtherCommands
<1>3. ASSUME Library(f, t, w) PROVE f.cmds = {t, w, Sy, Dy} /\ Pz # t /\ Pz # w
  BY <1>3, SegmentCommands DEF Library
<1>4. Pz \in f.cmds => App(f, t, w)
  BY <1>2, <1>3 DEF Binary
<1>5. Pz \in f.cmds => t.base = 1 /\ w = DataOfApp
  BY <1>4 DEF App, TextAt, segment, command
<1>6. \A c \in {Pz, t, w}, d \in {Sy, Dy, En, Di} : Before(c, d)
  BY <1>1, OtherCommands DEF Before
<1>7. Before(Sy, Dy)
  BY OtherCommands DEF Before
<1>8. Before(t, w) /\ (Pz \in f.cmds => Before(Pz, t))
  BY <1>1, <1>5 DEF Before
<1>9. \A c \in f.cmds : c \in {Pz, t, w, Sy, Dy, Ec, En, Th, Db, Di}
  BY <1>3 DEF Binary, App
<1>10. ASSUME NEW c \in {Ec, En, Th, Db, Di}, c \in f.cmds PROVE Pz \in f.cmds
  <2>1. c \notin {t, w, Sy, Dy}
    BY <1>2, OtherCommands
  <2>2. App(f, t, w)
    BY <1>3, <1>10, <2>1 DEF Binary
  <2> QED BY <2>2 DEF App
<1> QED BY <1>5, <1>6, <1>7, <1>8, <1>9, <1>10

\* All commands are different.
LEMMA CommandsDiffer ==
  ASSUME NEW f, NEW t, NEW w, Binary(f, t, w)
  PROVE  /\ t # Pz /\ t # w /\ w # Pz
         /\ \A c \in {Pz, t, w} : c \notin {Sy, Dy, Ec, En, Th, Db, Di}
         /\ Sy \notin {Dy, Ec, En, Th, Db, Di} /\ Dy \notin {Ec, En, Th, Db, Di}
         /\ Ec \notin {En, Th, Db, Di} /\ En \notin {Th, Db, Di} /\ Th \notin {Db, Di} /\ Db # Di
<1>1. t.name = "__TEXT" /\ w.name = "__DATA" /\ Pz.name = "__PAGEZERO"
  BY SegmentCommands
<1>2. \A c \in {Sy, Dy, Ec, En, Th, Db, Di} : c.name = "-"
  BY OtherCommands
<1>3. t # Pz /\ t # w /\ w # Pz
  BY <1>1
<1>4. \A c \in {Pz, t, w} : c \notin {Sy, Dy, Ec, En, Th, Db, Di}
  BY <1>1, <1>2
<1> QED BY <1>3, <1>4, OtherCommands

\* What has been loaded of a binary is what comes first in it.
Ordered(f, D) == D \subseteq f.cmds /\ \A c \in D, d \in f.cmds \ D : ~Before(d, c)

\* So the segments are loaded by address, and before what refers to them.
LEMMA OrderedHas ==
  ASSUME NEW f, NEW t, NEW w, Binary(f, t, w), NEW D, Ordered(f, D)
  PROVE  /\ t \in D /\ Pz \in f.cmds => Pz \in D
         /\ w \in D => t \in D
         /\ \A c \in {Sy, Dy, En, Di} : c \in D => t \in D /\ w \in D /\ (Pz \in f.cmds => Pz \in D)
         /\ Dy \in D => Sy \in D
BY BinaryHas DEF Ordered, Binary

\* One more command is loaded.
LEMMA OrderedMore ==
  ASSUME NEW f, NEW D, Ordered(f, D), NEW c \in f.cmds \ D, \A d \in f.cmds \ D : ~Before(d, c)
  PROVE  Ordered(f, D \cup {c})
BY DEF Ordered

-----------------------------------------------------------------------------
(* Loading: what is loaded of a binary when the commands D have been dealt  *)
(* with                                                                     *)

First(f, t) == IF Pz \in f.cmds THEN 0 ELSE t.base
Home(f, t, w) == IF f.split THEN w.base ELSE First(f, t)
BasesOf(t, w, D) ==
    IF Pz \in D THEN IF w \in D THEN <<0, t.base, w.base>> ELSE IF t \in D THEN <<0, t.base>> ELSE <<0>>
    ELSE IF w \in D THEN <<t.base, w.base>> ELSE IF t \in D THEN <<t.base>> ELSE <<>>
RelocationsOf(f, t, w, D) ==
    (IF Dy \in D THEN {<<Home(f, t, w), "external">>, <<Home(f, t, w), "prebound">>} ELSE {})
      \cup (IF Di \in D THEN {<<w.base, "bind">>} ELSE {})
LoadedOf(f, t, w, D) ==
    [done |-> D, bases |-> BasesOf(t, w, D),
     firstBase |-> IF Pz \in D THEN 0 ELSE IF t \in D THEN t.base ELSE none,
     firstRw |-> IF w \in D THEN w.base ELSE none,
     text |-> IF t \in D THEN t.base ELSE none,
     symbols |-> Sy \in D, exports |-> Sy \in D, relocations |-> RelocationsOf(f, t, w, D),
     entry |-> IF En \in D \/ Th \in D THEN 1 ELSE none, dylibs |-> Db \in D]

\* The guest memory, that was m before this binary.
MemOf(f, t, w, D, m) ==
    [p \in Pages |-> IF Dy \in D /\ p = Home(f, t, w) THEN "relocated"
                     ELSE IF \/ t \in D /\ p = t.base
                             \/ w \in D /\ p \in w.base .. w.base + w.filled - 1 THEN "file"
                     ELSE m[p]]
ReservedOf(t, w, D, taken) == taken \cup UNION {PagesOf(c) : c \in D \cap {Pz, t, w}}

AtCommand(f, t, w, D, m, taken) ==
    /\ file = f /\ loaded = LoadedOf(f, t, w, D) /\ Ordered(f, D) /\ Ec \notin D
    /\ mem = MemOf(f, t, w, D, m) /\ reserved = ReservedOf(t, w, D, taken)
    /\ Pz \in f.cmds \ D => nullSize = 0
ClearOf(f, t, w, taken) == \A c \in f.cmds \cap {Pz, t, w} : PagesOf(c) \cap taken = {}

\* The pages of the segments are different.
LEMMA SegmentsApart ==
  ASSUME NEW f, NEW t, NEW w, Binary(f, t, w)
  PROVE  /\ PagesOf(t) = {t.base} /\ PagesOf(t) \cap PagesOf(w) = {}
         /\ Pz \in f.cmds => PagesOf(Pz) = {0} /\ PagesOf(Pz) \cap (PagesOf(t) \cup PagesOf(w)) = {}
         /\ t.base .. t.base + t.filled - 1 = {t.base}
         /\ w.base # t.base /\ w.base # none /\ t.base # none
         /\ w.base .. w.base + w.filled - 1 = IF w.filled = 1 THEN {w.base} ELSE {}
<1>1. PICK b \in Nat : b = t.base
  BY SegmentCommands
<1>2. w.base = b + 1 /\ t.pages = 1 /\ t.filled = 1 /\ w.pages \in {1, 2} /\ w.filled \in {0, 1}
  BY <1>1, SegmentCommands
<1>3. PagesOf(t) = {b} /\ t.base .. t.base + t.filled - 1 = {b}
  BY <1>1, <1>2 DEF PagesOf
<1>4. PagesOf(w) = IF w.pages = 1 THEN {b + 1} ELSE {b + 1, b + 2}
  <2>1. CASE w.pages = 1
    <3>1. PagesOf(w) = b + 1 .. b + 1 + 1 - 1
      BY <1>2, <2>1 DEF PagesOf
    <3>2. b + 1 .. b + 1 + 1 - 1 = {b + 1}
      OBVIOUS
    <3> QED BY <2>1, <3>1, <3>2
  <2>2. CASE w.pages = 2
    <3>1. PagesOf(w) = b + 1 .. b + 1 + 2 - 1
      BY <1>2, <2>2 DEF PagesOf
    <3>2. b + 1 .. b + 1 + 2 - 1 = {b + 1, b + 2}
      OBVIOUS
    <3> QED BY <2>2, <3>1, <3>2
  <2> QED BY <1>2, <2>1, <2>2
<1>5. w.base .. w.base + w.filled - 1 = IF w.filled = 1 THEN {w.base} ELSE {}
  <2>1. CASE w.filled = 1
    <3>1. b + 1 .. b + 1 + 1 - 1 = {b + 1}
      OBVIOUS
    <3> QED BY <1>2, <2>1, <3>1
  <2>2. CASE w.filled = 0
    <3>1. b + 1 .. b + 1 + 0 - 1 = {}
      OBVIOUS
    <3> QED BY <1>2, <2>2, <3>1
  <2> QED BY <1>2, <2>1, <2>2
<1>6. Pz \in f.cmds => PagesOf(Pz) = {0} /\ b = 1
  <2>1. Pz.base = 0 /\ Pz.pages = 1
    BY SegmentCommands
  <2>2. PagesOf(Pz) = {0}
    BY <2>1 DEF PagesOf
  <2> QED BY <1>1, <2>2, BinaryHas
<1> QED BY <1>1, <1>2, <1>3, <1>4, <1>5, <1>6 DEF none

\* A segment: its pages are free.
MakesRoom(f, t, w, D, taken, c) ==
    /\ PagesOf(c) \cap ReservedOf(t, w, D, taken) = {}
    /\ ReservedOf(t, w, D \cup {c}, taken) = ReservedOf(t, w, D, taken) \cup PagesOf(c)

\* That holds in the order of the file.
LEMMA SegmentFree ==
  ASSUME NEW f, NEW t, NEW w, Binary(f, t, w), NEW D, NEW taken, ClearOf(f, t, w, taken), Ordered(f, D),
         NEW c \in {Pz, t, w}, c \in f.cmds \ D
  PROVE  MakesRoom(f, t, w, D, taken, c)
<1>1. \A d \in D \cap {Pz, t, w} : d # c /\ d \in f.cmds
  BY DEF Ordered
<1>2. \A d \in D \cap {Pz, t, w} : PagesOf(c) \cap PagesOf(d) = {}
  <2>1. /\ PagesOf(t) \cap PagesOf(w) = {}
        /\ Pz \in f.cmds => PagesOf(Pz) \cap PagesOf(t) = {} /\ PagesOf(Pz) \cap PagesOf(w) = {}
    BY SegmentsApart
  <2>2. PICK A, B, C : A = PagesOf(Pz) /\ B = PagesOf(t) /\ C = PagesOf(w)
    OBVIOUS
  <2>3. SUFFICES ASSUME NEW d \in D \cap {Pz, t, w} PROVE PagesOf(c) \cap PagesOf(d) = {}
    OBVIOUS
  <2>4. d # c /\ d \in f.cmds
    BY <1>1
  <2>5. CASE c = Pz
    BY <2>1, <2>4, <2>5
  <2>6. CASE c = t
    BY <2>1, <2>4, <2>6
  <2>7. CASE c = w
    BY <2>1, <2>4, <2>7
  <2> QED BY <2>5, <2>6, <2>7
<1>3. PagesOf(c) \cap taken = {}
  BY DEF ClearOf
<1>4. (D \cup {c}) \cap {Pz, t, w} = (D \cap {Pz, t, w}) \cup {c}
  OBVIOUS
<1> QED BY <1>2, <1>3, <1>4 DEF ReservedOf, MakesRoom

\* Short sequences.
LEMMA AppendedThree ==
  ASSUME NEW S, NEW a \in S, NEW b \in S, NEW c \in S
  PROVE  Append(<<a>>, b) = <<a, b>> /\ Append(<<a, b>>, c) = <<a, b, c>>
<1>1. /\ <<a, b>> \in Seq(S) /\ <<a, b, c>> \in Seq(S)
      /\ Append(<<>>, a) = <<a>> /\ Append(<<a>>, b) = <<a, b>>
      /\ Append(<<a, b>>, c) = <<a, b, c>>
  BY Appended
<1> QED BY <1>1

\* And shorter ones.
LEMMA AppendedTwo ==
  ASSUME NEW S, NEW a \in S, NEW b \in S
  PROVE  Append(<<>>, a) = <<a>> /\ Append(<<a>>, b) = <<a, b>>
<1>1. Append(<<a>>, b) = <<a, b>> /\ Append(<<a, b>>, b) = <<a, b, b>>
  BY AppendedThree
<1> QED BY <1>1

\* Loading a segment.
LEMMA SegmentLoads ==
  ASSUME NEW f, NEW t, NEW w, Binary(f, t, w), NEW D, NEW m, NEW taken, ClearOf(f, t, w, taken),
         AtCommand(f, t, w, D, m, taken), NEW c \in {Pz, t, w}, c \in f.cmds \ D,
         Ordered(f, D \cup {c}), LoadSegment(c), file' = file
  PROVE  AtCommand(f, t, w, D \cup {c}, m, taken)' /\ outcome' = outcome
<1> DEFINE E == D \cup {c}
<1>1. /\ file = f /\ loaded = LoadedOf(f, t, w, D) /\ Ordered(f, D) /\ Ec \notin D
      /\ mem = MemOf(f, t, w, D, m) /\ reserved = ReservedOf(t, w, D, taken)
      /\ Pz \in f.cmds \ D => nullSize = 0
  BY DEF AtCommand
<1>2. /\ Pz.name = "__PAGEZERO" /\ Pz.base = 0 /\ Pz.pages = 1 /\ ~Pz.rw
      /\ t.name = "__TEXT" /\ t.base \in Nat /\ ~t.rw
      /\ w.name = "__DATA" /\ w.rw
  BY SegmentCommands
<1>3. /\ t # Pz /\ t # w /\ w # Pz /\ c \notin {Sy, Dy, Ec, En, Th, Db, Di}
  BY CommandsDiffer
<1>4. /\ Dy \notin D /\ Sy \notin D /\ En \notin D /\ Di \notin D
      /\ c = Pz => t \notin D /\ w \notin D
      /\ c = t => w \notin D /\ (Pz \in f.cmds => Pz \in D)
      /\ c = w => t \in D /\ (Pz \in f.cmds => Pz \in D)
  <2>1. /\ t \in D /\ Pz \in f.cmds => Pz \in D
        /\ w \in D => t \in D
        /\ \A x \in {Sy, Dy, En, Di} : x \in D => t \in D /\ w \in D /\ (Pz \in f.cmds => Pz \in D)
    BY <1>1, OrderedHas
  <2>2. /\ t \in E /\ Pz \in f.cmds => Pz \in E
        /\ w \in E => t \in E
    BY OrderedHas
  <2> QED BY <1>3, <2>1, <2>2
<1>5. Pz \in D => Pz \in f.cmds
  BY <1>1 DEF Ordered
<1>6. /\ t.base # none /\ w.base # none /\ t.base # w.base
      /\ t.base .. t.base + t.filled - 1 = {t.base}
  BY SegmentsApart
<1>7. /\ Append(<<>>, t.base) = <<t.base>> /\ Append(<<0>>, t.base) = <<0, t.base>>
       /\ Append(<<t.base>>, w.base) = <<t.base, w.base>>
       /\ Append(<<0, t.base>>, w.base) = <<0, t.base, w.base>>
  <2>1. w.base \in Nat
    BY SegmentCommands
  <2>2. PICK b, d : b = t.base /\ d = w.base
    OBVIOUS
  <2>3. PICK N, z : N = Nat /\ z = 0
    OBVIOUS
  <2>4. z \in N /\ b \in N /\ d \in N
    BY <1>2, <2>1, <2>2, <2>3
  <2>5. Append(<<>>, b) = <<b>> /\ Append(<<b>>, d) = <<b, d>>
    BY <2>4, AppendedTwo
  <2>6. Append(<<z>>, b) = <<z, b>> /\ Append(<<z, b>>, d) = <<z, b, d>>
    BY <2>4, AppendedThree
  <2> QED BY <2>2, <2>3, <2>5, <2>6
<1>8. PagesOf(c) \cap reserved = {} /\ reserved \cup PagesOf(c) = ReservedOf(t, w, E, taken)
  <2>1. ClearOf(f, t, w, taken) /\ Ordered(f, D) /\ c \in f.cmds \ D
    BY <1>1
  <2>2. c \in {Pz, t, w} /\ Binary(f, t, w)
    OBVIOUS
  <2>3. MakesRoom(f, t, w, D, taken, c)
    BY <2>1, <2>2, SegmentFree
  <2> QED BY <1>1, <2>3 DEF MakesRoom
<1>9. /\ loaded.text = (IF t \in D THEN t.base ELSE none)
      /\ loaded.firstRw = (IF w \in D THEN w.base ELSE none)
      /\ loaded.firstBase = (IF Pz \in D THEN 0 ELSE IF t \in D THEN t.base ELSE none)
      /\ loaded.bases = BasesOf(t, w, D)
  BY <1>1 DEF LoadedOf
<1>10. outcome' = outcome /\ reserved' = ReservedOf(t, w, E, taken)
  BY <1>1, <1>2, <1>8, <1>9 DEF LoadSegment
<1>11. nullSize' = (IF c = Pz THEN Pz.pages ELSE nullSize)
  BY <1>2 DEF LoadSegment
<1>12. mem' = MemOf(f, t, w, E, m)
  <2>1. PICK load \in BOOLEAN : load = (c.name \notin {"__PAGEZERO", "__LINKEDIT"})
    BY Zenon
  <2>2. load <=> c # Pz
    BY <1>2, <2>1
  <2>3. mem' = [p \in Pages |-> IF load /\ p \in c.base .. c.base + c.filled - 1 THEN "file" ELSE mem[p]]
    BY <2>1 DEF LoadSegment
  <2>4. \A p \in Pages : mem[p] = IF \/ t \in D /\ p = t.base
                                     \/ w \in D /\ p \in w.base .. w.base + w.filled - 1 THEN "file"
                                  ELSE m[p]
    BY <1>1, <1>4 DEF MemOf
  <2>5. MemOf(f, t, w, E, m) = [p \in Pages |-> IF \/ t \in E /\ p = t.base
                                                   \/ w \in E /\ p \in w.base .. w.base + w.filled - 1 THEN "file"
                                                ELSE m[p]]
    BY <1>3, <1>4 DEF MemOf
  <2>6. PICK F : F = w.base .. w.base + w.filled - 1
    OBVIOUS
  <2>7. CASE c = Pz
    BY <1>3, <2>2, <2>3, <2>4, <2>5, <2>7
  <2>8. CASE c = t
    BY <1>3, <1>6, <2>2, <2>3, <2>4, <2>5, <2>6, <2>8
  <2>9. CASE c = w
    BY <1>3, <1>6, <2>2, <2>3, <2>4, <2>5, <2>6, <2>9
  <2> QED BY <2>7, <2>8, <2>9
<1>13. loaded' = LoadedOf(f, t, w, E)
  <2>1. loaded' = [loaded EXCEPT !.done = @ \cup {c}, !.bases = Append(@, c.base),
                                 !.firstBase = IF @ = none THEN c.base ELSE @,
                                 !.firstRw = IF @ = none /\ c.rw THEN c.base ELSE @,
                                 !.text = IF c.name = "__TEXT" THEN c.base ELSE @]
    BY DEF LoadSegment
  <2>2. Append(BasesOf(t, w, D), c.base) = BasesOf(t, w, E)
    <3>1. CASE c = Pz
      BY <1>2, <1>3, <1>4, <3>1 DEF BasesOf
    <3>2. CASE c = t
      <4>1. Pz \in E <=> Pz \in D
        BY <1>3, <3>2
      <4>2. t \in E /\ w \notin E
        BY <1>3, <1>4, <3>2
      <4> QED BY <1>4, <3>2, <4>1, <4>2, <1>7 DEF BasesOf
    <3>3. CASE c = w
      <4>1. Pz \in E <=> Pz \in D
        BY <1>3, <3>3
      <4>2. w \in E
        BY <3>3
      <4> QED BY <1>4, <3>3, <4>1, <4>2, <1>7 DEF BasesOf
    <3> QED BY <3>1, <3>2, <3>3
  <2>3. RelocationsOf(f, t, w, E) = RelocationsOf(f, t, w, D)
    BY <1>3 DEF RelocationsOf
  <2>4. /\ (IF loaded.firstBase = none THEN c.base ELSE loaded.firstBase)
             = IF Pz \in E THEN 0 ELSE IF t \in E THEN t.base ELSE none
        /\ (IF loaded.firstRw = none /\ c.rw THEN c.base ELSE loaded.firstRw) = IF w \in E THEN w.base ELSE none
        /\ (IF c.name = "__TEXT" THEN c.base ELSE loaded.text) = IF t \in E THEN t.base ELSE none
    <3>1. 0 # none
      BY DEF none
    <3>2. CASE c = Pz
      BY <1>2, <1>3, <1>4, <1>9, <3>1, <3>2
    <3>3. CASE c = t
      BY <1>2, <1>3, <1>4, <1>6, <1>9, <3>1, <3>3
    <3>4. CASE c = w
      BY <1>2, <1>3, <1>4, <1>5, <1>6, <1>9, <3>1, <3>4
    <3> QED BY <3>2, <3>3, <3>4
  <2>5. /\ Sy \in E <=> Sy \in D
        /\ En \in E \/ Th \in E <=> En \in D \/ Th \in D
        /\ Db \in E <=> Db \in D
    BY <1>3
  <2>6. PICK bs, fb, fw, tx : /\ bs = BasesOf(t, w, E)
                              /\ fb = IF Pz \in E THEN 0 ELSE IF t \in E THEN t.base ELSE none
                              /\ fw = IF w \in E THEN w.base ELSE none
                              /\ tx = IF t \in E THEN t.base ELSE none
    OBVIOUS
  <2>7. loaded.done = D
    BY <1>1 DEF LoadedOf
  <2>8. loaded' = [loaded EXCEPT !.done = E, !.bases = bs, !.firstBase = fb, !.firstRw = fw, !.text = tx]
    BY <1>9, <2>1, <2>2, <2>4, <2>6, <2>7
  <2>9. LoadedOf(f, t, w, E) = [done |-> E, bases |-> bs, firstBase |-> fb, firstRw |-> fw, text |-> tx,
                                symbols |-> Sy \in D, exports |-> Sy \in D,
                                relocations |-> RelocationsOf(f, t, w, D),
                                entry |-> IF En \in D \/ Th \in D THEN 1 ELSE none, dylibs |-> Db \in D]
    BY <2>3, <2>5, <2>6 DEF LoadedOf
  <2> HIDE DEF E
  <2> QED BY <1>1, <2>8, <2>9 DEF LoadedOf
<1>14. Pz \in f.cmds \ E => nullSize' = 0
  BY <1>1, <1>11
<1>15. Ec \notin E
  BY <1>1, <1>3
<1> QED BY <1>1, <1>10, <1>12, <1>13, <1>14, <1>15 DEF AtCommand

\* The segments, their pages and addresses stay.
SegmentsStay(t, w, D, taken, E) ==
    /\ ReservedOf(t, w, E, taken) = ReservedOf(t, w, D, taken) /\ BasesOf(t, w, E) = BasesOf(t, w, D)
    /\ t \in E <=> t \in D
    /\ w \in E <=> w \in D
    /\ Pz \in E <=> Pz \in D

\* They do when a command that is no segment is dealt with.
LEMMA ReservesNothing ==
  ASSUME NEW f, NEW t, NEW w, Binary(f, t, w), NEW D, NEW taken, NEW c \in {Sy, Dy, Ec, En, Th, Db, Di}
  PROVE  SegmentsStay(t, w, D, taken, D \cup {c})
<1>1. c \notin {Pz, t, w}
  BY CommandsDiffer
<1>2. (D \cup {c}) \cap {Pz, t, w} = D \cap {Pz, t, w}
  BY <1>1
<1> QED BY <1>1, <1>2 DEF ReservedOf, BasesOf, SegmentsStay

\* What is left to show of such a command: the file, the pages reserved and
\* the order stay as they should.
LEMMA KeptByOthers ==
  ASSUME NEW f, NEW t, NEW w, Binary(f, t, w), NEW D, NEW m, NEW taken,
         AtCommand(f, t, w, D, m, taken), NEW c \in {Sy, Dy, En, Th, Db, Di}, c \in f.cmds \ D,
         Ordered(f, D \cup {c}), file' = file, UNCHANGED <<reserved, nullSize>>,
         loaded' = LoadedOf(f, t, w, D \cup {c}), mem' = MemOf(f, t, w, D \cup {c}, m)
  PROVE  AtCommand(f, t, w, D \cup {c}, m, taken)'
<1>1. reserved = ReservedOf(t, w, D, taken) /\ file = f /\ Ec \notin D /\ (Pz \in f.cmds \ D => nullSize = 0)
  BY DEF AtCommand
<1>2. SegmentsStay(t, w, D, taken, D \cup {c})
  BY ReservesNothing
<1>3. Ec \notin D \cup {c}
  BY <1>1, CommandsDiffer
<1> QED BY <1>1, <1>2, <1>3 DEF AtCommand, SegmentsStay

\* The memory after a command that copies nothing.
LEMMA SameMemory ==
  ASSUME NEW f, NEW t, NEW w, Binary(f, t, w), NEW D, NEW m, NEW c \in {Sy, En, Th, Db, Di}
  PROVE  MemOf(f, t, w, D \cup {c}, m) = MemOf(f, t, w, D, m)
<1>1. c # Dy
  BY CommandsDiffer
<1>2. SegmentsStay(t, w, D, {}, D \cup {c})
  BY ReservesNothing
<1> QED BY <1>1, <1>2 DEF MemOf, SegmentsStay

\* The symbols.
LEMMA SymTabLoads ==
  ASSUME NEW f, NEW t, NEW w, Binary(f, t, w), NEW D, NEW m, NEW taken,
         AtCommand(f, t, w, D, m, taken), Sy \in f.cmds \ D, Ordered(f, D \cup {Sy}), LoadSymTab(Sy), file' = file
  PROVE  AtCommand(f, t, w, D \cup {Sy}, m, taken)' /\ outcome' = outcome
<1> DEFINE E == D \cup {Sy}
<1>1. loaded = LoadedOf(f, t, w, D) /\ mem = MemOf(f, t, w, D, m)
  BY DEF AtCommand
<1>2. /\ loaded' = [loaded EXCEPT !.done = @ \cup {Sy}, !.symbols = TRUE, !.exports = TRUE]
      /\ UNCHANGED <<mem, reserved, nullSize, outcome>>
  BY DEF LoadSymTab
<1>3. /\ BasesOf(t, w, E) = BasesOf(t, w, D)
      /\ t \in E <=> t \in D
      /\ w \in E <=> w \in D
      /\ Pz \in E <=> Pz \in D
  <2>1. SegmentsStay(t, w, D, taken, E)
    BY ReservesNothing
  <2> QED BY <2>1 DEF SegmentsStay
<1>4. /\ Dy \in E <=> Dy \in D
      /\ Di \in E <=> Di \in D
      /\ En \in E \/ Th \in E <=> En \in D \/ Th \in D
      /\ Db \in E <=> Db \in D
      /\ Sy \in E
  BY CommandsDiffer
<1>5. RelocationsOf(f, t, w, E) = RelocationsOf(f, t, w, D)
  BY <1>4 DEF RelocationsOf
<1>6. loaded' = LoadedOf(f, t, w, E)
  <2> HIDE DEF E
  <2>1. PICK bs, fb, fw, tx : /\ bs = BasesOf(t, w, D)
                              /\ fb = IF Pz \in D THEN 0 ELSE IF t \in D THEN t.base ELSE none
                              /\ fw = IF w \in D THEN w.base ELSE none
                              /\ tx = IF t \in D THEN t.base ELSE none
    OBVIOUS
  <2>2. loaded = [done |-> D, bases |-> bs, firstBase |-> fb, firstRw |-> fw, text |-> tx,
                  symbols |-> Sy \in D, exports |-> Sy \in D, relocations |-> RelocationsOf(f, t, w, D),
                  entry |-> IF En \in D \/ Th \in D THEN 1 ELSE none, dylibs |-> Db \in D]
    BY <1>1, <2>1 DEF LoadedOf
  <2>3. loaded' = [done |-> E, bases |-> bs, firstBase |-> fb, firstRw |-> fw, text |-> tx,
                   symbols |-> TRUE, exports |-> TRUE, relocations |-> RelocationsOf(f, t, w, D),
                   entry |-> IF En \in D \/ Th \in D THEN 1 ELSE none, dylibs |-> Db \in D]
    BY <1>2, <2>2 DEF E
  <2>4. LoadedOf(f, t, w, E) = [done |-> E, bases |-> bs, firstBase |-> fb, firstRw |-> fw, text |-> tx,
                   symbols |-> Sy \in E, exports |-> Sy \in E, relocations |-> RelocationsOf(f, t, w, D),
                   entry |-> IF En \in D \/ Th \in D THEN 1 ELSE none, dylibs |-> Db \in D]
    BY <1>3, <1>4, <1>5, <2>1 DEF LoadedOf
  <2>5. (Sy \in E) = TRUE
    BY <1>4
  <2> QED BY <2>3, <2>4, <2>5
<1>7. mem' = MemOf(f, t, w, E, m)
  <2>1. MemOf(f, t, w, E, m) = MemOf(f, t, w, D, m)
    BY SameMemory
  <2> QED BY <1>1, <1>2, <2>1
<1> QED BY <1>2, <1>6, <1>7, KeptByOthers

\* The relocations, counted from where the file says.
LEMMA DySymTabLoads ==
  ASSUME NEW f, NEW t, NEW w, Binary(f, t, w), NEW D, NEW m, NEW taken,
         AtCommand(f, t, w, D, m, taken), Dy \in f.cmds \ D, Ordered(f, D \cup {Dy}), LoadDySymTab(Dy), file' = file
  PROVE  AtCommand(f, t, w, D \cup {Dy}, m, taken)' /\ outcome' = outcome
<1> DEFINE E == D \cup {Dy}
<1>1. file = f /\ loaded = LoadedOf(f, t, w, D) /\ mem = MemOf(f, t, w, D, m) /\ Ordered(f, D)
  BY DEF AtCommand
<1>2. t \in D /\ w \in D /\ Sy \in D /\ (Pz \in f.cmds <=> Pz \in D)
  <2>1. /\ t \in E /\ w \in E /\ Sy \in E /\ (Pz \in f.cmds => Pz \in E)
    BY OrderedHas
  <2>2. Dy \notin {Pz, t, w, Sy}
    BY CommandsDiffer
  <2>3. Pz \in D => Pz \in f.cmds
    BY <1>1 DEF Ordered
  <2> QED BY <2>1, <2>2, <2>3
<1>3. PICK home : home = Home(f, t, w)
  OBVIOUS
<1>4. RelocBase(loaded, file.split) = home /\ loaded.symbols /\ home # none
  <2>1. /\ loaded.firstRw = w.base /\ loaded.symbols
        /\ loaded.firstBase = IF Pz \in D THEN 0 ELSE t.base
    BY <1>1, <1>2 DEF LoadedOf
  <2>2. w.base # none /\ t.base # none /\ 0 # none
    <3>1. 0 # none
      BY DEF none
    <3> QED BY <3>1, SegmentsApart
  <2> QED BY <1>1, <1>2, <1>3, <2>1, <2>2 DEF RelocBase, Home, First
<1>5. home \in Int
  BY <1>3, SegmentCommands DEF Home, First
<1>6. {<<home + Relocs[k].at, Relocs[k].kind>> : k \in {x \in DOMAIN Relocs : Relocs[x].kind # "own"}}
         = {<<home, "external">>, <<home, "prebound">>}
  <2>1. /\ Relocs[1].at = 0 /\ Relocs[2].at = 0 /\ Relocs[3].at = 0
        /\ Relocs[1].kind = "external" /\ Relocs[2].kind = "own" /\ Relocs[3].kind = "prebound"
        /\ DOMAIN Relocs = {1, 2, 3}
    BY DEF Relocs
  <2>2. {x \in DOMAIN Relocs : Relocs[x].kind # "own"} = {1, 3}
    BY <2>1
  <2>3. home + 0 = home
    BY <1>5
  <2> QED BY <2>1, <2>2, <2>3
<1>7. /\ loaded' = [loaded EXCEPT !.done = @ \cup {Dy},
                                  !.relocations = @ \cup {<<home, "external">>, <<home, "prebound">>}]
      /\ mem' = [mem EXCEPT ![home] = "relocated"]
      /\ UNCHANGED <<reserved, nullSize, outcome>>
  <2>1. ~(~loaded.symbols \/ RelocBase(loaded, file.split) = none)
    BY <1>4
  <2>2. /\ loaded' = [loaded EXCEPT !.done = @ \cup {Dy},
                           !.relocations = @ \cup {<<RelocBase(loaded, file.split) + Relocs[k].at, Relocs[k].kind>> :
                                                   k \in {x \in DOMAIN Relocs : Relocs[x].kind # "own"}}]
        /\ mem' = [mem EXCEPT ![RelocBase(loaded, file.split)] = "relocated"]
        /\ UNCHANGED <<reserved, nullSize, outcome>>
    BY <2>1 DEF LoadDySymTab
  <2> QED BY <1>4, <1>6, <2>2
<1>8. /\ BasesOf(t, w, E) = BasesOf(t, w, D)
      /\ t \in E <=> t \in D
      /\ w \in E <=> w \in D
      /\ Pz \in E <=> Pz \in D
  <2>1. SegmentsStay(t, w, D, taken, E)
    BY ReservesNothing
  <2> QED BY <2>1 DEF SegmentsStay
<1>9. /\ Sy \in E <=> Sy \in D
      /\ Di \in E <=> Di \in D
      /\ En \in E \/ Th \in E <=> En \in D \/ Th \in D
      /\ Db \in E <=> Db \in D
      /\ Dy \in E /\ Dy \notin D
  BY CommandsDiffer
<1>10. RelocationsOf(f, t, w, E) = RelocationsOf(f, t, w, D) \cup {<<home, "external">>, <<home, "prebound">>}
  <2> HIDE DEF E
  <2> QED BY <1>3, <1>9 DEF RelocationsOf
<1>11. loaded' = LoadedOf(f, t, w, E)
  <2> HIDE DEF E
  <2>1. PICK bs, fb, fw, tx : /\ bs = BasesOf(t, w, D)
                              /\ fb = IF Pz \in D THEN 0 ELSE IF t \in D THEN t.base ELSE none
                              /\ fw = IF w \in D THEN w.base ELSE none
                              /\ tx = IF t \in D THEN t.base ELSE none
    OBVIOUS
  <2>2. PICK rs, rt : rs = RelocationsOf(f, t, w, D) /\ rt = RelocationsOf(f, t, w, E)
    OBVIOUS
  <2>3. loaded = [done |-> D, bases |-> bs, firstBase |-> fb, firstRw |-> fw, text |-> tx,
                  symbols |-> Sy \in D, exports |-> Sy \in D, relocations |-> rs,
                  entry |-> IF En \in D \/ Th \in D THEN 1 ELSE none, dylibs |-> Db \in D]
    BY <1>1, <2>1, <2>2 DEF LoadedOf
  <2>4. loaded' = [done |-> E, bases |-> bs, firstBase |-> fb, firstRw |-> fw, text |-> tx,
                   symbols |-> Sy \in D, exports |-> Sy \in D, relocations |-> rt,
                   entry |-> IF En \in D \/ Th \in D THEN 1 ELSE none, dylibs |-> Db \in D]
    BY <1>7, <1>10, <2>2, <2>3 DEF E
  <2>5. LoadedOf(f, t, w, E) = [done |-> E, bases |-> bs, firstBase |-> fb, firstRw |-> fw, text |-> tx,
                   symbols |-> Sy \in D, exports |-> Sy \in D, relocations |-> rt,
                   entry |-> IF En \in D \/ Th \in D THEN 1 ELSE none, dylibs |-> Db \in D]
    BY <1>8, <1>9, <2>1, <2>2 DEF LoadedOf
  <2> QED BY <2>4, <2>5
<1>12. mem' = MemOf(f, t, w, E, m)
  <2> HIDE DEF E
  <2> QED BY <1>1, <1>3, <1>7, <1>8, <1>9 DEF MemOf
<1> QED BY <1>7, <1>11, <1>12, KeptByOthers

\* The entry point.
LEMMA EntryLoads ==
  ASSUME NEW f, NEW t, NEW w, Binary(f, t, w), NEW D, NEW m, NEW taken,
         AtCommand(f, t, w, D, m, taken), NEW c \in {En, Th}, c \in f.cmds \ D, Ordered(f, D \cup {c}),
         LoadEntry(c), file' = file
  PROVE  AtCommand(f, t, w, D \cup {c}, m, taken)' /\ outcome' = outcome
<1> DEFINE E == D \cup {c}
<1>1. loaded = LoadedOf(f, t, w, D) /\ mem = MemOf(f, t, w, D, m) /\ Ordered(f, D)
  BY DEF AtCommand
<1>2. Pz \in f.cmds /\ t.base = 1 /\ ~(En \in f.cmds /\ Th \in f.cmds)
  <2>1. c \in {Ec, En, Th, Db, Di} /\ c \in f.cmds
    OBVIOUS
  <2>2. Pz \in f.cmds /\ t.base = 1
    BY <2>1, BinaryHas
  <2>3. ~Library(f, t, w)
    BY <2>2, CommandsDiffer DEF Library
  <2> QED BY <2>2, <2>3 DEF Binary, App
<1>3. En \notin D /\ Th \notin D
  BY <1>1, <1>2 DEF Ordered
<1>4. En # Th /\ c.cmd = (IF c = En THEN "entry" ELSE "thread")
  BY CommandsDiffer, OtherCommands
<1>5. c = En => t \in D
  <2>1. c = En => t \in E
    BY OrderedHas
  <2> QED BY <2>1, CommandsDiffer
<1>6. loaded.entry = none /\ loaded.text = (IF t \in D THEN 1 ELSE none) /\ 1 # none
  BY <1>1, <1>2, <1>3 DEF LoadedOf, none
<1>7. /\ loaded' = [loaded EXCEPT !.done = @ \cup {c}, !.entry = 1]
      /\ UNCHANGED <<mem, reserved, nullSize, outcome>>
  <2>1. (IF c.cmd = "thread" THEN 1 ELSE loaded.text) = 1
    BY <1>4, <1>5, <1>6
  <2>2. ~(loaded.entry # none \/ (c.cmd = "entry" /\ loaded.text = none))
    BY <1>4, <1>5, <1>6
  <2> QED BY <2>1, <2>2 DEF LoadEntry
<1>8. /\ BasesOf(t, w, E) = BasesOf(t, w, D)
      /\ t \in E <=> t \in D
      /\ w \in E <=> w \in D
      /\ Pz \in E <=> Pz \in D
  <2>1. SegmentsStay(t, w, D, taken, E)
    BY ReservesNothing
  <2> QED BY <2>1 DEF SegmentsStay
<1>9. /\ Sy \in E <=> Sy \in D
      /\ Di \in E <=> Di \in D
      /\ Dy \in E <=> Dy \in D
      /\ Db \in E <=> Db \in D
      /\ En \in E \/ Th \in E
  BY CommandsDiffer
<1>10. RelocationsOf(f, t, w, E) = RelocationsOf(f, t, w, D)
  BY <1>9 DEF RelocationsOf
<1>11. loaded' = LoadedOf(f, t, w, E)
  <2> HIDE DEF E
  <2>1. PICK bs, fb, fw, tx : /\ bs = BasesOf(t, w, D)
                              /\ fb = IF Pz \in D THEN 0 ELSE IF t \in D THEN t.base ELSE none
                              /\ fw = IF w \in D THEN w.base ELSE none
                              /\ tx = IF t \in D THEN t.base ELSE none
    OBVIOUS
  <2>2. PICK rs, en : rs = RelocationsOf(f, t, w, D) /\ en = IF En \in D \/ Th \in D THEN 1 ELSE none
    OBVIOUS
  <2>3. loaded = [done |-> D, bases |-> bs, firstBase |-> fb, firstRw |-> fw, text |-> tx,
                  symbols |-> Sy \in D, exports |-> Sy \in D, relocations |-> rs,
                  entry |-> en, dylibs |-> Db \in D]
    BY <1>1, <2>1, <2>2 DEF LoadedOf
  <2>4. loaded' = [done |-> E, bases |-> bs, firstBase |-> fb, firstRw |-> fw, text |-> tx,
                   symbols |-> Sy \in D, exports |-> Sy \in D, relocations |-> rs,
                   entry |-> 1, dylibs |-> Db \in D]
    BY <1>7, <2>3 DEF E
  <2>5. LoadedOf(f, t, w, E) = [done |-> E, bases |-> bs, firstBase |-> fb, firstRw |-> fw, text |-> tx,
                   symbols |-> Sy \in D, exports |-> Sy \in D, relocations |-> rs,
                   entry |-> 1, dylibs |-> Db \in D]
    BY <1>8, <1>9, <1>10, <2>1, <2>2 DEF LoadedOf
  <2> QED BY <2>4, <2>5
<1>12. mem' = MemOf(f, t, w, E, m)
  <2> HIDE DEF E
  <2> QED BY <1>1, <1>7, <1>8, <1>9 DEF MemOf
<1> QED BY <1>7, <1>11, <1>12, KeptByOthers

\* The bindings in __DATA, the third segment of an executable.
LEMMA DyldInfoLoads ==
  ASSUME NEW f, NEW t, NEW w, Binary(f, t, w), NEW D, NEW m, NEW taken,
         AtCommand(f, t, w, D, m, taken), Di \in f.cmds \ D, Ordered(f, D \cup {Di}), LoadDyldInfo(Di), file' = file
  PROVE  AtCommand(f, t, w, D \cup {Di}, m, taken)' /\ outcome' = outcome
<1> DEFINE E == D \cup {Di}
<1>1. file = f /\ loaded = LoadedOf(f, t, w, D) /\ mem = MemOf(f, t, w, D, m) /\ Ordered(f, D)
  BY DEF AtCommand
<1>2. Pz \in D /\ t \in D /\ w \in D /\ Pz \in f.cmds /\ t \in f.cmds /\ w \in f.cmds
  <2>1. Pz \in f.cmds
    BY BinaryHas
  <2>2. t \in E /\ w \in E /\ Pz \in E
    BY <2>1, OrderedHas
  <2>3. Di \notin {Pz, t, w}
    BY CommandsDiffer
  <2> QED BY <2>1, <2>2, <2>3 DEF Binary
<1>3. {d \in file.cmds : d.cmd = "segment" /\ d.name # "__DATA"} = {Pz, t}
  <2>1. \A c \in f.cmds : c \in {Pz, t, w, Sy, Dy, Ec, En, Th, Db, Di}
    BY BinaryHas
  <2>2. /\ Pz.cmd = "segment" /\ Pz.name = "__PAGEZERO" /\ t.cmd = "segment" /\ t.name = "__TEXT" /\ w.name = "__DATA"
    BY SegmentCommands
  <2>3. \A c \in {Sy, Dy, Ec, En, Th, Db, Di} : c.cmd # "segment"
    BY OtherCommands
  <2> QED BY <1>1, <1>2, <2>1, <2>2, <2>3
<1>4. Cardinality({Pz, t}) + 1 = 3
  <2>1. Pz # t
    BY CommandsDiffer
  <2>2. IsFiniteSet({Pz}) /\ Cardinality({Pz}) = 1
    BY FS_Singleton
  <2>3. PICK S, x : S = {Pz} /\ x = t
    OBVIOUS
  <2>4. x \notin S /\ IsFiniteSet(S) /\ Cardinality(S) = 1 /\ S \cup {x} = {Pz, t}
    BY <2>1, <2>2, <2>3
  <2>5. Cardinality(S \cup {x}) = IF x \in S THEN Cardinality(S) ELSE Cardinality(S) + 1
    BY <2>4, FS_AddElement
  <2> QED BY <2>4, <2>5
<1>5. loaded.bases = <<0, t.base, w.base>>
  BY <1>1, <1>2 DEF LoadedOf, BasesOf
<1>6. 3 \in DOMAIN loaded.bases /\ loaded.bases[3] = w.base
  <2>1. PICK a, b, c : a = 0 /\ b = t.base /\ c = w.base
    OBVIOUS
  <2>2. 3 \in DOMAIN <<a, b, c>> /\ <<a, b, c>>[3] = c
    OBVIOUS
  <2> QED BY <1>5, <2>1, <2>2
<1>7. /\ loaded' = [loaded EXCEPT !.done = @ \cup {Di}, !.relocations = @ \cup {<<w.base, "bind">>}]
      /\ UNCHANGED <<mem, reserved, nullSize, outcome>>
  BY <1>3, <1>4, <1>6 DEF LoadDyldInfo
<1>8. /\ BasesOf(t, w, E) = BasesOf(t, w, D)
      /\ t \in E <=> t \in D
      /\ w \in E <=> w \in D
      /\ Pz \in E <=> Pz \in D
  <2>1. SegmentsStay(t, w, D, taken, E)
    BY ReservesNothing
  <2> QED BY <2>1 DEF SegmentsStay
<1>9. /\ Sy \in E <=> Sy \in D
      /\ Dy \in E <=> Dy \in D
      /\ En \in E \/ Th \in E <=> En \in D \/ Th \in D
      /\ Db \in E <=> Db \in D
      /\ Di \in E /\ Di \notin D
  BY CommandsDiffer
<1>10. RelocationsOf(f, t, w, E) = RelocationsOf(f, t, w, D) \cup {<<w.base, "bind">>}
  <2> HIDE DEF E
  <2> QED BY <1>9 DEF RelocationsOf
<1>11. loaded' = LoadedOf(f, t, w, E)
  <2> HIDE DEF E
  <2>1. PICK bs, fb, fw, tx : /\ bs = BasesOf(t, w, D)
                              /\ fb = IF Pz \in D THEN 0 ELSE IF t \in D THEN t.base ELSE none
                              /\ fw = IF w \in D THEN w.base ELSE none
                              /\ tx = IF t \in D THEN t.base ELSE none
    OBVIOUS
  <2>2. PICK rs, rt : rs = RelocationsOf(f, t, w, D) /\ rt = RelocationsOf(f, t, w, E)
    OBVIOUS
  <2>3. loaded = [done |-> D, bases |-> bs, firstBase |-> fb, firstRw |-> fw, text |-> tx,
                  symbols |-> Sy \in D, exports |-> Sy \in D, relocations |-> rs,
                  entry |-> IF En \in D \/ Th \in D THEN 1 ELSE none, dylibs |-> Db \in D]
    BY <1>1, <2>1, <2>2 DEF LoadedOf
  <2>4. loaded' = [done |-> E, bases |-> bs, firstBase |-> fb, firstRw |-> fw, text |-> tx,
                   symbols |-> Sy \in D, exports |-> Sy \in D, relocations |-> rt,
                   entry |-> IF En \in D \/ Th \in D THEN 1 ELSE none, dylibs |-> Db \in D]
    BY <1>7, <1>10, <2>2, <2>3 DEF E
  <2>5. LoadedOf(f, t, w, E) = [done |-> E, bases |-> bs, firstBase |-> fb, firstRw |-> fw, text |-> tx,
                   symbols |-> Sy \in D, exports |-> Sy \in D, relocations |-> rt,
                   entry |-> IF En \in D \/ Th \in D THEN 1 ELSE none, dylibs |-> Db \in D]
    BY <1>8, <1>9, <2>1, <2>2 DEF LoadedOf
  <2> QED BY <2>4, <2>5
<1>12. mem' = MemOf(f, t, w, E, m)
  <2> HIDE DEF E
  <2> QED BY <1>1, <1>7, <1>8, <1>9 DEF MemOf
<1> QED BY <1>7, <1>11, <1>12, KeptByOthers

\* The libraries it names.
LEMMA DylibLoads ==
  ASSUME NEW f, NEW t, NEW w, Binary(f, t, w), NEW D, NEW m, NEW taken,
         AtCommand(f, t, w, D, m, taken), Db \in f.cmds \ D, Ordered(f, D \cup {Db}), LoadOther(Db), file' = file
  PROVE  AtCommand(f, t, w, D \cup {Db}, m, taken)' /\ outcome' = outcome
<1> DEFINE E == D \cup {Db}
<1>1. loaded = LoadedOf(f, t, w, D) /\ mem = MemOf(f, t, w, D, m)
  BY DEF AtCommand
<1>2. /\ loaded' = [loaded EXCEPT !.done = @ \cup {Db}, !.dylibs = TRUE]
      /\ UNCHANGED <<mem, reserved, nullSize, outcome>>
  <2>1. Db.cmd = "dylib"
    BY OtherCommands
  <2>2. (loaded.dylibs \/ Db.cmd = "dylib") = TRUE
    BY <2>1
  <2> QED BY <2>1, <2>2 DEF LoadOther
<1>3. /\ BasesOf(t, w, E) = BasesOf(t, w, D)
      /\ t \in E <=> t \in D
      /\ w \in E <=> w \in D
      /\ Pz \in E <=> Pz \in D
  <2>1. SegmentsStay(t, w, D, taken, E)
    BY ReservesNothing
  <2> QED BY <2>1 DEF SegmentsStay
<1>4. /\ Sy \in E <=> Sy \in D
      /\ Dy \in E <=> Dy \in D
      /\ Di \in E <=> Di \in D
      /\ En \in E \/ Th \in E <=> En \in D \/ Th \in D
      /\ Db \in E
  BY CommandsDiffer
<1>5. RelocationsOf(f, t, w, E) = RelocationsOf(f, t, w, D)
  BY <1>4 DEF RelocationsOf
<1>6. loaded' = LoadedOf(f, t, w, E)
  <2> HIDE DEF E
  <2>1. PICK bs, fb, fw, tx : /\ bs = BasesOf(t, w, D)
                              /\ fb = IF Pz \in D THEN 0 ELSE IF t \in D THEN t.base ELSE none
                              /\ fw = IF w \in D THEN w.base ELSE none
                              /\ tx = IF t \in D THEN t.base ELSE none
    OBVIOUS
  <2>2. loaded = [done |-> D, bases |-> bs, firstBase |-> fb, firstRw |-> fw, text |-> tx,
                  symbols |-> Sy \in D, exports |-> Sy \in D, relocations |-> RelocationsOf(f, t, w, D),
                  entry |-> IF En \in D \/ Th \in D THEN 1 ELSE none, dylibs |-> Db \in D]
    BY <1>1, <2>1 DEF LoadedOf
  <2>3. loaded' = [done |-> E, bases |-> bs, firstBase |-> fb, firstRw |-> fw, text |-> tx,
                   symbols |-> Sy \in D, exports |-> Sy \in D, relocations |-> RelocationsOf(f, t, w, D),
                   entry |-> IF En \in D \/ Th \in D THEN 1 ELSE none, dylibs |-> TRUE]
    BY <1>2, <2>2 DEF E
  <2>4. LoadedOf(f, t, w, E) = [done |-> E, bases |-> bs, firstBase |-> fb, firstRw |-> fw, text |-> tx,
                   symbols |-> Sy \in D, exports |-> Sy \in D, relocations |-> RelocationsOf(f, t, w, D),
                   entry |-> IF En \in D \/ Th \in D THEN 1 ELSE none, dylibs |-> Db \in E]
    BY <1>3, <1>4, <1>5, <2>1 DEF LoadedOf
  <2>5. (Db \in E) = TRUE
    BY <1>4
  <2> QED BY <2>3, <2>4, <2>5
<1>7. mem' = MemOf(f, t, w, E, m)
  <2> HIDE DEF E
  <2> QED BY <1>1, <1>2, <1>3, <1>4 DEF MemOf
<1> QED BY <1>2, <1>6, <1>7, KeptByOthers

\* What a command leaves: an error, or one more of them dealt with.
CommandDone(f, t, w, m, taken) ==
    outcome' = "error" \/ (outcome' = "loading" /\ \E E : AtCommand(f, t, w, E, m, taken)')

\* So it is for each.
LEMMA CommandKeeps ==
  ASSUME NEW f, NEW t, NEW w, Binary(f, t, w), NEW D, NEW m, NEW taken, ClearOf(f, t, w, taken),
         AtCommand(f, t, w, D, m, taken), "order" \in MachCareful, LoadCommand
  PROVE  CommandDone(f, t, w, m, taken)
<1>1. file = f /\ loaded.done = D /\ Ordered(f, D)
  BY DEF AtCommand, LoadedOf
<1>2. outcome = "loading" /\ file' = file
  BY DEF LoadCommand
<1>3. PICK c \in f.cmds \ D : /\ \A d \in f.cmds \ D : ~Before(d, c)
                              /\ CASE c.cmd = "segment" -> LoadSegment(c)
                                   [] c.cmd = "symtab" -> LoadSymTab(c)
                                   [] c.cmd = "dysymtab" -> LoadDySymTab(c)
                                   [] c.cmd = "dyldinfo" -> LoadDyldInfo(c)
                                   [] c.cmd \in {"entry", "thread"} -> LoadEntry(c)
                                   [] OTHER -> LoadOther(c)
  BY <1>1, Zenon DEF LoadCommand
<1>4. Ordered(f, D \cup {c})
  BY <1>1, <1>3, OrderedMore
<1>5. c \in {Pz, t, w, Sy, Dy, Ec, En, Th, Db, Di}
  BY BinaryHas
<1>6. SUFFICES outcome' = "error" \/ (AtCommand(f, t, w, D \cup {c}, m, taken)' /\ outcome' = outcome)
  BY <1>2 DEF CommandDone
<1>7. /\ Sy.cmd = "symtab" /\ Dy.cmd = "dysymtab" /\ Ec.cmd = "encryption" /\ En.cmd = "entry"
      /\ Th.cmd = "thread" /\ Db.cmd = "dylib" /\ Di.cmd = "dyldinfo"
  BY OtherCommands
<1>8. CASE c \in {Pz, t, w}
  <2>1. c.cmd = "segment"
    BY <1>8, SegmentCommands
  <2>2. LoadSegment(c)
    BY <1>3, <2>1
  <2> QED BY <1>2, <1>4, <1>8, <2>2, SegmentLoads
<1>9. CASE c = Sy
  <2>1. LoadSymTab(Sy)
    BY <1>3, <1>7, <1>9
  <2> QED BY <1>2, <1>4, <1>9, <2>1, SymTabLoads
<1>10. CASE c = Dy
  <2>1. LoadDySymTab(Dy)
    BY <1>3, <1>7, <1>10
  <2> QED BY <1>2, <1>4, <1>10, <2>1, DySymTabLoads
<1>11. CASE c = Di
  <2>1. LoadDyldInfo(Di)
    BY <1>3, <1>7, <1>11
  <2> QED BY <1>2, <1>4, <1>11, <2>1, DyldInfoLoads
<1>12. CASE c = Db
  <2>1. LoadOther(Db)
    BY <1>3, <1>7, <1>12
  <2> QED BY <1>2, <1>4, <1>12, <2>1, DylibLoads
<1>13. CASE c \in {En, Th}
  <2>1. LoadEntry(c)
    BY <1>3, <1>7, <1>13
  <2> QED BY <1>2, <1>4, <1>13, <2>1, EntryLoads
<1>14. CASE c = Ec
  <2>1. LoadOther(c)
    BY <1>3, <1>7, <1>14
  <2> QED BY <1>7, <1>14, <2>1 DEF LoadOther
<1> QED BY <1>5, <1>8, <1>9, <1>10, <1>11, <1>12, <1>13, <1>14

-----------------------------------------------------------------------------
(* Loading: a whole binary                                                 *)

Bin(f, t, w) == [file |-> f, loaded |-> LoadedOf(f, t, w, f.cmds)]
FilledOf(t, w) == {t.base} \cup (w.base .. w.base + w.filled - 1)
zeros == [p \in Pages |-> "zero"]

\* The segments of a binary.
LEMMA BinarySegments ==
  ASSUME NEW f, NEW t, NEW w, Binary(f, t, w)
  PROVE  /\ SegmentsOf(Bin(f, t, w)) = f.cmds \cap {Pz, t, w}
         /\ t \in f.cmds /\ w \in f.cmds /\ Bin(f, t, w).file = f
<1>1. Bin(f, t, w).file = f
  BY DEF Bin
<1>2. Pz.cmd = "segment" /\ t.cmd = "segment" /\ w.cmd = "segment"
  BY SegmentCommands
<1>3. \A c \in {Sy, Dy, Ec, En, Th, Db, Di} : c.cmd # "segment"
  BY OtherCommands
<1>4. \A c \in f.cmds : c \in {Pz, t, w, Sy, Dy, Ec, En, Th, Db, Di}
  BY BinaryHas
<1> QED BY <1>1, <1>2, <1>3, <1>4 DEF SegmentsOf, Binary

\* Its relocations count from where the file says.
LEMMA RelocationsAtHome ==
  ASSUME NEW f, NEW t, NEW w, Binary(f, t, w)
  PROVE  RelocsAt(Bin(f, t, w)) = Home(f, t, w)
<1>1. /\ SegmentsOf(Bin(f, t, w)) = f.cmds \cap {Pz, t, w}
      /\ t \in f.cmds /\ w \in f.cmds /\ Bin(f, t, w).file = f
  BY BinarySegments
<1>2. Pz.base = 0 /\ ~Pz.rw /\ t.base \in Nat /\ ~t.rw /\ w.base = t.base + 1 /\ w.rw
  BY SegmentCommands
<1>3. PICK S, a, b, h : S = f.cmds \cap {Pz, t, w} /\ a = t.base /\ b = w.base /\ h = Home(f, t, w)
  OBVIOUS
<1>4. PICK A : A = {c.base : c \in IF f.split THEN {c \in S : c.rw} ELSE S}
  OBVIOUS
<1>5. RelocsAt(Bin(f, t, w)) = CHOOSE p \in A : \A q \in A : p <= q
  BY <1>1, <1>3, <1>4, Zenon DEF RelocsAt
<1>6. h \in A /\ \A q \in A : q \in Int /\ h <= q
  <2>1. CASE f.split
    <3>1. {c \in S : c.rw} = {w}
      BY <1>1, <1>2, <1>3
    <3>2. A = {b}
      BY <1>3, <1>4, <2>1, <3>1
    <3>3. h = b
      BY <1>3, <2>1 DEF Home
    <3> QED BY <1>2, <1>3, <3>2, <3>3
  <2>2. CASE ~f.split
    <3>1. A = {c.base : c \in S}
      BY <1>4, <2>2
    <3>2. CASE Pz \in f.cmds
      <4>1. S = {Pz, t, w}
        BY <1>1, <1>3, <3>2
      <4>2. A = {0, a, b}
        BY <1>2, <1>3, <3>1, <4>1
      <4>3. h = 0
        BY <1>3, <2>2, <3>2 DEF Home, First
      <4> QED BY <1>2, <1>3, <4>2, <4>3
    <3>3. CASE Pz \notin f.cmds
      <4>1. S = {t, w}
        BY <1>1, <1>3, <3>3
      <4>2. A = {a, b}
        BY <1>2, <1>3, <3>1, <4>1
      <4>3. h = a
        BY <1>3, <2>2, <3>3 DEF Home, First
      <4> QED BY <1>2, <1>3, <4>2, <4>3
    <3> QED BY <3>2, <3>3
  <2> QED BY <2>1, <2>2
<1>7. \A p \in A : (\A q \in A : p <= q) => p = h
  BY <1>6
<1> QED BY <1>3, <1>5, <1>6, <1>7

\* The pages the file fills, and the memory it leaves.
LEMMA WholeBinary ==
  ASSUME NEW f, NEW t, NEW w, Binary(f, t, w), NEW m
  PROVE  /\ UNION {c.base .. c.base + c.filled - 1 : c \in SegmentsOf(Bin(f, t, w))} = FilledOf(t, w)
         /\ MemOf(f, t, w, f.cmds, m) =
              [p \in Pages |-> IF p = Home(f, t, w) THEN "relocated" ELSE IF p \in FilledOf(t, w) THEN "file" ELSE m[p]]
         /\ Dy \in f.cmds
<1>1. /\ SegmentsOf(Bin(f, t, w)) = f.cmds \cap {Pz, t, w} /\ t \in f.cmds /\ w \in f.cmds
  BY BinarySegments
<1>2. Dy \in f.cmds
  BY DEF Binary
<1>3. t.base .. t.base + t.filled - 1 = {t.base} /\ Pz.base .. Pz.base + Pz.filled - 1 = {}
  <2>1. Pz.base = 0 /\ Pz.filled = 0
    BY SegmentCommands
  <2>2. 0 .. 0 + 0 - 1 = {}
    OBVIOUS
  <2> QED BY <2>1, <2>2, SegmentsApart
<1>4. UNION {c.base .. c.base + c.filled - 1 : c \in SegmentsOf(Bin(f, t, w))} = FilledOf(t, w)
  <2>1. PICK R : R = [c \in f.cmds \cap {Pz, t, w} |-> c.base .. c.base + c.filled - 1]
    OBVIOUS
  <2>2. {c.base .. c.base + c.filled - 1 : c \in f.cmds \cap {Pz, t, w}} = {R[c] : c \in f.cmds \cap {Pz, t, w}}
    BY <2>1
  <2>3. PICK F : F = w.base .. w.base + w.filled - 1
    OBVIOUS
  <2>4. R[t] = {t.base} /\ R[w] = F /\ (Pz \in f.cmds => R[Pz] = {})
    BY <1>1, <1>3, <2>1, <2>3
  <2>5. UNION {R[c] : c \in f.cmds \cap {Pz, t, w}} = {t.base} \cup F
    BY <1>1, <2>4
  <2> QED BY <1>1, <2>2, <2>3, <2>5 DEF FilledOf
<1>5. MemOf(f, t, w, f.cmds, m) =
        [p \in Pages |-> IF p = Home(f, t, w) THEN "relocated" ELSE IF p \in FilledOf(t, w) THEN "file" ELSE m[p]]
  <2>1. PICK F : F = w.base .. w.base + w.filled - 1
    OBVIOUS
  <2>2. FilledOf(t, w) = {t.base} \cup F
    BY <2>1 DEF FilledOf
  <2> QED BY <1>1, <1>2, <2>1, <2>2 DEF MemOf
<1> QED BY <1>2, <1>4, <1>5

\* All of that is in its own pages.
LEMMA InItsPages ==
  ASSUME NEW f, NEW t, NEW w, Binary(f, t, w)
  PROVE  /\ Home(f, t, w) \in ReservedOf(t, w, f.cmds, {})
         /\ FilledOf(t, w) \subseteq PagesOf(t) \cup PagesOf(w)
<1>1. /\ PagesOf(t) = {t.base} /\ (Pz \in f.cmds => PagesOf(Pz) = {0})
      /\ w.base .. w.base + w.filled - 1 = IF w.filled = 1 THEN {w.base} ELSE {}
  BY SegmentsApart
<1>2. w.base \in PagesOf(w)
  <2>1. PICK a, n : a = w.base /\ n = w.pages
    OBVIOUS
  <2>2. a \in Int /\ n \in {1, 2}
    BY <2>1, SegmentCommands
  <2>3. a \in a .. a + n - 1
    BY <2>2
  <2> QED BY <2>1, <2>3 DEF PagesOf
<1>3. FilledOf(t, w) \subseteq PagesOf(t) \cup PagesOf(w)
  BY <1>1, <1>2 DEF FilledOf
<1>4. \A c \in f.cmds \cap {Pz, t, w} : PagesOf(c) \subseteq ReservedOf(t, w, f.cmds, {})
  BY DEF ReservedOf
<1>5. t \in f.cmds /\ w \in f.cmds
  BY DEF Binary
<1>6. Home(f, t, w) \in ReservedOf(t, w, f.cmds, {})
  <2>1. CASE f.split
    BY <1>2, <1>4, <1>5, <2>1 DEF Home
  <2>2. CASE ~f.split /\ Pz \in f.cmds
    BY <1>1, <1>4, <2>2 DEF Home, First
  <2>3. CASE ~f.split /\ Pz \notin f.cmds
    BY <1>1, <1>4, <1>5, <2>3 DEF Home, First
  <2> QED BY <2>1, <2>2, <2>3
<1> QED BY <1>3, <1>6

\* A whole binary says what the property asks of each of them.
BinaryAsFiled(b) ==
    /\ \A c \in b.file.cmds : c.cmd # "encryption"
    /\ b.loaded.relocations =
         {<<RelocsAt(b), "external">>, <<RelocsAt(b), "prebound">>}
           \cup {<<c.base, "bind">> : c \in {x \in SegmentsOf(b) : x.name = "__DATA" /\ other("dyldinfo") \in b.file.cmds}}

\* If it is not encrypted.
LEMMA BinaryRight ==
  ASSUME NEW f, NEW t, NEW w, Binary(f, t, w), Ec \notin f.cmds
  PROVE  BinaryAsFiled(Bin(f, t, w))
<1>1. /\ SegmentsOf(Bin(f, t, w)) = f.cmds \cap {Pz, t, w} /\ t \in f.cmds /\ w \in f.cmds
      /\ Bin(f, t, w).file = f
  BY BinarySegments
<1>2. \A c \in f.cmds : c.cmd # "encryption"
  <2>1. \A c \in f.cmds : c \in {Pz, t, w, Sy, Dy, En, Th, Db, Di}
    BY BinaryHas
  <2>2. Pz.cmd = "segment" /\ t.cmd = "segment" /\ w.cmd = "segment"
    BY SegmentCommands
  <2> QED BY <2>1, <2>2, OtherCommands
<1>3. Bin(f, t, w).loaded.relocations = RelocationsOf(f, t, w, f.cmds)
  BY DEF Bin, LoadedOf
<1>4. {x \in SegmentsOf(Bin(f, t, w)) : x.name = "__DATA" /\ other("dyldinfo") \in f.cmds}
        = IF Di \in f.cmds THEN {w} ELSE {}
  <2>1. Pz.name = "__PAGEZERO" /\ t.name = "__TEXT" /\ w.name = "__DATA"
    BY SegmentCommands
  <2> QED BY <1>1, <2>1 DEF Di
<1>5. {<<c.base, "bind">> : c \in {x \in SegmentsOf(Bin(f, t, w)) : x.name = "__DATA" /\ other("dyldinfo") \in f.cmds}}
        = IF Di \in f.cmds THEN {<<w.base, "bind">>} ELSE {}
  BY <1>4
<1>6. RelocsAt(Bin(f, t, w)) = Home(f, t, w) /\ Dy \in f.cmds
  BY RelocationsAtHome DEF Binary
<1> QED BY <1>1, <1>2, <1>3, <1>5, <1>6 DEF BinaryAsFiled, RelocationsOf

-----------------------------------------------------------------------------
(* Loading: the app and its library                                        *)

\* Before the slice is chosen.
Unchosen ==
    /\ chosen = 0 /\ file = noFile /\ loaded = nothing /\ mem = zeros /\ reserved = {} /\ nullSize = 0 /\ bins = <<>>

\* The executable is being loaded, and then a library over it.
LoadingApp ==
    /\ chosen \in Suits /\ bins = <<>>
    /\ \E f, t, w : App(f, t, w) /\ Binary(f, t, w) /\ \E D : AtCommand(f, t, w, D, zeros, {})
Under(f, t, w, g, u, v) ==
    /\ Binary(f, t, w) /\ Ec \notin f.cmds
    /\ Library(g, u, v) /\ Binary(g, u, v) /\ ClearOf(g, u, v, ReservedOf(t, w, f.cmds, {}))
Over(f, t, w, g, u, v, D) ==
    AtCommand(g, u, v, D, MemOf(f, t, w, f.cmds, zeros), ReservedOf(t, w, f.cmds, {}))
LoadingLibrary ==
    /\ chosen \in Suits
    /\ \E f, t, w, g, u, v : /\ Under(f, t, w, g, u, v) /\ bins = <<Bin(f, t, w)>>
                             /\ \E D : Over(f, t, w, g, u, v, D)

\* The app was started, with its library or without.
StartedAlone ==
    \E f, t, w : /\ Binary(f, t, w) /\ Ec \notin f.cmds /\ Bin(f, t, w).loaded.entry = 1
                 /\ bins = <<Bin(f, t, w)>> /\ mem = MemOf(f, t, w, f.cmds, zeros)
StartedOver ==
    \E f, t, w, g, u, v :
        /\ Under(f, t, w, g, u, v) /\ Bin(f, t, w).loaded.entry = 1
        /\ bins = <<Bin(f, t, w), Bin(g, u, v)>>
        /\ mem = MemOf(g, u, v, g.cmds, MemOf(f, t, w, f.cmds, zeros))

MachInv ==
    /\ \E n \in Nat : slices \in [1 .. n -> Archs]
    /\ outcome \in {"loading", "error", "started"}
    /\ outcome = "loading" => Unchosen \/ LoadingApp \/ LoadingLibrary
    /\ outcome = "started" => chosen \in Suits /\ (StartedAlone \/ StartedOver)

\* A binary whose commands all have been dealt with.
LEMMA AllDone ==
  ASSUME NEW f, NEW t, NEW w, Binary(f, t, w), NEW D, NEW m, NEW taken, AtCommand(f, t, w, D, m, taken), Done
  PROVE  /\ Ec \notin f.cmds /\ [file |-> file, loaded |-> loaded] = Bin(f, t, w)
         /\ mem = MemOf(f, t, w, f.cmds, m) /\ reserved = ReservedOf(t, w, f.cmds, taken)
         /\ Bin(f, t, w).loaded.entry \in {1, none}
<1>1. /\ file = f /\ loaded = LoadedOf(f, t, w, D) /\ Ec \notin D
      /\ mem = MemOf(f, t, w, D, m) /\ reserved = ReservedOf(t, w, D, taken)
  BY DEF AtCommand
<1>2. loaded.done = D
  BY <1>1 DEF LoadedOf
<1>3. D = f.cmds
  BY <1>1, <1>2 DEF Done
<1>4. Bin(f, t, w).loaded.entry = IF En \in f.cmds \/ Th \in f.cmds THEN 1 ELSE none
  BY DEF Bin, LoadedOf
<1> QED BY <1>1, <1>3, <1>4 DEF Bin

\* Nothing has been loaded of a new file.
LEMMA NewFile ==
  ASSUME NEW f, NEW t, NEW w, NEW m, NEW taken, f.cmds # {}, m = [p \in Pages |-> m[p]],
         file' = f, loaded' = nothing, mem' = m, reserved' = taken, Pz \in f.cmds => nullSize' = 0
  PROVE  AtCommand(f, t, w, {}, m, taken)'
<1>1. loaded' = LoadedOf(f, t, w, {})
  <2>1. (Sy \in {}) = FALSE /\ (Db \in {}) = FALSE
    OBVIOUS
  <2>2. BasesOf(t, w, {}) = <<>> /\ RelocationsOf(f, t, w, {}) = {}
    BY DEF BasesOf, RelocationsOf
  <2>3. LoadedOf(f, t, w, {}) = [done |-> {}, bases |-> <<>>, firstBase |-> none, firstRw |-> none, text |-> none,
                                 symbols |-> Sy \in {}, exports |-> Sy \in {}, relocations |-> {}, entry |-> none,
                                 dylibs |-> Db \in {}]
    BY <2>2 DEF LoadedOf
  <2> QED BY <2>1, <2>3 DEF nothing
<1>2. m = MemOf(f, t, w, {}, m)
  BY DEF MemOf
<1>3. taken = ReservedOf(t, w, {}, taken)
  BY DEF ReservedOf
<1>4. Ordered(f, {})
  BY DEF Ordered
<1> QED BY <1>1, <1>2, <1>3, <1>4 DEF AtCommand

\* The executable a slice holds.
LEMMA ExecutableIs ==
  ASSUME "two_entries" \in MachCareful,
         NEW e \in SUBSET {other("entry"), other("thread")}, NEW x \in SUBSET {other("encryption")},
         NEW d \in SUBSET {other("dylib"), other("dyldinfo")}, Cardinality(e) < 2,
         NEW optional, optional = {c \in ExecutableCommands : c.cmd \in {"encryption", "entry", "thread", "dylib", "dyldinfo"}},
         NEW f \in Files((ExecutableCommands \ optional) \cup e \cup x \cup d)
  PROVE  App(f, TextAt(1), DataOfApp) /\ Binary(f, TextAt(1), DataOfApp)
<1>1. PICK t, w : t = TextAt(1) /\ w = DataOfApp
  OBVIOUS
<1>2. ExecutableCommands = {Pz, t, w, Sy, Dy, Ec, En, Th, Db, Di}
  BY <1>1 DEF ExecutableCommands, Pz, TextAt, DataOfApp, Sy, Dy, Ec, En, Th, Db, Di
<1>3. Pz.cmd = "segment" /\ t.cmd = "segment" /\ w.cmd = "segment"
  BY <1>1 DEF Pz, TextAt, DataOfApp, segment, command
<1>4. optional = {Ec, En, Th, Db, Di}
  <2>1. \A c \in {Pz, t, w, Sy, Dy} : c.cmd \notin {"encryption", "entry", "thread", "dylib", "dyldinfo"}
    BY <1>3, OtherCommands
  <2>2. \A c \in {Ec, En, Th, Db, Di} : c.cmd \in {"encryption", "entry", "thread", "dylib", "dyldinfo"}
    BY OtherCommands
  <2> QED BY <1>2, <2>1, <2>2
<1>5. {Pz, t, w, Sy, Dy} \cap {Ec, En, Th, Db, Di} = {}
  BY <1>3, OtherCommands
<1>6. PICK s \in BOOLEAN : f = [cmds |-> {Pz, t, w, Sy, Dy} \cup e \cup x \cup d, split |-> s]
  <2>1. (ExecutableCommands \ optional) \cup e \cup x \cup d = {Pz, t, w, Sy, Dy} \cup e \cup x \cup d
    BY <1>2, <1>4, <1>5
  <2> QED BY <2>1 DEF Files
<1>7. e \subseteq {En, Th} /\ x \subseteq {Ec} /\ d \subseteq {Db, Di}
  BY DEF En, Th, Ec, Db, Di
<1>8. ~(En \in e /\ Th \in e)
  <2>1. SUFFICES ASSUME En \in e, Th \in e PROVE FALSE
    OBVIOUS
  <2>2. En # Th /\ e = {En} \cup {Th}
    BY <1>7, <2>1, OtherCommands
  <2>3. PICK S, y : S = {En} /\ y = Th
    OBVIOUS
  <2>4. IsFiniteSet(S) /\ Cardinality(S) = 1
    BY <2>3, FS_Singleton
  <2>5. Cardinality(S \cup {y}) = IF y \in S THEN Cardinality(S) ELSE Cardinality(S) + 1
    BY <2>4, FS_AddElement
  <2>6. y \notin S /\ e = S \cup {y}
    BY <2>2, <2>3
  <2>7. Cardinality(e) = 2
    BY <2>4, <2>5, <2>6
  <2>8. Cardinality(e) < 2
    OBVIOUS
  <2> QED BY <2>7, <2>8
<1>9. En \in f.cmds /\ Th \in f.cmds => En \in e /\ Th \in e
  BY <1>3, <1>6, <1>7, OtherCommands
<1>10. App(f, t, w)
  BY <1>1, <1>6, <1>7, <1>8, <1>9 DEF App
<1> QED BY <1>1, <1>6, <1>10 DEF Binary

\* Choosing the slice.
LEMMA ChooseKeeps ==
  ASSUME MachInv, "two_entries" \in MachCareful, ChooseSlice
  PROVE  MachInv'
<1>1. outcome = "loading" /\ chosen = 0 /\ chosen' = BestSlice(slices)
      /\ UNCHANGED <<slices, loaded, mem, reserved, nullSize, bins>>
  BY DEF ChooseSlice
<1>2. PICK n \in Nat : slices \in [1 .. n -> Archs]
  BY DEF MachInv
<1>3. Suits \subseteq 1 .. n
  BY <1>2 DEF Suits, OfArch
<1>4. Unchosen
  BY <1>1, <1>3 DEF MachInv, LoadingApp, LoadingLibrary
<1>5. CASE chosen' = 0
  BY <1>1, <1>2, <1>5 DEF ChooseSlice, MachInv
<1>6. CASE chosen' # 0
  <2>1. Suits' = Suits
    BY <1>1 DEF Suits, OfArch
  <2>2. chosen' \in Suits'
    BY <1>1, <1>2, <1>6, <2>1, ChosenSuits
  <2>3. /\ outcome' = outcome
        /\ \E e \in SUBSET {other("entry"), other("thread")}, x \in SUBSET {other("encryption")},
              d \in SUBSET {other("dylib"), other("dyldinfo")} :
             LET optional == {c \in ExecutableCommands : c.cmd \in {"encryption", "entry", "thread", "dylib", "dyldinfo"}}
             IN  /\ Cardinality(e) < 2
                 /\ file' \in Files((ExecutableCommands \ optional) \cup e \cup x \cup d)
    BY <1>6 DEF ChooseSlice
  <2>4. PICK f, t, w : f = file' /\ t = TextAt(1) /\ w = DataOfApp
    OBVIOUS
  <2>5. App(f, t, w) /\ Binary(f, t, w)
    BY <2>3, <2>4, ExecutableIs
  <2>6. AtCommand(f, t, w, {}, zeros, {})'
    <3>1. f.cmds # {}
      BY <2>5 DEF App
    <3>2. PICK m, taken : m = zeros /\ taken = {}
      OBVIOUS
    <3>3. m = [p \in Pages |-> m[p]]
      BY <3>2 DEF zeros
    <3>4. loaded' = nothing /\ mem' = m /\ reserved' = taken /\ nullSize' = 0
      BY <1>1, <1>4, <3>2 DEF Unchosen
    <3>5. AtCommand(f, t, w, {}, m, taken)'
      BY <2>4, <3>1, <3>3, <3>4, NewFile
    <3> QED BY <3>2, <3>5
  <2>7. LoadingApp'
    BY <1>1, <1>4, <2>2, <2>5, <2>6 DEF LoadingApp, Unchosen
  <2> QED BY <1>1, <1>2, <2>3, <2>7 DEF MachInv
<1> QED BY <1>5, <1>6

\* A command of the executable, or of the library.
LEMMA CommandsKeep ==
  ASSUME MachInv, "order" \in MachCareful, LoadCommand
  PROVE  MachInv'
<1>1. outcome = "loading" /\ UNCHANGED <<slices, chosen, file, bins>>
  BY DEF LoadCommand
<1>2. ~Unchosen
  BY DEF Unchosen, noFile, LoadCommand
<1>3. Suits' = Suits
  BY <1>1 DEF Suits, OfArch
<1>4. CASE LoadingApp
  <2>1. PICK f, t, w, D : App(f, t, w) /\ Binary(f, t, w) /\ AtCommand(f, t, w, D, zeros, {})
    BY <1>4 DEF LoadingApp
  <2>2. ClearOf(f, t, w, {})
    BY DEF ClearOf
  <2>3. CommandDone(f, t, w, zeros, {})
    BY <2>1, <2>2, CommandKeeps
  <2>4. outcome' = "error" \/ (outcome' = "loading" /\ LoadingApp')
    BY <1>1, <1>3, <1>4, <2>1, <2>3 DEF CommandDone, LoadingApp, zeros
  <2> QED BY <1>1, <2>4 DEF MachInv
<1>5. CASE LoadingLibrary
  <2>1. PICK f, t, w, g, u, v, D : Under(f, t, w, g, u, v) /\ bins = <<Bin(f, t, w)>> /\ Over(f, t, w, g, u, v, D)
    BY <1>5, Zenon DEF LoadingLibrary
  <2>2. PICK m, taken : m = MemOf(f, t, w, f.cmds, zeros) /\ taken = ReservedOf(t, w, f.cmds, {})
    OBVIOUS
  <2>3. Binary(g, u, v) /\ ClearOf(g, u, v, taken) /\ AtCommand(g, u, v, D, m, taken)
    BY <2>1, <2>2 DEF Under, Over
  <2>4. CommandDone(g, u, v, m, taken)
    BY <2>3, CommandKeeps
  <2>5. ASSUME NEW E, AtCommand(g, u, v, E, m, taken)' PROVE Over(f, t, w, g, u, v, E)'
    BY <2>2, <2>5 DEF Over, zeros
  <2>6. outcome' = "error" \/ (outcome' = "loading" /\ \E E : Over(f, t, w, g, u, v, E)')
    BY <2>4, <2>5 DEF CommandDone
  <2>7. (\E E : Over(f, t, w, g, u, v, E)') => LoadingLibrary'
    <3>1. Under(f, t, w, g, u, v)'
      BY <2>1 DEF Under
    <3>2. bins' = <<Bin(f, t, w)>> /\ chosen' \in Suits'
      BY <1>1, <1>3, <1>5, <2>1 DEF LoadingLibrary
    <3> QED BY <3>1, <3>2, Zenon DEF LoadingLibrary
  <2> QED BY <1>1, <2>6, <2>7 DEF MachInv
<1> QED BY <1>1, <1>2, <1>4, <1>5 DEF MachInv

\* A library is loaded over the executable.
LEMMA LibraryKeeps ==
  ASSUME MachInv, "overlap" \in MachCareful, LoadLibrary
  PROVE  MachInv'
<1>1. PICK b \in LibBases : /\ outcome = "loading" /\ Done /\ bins = <<>> /\ {b, b + 1} \cap reserved = {}
                            /\ bins' = Finished /\ loaded' = nothing
                            /\ file' \in Files(LibraryCommands(b))
                            /\ UNCHANGED <<slices, chosen, mem, reserved, nullSize, outcome>>
  BY DEF LoadLibrary
<1>2. chosen # 0
  BY <1>1 DEF Done
<1>3. LoadingApp
  <2>1. \A x : <<x>> # <<>>
    OBVIOUS
  <2>2. ~Unchosen
    BY <1>2 DEF Unchosen
  <2>3. ~LoadingLibrary
    BY <1>1, <2>1, Zenon DEF LoadingLibrary
  <2> QED BY <1>1, <2>2, <2>3 DEF MachInv
<1>4. PICK f, t, w, D : App(f, t, w) /\ Binary(f, t, w) /\ AtCommand(f, t, w, D, zeros, {})
  BY <1>3 DEF LoadingApp
<1>5. PICK m, taken : m = MemOf(f, t, w, f.cmds, zeros) /\ taken = ReservedOf(t, w, f.cmds, {})
  OBVIOUS
<1>6. /\ Ec \notin f.cmds /\ [file |-> file, loaded |-> loaded] = Bin(f, t, w)
      /\ mem = m /\ reserved = taken
  BY <1>1, <1>4, <1>5, AllDone
<1>7. PICK g, u, v : g = file' /\ u = TextAt(b) /\ v = DataAt(b + 1)
  OBVIOUS
<1>8. g.cmds = {u, v, Sy, Dy} /\ g.split \in BOOLEAN
  <2>1. LibraryCommands(b) = {u, v, Sy, Dy}
    BY <1>7 DEF LibraryCommands, TextAt, DataAt, Sy, Dy
  <2>2. PICK s \in BOOLEAN : g = [cmds |-> {u, v, Sy, Dy}, split |-> s]
    BY <1>1, <1>7, <2>1 DEF Files
  <2> QED BY <2>2
<1>9. Library(g, u, v) /\ Binary(g, u, v)
  BY <1>7, <1>8 DEF Library, Binary
<1>10. Pz \notin g.cmds
  BY <1>8, <1>9, CommandsDiffer
<1>11. ClearOf(g, u, v, taken)
  <2>1. b \in Nat
    BY MachOAssumption
  <2>2. u.base = b /\ u.pages = 1 /\ v.base = b + 1 /\ v.pages = 1
    BY <1>7 DEF TextAt, DataAt, segment, command
  <2>3. PagesOf(u) = {b} /\ PagesOf(v) = {b + 1}
    <3>1. b .. b + 1 - 1 = {b} /\ b + 1 .. b + 1 + 1 - 1 = {b + 1}
      BY <2>1
    <3> QED BY <2>2, <3>1 DEF PagesOf
  <2>4. \A c \in g.cmds \cap {Pz, u, v} : PagesOf(c) \cap taken = {}
    BY <1>1, <1>6, <1>10, <2>3
  <2> QED BY <2>4 DEF ClearOf
<1>12. AtCommand(g, u, v, {}, m, taken)'
  <2>1. m = [p \in Pages |-> m[p]] /\ g.cmds # {}
    BY <1>5, <1>8 DEF MemOf
  <2>2. loaded' = nothing /\ mem' = m /\ reserved' = taken /\ file' = g
    BY <1>1, <1>6, <1>7
  <2> QED BY <1>10, <2>1, <2>2, NewFile
<1>13. bins' = <<Bin(f, t, w)>>
  <2>1. Append(<<>>, Bin(f, t, w)) = <<Bin(f, t, w)>>
    OBVIOUS
  <2> QED BY <1>1, <1>6, <2>1 DEF Finished
<1>14. Under(f, t, w, g, u, v)' /\ Over(f, t, w, g, u, v, {})'
  <2>1. Under(f, t, w, g, u, v)
    BY <1>4, <1>5, <1>6, <1>9, <1>11 DEF Under
  <2>2. Over(f, t, w, g, u, v, {})'
    BY <1>5, <1>12 DEF Over, zeros
  <2> QED BY <2>1, <2>2 DEF Under
<1>15. LoadingLibrary'
  <2>1. chosen' \in Suits'
    BY <1>1, <1>3 DEF LoadingApp, Suits, OfArch
  <2> QED BY <1>13, <1>14, <2>1, Zenon DEF LoadingLibrary
<1> QED BY <1>1, <1>15 DEF MachInv

\* The app is started.
LEMMA StartKeeps ==
  ASSUME MachInv, Start
  PROVE  MachInv'
<1>1. /\ outcome = "loading" /\ Done /\ bins' = Finished
      /\ outcome' = (IF Finished[1].loaded.entry = none THEN "error" ELSE "started")
      /\ UNCHANGED <<slices, chosen, file, loaded, mem, reserved, nullSize>>
  BY DEF Start
<1>2. Suits' = Suits
  BY <1>1 DEF Suits, OfArch
<1>3. ~Unchosen
  BY <1>1 DEF Unchosen, Done
<1>4. SUFFICES ASSUME outcome' = "started" PROVE chosen' \in Suits' /\ (StartedAlone' \/ StartedOver')
  BY <1>1 DEF MachInv
<1>5. CASE LoadingApp
  <2>1. PICK f, t, w, D : App(f, t, w) /\ Binary(f, t, w) /\ AtCommand(f, t, w, D, zeros, {})
    BY <1>5 DEF LoadingApp
  <2>2. /\ Ec \notin f.cmds /\ [file |-> file, loaded |-> loaded] = Bin(f, t, w)
        /\ mem = MemOf(f, t, w, f.cmds, zeros) /\ Bin(f, t, w).loaded.entry \in {1, none}
    BY <1>1, <2>1, AllDone
  <2>3. Finished = <<Bin(f, t, w)>>
    BY <1>5, <2>2 DEF Finished, LoadingApp
  <2>4. Finished[1] = Bin(f, t, w)
    BY <2>3
  <2>5. Bin(f, t, w).loaded.entry = 1
    BY <1>1, <1>4, <2>2, <2>4
  <2>6. Bin(f, t, w)' = Bin(f, t, w) /\ mem' = MemOf(f, t, w, f.cmds, zeros)
    BY <1>1, <2>2
  <2>7. StartedAlone'
    BY <1>1, <2>1, <2>2, <2>3, <2>5, <2>6 DEF StartedAlone
  <2> QED BY <1>1, <1>2, <1>5, <2>7 DEF LoadingApp
<1>6. CASE LoadingLibrary
  <2>1. PICK f, t, w, g, u, v, D : Under(f, t, w, g, u, v) /\ bins = <<Bin(f, t, w)>> /\ Over(f, t, w, g, u, v, D)
    BY <1>6, Zenon DEF LoadingLibrary
  <2>2. PICK m, taken : m = MemOf(f, t, w, f.cmds, zeros) /\ taken = ReservedOf(t, w, f.cmds, {})
    OBVIOUS
  <2>3. Binary(g, u, v) /\ AtCommand(g, u, v, D, m, taken)
    BY <2>1, <2>2 DEF Under, Over
  <2>4. [file |-> file, loaded |-> loaded] = Bin(g, u, v) /\ mem = MemOf(g, u, v, g.cmds, m)
    BY <1>1, <2>3, AllDone
  <2>5. PICK x, y : x = Bin(f, t, w) /\ y = Bin(g, u, v)
    OBVIOUS
  <2>6. Finished = <<x, y>>
    <3>1. Append(<<x>>, y) = <<x, y>>
      <4>1. x \in {x, y} /\ y \in {x, y}
        OBVIOUS
      <4> QED BY <4>1, AppendedTwo
    <3> QED BY <2>1, <2>4, <2>5, <3>1 DEF Finished
  <2>7. Finished[1] = x
    BY <2>6
  <2>8. x.loaded.entry = 1
    <3>1. x.loaded.entry \in {1, none}
      BY <2>5 DEF Bin, LoadedOf
    <3> QED BY <1>1, <1>4, <2>7, <3>1
  <2>9. StartedOver'
    <3>1. Under(f, t, w, g, u, v)'
      BY <2>1 DEF Under
    <3>2. bins' = <<Bin(f, t, w), Bin(g, u, v)>> /\ Bin(f, t, w).loaded.entry = 1
      BY <1>1, <2>5, <2>6, <2>8
    <3>3. mem' = MemOf(g, u, v, g.cmds, MemOf(f, t, w, f.cmds, zeros))
      BY <1>1, <2>2, <2>4
    <3> QED BY <3>1, <3>2, <3>3, Zenon DEF StartedOver
  <2> QED BY <1>1, <1>2, <1>6, <2>9 DEF LoadingLibrary
<1> QED BY <1>1, <1>3, <1>5, <1>6 DEF MachInv

\* What the property says of the started app.
AsFiled ==
    /\ \A k \in DOMAIN bins : BinaryAsFiled(bins[k])
    /\ \A p \in Pages : mem[p] =
         IF p \in {RelocsAt(bins[k]) : k \in DOMAIN bins} THEN "relocated"
         ELSE IF p \in UNION {c.base .. c.base + c.filled - 1 : c \in UNION {SegmentsOf(bins[k]) : k \in DOMAIN bins}}
              THEN "file" ELSE "zero"
    /\ bins[1].loaded.entry = 1

\* The union of two sets of sets.
LEMMA UnionOfBoth ==
  ASSUME NEW P, NEW Q
  PROVE  UNION (P \cup Q) = (UNION P) \cup (UNION Q)
OBVIOUS

\* The started app is as its files say.
LEMMA StartedAsFiled ==
  ASSUME StartedAlone \/ StartedOver
  PROVE  AsFiled
<1>1. CASE StartedAlone
  <2>1. PICK f, t, w : /\ Binary(f, t, w) /\ Ec \notin f.cmds /\ Bin(f, t, w).loaded.entry = 1
                       /\ bins = <<Bin(f, t, w)>> /\ mem = MemOf(f, t, w, f.cmds, zeros)
    BY <1>1 DEF StartedAlone
  <2>2. PICK x, h, F : x = Bin(f, t, w) /\ h = Home(f, t, w) /\ F = FilledOf(t, w)
    OBVIOUS
  <2>3. /\ BinaryAsFiled(x) /\ RelocsAt(x) = h
        /\ UNION {c.base .. c.base + c.filled - 1 : c \in SegmentsOf(x)} = F
        /\ \A p \in Pages : mem[p] = IF p = h THEN "relocated" ELSE IF p \in F THEN "file" ELSE "zero"
    <3>1. MemOf(f, t, w, f.cmds, zeros) = [p \in Pages |-> IF p = Home(f, t, w) THEN "relocated"
                                                           ELSE IF p \in FilledOf(t, w) THEN "file" ELSE zeros[p]]
      BY <2>1, WholeBinary
    <3>2. BinaryAsFiled(x) /\ RelocsAt(x) = h
      BY <2>1, <2>2, BinaryRight, RelocationsAtHome
    <3>3. UNION {c.base .. c.base + c.filled - 1 : c \in SegmentsOf(x)} = F
      BY <2>1, <2>2, WholeBinary
    <3> QED BY <2>1, <2>2, <3>1, <3>2, <3>3 DEF zeros
  <2>4. DOMAIN bins = {1} /\ bins[1] = x
    BY <2>1, <2>2
  <2>5. {RelocsAt(bins[k]) : k \in DOMAIN bins} = {h}
    BY <2>3, <2>4
  <2>6. UNION {SegmentsOf(bins[k]) : k \in DOMAIN bins} = SegmentsOf(x)
    BY <2>4
  <2> QED BY <2>1, <2>2, <2>3, <2>4, <2>5, <2>6 DEF AsFiled
<1>2. CASE StartedOver
  <2>1. PICK f, t, w, g, u, v :
            /\ Under(f, t, w, g, u, v) /\ Bin(f, t, w).loaded.entry = 1
            /\ bins = <<Bin(f, t, w), Bin(g, u, v)>>
            /\ mem = MemOf(g, u, v, g.cmds, MemOf(f, t, w, f.cmds, zeros))
    BY <1>2, Zenon DEF StartedOver
  <2>2. PICK x, y, h, i, F, G, m : /\ x = Bin(f, t, w) /\ h = Home(f, t, w) /\ F = FilledOf(t, w)
                                   /\ y = Bin(g, u, v) /\ i = Home(g, u, v) /\ G = FilledOf(u, v)
                                   /\ m = MemOf(f, t, w, f.cmds, zeros)
    OBVIOUS
  <2>3. /\ Binary(f, t, w) /\ Ec \notin f.cmds /\ Binary(g, u, v) /\ Ec \notin g.cmds
        /\ ClearOf(g, u, v, ReservedOf(t, w, f.cmds, {}))
    <3>1. Library(g, u, v) /\ Binary(g, u, v)
      BY <2>1 DEF Under
    <3>2. Ec \notin g.cmds
      BY <3>1, CommandsDiffer DEF Library
    <3> QED BY <2>1, <3>2 DEF Under
  <2>4. /\ BinaryAsFiled(x) /\ RelocsAt(x) = h /\ BinaryAsFiled(y) /\ RelocsAt(y) = i
        /\ UNION {c.base .. c.base + c.filled - 1 : c \in SegmentsOf(x)} = F
        /\ UNION {c.base .. c.base + c.filled - 1 : c \in SegmentsOf(y)} = G
    BY <2>2, <2>3, BinaryRight, RelocationsAtHome, WholeBinary
  <2>5. h \notin G
    <3>1. h \in ReservedOf(t, w, f.cmds, {}) /\ G \subseteq PagesOf(u) \cup PagesOf(v)
      BY <2>2, <2>3, InItsPages
    <3>2. u \in g.cmds /\ v \in g.cmds
      BY <2>3 DEF Binary
    <3>3. \A c \in {u, v} : PagesOf(c) \cap ReservedOf(t, w, f.cmds, {}) = {}
      BY <2>3, <3>2 DEF ClearOf
    <3> QED BY <3>1, <3>3
  <2>6. \A p \in Pages : m[p] = IF p = h THEN "relocated" ELSE IF p \in F THEN "file" ELSE "zero"
    <3>1. MemOf(f, t, w, f.cmds, zeros) = [p \in Pages |-> IF p = Home(f, t, w) THEN "relocated"
                                                           ELSE IF p \in FilledOf(t, w) THEN "file" ELSE zeros[p]]
      BY <2>3, WholeBinary
    <3> QED BY <2>2, <3>1 DEF zeros
  <2>7. \A p \in Pages : mem[p] = IF p = i THEN "relocated" ELSE IF p \in G THEN "file" ELSE m[p]
    <3>1. mem = MemOf(g, u, v, g.cmds, m) /\ Binary(g, u, v)
      BY <2>1, <2>2, <2>3
    <3>2. MemOf(g, u, v, g.cmds, m) =
            [p \in Pages |-> IF p = Home(g, u, v) THEN "relocated" ELSE IF p \in FilledOf(u, v) THEN "file" ELSE m[p]]
      BY <3>1, WholeBinary
    <3> QED BY <2>2, <3>1, <3>2
  <2>8. DOMAIN bins = {1, 2} /\ bins[1] = x /\ bins[2] = y
    BY <2>1, <2>2
  <2>9. {RelocsAt(bins[k]) : k \in DOMAIN bins} = {h, i}
    BY <2>4, <2>8
  <2>10. UNION {SegmentsOf(bins[k]) : k \in DOMAIN bins} = SegmentsOf(x) \cup SegmentsOf(y)
    BY <2>8
  <2>11. UNION {c.base .. c.base + c.filled - 1 : c \in SegmentsOf(x) \cup SegmentsOf(y)} = F \cup G
    <3>1. PICK A, B : A = SegmentsOf(x) /\ B = SegmentsOf(y)
      OBVIOUS
    <3>2. PICK R : R = [c \in A \cup B |-> c.base .. c.base + c.filled - 1]
      OBVIOUS
    <3>3. /\ {c.base .. c.base + c.filled - 1 : c \in A} = {R[c] : c \in A}
          /\ {c.base .. c.base + c.filled - 1 : c \in B} = {R[c] : c \in B}
          /\ {c.base .. c.base + c.filled - 1 : c \in A \cup B} = {R[c] : c \in A \cup B}
      BY <3>2
    <3>4. PICK P, Q : P = {R[c] : c \in A} /\ Q = {R[c] : c \in B}
      OBVIOUS
    <3>5. {R[c] : c \in A \cup B} = P \cup Q
      BY <3>4
    <3>6. UNION (P \cup Q) = (UNION P) \cup (UNION Q)
      BY UnionOfBoth
    <3> QED BY <2>4, <3>1, <3>3, <3>4, <3>5, <3>6
  <2>12. \A p \in Pages : mem[p] = IF p \in {h, i} THEN "relocated" ELSE IF p \in F \cup G THEN "file" ELSE "zero"
    BY <2>5, <2>6, <2>7
  <2> QED BY <2>1, <2>2, <2>4, <2>8, <2>9, <2>10, <2>11, <2>12 DEF AsFiled
<1> QED BY <1>1, <1>2

\* The invariant says more than the property.
LEMMA MachInvSays ==
  ASSUME MachInv
  PROVE  LoadedAsFiled
<1>1. outcome # "panic"
  BY DEF MachInv
<1>2. outcome = "started" => chosen \in Suits /\ AsFiled
  BY StartedAsFiled DEF MachInv
<1> QED BY <1>1, <1>2, Zenon DEF LoadedAsFiled, AsFiled, BinaryAsFiled, Suits, OfArch

\* Init.
LEMMA MachBegins ==
  ASSUME MachOInit
  PROVE  MachInv
<1>1. \E n \in Nat : slices \in [1 .. n -> Archs]
  <2>1. PICK n \in 0 .. MaxSlices : slices \in [1 .. n -> Archs]
    BY DEF MachOInit
  <2> QED BY <2>1, MachOAssumption
<1>2. Unchosen
  BY DEF MachOInit, Unchosen, zeros
<1> QED BY <1>1, <1>2 DEF MachOInit, MachInv

\* The app starts only from the slice that suits the CPU best, not encrypted,
\* with every page as its segments say, zero beyond, the relocations of each
\* binary where its flags say, and no two binaries in one place, and loading it
\* never panics, whatever slices, commands, library bases and pages there are,
\* if the files are in the order linkers write, name one entry point and no two
\* binaries overlap (mach_o.rs, load_from_bytes).
THEOREM AppsLoadAsFiled ==
  {"order", "overlap", "two_entries"} \subseteq MachCareful => (MachOSpec => []LoadedAsFiled)
<1> SUFFICES ASSUME {"order", "overlap", "two_entries"} \subseteq MachCareful
             PROVE  MachOSpec => []LoadedAsFiled
  OBVIOUS
<1>1. MachOInit => MachInv
  BY MachBegins
<1>2. MachInv /\ [MachONext]_machVars => MachInv'
  <2> SUFFICES ASSUME MachInv, [MachONext]_machVars PROVE MachInv'
    OBVIOUS
  <2>1. CASE ChooseSlice
    BY <2>1, ChooseKeeps
  <2>2. CASE LoadCommand
    BY <2>2, CommandsKeep
  <2>3. CASE LoadLibrary
    BY <2>3, LibraryKeeps
  <2>4. CASE Start
    BY <2>4, StartKeeps
  <2>5. CASE UNCHANGED machVars
    <3>1. UNCHANGED <<slices, chosen, file, loaded, mem, reserved, nullSize, bins, outcome>>
      BY <2>5 DEF machVars
    <3> QED BY <3>1 DEF MachInv, Unchosen, LoadingApp, LoadingLibrary, StartedAlone, StartedOver, Suits, OfArch,
                        AtCommand, Over, Under, zeros
  <2> QED BY <2>1, <2>2, <2>3, <2>4, <2>5 DEF MachONext
<1>3. MachInv => LoadedAsFiled
  BY MachInvSays
<1> QED BY <1>1, <1>2, <1>3, PTL DEF MachOSpec

=============================================================================
