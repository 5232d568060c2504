------------------------------ MODULE Objects ------------------------------
(***************************************************************************)
(* Reference counting of Objective-C objects (objc/objects.rs), retain,    *)
(* release, autorelease and dealloc of NSObject (ns_object.rs), and        *)
(* autorelease pools (ns_autorelease_pool.rs).                             *)
(*                                                                         *)
(* The guest program is a well-behaved manual retain-release program: it   *)
(* releases and autoreleases only references it owns (`held').  An object  *)
(* may own one other object, which its dealloc method releases or, as      *)
(* guest code may, autoreleases.  A release that runs a dealloc method,    *)
(* and the drain of a pool, take several steps: `work' is what a thread    *)
(* still has to do, next task first, and other threads run in between.     *)
(* The address of a deallocated object can be given to a new one.          *)
(***************************************************************************)
EXTENDS Integers, Sequences, FiniteSets, FiniteSetsExt, SequencesExt

CONSTANTS Threads,
          Ids,          \* addresses of objects that are not pools
          Pools,        \* addresses of autorelease pools
          MaxRefs,      \* bound on a reference count
          MaxEntries,   \* bound on the objects in one pool
          AnyPool       \* whether a pool is drained while others are above it

nil == "nil"

ASSUME ObjectsConstants ==
    /\ Ids \cap Pools = {} /\ nil \notin Ids
    /\ IsFiniteSet(Threads) /\ Threads # {} /\ IsFiniteSet(Ids) /\ IsFiniteSet(Pools)
    /\ MaxRefs \in Nat \ {0} /\ MaxEntries \in Nat
    /\ AnyPool \in BOOLEAN

VARIABLES
    exists,         \* the keys of ObjC::objects
    refcount,       \* per id: the count, 0 for None
    objects,        \* per pool: NSAutoreleasePoolHostObject::objects
    original_thread,\* per pool
    pool_stacks,    \* per thread
    child,          \* per object: the object it owns, or nil
    held,           \* per thread and object: references its guest code owns
    leaked,         \* per object: references autoreleased without a pool
    work,           \* per thread: tasks
    panic

ovars == <<exists, refcount, objects, original_thread, pool_stacks, child,
           held, leaked, work, panic>>

Releases(s) == [i \in DOMAIN s |-> [op |-> "release", obj |-> s[i], this |-> s[i]]]

ObjectsInit ==
    /\ exists = {}
    /\ refcount = [i \in Ids \cup Pools |-> 0]
    /\ objects = [p \in Pools |-> <<>>]
    /\ original_thread \in [Pools -> {CHOOSE t \in Threads : TRUE}]
    /\ pool_stacks = [t \in Threads |-> <<>>]
    /\ child = [o \in Ids |-> nil]
    /\ held = [t \in Threads |-> [o \in Ids |-> 0]]
    /\ leaked = [o \in Ids |-> 0]
    /\ work = [t \in Threads |-> <<>>]
    /\ panic = "no"

Idle(t) == panic = "no" /\ work[t] = <<>>

Busy(t, op) == panic = "no" /\ work[t] # <<>> /\ Head(work[t]).op = op

Holders(o) == {t \in Threads : held[t][o] > 0}

---------------------------------------------------------------------------
(* Calls of the guest program *)

\* alloc_object
alloc_object(t, o) ==
    /\ Idle(t) /\ o \in Ids \ exists
    /\ exists' = exists \cup {o}
    /\ refcount' = [refcount EXCEPT ![o] = 1]
    /\ child' = [child EXCEPT ![o] = nil]
    /\ held' = [held EXCEPT ![t][o] = @ + 1]
    /\ UNCHANGED <<objects, original_thread, pool_stacks, leaked, work, panic>>

\* increment_refcount, of an object some thread holds.
retain(t, o) ==
    /\ Idle(t) /\ Holders(o) # {} /\ refcount[o] < MaxRefs
    /\ IF o \in exists /\ refcount[o] > 0
       THEN /\ refcount' = [refcount EXCEPT ![o] = @ + 1]
            /\ held' = [held EXCEPT ![t][o] = @ + 1]
            /\ UNCHANGED panic
       ELSE panic' = "retain" /\ UNCHANGED <<refcount, held>>
    /\ UNCHANGED <<exists, objects, original_thread, pool_stacks, child, leaked, work>>

\* The guest stores a reference in an object that is still in use.
own(t, o, c) ==
    /\ Idle(t) /\ held[t][o] > 0 /\ held[t][c] > 0 /\ o # c
    /\ child[o] = nil /\ child[c] = nil
    /\ child' = [child EXCEPT ![o] = c]
    /\ held' = [held EXCEPT ![t][c] = @ - 1]
    /\ UNCHANGED <<exists, refcount, objects, original_thread, pool_stacks,
                   leaked, work, panic>>

release(t, o) ==
    /\ Idle(t) /\ held[t][o] > 0
    /\ held' = [held EXCEPT ![t][o] = @ - 1]
    /\ work' = [work EXCEPT ![t] = Releases(<<o>>)]
    /\ UNCHANGED <<exists, refcount, objects, original_thread, pool_stacks,
                   child, leaked, panic>>

\* +[NSAutoreleasePool addObject:]: the innermost pool of the thread, if any.
addObject(t, o) ==
    IF pool_stacks[t] = <<>>
    THEN /\ leaked' = [leaked EXCEPT ![o] = @ + 1]
         /\ UNCHANGED objects
    ELSE /\ objects' = [objects EXCEPT ![Last(pool_stacks[t])] = Append(@, o)]
         /\ UNCHANGED leaked

RoomInPool(t) == pool_stacks[t] # <<>> => Len(objects[Last(pool_stacks[t])]) < MaxEntries

autorelease(t, o) ==
    /\ Idle(t) /\ held[t][o] > 0 /\ RoomInPool(t)
    /\ held' = [held EXCEPT ![t][o] = @ - 1]
    /\ addObject(t, o)
    /\ UNCHANGED <<exists, refcount, original_thread, pool_stacks, child, work, panic>>

\* [[NSAutoreleasePool alloc] init]
pool_init(t, p) ==
    /\ Idle(t) /\ p \in Pools \ exists
    /\ exists' = exists \cup {p}
    /\ refcount' = [refcount EXCEPT ![p] = 1]
    /\ objects' = [objects EXCEPT ![p] = <<>>]
    /\ original_thread' = [original_thread EXCEPT ![p] = t]
    /\ pool_stacks' = [pool_stacks EXCEPT ![t] = Append(@, p)]
    /\ UNCHANGED <<child, held, leaked, work, panic>>

\* -[NSAutoreleasePool drain] of a pool of this thread.
drain(t, p) ==
    /\ Idle(t) /\ p \in ToSet(pool_stacks[t])
    /\ AnyPool \/ p = Last(pool_stacks[t])
    /\ work' = [work EXCEPT ![t] = Releases(<<p>>)]
    /\ UNCHANGED <<exists, refcount, objects, original_thread, pool_stacks,
                   child, held, leaked, panic>>

---------------------------------------------------------------------------
(* What a release leads to *)

Dies(why) ==
    /\ panic' = why
    /\ UNCHANGED <<exists, refcount, objects, original_thread, pool_stacks,
                   child, held, leaked, work>>

\* -[NSObject release]: decrement_refcount, and dealloc at the last one.
release_task(t) ==
    /\ Busy(t, "release")
    /\ LET o == Head(work[t]).obj
           dealloc == [op |-> "dealloc", obj |-> o, this |-> o]
       IN  IF o \notin exists \/ refcount[o] = 0
           THEN Dies("release")
           ELSE /\ refcount' = [refcount EXCEPT ![o] = @ - 1]
                /\ work' = [work EXCEPT ![t] =
                              IF refcount[o] = 1 THEN <<dealloc>> \o Tail(@) ELSE Tail(@)]
                /\ UNCHANGED <<exists, objects, original_thread, pool_stacks,
                               child, held, leaked, panic>>

\* The dealloc method of an object: what it owns goes first, one way ...
dealloc_releases(t) ==
    /\ Busy(t, "dealloc") /\ Head(work[t]).obj \in Ids
    /\ LET o == Head(work[t]).obj
           free == [op |-> "free", obj |-> o, this |-> o]
       IN  /\ work' = [work EXCEPT ![t] =
                         (IF child[o] = nil THEN <<>> ELSE Releases(<<child[o]>>))
                         \o <<free>> \o Tail(@)]
           /\ child' = [child EXCEPT ![o] = nil]
    /\ UNCHANGED <<exists, refcount, objects, original_thread, pool_stacks,
                   held, leaked, panic>>

\* ... or the other.
dealloc_autoreleases(t) ==
    /\ Busy(t, "dealloc") /\ Head(work[t]).obj \in Ids
    /\ child[Head(work[t]).obj] # nil /\ RoomInPool(t)
    /\ LET o == Head(work[t]).obj
           free == [op |-> "free", obj |-> o, this |-> o]
       IN  /\ work' = [work EXCEPT ![t] = <<free>> \o Tail(@)]
           /\ addObject(t, child[o])
           /\ child' = [child EXCEPT ![o] = nil]
    /\ UNCHANGED <<exists, refcount, original_thread, pool_stacks, held, panic>>

\* dealloc_object, reached through -[NSObject dealloc].
dealloc_object(t) ==
    /\ Busy(t, "free")
    /\ IF Head(work[t]).obj \notin exists
       THEN Dies("dealloc")
       ELSE /\ exists' = exists \ {Head(work[t]).obj}
            /\ work' = [work EXCEPT ![t] = Tail(@)]
            /\ UNCHANGED <<refcount, objects, original_thread, pool_stacks,
                           child, held, leaked, panic>>

\* -[NSAutoreleasePool dealloc] takes its pool and all above it off the stack.
IndexOf(s, p) == CHOOSE i \in DOMAIN s : s[i] = p /\ \A j \in DOMAIN s : s[j] = p => j <= i

pool_dealloc(t) ==
    /\ Busy(t, "dealloc") /\ Head(work[t]).obj \in Pools
    /\ LET this == Head(work[t]).obj
           stack == pool_stacks[t]
           at == IndexOf(stack, this)
           to_drop == Reverse(SubSeq(stack, at, Len(stack)))
       IN  IF original_thread[this] # t \/ this \notin ToSet(stack)
           THEN Dies("drain")
           ELSE /\ pool_stacks' = [pool_stacks EXCEPT ![t] = SubSeq(stack, 1, at - 1)]
                /\ work' = [work EXCEPT ![t] =
                              [i \in DOMAIN to_drop |->
                                 [op |-> "drop", obj |-> to_drop[i], this |-> this]]
                              \o Tail(@)]
                /\ UNCHANGED <<exists, refcount, objects, original_thread,
                               child, held, leaked, panic>>

\* A plausible slip: the loop over the objects starts at the second.
drop_task_from_second(t) ==
    /\ Busy(t, "drop")
    /\ LET pool == Head(work[t]).obj
       IN  /\ objects' = [objects EXCEPT ![pool] = <<>>]
           /\ exists' = exists \ {Head(work[t]).this}
           /\ work' = [work EXCEPT ![t] =
                         (IF objects[pool] = <<>> THEN <<>>
                          ELSE Releases(Tail(objects[pool]))) \o Tail(@)]
           /\ UNCHANGED <<refcount, original_thread, pool_stacks, child,
                          held, leaked, panic>>

\* One turn of its loop: the objects of `pool' are taken out, `this' is
\* deallocated, the objects are released.
drop_task(t) ==
    /\ Busy(t, "drop")
    /\ LET pool == Head(work[t]).obj
           this == Head(work[t]).this
       IN  IF pool \notin exists \/ this \notin exists
           THEN Dies("drain")
           ELSE /\ objects' = [objects EXCEPT ![pool] = <<>>]
                /\ exists' = exists \ {this}
                /\ work' = [work EXCEPT ![t] = Releases(objects[pool]) \o Tail(@)]
                /\ UNCHANGED <<refcount, original_thread, pool_stacks, child,
                               held, leaked, panic>>

---------------------------------------------------------------------------

GuestCall(t) ==
    \/ \E o \in Ids : \/ alloc_object(t, o) \/ retain(t, o) \/ release(t, o)
                      \/ autorelease(t, o)
                      \/ \E c \in Ids : own(t, o, c)
    \/ \E p \in Pools : pool_init(t, p) \/ drain(t, p)

HostStep(t) ==
    \/ release_task(t) \/ dealloc_releases(t) \/ dealloc_autoreleases(t)
    \/ dealloc_object(t) \/ pool_dealloc(t) \/ drop_task(t)

ObjectsNext == \E t \in Threads : GuestCall(t) \/ HostStep(t)

\* Objects by themselves.
ObjectsSpec == ObjectsInit /\ [][ObjectsNext]_ovars

---------------------------------------------------------------------------
(* Properties *)

Pending(t, o) ==
    Cardinality({i \in DOMAIN work[t] : work[t][i] = Releases(<<o>>)[1]})

Pooled(p, o) == Cardinality({i \in DOMAIN objects[p] : objects[p][i] = o})

\* All references to o, wherever they are kept.
References(o) ==
      leaked[o]
    + FoldFunctionOnSet(+, 0, [t \in Threads |-> held[t][o] + Pending(t, o)], Threads)
    + FoldFunctionOnSet(+, 0, [p \in Pools |-> Pooled(p, o)], Pools)
    + Cardinality({d \in Ids : child[d] = o})

\* The reference count is the number of references that really are somewhere:
\* with the guest program, in another object, in a pool, or on their way to be
\* released in the middle of a drain.  An object is thus never deallocated
\* under a holder, and never kept when the last one is gone.
RefcountExact == panic = "no" => \A o \in Ids : refcount[o] = References(o)

\* An object whose count has gone to None is being deallocated by exactly one
\* thread: no zombie is left behind, none is deallocated twice.
DeallocatedOnce ==
    panic = "no" =>
        \A o \in exists : refcount[o] = 0 =>
            FoldFunctionOnSet(+, 0, [t \in Threads |->
                Cardinality({i \in DOMAIN work[t] :
                               /\ work[t][i].op \in {"dealloc", "free", "drop"}
                               /\ work[t][i].this = o})], Threads) = 1

\* A program that only gives back what it owns, and drains the innermost pool
\* of a thread first, never makes retain, release, dealloc or a drain panic;
\* counts are exact, no zombie is left and nothing is deallocated twice.
ObjectsCounted == panic = "no" /\ RefcountExact /\ DeallocatedOnce

\* The comment on the drain of a pool: "NSAutoReleasePool seems to keep popping
\* until reaches the appropriate pool object.  If there are pools that are
\* 'above' it in the stack, it deallocates them as well."  So there is no pool
\* that is neither on a stack nor about to be deallocated.
PoolsAboveGo ==
    \A p \in Pools \cap exists :
        \E t \in Threads :
            \/ p \in ToSet(pool_stacks[t])
            \/ \E i \in DOMAIN work[t] : work[t][i].op = "drop" /\ work[t][i].obj = p

===========================================================================
