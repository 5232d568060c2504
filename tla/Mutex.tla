------------------------------- MODULE Mutex -------------------------------
(***************************************************************************)
(* The internal mutex table of the emulator (environment/mutex.rs): pure   *)
(* operators that say what init, destroy, lock, unlock and relock return   *)
(* and how they change the table.  The HashMap of the code is a function   *)
(* from every mutex id to a record whose "live" field says whether the id  *)
(* is in the map.  `locked: Option<(ThreadId, NonZeroU32)>' is the pair    *)
(* owner/count, with NoThread/0 for None.                                  *)
(***************************************************************************)
EXTENDS Integers

CONSTANTS
    MaxThreads,     \* bound on the threads ever created, the main one included
    MaxMutexes,     \* bound on mutex_count
    MaxRecursion    \* bound on the lock count of a recursive mutex

ASSUME BoundsAssumption ==
    /\ MaxThreads \in Nat \ {0}
    /\ MaxMutexes \in Nat
    /\ MaxRecursion \in Nat \ {0}

NoThread == -1
NoMutex == -1

Threads == 0 .. MaxThreads - 1
MutexId == 0 .. MaxMutexes - 1
MutexType == {"NORMAL", "ERRORCHECK", "RECURSIVE"}

Mutex ==
    [live : BOOLEAN, type : MutexType, waiting_count : Nat,
     owner : Threads \cup {NoThread}, count : Nat]

Absent ==
    [live |-> FALSE, type |-> "NORMAL", waiting_count |-> 0,
     owner |-> NoThread, count |-> 0]

----------------------------------------------------------------------------
init_mutex(M, id, type) ==
    [M EXCEPT ![id] = [Absent EXCEPT !.live = TRUE, !.type = type]]

\* A plausible slip: the count of blocked lockers is not consulted.
destroy_outcome_ignoring_waiters(M, m) ==
    IF M[m].owner # NoThread THEN "EBUSY" ELSE "ok"

destroy_outcome(M, m) ==
    IF M[m].owner # NoThread \/ M[m].waiting_count # 0 THEN "EBUSY" ELSE "ok"

destroy_mutex(M, m) ==
    IF destroy_outcome(M, m) = "ok" THEN [M EXCEPT ![m] = Absent] ELSE M

\* A missing mutex counts as unlocked: is_some_and on the map lookup.
mutex_is_locked(M, m) == M[m].live /\ M[m].owner # NoThread

----------------------------------------------------------------------------
(***************************************************************************)
(* lock_mutex: what a call by thread t leads to, and the table it leaves.  *)
(* "blocks" is the case where the caller is put to sleep on the mutex.     *)
(***************************************************************************)
self_lock_outcome(type) ==
    CASE type = "NORMAL" -> "panics"
      [] type = "ERRORCHECK" -> "EDEADLK"
      [] type = "RECURSIVE" -> "recurses"

lock_outcome(M, m, t) ==
    CASE ~M[m].live -> "panics"
      [] M[m].live /\ M[m].owner = NoThread -> "acquires"
      [] M[m].live /\ M[m].owner = t -> self_lock_outcome(M[m].type)
      [] OTHER -> "blocks"

lock_mutex(M, m, t) ==
    CASE lock_outcome(M, m, t) = "acquires" ->
            [M EXCEPT ![m].owner = t, ![m].count = 1]
      [] lock_outcome(M, m, t) = "recurses" ->
            [M EXCEPT ![m].count = @ + 1]
      [] lock_outcome(M, m, t) = "blocks" ->
            [M EXCEPT ![m].waiting_count = @ + 1]
      [] OTHER -> M

unlock_outcome(M, m, t) ==
    CASE ~M[m].live -> "panics"
      [] M[m].live /\ M[m].owner = t -> "unlocks"
      [] OTHER -> IF M[m].type = "NORMAL" THEN "panics" ELSE "EPERM"

\* A plausible slip: the last unlock does not clear the owner.
unlock_mutex_owner_kept(M, m, t) ==
    IF unlock_outcome(M, m, t) = "unlocks"
    THEN [M EXCEPT ![m].count = @ - 1]
    ELSE M

unlock_mutex(M, m, t) ==
    IF unlock_outcome(M, m, t) = "unlocks"
    THEN IF M[m].count = 1
         THEN [M EXCEPT ![m].owner = NoThread, ![m].count = 0]
         ELSE [M EXCEPT ![m].count = @ - 1]
    ELSE M

----------------------------------------------------------------------------
(***************************************************************************)
(* relock_unblocked_mutex, called by the scheduler for the thread it has   *)
(* just switched to: lock_mutex(..).unwrap(), then one waiter fewer.  It   *)
(* panics when the mutex has been removed from the table or the lock is    *)
(* refused.                                                                *)
(***************************************************************************)
relock_panics(M, m, t) == lock_outcome(M, m, t) \in {"panics", "EDEADLK"}

\* A plausible slip: the waiter is never subtracted again.
relock_unblocked_mutex_uncounted(M, m, t) == lock_mutex(M, m, t)

relock_unblocked_mutex(M, m, t) ==
    LET L == lock_mutex(M, m, t)
    IN  IF L[m].waiting_count > 0 THEN [L EXCEPT ![m].waiting_count = @ - 1]
                                  ELSE L

----------------------------------------------------------------------------
\* A mutex that is held has a lock count, one that is free or gone has none.
HeldIsCounted(M) ==
    \A m \in MutexId :
        /\ M[m].owner # NoThread <=> M[m].count >= 1
        /\ M[m].owner # NoThread => M[m].live
=============================================================================
